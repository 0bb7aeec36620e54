------------------------------- MODULE Monitor -------------------------------
(***************************************************************************)
(* MutexLock (Mutex.h) together with one Condition (Condition.h,           *)
(* Condition.cc) at the grain of the single steps that touch holder_, the  *)
(* cached id of the thread inside the critical section.                    *)
(*                                                                         *)
(* holder_ is not written atomically with the pthread mutex: lock() writes *)
(* it after pthread_mutex_lock, unlock() clears it before                  *)
(* pthread_mutex_unlock, and a wait clears it before the mutex is released *)
(* and restores it after the mutex is taken again (UnassignGuard).         *)
(***************************************************************************)
EXTENDS CondVar

CONSTANTS
    Threads,    \* the threads that share the monitor
    NoThread    \* tid 0: nobody

ASSUME NoThreadAssumption == NoThread \notin Threads

VARIABLES
    owner,      \* the pthread mutex: the thread that holds it, or NoThread
    holder_,    \* MutexLock::holder_
    pc          \* where each thread is

vars == <<owner, holder_, pc>>

\* outside:   does not use the monitor
\* acquired:  pthread_mutex_lock has returned, holder_ not written yet
\* critical:  in the critical section
\* leaving:   holder_ cleared by unlock(), the pthread mutex still held
\* parking:   holder_ cleared by UnassignGuard, pthread_cond_wait not called yet
\* waiting:   blocked in pthread_cond_(timed)wait, mutex released
\* woken:     pthread_cond_(timed)wait re-acquires the mutex
\* returned:  pthread_cond_(timed)wait has returned, holder_ not restored yet
Locations == {"outside", "acquired", "critical", "leaving",
              "parking", "waiting", "woken", "returned"}

Init ==
    /\ owner = NoThread
    /\ holder_ = NoThread
    /\ pc = [t \in Threads |-> "outside"]

Goto(t, from, to) == pc[t] = from /\ pc' = [pc EXCEPT ![t] = to]

\* pthread_mutex_lock of MutexLock::lock(): blocks until the mutex is free.
MutexAcquire(t) ==
    /\ Goto(t, "outside", "acquired")
    /\ owner = NoThread
    /\ owner' = t
    /\ UNCHANGED holder_

\* assign_holder() of MutexLock::lock().
AssignHolder(t) ==
    /\ Goto(t, "acquired", "critical")
    /\ holder_' = t
    /\ UNCHANGED owner

\* unassign_holder() of MutexLock::unlock().
UnassignHolder(t) ==
    /\ Goto(t, "critical", "leaving")
    /\ holder_' = NoThread
    /\ UNCHANGED owner

\* pthread_mutex_unlock of MutexLock::unlock().
MutexRelease(t) ==
    /\ Goto(t, "leaving", "outside")
    /\ owner' = NoThread
    /\ UNCHANGED holder_

\* wait() and wait_for_seconds(): the constructor of UnassignGuard.
UnassignGuard(t) ==
    /\ Goto(t, "critical", "parking")
    /\ holder_' = NoThread
    /\ UNCHANGED owner

\* pthread_cond_(timed)wait blocks: it gives the mutex back atomically.
CondBlock(t) ==
    /\ Goto(t, "parking", "waiting")
    /\ owner' = NoThread
    /\ UNCHANGED holder_

\* pthread_cond_timedwait refuses its deadline (EINVAL) and returns at once,
\* with the mutex still held.
CondRefuse(t) ==
    /\ Goto(t, "parking", "returned")
    /\ UNCHANGED <<owner, holder_>>

\* A timeout or a spurious wake-up ends the blocking without a notification.
CondTimeout(t) ==
    /\ Goto(t, "waiting", "woken")
    /\ UNCHANGED <<owner, holder_>>

\* pthread_cond_(timed)wait re-acquires the mutex before it returns.
CondReturn(t) ==
    /\ Goto(t, "woken", "returned")
    /\ owner = NoThread
    /\ owner' = t
    /\ UNCHANGED holder_

\* Mutant of RestoreHolder: a wait without the guard's destructor.
WaitForgetsHolder(t) ==
    /\ Goto(t, "returned", "critical")
    /\ UNCHANGED <<owner, holder_>>

\* The destructor of UnassignGuard, when the wait returns to its caller.
RestoreHolder(t) ==
    /\ Goto(t, "returned", "critical")
    /\ holder_' = t
    /\ UNCHANGED owner

\* notify() and notify_all(), by a thread that holds the mutex or by one that
\* does not (AsyncLogging::stop()).
Notify(t) ==
    /\ pc[t] \in {"outside", "critical"}
    /\ pc' \in Notified(pc, "waiting", "woken")
    /\ UNCHANGED <<owner, holder_>>

NotifyAll(t) ==
    /\ pc[t] \in {"outside", "critical"}
    /\ pc' = NotifiedAll(pc, "waiting", "woken")
    /\ UNCHANGED <<owner, holder_>>

Step(t) ==
    \/ MutexAcquire(t) \/ AssignHolder(t) \/ UnassignHolder(t) \/ MutexRelease(t)
    \/ UnassignGuard(t) \/ CondBlock(t) \/ CondRefuse(t) \/ CondTimeout(t)
    \/ CondReturn(t) \/ RestoreHolder(t) \/ Notify(t) \/ NotifyAll(t)

Next == \E t \in Threads : Step(t)

Spec == Init /\ [][Next]_vars

------------------------------------------------------------------------------
IsLockedByThisThread(t) == holder_ = t

\* Every variable has its type.
TypeOK ==
    /\ owner \in Threads \cup {NoThread}
    /\ holder_ \in Threads \cup {NoThread}
    /\ pc \in [Threads -> Locations]

\* assert_locked() (Mutex.h:54) never fails for a thread inside its critical
\* section, before and after a wait() in it, and never succeeds for a thread
\* that does not hold the mutex.
HolderIsExact ==
    \A t \in Threads :
        /\ pc[t] = "critical" => IsLockedByThisThread(t)
        /\ IsLockedByThisThread(t) => owner = t

\* assert(holder_ == 0) of ~MutexLock (Mutex.h:45) holds whenever the pthread
\* mutex is free, threads blocked in a wait included.
FreeMutexHasNoHolder == owner = NoThread => holder_ = NoThread

==============================================================================
