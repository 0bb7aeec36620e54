------------------------------ MODULE LockedLatch ------------------------------
(***************************************************************************)
(* CountDownLatch.cc step by step, over the mutex and the condition of     *)
(* Monitor: the lock of MutexLockGuard, the test of count_, the wait with  *)
(* its UnassignGuard, the notification, the unlock.  Every step touches    *)
(* one thing that another thread can see.  That CountDownLatch, with one   *)
(* critical section in one action, is a sound view of this is checked and  *)
(* not assumed.                                                            *)
(***************************************************************************)
EXTENDS Monitor, LatchParameters

CONSTANTS SpuriousLimit     \* bound: wake-ups without a notification

VARIABLES
    count_,     \* CountDownLatch::count_
    call,       \* what each thread has to do next in the method it is in
    passed,     \* the threads whose wait() has found count_ down
    downs,      \* history: how often count_ was counted down
    wakeups     \* history: wake-ups without a notification

latchVars == <<count_, call, passed, downs, wakeups>>

\* none:   outside the methods         test, retest: while (count_ > 0), retest
\* down:   --count_                            after a wait
\* notify: condition_.notify_all()     end: ~MutexLockGuard
Calls == {"none", "test", "retest", "down", "notify", "end"}

InitLatch ==
    /\ Init
    /\ count_ = Count
    /\ call = [t \in Threads |-> "none"]
    /\ passed = {}
    /\ downs = 0
    /\ wakeups = 0

Continue(t, from, to) == call[t] = from /\ call' = [call EXCEPT ![t] = to]

\* MutexLockGuard lock(mutex_) of wait() and of count_down().
EnterWait(t) ==
    /\ t \notin passed /\ MutexAcquire(t)
    /\ Continue(t, "none", "test")
    /\ UNCHANGED <<count_, passed, downs, wakeups>>

EnterCountDown(t) ==
    /\ downs < MaxDowns /\ MutexAcquire(t)
    /\ Continue(t, "none", "down")
    /\ UNCHANGED <<count_, passed, downs, wakeups>>

\* wait(): the loop, up to condition_.wait() or to its end.
Test(t) ==
    /\ call[t] \in {"test", "retest"}
    /\ \/ /\ count_ > 0
          /\ UnassignGuard(t)
          /\ Continue(t, call[t], "retest")
          /\ UNCHANGED passed
       \/ /\ count_ <= 0
          /\ pc[t] = "critical"
          /\ Continue(t, call[t], "end")
          /\ passed' = passed \cup {t}
          /\ UNCHANGED vars
    /\ UNCHANGED <<count_, downs, wakeups>>

\* Mutant of Decrement: the waiting threads are notified one call too early.
DecrementNotifiesEarly(t) ==
    /\ pc[t] = "critical"
    /\ Continue(t, "down", IF count_ = 2 THEN "notify" ELSE "end")
    /\ count_' = count_ - 1
    /\ downs' = downs + 1
    /\ UNCHANGED <<vars, passed, wakeups>>

\* count_down(): --count_ and the test for zero.
Decrement(t) ==
    /\ pc[t] = "critical"
    /\ Continue(t, "down", IF count_ = 1 THEN "notify" ELSE "end")
    /\ count_' = count_ - 1
    /\ downs' = downs + 1
    /\ UNCHANGED <<vars, passed, wakeups>>

\* Mutant of NotifyWaiters: notify() for notify_all().
NotifyOneWaiter(t) ==
    /\ Continue(t, "notify", "end")
    /\ Notify(t)
    /\ UNCHANGED <<count_, passed, downs, wakeups>>

NotifyWaiters(t) ==
    /\ Continue(t, "notify", "end")
    /\ NotifyAll(t)
    /\ UNCHANGED <<count_, passed, downs, wakeups>>

\* Mutant of Leave: the mutex is given up before condition_.notify_all().
LeaveBeforeNotify(t) ==
    /\ call[t] \in {"end", "notify"}
    /\ \/ UnassignHolder(t) /\ UNCHANGED call
       \/ MutexRelease(t) /\ call' = [call EXCEPT ![t] = IF @ = "end" THEN "none" ELSE @]
    /\ UNCHANGED <<count_, passed, downs, wakeups>>

\* ~MutexLockGuard.
Leave(t) ==
    /\ \/ UnassignHolder(t) /\ Continue(t, "end", "end")
       \/ MutexRelease(t) /\ Continue(t, "end", "none")
    /\ UNCHANGED <<count_, passed, downs, wakeups>>

\* What goes on inside lock() and condition_.wait().
Inside(t) ==
    /\ AssignHolder(t) \/ CondBlock(t) \/ CondReturn(t) \/ RestoreHolder(t)
    /\ UNCHANGED latchVars

SpuriousWakeup(t) ==
    /\ wakeups < SpuriousLimit
    /\ wakeups' = wakeups + 1
    /\ CondTimeout(t)
    /\ UNCHANGED <<count_, call, passed, downs>>

Progress(t) ==
    \/ EnterWait(t) \/ EnterCountDown(t) \/ Test(t) \/ Decrement(t)
    \/ NotifyWaiters(t) \/ Leave(t) \/ Inside(t)

NextLatch == \E t \in Threads : Progress(t) \/ SpuriousWakeup(t)

------------------------------------------------------------------------------
\* The view of CountDownLatch: a call of count_down() is over when the threads it
\* has to notify are notified.
Notifying == {t \in Threads : call[t] = "notify"}
pending == IF Notifying = {} THEN 0 ELSE 1
place == [t \in Threads |->
    IF t \in passed THEN "passed"
    ELSE IF call[t] # "retest" THEN "ready"
    ELSE IF pc[t] \in {"parking", "waiting"} THEN "blocked" ELSE "woken"]

Latch == INSTANCE CountDownLatch
    WITH count_ <- count_ + pending, downs <- downs - pending, pc <- place

\* The steps of a latch over a mutex and a condition are those of CountDownLatch, or
\* change nothing of it (CountDownLatch.cc:9-26).
ImplementsLatch ==
    Latch!Init /\ [][Latch!Next]_<<count_ + pending, place, downs - pending>>

\* See CountDownLatch.
NobodyLeftBehind == Latch!NobodyLeftBehind
WaitersPass == Latch!WaitersPass
===============================================================================
