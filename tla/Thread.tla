-------------------------------- MODULE Thread --------------------------------
(***************************************************************************)
(* src/muduo/base/Thread.cc: Thread objects and the pthreads they start.   *)
(* The new pthread works on a ThreadData of its own, except for two        *)
(* pointers into the object: it writes pid_ and counts latch_ down.  It    *)
(* deletes the ThreadData before the destructors of its thread-specific    *)
(* data run, which may still ask for the thread's name.  The               *)
(* object may be destroyed as soon as start() has returned, without a      *)
(* join() and while the pthread still runs.                                *)
(*                                                                         *)
(* An exception that leaves the thread function ends the process           *)
(* (Thread.cc:56-76), and with it the behaviour.                           *)
(***************************************************************************)
EXTENDS Naturals

CONSTANTS
    Objects     \* the Thread objects

VARIABLES
    started_,   \* Thread::started_
    joined_,    \* Thread::joined_
    pid_,       \* Thread::pid_: 0, or 1 for the id of the new thread
    latch_,     \* the count of Thread::latch_
    latchHeld,  \* whether the new thread is inside latch_->count_down()
    owner,      \* where the thread that uses the object is
    child,      \* where the new pthread is
    t_thread_name,  \* what the name of the new thread points to
    reclaims    \* history: how often the pthread was joined or detached

object == <<started_, joined_, latch_, latchHeld, owner, reclaims>>
vars == <<object, pid_, child, t_thread_name>>

\* new; waiting: start() in latch_.wait(); back: start() has returned;
\* joining: in pthread_join; destroyed.
OwnerLocations == {"new", "waiting", "back", "joining", "destroyed"}

\* none: no pthread; born: before *pid = tid; counting: in latch->count_down(), or
\* before it; naming: after it; running: in func(); ending: its ThreadData is deleted;
\* returned: the pthread has ended.
ChildLocations == {"none", "born", "counting", "naming", "running", "ending", "returned"}

Init ==
    /\ started_ = [o \in Objects |-> FALSE]
    /\ joined_ = [o \in Objects |-> FALSE]
    /\ pid_ = [o \in Objects |-> 0]
    /\ latch_ = [o \in Objects |-> 1]
    /\ latchHeld = [o \in Objects |-> FALSE]
    /\ owner = [o \in Objects |-> "new"]
    /\ child = [o \in Objects |-> "none"]
    /\ reclaims = [o \in Objects |-> 0]
    /\ t_thread_name = [o \in Objects |-> "literal"]

OwnerGoto(o, from, to) == owner[o] = from /\ owner' = [owner EXCEPT ![o] = to]
ChildGoto(o, from, to) == child[o] = from /\ child' = [child EXCEPT ![o] = to]

------------------------------------------------------------------------------
\* Mutant of Start: start() does not wait for the new thread.
StartNoWait(o) ==
    /\ ~started_[o]
    /\ OwnerGoto(o, "new", "back")
    /\ started_' = [started_ EXCEPT ![o] = TRUE]
    /\ ChildGoto(o, "none", "born")
    /\ UNCHANGED <<joined_, pid_, latch_, latchHeld, reclaims, t_thread_name>>

\* start() up to latch_.wait().  When pthread_create fails, started_ is false
\* again and start() returns like any other time.
Start(o) ==
    /\ ~started_[o]
    /\ \/ /\ OwnerGoto(o, "new", "waiting")
          /\ started_' = [started_ EXCEPT ![o] = TRUE]
          /\ ChildGoto(o, "none", "born")
       \/ /\ OwnerGoto(o, "new", "back")
          /\ UNCHANGED <<started_, child>>
    /\ UNCHANGED <<joined_, pid_, latch_, latchHeld, reclaims, t_thread_name>>

\* latch_.wait() returns: the count is zero and the mutex of latch_ is free.
StartReturn(o) ==
    /\ OwnerGoto(o, "waiting", "back")
    /\ latch_[o] = 0 /\ ~latchHeld[o]
    /\ UNCHANGED <<started_, joined_, pid_, latch_, latchHeld, child, reclaims, t_thread_name>>

\* join(): its assertions are the caller's obligation.
Join(o) ==
    /\ started_[o] /\ ~joined_[o]
    /\ OwnerGoto(o, "back", "joining")
    /\ joined_' = [joined_ EXCEPT ![o] = TRUE]
    /\ UNCHANGED <<started_, pid_, latch_, latchHeld, child, reclaims, t_thread_name>>

\* Mutant of JoinReturn: joined_ is forgotten, as if it were never set.
JoinReturnForgets(o) ==
    /\ OwnerGoto(o, "joining", "back")
    /\ child[o] = "returned"
    /\ reclaims' = [reclaims EXCEPT ![o] = @ + 1]
    /\ joined_' = [joined_ EXCEPT ![o] = FALSE]
    /\ UNCHANGED <<started_, pid_, latch_, latchHeld, child, t_thread_name>>

\* pthread_join returns.
JoinReturn(o) ==
    /\ OwnerGoto(o, "joining", "back")
    /\ child[o] = "returned"
    /\ reclaims' = [reclaims EXCEPT ![o] = @ + 1]
    /\ UNCHANGED <<started_, joined_, pid_, latch_, latchHeld, child, t_thread_name>>

\* ~Thread(): the pthread of an object that was not joined is detached.
Destroy(o) ==
    /\ owner[o] \in {"new", "back"}
    /\ owner' = [owner EXCEPT ![o] = "destroyed"]
    /\ reclaims' = IF started_[o] /\ ~joined_[o]
                   THEN [reclaims EXCEPT ![o] = @ + 1] ELSE reclaims
    /\ UNCHANGED <<started_, joined_, pid_, latch_, latchHeld, child, t_thread_name>>

------------------------------------------------------------------------------
\* *pid = tid(), through the pointer into the object.
ChildSetPid(o) ==
    /\ ChildGoto(o, "born", "counting")
    /\ pid_' = [pid_ EXCEPT ![o] = 1]
    /\ UNCHANGED <<object, t_thread_name>>

\* Mutant of ChildCountDown: the new thread does not count the latch down.
ChildForgetsLatch(o) ==
    /\ child[o] = "counting" /\ ~latchHeld[o]
    /\ latchHeld' = [latchHeld EXCEPT ![o] = TRUE]
    /\ UNCHANGED <<started_, joined_, pid_, latch_, owner, child, reclaims, t_thread_name>>

\* latch->count_down(), with the mutex of the object's latch_ held until it ends.
ChildCountDown(o) ==
    /\ child[o] = "counting" /\ ~latchHeld[o]
    /\ latch_' = [latch_ EXCEPT ![o] = @ - 1]
    /\ latchHeld' = [latchHeld EXCEPT ![o] = TRUE]
    /\ UNCHANGED <<started_, joined_, pid_, owner, child, reclaims, t_thread_name>>

\* count_down() unlocks; from here on the new thread has no pointer left.
ChildLeaveLatch(o) ==
    /\ latchHeld[o]
    /\ ChildGoto(o, "counting", "naming")
    /\ latchHeld' = [latchHeld EXCEPT ![o] = FALSE]
    /\ UNCHANGED <<started_, joined_, pid_, latch_, owner, reclaims, t_thread_name>>

\* The thread is named by the text in its ThreadData, and func() is called.
ChildRun(o) ==
    /\ ChildGoto(o, "naming", "running")
    /\ t_thread_name' = [t_thread_name EXCEPT ![o] = "data"]
    /\ UNCHANGED <<object, pid_>>

\* func() has returned, the thread is named "finished" and its ThreadData deleted.
ChildFinish(o) ==
    /\ ChildGoto(o, "running", "ending")
    /\ t_thread_name' = [t_thread_name EXCEPT ![o] = "literal"]
    /\ UNCHANGED <<object, pid_>>

\* The destructors of its thread-specific data have run, and the pthread ends.
ChildReturn(o) ==
    /\ ChildGoto(o, "ending", "returned")
    /\ UNCHANGED <<object, pid_, t_thread_name>>

Owner(o) == Start(o) \/ StartReturn(o) \/ Join(o) \/ JoinReturn(o) \/ Destroy(o)
Enter(o) ==
    ChildSetPid(o) \/ ChildCountDown(o) \/ ChildLeaveLatch(o) \/ ChildRun(o)

Next == \E o \in Objects : Owner(o) \/ Enter(o) \/ ChildFinish(o) \/ ChildReturn(o)

Spec == Init /\ [][Next]_vars

------------------------------------------------------------------------------
\* Every variable has its type; the latch is counted down once.
TypeOK ==
    /\ started_ \in [Objects -> BOOLEAN]
    /\ joined_ \in [Objects -> BOOLEAN]
    /\ pid_ \in [Objects -> {0, 1}]
    /\ latch_ \in [Objects -> {0, 1}]
    /\ latchHeld \in [Objects -> BOOLEAN]
    /\ owner \in [Objects -> OwnerLocations]
    /\ child \in [Objects -> ChildLocations]
    /\ reclaims \in [Objects -> {0, 1}]
    /\ t_thread_name \in [Objects -> {"literal", "data"}]

\* The new thread never uses what was destroyed: its two pointers into the object are
\* used up before start() returns (Thread.cc:44-47,126), and its name does not point
\* into the ThreadData it has deleted (Thread.cc:55,85).
NoDanglingAccess ==
    \A o \in Objects :
        /\ child[o] \in {"born", "counting"} => owner[o] = "waiting"
        /\ t_thread_name[o] = "data" => child[o] = "running"

\* When the object is gone its pthread is joined or detached, once, and nothing
\* else is (Thread.cc:97-101); the id was known all the time start() had returned.
ReclaimedOnce ==
    \A o \in Objects :
        /\ owner[o] = "destroyed" => reclaims[o] = (IF child[o] = "none" THEN 0 ELSE 1)
        /\ started_[o] /\ owner[o] \notin {"new", "waiting"} => pid_[o] > 0
===============================================================================
