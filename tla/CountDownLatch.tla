---------------------------- MODULE CountDownLatch ----------------------------
(***************************************************************************)
(* src/muduo/base/CountDownLatch.cc.  Thread::start and AsyncLogging::start*)
(* wait on a latch the new thread counts down.                             *)
(*                                                                         *)
(* Every method is one critical section of mutex_, cut in two where it     *)
(* waits; LockedLatch justifies the grain.  count_down() takes no notice of*)
(* how often it is called: count_ goes below zero, past the only value at  *)
(* which the waiting threads are notified.                                 *)
(***************************************************************************)
EXTENDS LatchParameters, CondVar

CONSTANT Threads    \* the threads that share the latch

VARIABLES
    count_,     \* CountDownLatch::count_
    pc,         \* where each thread is
    downs       \* history: how many times count_down() was called

vars == <<count_, pc, downs>>

\* ready:    outside the latch
\* blocked:  in condition_.wait()
\* woken:    condition_.wait() re-acquires mutex_
\* passed:   wait() has returned
Locations == {"ready", "blocked", "woken", "passed"}

Init ==
    /\ count_ = Count
    /\ pc = [t \in Threads |-> "ready"]
    /\ downs = 0

\* wait(), from its call or from the return of condition_.wait().
Wait(t) ==
    /\ pc[t] \in {"ready", "woken"}
    /\ pc' = [pc EXCEPT ![t] = IF count_ > 0 THEN "blocked" ELSE "passed"]
    /\ UNCHANGED <<count_, downs>>

\* count_down(): a thread may call it any number of times.
CountDown(t) ==
    /\ pc[t] \in {"ready", "passed"}
    /\ downs < MaxDowns
    /\ downs' = downs + 1
    /\ count_' = count_ - 1
    /\ pc' = IF count_' = 0 THEN NotifiedAll(pc, "blocked", "woken") ELSE pc

\* pthread_cond_wait may return without a notification.
SpuriousWakeup(t) ==
    /\ pc[t] = "blocked"
    /\ pc' = [pc EXCEPT ![t] = "woken"]
    /\ UNCHANGED <<count_, downs>>

Next == \E t \in Threads : Wait(t) \/ CountDown(t) \/ SpuriousWakeup(t)

\* The scheduler runs a thread that can take a step of wait(); nothing promises
\* that anybody calls count_down(), or that a wake-up is ever spurious.
Fairness == \A t \in Threads : WF_vars(Wait(t))

Spec == Init /\ [][Next]_vars /\ Fairness

------------------------------------------------------------------------------
\* Every variable has its type, and count_ is what was not yet counted down.
TypeOK ==
    /\ count_ = Count - downs
    /\ pc \in [Threads -> Locations]
    /\ downs \in 0..MaxDowns

\* wait() returns only after Count calls of count_down() (CountDownLatch.cc:12).
PassedOnlyWhenDown == (\E t \in Threads : pc[t] = "passed") => downs >= Count

\* Once the count has reached zero nobody is left blocked, although only the
\* call that makes it zero notifies (CountDownLatch.cc:22) and count_ moves on
\* below zero.
NobodyLeftBehind == downs >= Count => Blocked(pc, "blocked") = {}

\* A thread inside wait() gets out of it if Count calls are ever made.
WaitersPass ==
    \A t \in Threads :
        (pc[t] \in {"blocked", "woken"} /\ downs >= Count) ~> (pc[t] = "passed")
==============================================================================
