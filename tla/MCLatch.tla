-------------------------------- MODULE MCLatch --------------------------------
(* Two walks in one run: threads that use a latch, or threads that use a mutex  *)
(* and a condition in any way Monitor allows.  MaxDowns exceeds Count, so that  *)
(* count_ is driven below zero.                                                 *)
EXTENDS LockedLatch

VARIABLE walk

InitWalk == InitLatch /\ walk \in {"latch", "monitor"}

NextWalk ==
    /\ \/ walk = "latch" /\ NextLatch
       \/ walk = "monitor" /\ Next /\ UNCHANGED latchVars
    /\ UNCHANGED walk

allVars == <<walk, owner, holder_, pc, count_, call, passed, downs, wakeups>>

\* The scheduler runs a thread that is not blocked.  It may pass a thread over at a
\* mutex that others take, but not for ever: their calls and wake-ups are bounded.
SpecWalk ==
    /\ InitWalk /\ [][NextWalk]_allVars
    /\ \A t \in Threads : WF_allVars(walk = "latch" /\ Progress(t) /\ UNCHANGED walk)
================================================================================
