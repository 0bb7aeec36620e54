------------------------------- MODULE CondVar -------------------------------
(***************************************************************************)
(* What the two notifications of src/muduo/base/Condition.h do to the      *)
(* threads blocked on a condition variable.                                *)
(*                                                                         *)
(* The modules that use a condition variable keep one program counter per  *)
(* thread.  A thread blocked in cond.wait() has the name of the condition  *)
(* as its program counter; once woken it has the value awake, at which it  *)
(* still has to re-acquire the mutex and to test its predicate again.      *)
(***************************************************************************)

Blocked(pc, cond) == {t \in DOMAIN pc : pc[t] = cond}

\* Condition::notify(): one of the blocked threads, any of them, is woken; the
\* notification is lost when nobody is blocked.
Notified(pc, cond, awake) ==
    IF Blocked(pc, cond) = {}
    THEN {pc}
    ELSE {[pc EXCEPT ![t] = awake] : t \in Blocked(pc, cond)}

\* Condition::notify_all(): every blocked thread is woken.
NotifiedAll(pc, cond, awake) ==
    [t \in DOMAIN pc |-> IF pc[t] = cond THEN awake ELSE pc[t]]
==============================================================================
