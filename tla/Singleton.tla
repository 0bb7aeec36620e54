------------------------------- MODULE Singleton -------------------------------
(***************************************************************************)
(* src/muduo/base/Singleton.h: one object, made by the first thread that   *)
(* asks for it and deleted by a handler of exit().  pthread_once: the      *)
(* first caller runs init(), a caller that comes while it runs waits.      *)
(***************************************************************************)
EXTENDS Naturals

CONSTANTS
    Users,          \* the threads
    has_no_destroy  \* whether T is never deleted

VARIABLES
    once_,      \* pthread_once_t: "new", "running" or "done"
    value_,     \* what value_ points to: "null", "alive" or "deleted"
    handlers,   \* how often destroy() is registered with atexit()
    at          \* where each thread is in instance()

\* out; once: in pthread_once; init: in init(); past: pthread_once has returned;
\* got: has a reference to the object, and has not used it yet.
InstanceLocations == {"out", "once", "init", "past", "got"}

Init ==
    /\ once_ = "new"
    /\ value_ = "null"
    /\ handlers = 0
    /\ at = [u \in Users |-> "out"]

Goto(u, from, to) == at[u] = from /\ at' = [at EXCEPT ![u] = to]

Call(u) == Goto(u, "out", "once") /\ UNCHANGED <<once_, value_, handlers>>

BeginInit(u) ==
    /\ once_ = "new"
    /\ Goto(u, "once", "init")
    /\ once_' = "running"
    /\ UNCHANGED <<value_, handlers>>

\* new T(), and atexit(destroy) unless T has no_destroy.
EndInit(u) ==
    /\ Goto(u, "init", "past")
    /\ once_' = "done"
    /\ value_' = "alive"
    /\ handlers' = IF has_no_destroy THEN handlers ELSE handlers + 1

\* Mutant of PassOnce: a second caller does not wait for the first to end init().
PassOnceEarly(u) ==
    /\ once_ \in {"running", "done"}
    /\ Goto(u, "once", "past")
    /\ UNCHANGED <<once_, value_, handlers>>

PassOnce(u) ==
    /\ once_ = "done"
    /\ Goto(u, "once", "past")
    /\ UNCHANGED <<once_, value_, handlers>>

\* assert(value_) holds: the caller gets *value_.
Get(u) ==
    /\ value_ # "null"
    /\ Goto(u, "past", "got")
    /\ UNCHANGED <<once_, value_, handlers>>

\* The caller is done with the reference.
Leave(u) == Goto(u, "got", "out") /\ UNCHANGED <<once_, value_, handlers>>

\* destroy(), as a handler of exit(): first the object goes, then the pointer.
Delete ==
    /\ handlers > 0 /\ value_ = "alive"
    /\ value_' = "deleted"
    /\ UNCHANGED <<once_, handlers, at>>
Forget ==
    /\ value_ = "deleted"
    /\ value_' = "null"
    /\ handlers' = handlers - 1
    /\ UNCHANGED <<once_, at>>
===============================================================================
