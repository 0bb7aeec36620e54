------------------------------ MODULE ThreadLocal ------------------------------
(***************************************************************************)
(* src/muduo/base/ThreadLocal.h: an object of type T for each thread that  *)
(* asks for one, kept under a pthread key and deleted when its thread      *)
(* ends, if the key is still there by then.                                *)
(***************************************************************************)
EXTENDS Naturals

CONSTANTS Users     \* the threads

VARIABLES
    pkey_,      \* the key: "none", "live" or "deleted"
    specific,   \* whether the thread has a value under the key
    objects     \* history: how many objects T of the thread are alive

Init ==
    /\ pkey_ = "none"
    /\ specific = [u \in Users |-> FALSE]
    /\ objects = [u \in Users |-> 0]

\* The constructor.  A new key has no value in any thread.
Create == pkey_' = "live" /\ specific' = [u \in Users |-> FALSE] /\ UNCHANGED objects

\* The destructor.  No thread's object is deleted with the key.
DeleteKey == pkey_ = "live" /\ pkey_' = "deleted" /\ UNCHANGED <<specific, objects>>

\* Mutant of Value: the object is not stored under the key.
ValueForgets(u) ==
    /\ pkey_ = "live"
    /\ objects' = IF specific[u] THEN objects ELSE [objects EXCEPT ![u] = @ + 1]
    /\ objects[u] < 2
    /\ UNCHANGED <<pkey_, specific>>

\* value(): the thread's object, made the first time.
Value(u) ==
    /\ pkey_ = "live"
    /\ specific' = [specific EXCEPT ![u] = TRUE]
    /\ objects' = IF specific[u] THEN objects ELSE [objects EXCEPT ![u] = @ + 1]
    /\ UNCHANGED pkey_

\* Whether the end of the thread has an object to delete.
MustDestroy(u) == pkey_ = "live" /\ specific[u]

\* destructor(), on the thread that ends.
Destructor(u) ==
    /\ MustDestroy(u)
    /\ specific' = [specific EXCEPT ![u] = FALSE]
    /\ objects' = [objects EXCEPT ![u] = @ - 1]
    /\ UNCHANGED pkey_
===============================================================================
