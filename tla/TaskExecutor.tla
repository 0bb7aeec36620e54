---------------------------- MODULE TaskExecutor ------------------------------
(***************************************************************************)
(* What a thread pool promises, without mutexes, conditions or threads:    *)
(* before it is open a task runs where it is offered; while it is open a   *)
(* task that is offered is accepted, and accepted tasks begin in the order *)
(* of their acceptance, each once; after it is closed offers are refused.  *)
(***************************************************************************)
EXTENDS Naturals, Sequences

CONSTANT Tasks

VARIABLES
    capacity,   \* the most tasks that wait to begin; 0 is no limit
    state,      \* "inline", "open" or "closed"
    queue,      \* the accepted tasks that have not begun, oldest first
    fate        \* what has become of each task

vars == <<capacity, state, queue, fate>>

Become(x, from, to) == fate[x] = from /\ fate' = [fate EXCEPT ![x] = to]

Init ==
    /\ capacity = 0
    /\ state = "inline"
    /\ queue = <<>>
    /\ fate = [x \in Tasks |-> "new"]

SetCapacity ==
    state = "inline" /\ capacity' \in Nat /\ UNCHANGED <<state, queue, fate>>

Open == state = "inline" /\ state' = "open" /\ UNCHANGED <<capacity, queue, fate>>
Close == state = "open" /\ state' = "closed" /\ UNCHANGED <<capacity, queue, fate>>

RunInline(x) ==
    state = "inline" /\ Become(x, "new", "running") /\ UNCHANGED <<capacity, state, queue>>

Offer(x) ==
    state # "inline" /\ Become(x, "new", "offered") /\ UNCHANGED <<capacity, state, queue>>

Accept(x) ==
    /\ state = "open"
    /\ capacity = 0 \/ Len(queue) < capacity
    /\ Become(x, "offered", "queued")
    /\ queue' = Append(queue, x)
    /\ UNCHANGED <<capacity, state>>

Refuse(x) ==
    state = "closed" /\ Become(x, "offered", "refused") /\ UNCHANGED <<capacity, state, queue>>

Begin ==
    /\ queue # <<>>
    /\ Become(Head(queue), "queued", "running")
    /\ queue' = Tail(queue)
    /\ UNCHANGED <<capacity, state>>

Finish(x) ==
    Become(x, "running", "done") /\ UNCHANGED <<capacity, state, queue>>

\* An exception ends a task, and the tasks that were running it inline.
Throw(X) ==
    /\ \A x \in X : fate[x] = "running"
    /\ fate' = [x \in Tasks |-> IF x \in X THEN "thrown" ELSE fate[x]]
    /\ UNCHANGED <<capacity, state, queue>>

Next ==
    \/ SetCapacity \/ Open \/ Close \/ Begin
    \/ \E x \in Tasks : RunInline(x) \/ Offer(x) \/ Accept(x) \/ Refuse(x) \/ Finish(x)
    \/ \E X \in SUBSET Tasks : Throw(X)

Spec == Init /\ [][Next]_vars
===============================================================================
