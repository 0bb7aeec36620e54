----------------------------- MODULE BoundedFifo ------------------------------
(***************************************************************************)
(* What a bounded blocking queue promises, without mutexes, conditions or  *)
(* program counters: one queue of at most capacity items, every item       *)
(* received once and in the order in which the items were sent, and nobody *)
(* waits for ever for room or for an item.                                 *)
(***************************************************************************)
EXTENDS Naturals, Sequences

CONSTANTS
    Producers,
    PutLimit    \* bound: the number of items each producer sends

VARIABLES
    capacity,   \* the most items this queue holds; no step changes it
    queue,      \* the items inside, oldest first
    sent,       \* how many items each producer has sent
    received    \* every item received, in the order of the receptions

vars == <<capacity, queue, sent, received>>

Init ==
    /\ capacity \in Nat
    /\ queue = <<>>
    /\ sent = [p \in Producers |-> 0]
    /\ received = <<>>

\* The k-th item of producer p is <<p, k>>.
Send(p) ==
    /\ sent[p] < PutLimit
    /\ Len(queue) < capacity
    /\ queue' = Append(queue, <<p, sent[p] + 1>>)
    /\ sent' = [sent EXCEPT ![p] = @ + 1]
    /\ UNCHANGED <<capacity, received>>

Receive ==
    /\ queue # <<>>
    /\ received' = Append(received, Head(queue))
    /\ queue' = Tail(queue)
    /\ UNCHANGED <<capacity, sent>>

Next == Receive \/ \E p \in Producers : Send(p)

Fairness == WF_vars(Receive) /\ \A p \in Producers : WF_vars(Send(p))

Spec == Init /\ [][Next]_vars /\ Fairness
===============================================================================
