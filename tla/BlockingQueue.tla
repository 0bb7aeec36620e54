---------------------------- MODULE BlockingQueue -----------------------------
(***************************************************************************)
(* src/muduo/base/BlockingQueue.h: put() never blocks, take() waits on     *)
(* not_empty_.  Every method is one critical section of mutex_, take() cut *)
(* in two where it waits; Monitor justifies the grain.                     *)
(***************************************************************************)
EXTENDS Integers, Sequences, CondVar

CONSTANTS
    Producers,  \* the threads that call put()
    Consumers,  \* the threads that call take()
    PutLimit    \* bound: the number of calls of put() by each producer

VARIABLES
    data_,      \* BlockingQueue::data_
    pc,         \* where each consumer is
    sent,       \* how many items each producer has put
    received    \* history: the items taken, in the order of the take()s

vars == <<data_, pc, sent, received>>

\* ready: outside take(); not_empty: blocked; woken: wait() re-acquires mutex_
Init ==
    /\ data_ = <<>>
    /\ pc = [c \in Consumers |-> "ready"]
    /\ sent = [p \in Producers |-> 0]
    /\ received = <<>>

\* Mutant of Put: the item goes in front of the queue.
PutInFront(p) ==
    /\ sent[p] < PutLimit
    /\ data_' = <<<<p, sent[p] + 1>>>> \o data_
    /\ sent' = [sent EXCEPT ![p] = @ + 1]
    /\ pc' \in Notified(pc, "not_empty", "woken")
    /\ UNCHANGED received

\* put(), by copy or by move.
Put(p) ==
    /\ sent[p] < PutLimit
    /\ data_' = Append(data_, <<p, sent[p] + 1>>)
    /\ sent' = [sent EXCEPT ![p] = @ + 1]
    /\ pc' \in Notified(pc, "not_empty", "woken")
    /\ UNCHANGED received

\* take(), from its call or from the return of its wait().
Take(c) ==
    /\ pc[c] \in {"ready", "woken"}
    /\ \/ /\ data_ = <<>>
          /\ pc' = [pc EXCEPT ![c] = "not_empty"]
          /\ UNCHANGED <<data_, received>>
       \/ /\ data_ # <<>>
          /\ received' = Append(received, Head(data_))
          /\ data_' = Tail(data_)
          /\ pc' = [pc EXCEPT ![c] = "ready"]
    /\ UNCHANGED sent

\* pthread_cond_wait may return without a notification.
SpuriousWakeup(c) ==
    /\ pc[c] = "not_empty"
    /\ pc' = [pc EXCEPT ![c] = "woken"]
    /\ UNCHANGED <<data_, sent, received>>

Next ==
    \/ \E p \in Producers : Put(p)
    \/ \E c \in Consumers : Take(c) \/ SpuriousWakeup(c)
===============================================================================
