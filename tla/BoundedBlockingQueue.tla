------------------------- MODULE BoundedBlockingQueue -------------------------
(***************************************************************************)
(* src/muduo/base/BoundedBlockingQueue.h: put() waits on not_full_, take() *)
(* waits on not_empty_, each wakes one thread of the other kind.           *)
(*                                                                         *)
(* Every method is one critical section of mutex_, cut in two where it     *)
(* waits; Monitor justifies the grain.  A thread that is woken competes    *)
(* for mutex_ with those that call put() or take() meanwhile.              *)
(***************************************************************************)
EXTENDS Integers, Sequences, FiniteSets, CondVar

CONSTANTS
    Producers,  \* the threads that call put()
    Consumers,  \* the threads that call take()
    max_size_,  \* the constructor's argument
    PutLimit    \* bound: the number of calls of put() by each producer

ASSUME ThreadsAssumption ==
    /\ Producers \cap Consumers = {}
    /\ IsFiniteSet(Producers)
    /\ IsFiniteSet(Consumers)
ASSUME SizeAssumption == max_size_ \in Nat
ASSUME PutLimitAssumption == PutLimit \in Nat

Threads == Producers \cup Consumers

VARIABLES
    data_,      \* BoundedBlockingQueue::data_
    pc,         \* where each thread is
    sent,       \* how many items each producer has put
    received    \* history: the items taken, in the order of the take()s

vars == <<data_, pc, sent, received>>

\* ready: outside the queue, or between two calls
\* not_full, not_empty: blocked in the wait() of that condition
\* woken: wait() re-acquires mutex_
Locations == {"ready", "not_full", "not_empty", "woken"}

Init ==
    /\ data_ = <<>>
    /\ pc = [t \in Threads |-> "ready"]
    /\ sent = [p \in Producers |-> 0]
    /\ received = <<>>

is_full == Len(data_) >= max_size_
is_empty == data_ = <<>>

Block(t, cond) == pc' = [pc EXCEPT ![t] = cond]

\* t returns from its call after it has notified cond.
NotifyAndReturn(t, cond) ==
    pc' \in Notified([pc EXCEPT ![t] = "ready"], cond, "woken")

\* Mutant of Put: not_empty_ is notified only when the queue was empty, so that
\* the second of two items put before any consumer runs wakes nobody.
PutNotifyWhenEmpty(p) ==
    /\ pc[p] \in {"ready", "woken"}
    /\ sent[p] < PutLimit
    /\ \/ /\ is_full
          /\ Block(p, "not_full")
          /\ UNCHANGED <<data_, sent>>
       \/ /\ ~is_full
          /\ data_' = Append(data_, <<p, sent[p] + 1>>)
          /\ sent' = [sent EXCEPT ![p] = @ + 1]
          /\ IF is_empty THEN NotifyAndReturn(p, "not_empty") ELSE Block(p, "ready")
    /\ UNCHANGED received

\* put(), by copy or by move, from its call or from the return of its wait().
Put(p) ==
    /\ pc[p] \in {"ready", "woken"}
    /\ sent[p] < PutLimit
    /\ \/ /\ is_full
          /\ Block(p, "not_full")
          /\ UNCHANGED <<data_, sent>>
       \/ /\ ~is_full
          /\ data_' = Append(data_, <<p, sent[p] + 1>>)
          /\ sent' = [sent EXCEPT ![p] = @ + 1]
          /\ NotifyAndReturn(p, "not_empty")
    /\ UNCHANGED received

\* Mutant of Take: not_full_ is notified only when the queue was full, so that
\* the second of two producers blocked on a full queue is not woken.
TakeNotifyWhenFull(c) ==
    /\ pc[c] \in {"ready", "woken"}
    /\ \/ /\ is_empty
          /\ Block(c, "not_empty")
          /\ UNCHANGED <<data_, received>>
       \/ /\ ~is_empty
          /\ received' = Append(received, Head(data_))
          /\ data_' = Tail(data_)
          /\ IF is_full THEN NotifyAndReturn(c, "not_full") ELSE Block(c, "ready")
    /\ UNCHANGED sent

\* take(), from its call or from the return of its wait().
Take(c) ==
    /\ pc[c] \in {"ready", "woken"}
    /\ \/ /\ is_empty
          /\ Block(c, "not_empty")
          /\ UNCHANGED <<data_, received>>
       \/ /\ ~is_empty
          /\ received' = Append(received, Head(data_))
          /\ data_' = Tail(data_)
          /\ NotifyAndReturn(c, "not_full")
    /\ UNCHANGED sent

\* pthread_cond_wait may return without a notification.
SpuriousWakeup(t) ==
    /\ pc[t] \in {"not_full", "not_empty"}
    /\ pc' = [pc EXCEPT ![t] = "woken"]
    /\ UNCHANGED <<data_, sent, received>>

Next ==
    \/ \E p \in Producers : Put(p)
    \/ \E c \in Consumers : Take(c)
    \/ \E t \in Threads : SpuriousWakeup(t)

\* The scheduler runs a producer with something left to put, and a consumer,
\* whenever they are not blocked; wake-ups without a notification are not
\* relied on.
Fairness ==
    /\ \A p \in Producers : WF_vars(Put(p))
    /\ \A c \in Consumers : WF_vars(Take(c))

Spec == Init /\ [][Next]_vars /\ Fairness

------------------------------------------------------------------------------
\* The threads of kind S that have been woken and have not run yet.
Woken(S) == {t \in S : pc[t] = "woken"}

\* Every variable has its type, the queue never exceeds max_size_, and a thread
\* blocks on the condition of its own kind only.
TypeOK ==
    /\ data_ \in Seq(Producers \X (1..PutLimit))
    /\ Len(data_) <= max_size_
    /\ pc \in [Threads -> Locations]
    /\ \A p \in Producers : pc[p] # "not_empty"
    /\ \A c \in Consumers : pc[c] # "not_full"
    /\ sent \in [Producers -> 0..PutLimit]
    /\ received \in Seq(Producers \X (1..PutLimit))

\* A consumer stays blocked only while every item inside has a woken consumer
\* on its way: notify() wakes one, not all (BoundedBlockingQueue.h:26).
NoItemForgotten ==
    Blocked(pc, "not_empty") # {} => Len(data_) <= Cardinality(Woken(Consumers))

\* A producer stays blocked only while every free place has a woken producer on
\* its way (BoundedBlockingQueue.h:51).
NoPlaceForgotten ==
    Blocked(pc, "not_full") # {} =>
        max_size_ - Len(data_) <= Cardinality(Woken(Producers))

\* The steps of the queue as steps of a bounded FIFO.
Fifo == INSTANCE BoundedFifo WITH queue <- data_, capacity <- max_size_
==============================================================================
