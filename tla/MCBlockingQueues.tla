--------------------------- MODULE MCBlockingQueues ---------------------------
(* Both queues for TLC, one in a behaviour: more producers than places and two *)
(* consumers, so that threads block on every condition.                        *)
EXTENDS BoundedBlockingQueue

VARIABLE kind       \* which of the two queues it is

Unbounded == INSTANCE BlockingQueue

InitEither ==
    \/ kind = "bounded" /\ Init
    \/ kind = "unbounded" /\ Unbounded!Init

\* The puts of one producer, and the takes of one consumer.
Puts(p) == IF kind = "bounded" THEN Put(p) ELSE Unbounded!Put(p)
Takes(c) == IF kind = "bounded" THEN Take(c) ELSE Unbounded!Take(c)

NextEither ==
    /\ \/ kind = "bounded" /\ Next
       \/ kind = "unbounded" /\ Unbounded!Next
    /\ UNCHANGED kind

\* See Fairness of BoundedBlockingQueue; a put of the other queue cannot block.
SpecEither ==
    /\ InitEither /\ [][NextEither]_<<kind, data_, pc, sent, received>>
    /\ \A p \in Producers : WF_<<data_, pc, sent, received>>(Puts(p))
    /\ \A c \in Consumers : WF_<<data_, pc, sent, received>>(Takes(c))

\* Both queues are FIFOs, the bounded one (BoundedBlockingQueue.h:15) with room for
\* max_size_ items, the other one (BlockingQueue.h) for all there can be: no item is
\* lost, duplicated or overtaken, and with consumers that keep taking every put and
\* every take completes.
FifoOfSize == INSTANCE BoundedFifo WITH
    queue <- data_,
    capacity <- IF kind = "bounded" THEN max_size_ ELSE Cardinality(Producers) * PutLimit
ImplementsFifo == FifoOfSize!Spec
===============================================================================
