---------------------- MODULE BoundedBlockingQueueProofs ----------------------
(***************************************************************************)
(* Proofs about BoundedBlockingQueue and BlockingQueue, for all finite     *)
(* sets of producers and consumers, every max_size_ and every number of    *)
(* puts: no notification is missing, and both queues are FIFOs.            *)
(***************************************************************************)
EXTENDS MCBlockingQueues, FiniteSetTheorems, TLAPS

\* The two wake-up invariants are inductive once the types are known: a put adds
\* one item and wakes one consumer, a woken consumer that runs uses up one item.
IInv == TypeOK /\ NoItemForgotten /\ NoPlaceForgotten

------------------------------------------------------------------------------
\* A set of threads that gains or loses one thread.
LEMMA WokenFinite ==
  ASSUME NEW S, S = Producers \/ S = Consumers
  PROVE  IsFiniteSet(Woken(S)) /\ Cardinality(Woken(S)) \in Nat
  <1>1. IsFiniteSet(S) /\ Woken(S) \subseteq S
    BY ThreadsAssumption DEF Woken
  <1> QED BY <1>1, FS_Subset, FS_CardinalityType

\* A thread of kind S that is woken makes the woken threads of S one more.
LEMMA WokenGains ==
  ASSUME NEW S, S = Producers \/ S = Consumers,
         NEW u \in S, u \notin Woken(S), Woken(S)' = Woken(S) \cup {u}
  PROVE  Cardinality(Woken(S)') = Cardinality(Woken(S)) + 1
  BY WokenFinite, FS_AddElement

\* A thread that runs makes the woken threads of its kind at most one fewer.
LEMMA WokenLoses ==
  ASSUME NEW S, S = Producers \/ S = Consumers,
         NEW t \in S, Woken(S)' = Woken(S) \ {t}
  PROVE  /\ Cardinality(Woken(S)') \in Nat
         /\ Cardinality(Woken(S)') >= Cardinality(Woken(S)) - 1
  <1>1. CASE t \in Woken(S)
    <2>1. IsFiniteSet(Woken(S)) /\ Cardinality(Woken(S)) \in Nat
      BY WokenFinite
    <2>2. IsFiniteSet(Woken(S)')
      BY <2>1, FS_RemoveElement
    <2>3. Cardinality(Woken(S)') = Cardinality(Woken(S)) - 1
      BY <1>1, <2>1, FS_RemoveElement
    <2> QED BY <2>1, <2>2, <2>3, FS_CardinalityType
  <1>2. CASE t \notin Woken(S)
    <2>1. Woken(S)' = Woken(S)
      BY <1>2
    <2> QED BY <2>1, WokenFinite
  <1> QED BY <1>1, <1>2

\* What a notification does to the program counters.
LEMMA NotifyCases ==
  ASSUME NEW f \in [Threads -> Locations], NEW cond \in {"not_full", "not_empty"},
         pc' \in Notified(f, cond, "woken")
  PROVE  \/ pc' = f /\ \A t \in Threads : f[t] # cond
         \/ \E u \in Threads : f[u] = cond /\ pc' = [f EXCEPT ![u] = "woken"]
  BY DEF Notified, Blocked

LEMMA InitIInv == Init => IInv
  <1> SUFFICES ASSUME Init PROVE IInv
    OBVIOUS
  <1>1. TypeOK
    BY SizeAssumption, PutLimitAssumption DEF Init, TypeOK, Threads, Locations
  <1>2. Blocked(pc, "not_empty") = {} /\ Blocked(pc, "not_full") = {}
    BY DEF Init, Blocked
  <1> QED BY <1>1, <1>2 DEF IInv, NoItemForgotten, NoPlaceForgotten

------------------------------------------------------------------------------
\* A producer appends an item, returns, and wakes a consumer if one is blocked.
LEMMA PutAppends ==
  ASSUME IInv, NEW p \in Producers, Put(p), ~is_full
  PROVE  IInv'
  <1> USE ThreadsAssumption, SizeAssumption, PutLimitAssumption
  <1> DEFINE f == [pc EXCEPT ![p] = "ready"]
  <1>1. /\ pc[p] \in {"ready", "woken"}
        /\ data_' = Append(data_, <<p, sent[p] + 1>>)
        /\ sent' = [sent EXCEPT ![p] = @ + 1]
        /\ sent[p] < PutLimit
        /\ pc' \in Notified(f, "not_empty", "woken")
        /\ UNCHANGED received
    BY DEF Put, NotifyAndReturn
  <1>2. /\ f \in [Threads -> Locations]
        /\ f[p] = "ready"
        /\ \A t \in Threads \ {p} : f[t] = pc[t]
    BY DEF IInv, TypeOK, Locations, Threads
  <1>3. \/ pc' = f /\ \A t \in Threads : f[t] # "not_empty"
        \/ \E u \in Threads : f[u] = "not_empty" /\ pc' = [f EXCEPT ![u] = "woken"]
    <2> HIDE DEF f
    <2> QED BY <1>1, <1>2, NotifyCases
  <1>4. Len(data_') = Len(data_) + 1 /\ Len(data_) \in Nat /\ Len(data_') <= max_size_
    BY <1>1 DEF IInv, TypeOK, is_full
  <1>5. TypeOK'
    <2>1. data_' \in Seq(Producers \X (1..PutLimit)) /\ sent' \in [Producers -> 0..PutLimit]
      BY <1>1 DEF IInv, TypeOK
    <2>2. /\ pc' \in [Threads -> Locations]
          /\ \A q \in Producers : pc'[q] # "not_empty"
          /\ \A c \in Consumers : pc'[c] # "not_full"
      BY <1>2, <1>3 DEF IInv, TypeOK, Locations, Threads
    <2> QED BY <1>1, <1>4, <2>1, <2>2 DEF IInv, TypeOK
  <1>6. NoItemForgotten'
    <2>1. CASE pc' = f /\ \A t \in Threads : f[t] # "not_empty"
      BY <1>2, <2>1 DEF NoItemForgotten, Blocked
    <2>2. ASSUME NEW u \in Threads, f[u] = "not_empty", pc' = [f EXCEPT ![u] = "woken"]
          PROVE  NoItemForgotten'
      <3>1. u \in Consumers /\ u # p /\ pc[u] = "not_empty"
        BY <1>2, <2>2 DEF IInv, TypeOK, Threads
      <3>2. Woken(Consumers)' = Woken(Consumers) \cup {u} /\ u \notin Woken(Consumers)
        BY <1>2, <2>2, <3>1 DEF Woken, Threads
      <3>3. Cardinality(Woken(Consumers)') = Cardinality(Woken(Consumers)) + 1
        BY <3>1, <3>2, WokenGains
      <3>4. Len(data_) <= Cardinality(Woken(Consumers))
        BY <3>1 DEF IInv, NoItemForgotten, Blocked, TypeOK, Threads
      <3> QED BY <1>4, <3>3, <3>4, WokenFinite DEF NoItemForgotten
    <2> QED BY <1>3, <2>1, <2>2
  <1>7. NoPlaceForgotten'
    <2>1. Woken(Producers)' = Woken(Producers) \ {p}
      BY <1>1, <1>2, <1>3 DEF Woken, Threads, IInv, TypeOK, Locations
    <2>2. Blocked(pc', "not_full") \subseteq Blocked(pc, "not_full")
      BY <1>1, <1>2, <1>3 DEF Blocked, IInv, TypeOK, Threads
    <2>3. /\ Cardinality(Woken(Producers)) \in Nat
          /\ Cardinality(Woken(Producers)') \in Nat
          /\ Cardinality(Woken(Producers)') >= Cardinality(Woken(Producers)) - 1
      BY <2>1, WokenLoses, WokenFinite
    <2> QED BY <1>4, <2>2, <2>3 DEF IInv, NoPlaceForgotten
  <1> QED BY <1>5, <1>6, <1>7 DEF IInv

\* A consumer removes an item, returns, and wakes a producer if one is blocked.
LEMMA TakeRemoves ==
  ASSUME IInv, NEW c \in Consumers, Take(c), ~is_empty
  PROVE  IInv'
  <1> USE ThreadsAssumption, SizeAssumption, PutLimitAssumption
  <1> DEFINE f == [pc EXCEPT ![c] = "ready"]
  <1>1. /\ pc[c] \in {"ready", "woken"}
        /\ data_ # <<>>
        /\ data_' = Tail(data_)
        /\ received' = Append(received, Head(data_))
        /\ pc' \in Notified(f, "not_full", "woken")
        /\ UNCHANGED sent
    BY DEF Take, NotifyAndReturn, is_empty
  <1>2. /\ f \in [Threads -> Locations]
        /\ f[c] = "ready"
        /\ \A t \in Threads \ {c} : f[t] = pc[t]
    BY DEF IInv, TypeOK, Locations, Threads
  <1>3. \/ pc' = f /\ \A t \in Threads : f[t] # "not_full"
        \/ \E u \in Threads : f[u] = "not_full" /\ pc' = [f EXCEPT ![u] = "woken"]
    <2> HIDE DEF f
    <2> QED BY <1>1, <1>2, NotifyCases
  <1>4. /\ Len(data_') = Len(data_) - 1 /\ Len(data_) \in Nat
        /\ Len(data_') \in Nat /\ Len(data_') <= max_size_
    BY <1>1 DEF IInv, TypeOK
  <1>5. TypeOK'
    <2>1. /\ data_' \in Seq(Producers \X (1..PutLimit))
          /\ received' \in Seq(Producers \X (1..PutLimit))
      BY <1>1 DEF IInv, TypeOK
    <2>2. /\ pc' \in [Threads -> Locations]
          /\ \A q \in Producers : pc'[q] # "not_empty"
          /\ \A d \in Consumers : pc'[d] # "not_full"
      BY <1>2, <1>3 DEF IInv, TypeOK, Locations, Threads
    <2> QED BY <1>1, <1>4, <2>1, <2>2 DEF IInv, TypeOK
  <1>6. NoPlaceForgotten'
    <2>1. CASE pc' = f /\ \A t \in Threads : f[t] # "not_full"
      BY <1>2, <2>1 DEF NoPlaceForgotten, Blocked
    <2>2. ASSUME NEW u \in Threads, f[u] = "not_full", pc' = [f EXCEPT ![u] = "woken"]
          PROVE  NoPlaceForgotten'
      <3>1. u \in Producers /\ u # c /\ pc[u] = "not_full"
        BY <1>2, <2>2 DEF IInv, TypeOK, Threads
      <3>2. Woken(Producers)' = Woken(Producers) \cup {u} /\ u \notin Woken(Producers)
        BY <1>2, <2>2, <3>1 DEF Woken, Threads
      <3>3. Cardinality(Woken(Producers)') = Cardinality(Woken(Producers)) + 1
        BY <3>1, <3>2, WokenGains
      <3>4. max_size_ - Len(data_) <= Cardinality(Woken(Producers))
        BY <3>1 DEF IInv, NoPlaceForgotten, Blocked, TypeOK, Threads
      <3> QED BY <1>4, <3>3, <3>4, WokenFinite DEF NoPlaceForgotten
    <2> QED BY <1>3, <2>1, <2>2
  <1>7. NoItemForgotten'
    <2>1. Woken(Consumers)' = Woken(Consumers) \ {c}
      BY <1>1, <1>2, <1>3 DEF Woken, Threads, IInv, TypeOK, Locations
    <2>2. Blocked(pc', "not_empty") \subseteq Blocked(pc, "not_empty")
      BY <1>1, <1>2, <1>3 DEF Blocked, IInv, TypeOK, Threads
    <2>3. /\ Cardinality(Woken(Consumers)) \in Nat
          /\ Cardinality(Woken(Consumers)') \in Nat
          /\ Cardinality(Woken(Consumers)') >= Cardinality(Woken(Consumers)) - 1
      BY <2>1, WokenLoses, WokenFinite
    <2> QED BY <1>4, <2>2, <2>3 DEF IInv, NoItemForgotten
  <1> QED BY <1>5, <1>6, <1>7 DEF IInv

\* A thread blocks because the queue is full, or empty: then it has no place, or
\* no item, to wait for.
LEMMA Blocks ==
  ASSUME IInv, NEW t \in Threads,
         \/ t \in Producers /\ Put(t) /\ is_full
         \/ t \in Consumers /\ Take(t) /\ is_empty
  PROVE  IInv'
  <1> USE ThreadsAssumption, SizeAssumption
  <1>1. UNCHANGED <<data_, sent, received>> /\ pc[t] \in {"ready", "woken"}
    BY DEF Put, Take, is_full, is_empty, IInv, TypeOK
  <1>2. CASE t \in Producers /\ Put(t) /\ is_full
    <2>1. pc' = [pc EXCEPT ![t] = "not_full"]
      BY <1>2 DEF Put, Block
    <2>2. TypeOK'
      BY <1>1, <1>2, <2>1 DEF IInv, TypeOK, Locations, Threads
    <2>3. Len(data_') = max_size_
      BY <1>1, <1>2 DEF IInv, TypeOK, is_full
    <2>4. NoPlaceForgotten'
      <3>1. Cardinality(Woken(Producers)') \in Nat
        <4>1. Woken(Producers)' \subseteq Producers
          BY DEF Woken
        <4> QED BY <4>1, FS_Subset, FS_CardinalityType
      <3> QED BY <2>3, <3>1 DEF NoPlaceForgotten
    <2>5. NoItemForgotten'
      <3>1. Woken(Consumers)' = Woken(Consumers)
        BY <1>2, <2>1 DEF IInv, TypeOK, Woken, Threads
      <3>2. Blocked(pc', "not_empty") \subseteq Blocked(pc, "not_empty")
        BY <2>1 DEF Blocked, IInv, TypeOK
      <3> QED BY <1>1, <3>1, <3>2 DEF IInv, NoItemForgotten
    <2> QED BY <2>2, <2>4, <2>5 DEF IInv
  <1>3. CASE t \in Consumers /\ Take(t) /\ is_empty
    <2>1. pc' = [pc EXCEPT ![t] = "not_empty"]
      BY <1>3 DEF Take, Block
    <2>2. TypeOK'
      BY <1>1, <1>3, <2>1 DEF IInv, TypeOK, Locations, Threads
    <2>3. Len(data_') = 0
      BY <1>1, <1>3 DEF IInv, TypeOK, is_empty
    <2>4. NoItemForgotten'
      <3>1. Cardinality(Woken(Consumers)') \in Nat
        <4>1. Woken(Consumers)' \subseteq Consumers
          BY DEF Woken
        <4> QED BY <4>1, FS_Subset, FS_CardinalityType
      <3> QED BY <2>3, <3>1 DEF NoItemForgotten
    <2>5. NoPlaceForgotten'
      <3>1. Woken(Producers)' = Woken(Producers)
        BY <1>3, <2>1 DEF IInv, TypeOK, Woken, Threads
      <3>2. Blocked(pc', "not_full") \subseteq Blocked(pc, "not_full")
        BY <2>1 DEF Blocked, IInv, TypeOK
      <3> QED BY <1>1, <3>1, <3>2 DEF IInv, NoPlaceForgotten
    <2> QED BY <2>2, <2>4, <2>5 DEF IInv
  <1> QED BY <1>2, <1>3

\* A spurious wake-up only adds a woken thread.
LEMMA Spurious ==
  ASSUME IInv, NEW t \in Threads, SpuriousWakeup(t)
  PROVE  IInv'
  <1> USE ThreadsAssumption, SizeAssumption
  <1>1. /\ UNCHANGED <<data_, sent, received>>
        /\ pc[t] \in {"not_full", "not_empty"}
        /\ pc' = [pc EXCEPT ![t] = "woken"]
    BY DEF SpuriousWakeup
  <1>2. TypeOK'
    BY <1>1 DEF IInv, TypeOK, Locations, Threads
  <1>3. ASSUME NEW S, S = Producers \/ S = Consumers
        PROVE  /\ Cardinality(Woken(S)') \in Nat
               /\ Cardinality(Woken(S)') >= Cardinality(Woken(S))
    <2>1. CASE t \in S
      <3>1. Woken(S)' = Woken(S) \cup {t} /\ t \notin Woken(S)
        BY <1>1, <1>3, <2>1 DEF Woken, IInv, TypeOK, Threads
      <3> QED BY <1>3, <2>1, <3>1, WokenGains, WokenFinite
    <2>2. CASE t \notin S
      <3>1. Woken(S)' = Woken(S)
        BY <1>1, <1>3, <2>2 DEF Woken, IInv, TypeOK, Threads
      <3> QED BY <1>3, <3>1, WokenFinite
    <2> QED BY <2>1, <2>2
  <1>4. ASSUME NEW cond \in {"not_full", "not_empty"}
        PROVE  Blocked(pc', cond) \subseteq Blocked(pc, cond)
    BY <1>1, <1>4 DEF Blocked, IInv, TypeOK
  <1>5. NoItemForgotten'
    <2>1. /\ Cardinality(Woken(Consumers)) \in Nat
          /\ Cardinality(Woken(Consumers)') \in Nat
          /\ Cardinality(Woken(Consumers)') >= Cardinality(Woken(Consumers))
      BY <1>3, WokenFinite
    <2>2. Blocked(pc', "not_empty") \subseteq Blocked(pc, "not_empty")
      BY <1>4
    <2>3. Len(data_') = Len(data_) /\ Len(data_) \in Nat
      BY <1>1 DEF IInv, TypeOK
    <2> QED BY <2>1, <2>2, <2>3 DEF IInv, NoItemForgotten
  <1>6. NoPlaceForgotten'
    <2>1. /\ Cardinality(Woken(Producers)) \in Nat
          /\ Cardinality(Woken(Producers)') \in Nat
          /\ Cardinality(Woken(Producers)') >= Cardinality(Woken(Producers))
      BY <1>3, WokenFinite
    <2>2. Blocked(pc', "not_full") \subseteq Blocked(pc, "not_full")
      BY <1>4
    <2>3. Len(data_') = Len(data_) /\ Len(data_) \in Nat
      BY <1>1 DEF IInv, TypeOK
    <2> QED BY <2>1, <2>2, <2>3 DEF IInv, NoPlaceForgotten
  <1> QED BY <1>2, <1>5, <1>6 DEF IInv

LEMMA StepIInv == IInv /\ [Next]_vars => IInv'
  <1> SUFFICES ASSUME IInv, [Next]_vars PROVE IInv'
    OBVIOUS
  <1>1. ASSUME NEW p \in Producers, Put(p) PROVE IInv'
    <2>1. CASE is_full BY <1>1, <2>1, Blocks DEF Threads
    <2>2. CASE ~is_full BY <1>1, <2>2, PutAppends
    <2> QED BY <2>1, <2>2
  <1>2. ASSUME NEW c \in Consumers, Take(c) PROVE IInv'
    <2>1. CASE is_empty BY <1>2, <2>1, Blocks DEF Threads
    <2>2. CASE ~is_empty BY <1>2, <2>2, TakeRemoves
    <2> QED BY <2>1, <2>2
  <1>3. ASSUME NEW t \in Threads, SpuriousWakeup(t) PROVE IInv'
    BY <1>3, Spurious
  <1>4. ASSUME UNCHANGED vars PROVE IInv'
    BY <1>4 DEF vars, IInv, TypeOK, NoItemForgotten, NoPlaceForgotten, Blocked, Woken
  <1> QED BY <1>1, <1>2, <1>3, <1>4 DEF Next

LEMMA SpecIInv == Spec => []IInv
  BY InitIInv, StepIInv, PTL DEF Spec

------------------------------------------------------------------------------
\* Type correctness, which includes that the queue never exceeds max_size_.
THEOREM TypeCorrect == Spec => []TypeOK
  <1>1. IInv => TypeOK BY DEF IInv
  <1> QED BY <1>1, SpecIInv, PTL

\* No item waits for a consumer that is blocked and was not woken for it.
THEOREM ItemsAreNotForgotten == Spec => []NoItemForgotten
  <1>1. IInv => NoItemForgotten BY DEF IInv
  <1> QED BY <1>1, SpecIInv, PTL

\* No free place waits for a producer that is blocked and was not woken for it.
THEOREM PlacesAreNotForgotten == Spec => []NoPlaceForgotten
  <1>1. IInv => NoPlaceForgotten BY DEF IInv
  <1> QED BY <1>1, SpecIInv, PTL

\* The safety part of ImplementsFifo: every step of the queue is a step of the
\* bounded FIFO or leaves it unchanged.
THEOREM FifoSafety == Spec => Fifo!Init /\ [][Fifo!Next]_(Fifo!vars)
  <1>1. Init => Fifo!Init
    BY SizeAssumption DEF Init, Fifo!Init
  <1>2. IInv /\ [Next]_vars => [Fifo!Next]_(Fifo!vars)
    <2> SUFFICES ASSUME IInv, [Next]_vars PROVE [Fifo!Next]_(Fifo!vars)
      OBVIOUS
    <2>1. ASSUME NEW p \in Producers, Put(p) PROVE Fifo!Send(p) \/ UNCHANGED Fifo!vars
      <3>1. Len(data_) \in Nat /\ max_size_ \in Nat
        BY SizeAssumption DEF IInv, TypeOK
      <3> QED BY <2>1, <3>1 DEF Put, is_full, Fifo!Send, Fifo!vars
    <2>2. ASSUME NEW c \in Consumers, Take(c) PROVE Fifo!Receive \/ UNCHANGED Fifo!vars
      BY <2>2 DEF Take, is_empty, Fifo!Receive, Fifo!vars
    <2>3. CASE (\E t \in Threads : SpuriousWakeup(t)) \/ UNCHANGED vars
      BY <2>3 DEF SpuriousWakeup, vars, Fifo!vars
    <2> QED BY <2>1, <2>2, <2>3 DEF Next, Fifo!Next
  <1> QED BY <1>1, <1>2, SpecIInv, PTL DEF Spec

------------------------------------------------------------------------------
(* The queue without a bound. *)

Items == Producers \X (1..PutLimit)

\* BlockingQueue has the consumers' wake-up invariant, with their types.  That the items
\* inside are different ones, of those that were put, bounds their number.
UnboundedInv ==
    /\ data_ \in Seq(Items)
    /\ pc \in [Consumers -> {"ready", "not_empty", "woken"}]
    /\ sent \in [Producers -> 0..PutLimit]
    /\ \A i \in 1..Len(data_) : data_[i][2] <= sent[data_[i][1]]
    /\ \A i, j \in 1..Len(data_) : data_[i] = data_[j] => i = j
    /\ NoItemForgotten

\* The items of all producers.
LEMMA ItemsFinite ==
  IsFiniteSet(Items) /\ Cardinality(Items) = Cardinality(Producers) * PutLimit
  <1>1. IsFiniteSet(1..PutLimit) /\ Cardinality(1..PutLimit) = PutLimit
    BY PutLimitAssumption, FS_Interval
  <1> QED BY <1>1, ThreadsAssumption, FS_Product DEF Items

\* A producer that has an item left finds room for it among all there can be.
LEMMA RoomForAll ==
  ASSUME UnboundedInv, NEW p \in Producers, sent[p] < PutLimit
  PROVE  Len(data_) < Cardinality(Producers) * PutLimit
  <1> DEFINE item == <<p, sent[p] + 1>>
             S == 1..Len(data_)
             T == Items \ {item}
  <1>1. Len(data_) \in Nat /\ sent[p] \in 0..PutLimit /\ PutLimit \in Nat
    BY PutLimitAssumption DEF UnboundedInv
  <1>2. item \in Items
    BY <1>1 DEF Items
  <1>3. IsFiniteSet(T) /\ Cardinality(T) = Cardinality(Items) - 1
    BY <1>2, ItemsFinite, FS_RemoveElement
  <1>4. data_ \in [S -> T]
    <2>1. data_ \in [S -> Items]
      BY DEF UnboundedInv
    <2>2. ASSUME NEW i \in S PROVE data_[i] # item
      <3>1. data_[i][2] <= sent[data_[i][1]]
        BY DEF UnboundedInv
      <3>2. item[1] = p /\ item[2] = sent[p] + 1
        OBVIOUS
      <3> QED BY <1>1, <3>1, <3>2
    <2> QED BY <2>1, <2>2
  <1>5. data_ \in Injection(S, T)
    BY <1>4 DEF Injection, IsInjective, UnboundedInv
  <1>6. Cardinality(S) <= Cardinality(T)
    BY <1>3, <1>5, FS_Injection
  <1>7. Cardinality(S) = Len(data_)
    <2>1. 1 \in Int /\ Len(data_) \in Int
      BY <1>1
    <2>2. Cardinality(S) = IF 1 > Len(data_) THEN 0 ELSE Len(data_) - 1 + 1
      BY ONLY <2>1, FS_Interval
    <2> QED BY <1>1, <2>2
  <1>8. Cardinality(Items) \in Nat
    BY ItemsFinite, FS_CardinalityType
  <1> QED BY <1>1, <1>3, <1>6, <1>7, <1>8, ItemsFinite

LEMMA UnboundedInit == Unbounded!Init => UnboundedInv
  <1> SUFFICES ASSUME Unbounded!Init PROVE UnboundedInv
    OBVIOUS
  <1>1. data_ = <<>> /\ pc = [c \in Consumers |-> "ready"] /\ sent = [p \in Producers |-> 0]
    BY DEF Unbounded!Init
  <1>2. Blocked(pc, "not_empty") = {}
    BY <1>1 DEF Blocked
  <1> QED BY <1>1, <1>2, PutLimitAssumption DEF UnboundedInv, NoItemForgotten

\* A put adds one item and wakes a consumer if one is blocked.
LEMMA UnboundedPut ==
  ASSUME UnboundedInv, NEW p \in Producers, Unbounded!Put(p)
  PROVE  UnboundedInv'
  <1> USE ThreadsAssumption, PutLimitAssumption
  <1> DEFINE item == <<p, sent[p] + 1>>
  <1>1. /\ sent[p] < PutLimit
        /\ data_' = Append(data_, item)
        /\ sent' = [sent EXCEPT ![p] = @ + 1]
        /\ pc' \in Notified(pc, "not_empty", "woken")
    BY DEF Unbounded!Put, Unbounded!Notified, Unbounded!Blocked, Notified, Blocked
  <1>2. sent[p] \in 0..PutLimit /\ item \in Items /\ data_ \in Seq(Items) /\ Len(data_) \in Nat
    BY <1>1 DEF UnboundedInv, Items
  <1>3. /\ data_' \in Seq(Items) /\ Len(data_') = Len(data_) + 1
        /\ \A i \in 1..Len(data_) : data_'[i] = data_[i]
        /\ data_'[Len(data_')] = item
    BY <1>1, <1>2
  <1>4. /\ sent' \in [Producers -> 0..PutLimit] /\ sent'[p] = sent[p] + 1
        /\ \A q \in Producers : sent[q] <= sent'[q] /\ sent[q] \in Nat /\ sent'[q] \in Nat
    BY <1>1, <1>2 DEF UnboundedInv
  <1>5. ASSUME NEW i \in 1..Len(data_)
        PROVE  /\ data_[i] \in Items /\ data_[i][1] \in Producers /\ data_[i][2] \in Nat
               /\ data_[i][2] <= sent[data_[i][1]]
               /\ data_[i] # item
    <2>1. data_[i] \in Items /\ data_[i][2] <= sent[data_[i][1]]
      BY <1>2 DEF UnboundedInv
    <2>2. item[1] = p /\ item[2] = sent[p] + 1
      OBVIOUS
    <2> QED BY <1>2, <2>1, <2>2 DEF Items
  <1> HIDE DEF item
  <1>6. \A i \in 1..Len(data_') : data_'[i][2] <= sent'[data_'[i][1]]
    <2>1. item[1] = p /\ item[2] = sent[p] + 1
      BY DEF item
    <2> SUFFICES ASSUME NEW i \in 1..Len(data_') PROVE data_'[i][2] <= sent'[data_'[i][1]]
      OBVIOUS
    <2>2. CASE i = Len(data_')
      BY <1>3, <1>4, <2>1, <2>2
    <2>3. CASE i # Len(data_')
      <3>1. i \in 1..Len(data_) BY <1>2, <1>3, <2>3
      <3>2. data_'[i] = data_[i] BY <1>3, <3>1
      <3> DEFINE q == data_[i][1]
                 k == data_[i][2]
      <3>3. q \in Producers /\ k \in Nat /\ k <= sent[q]
        BY <1>5, <3>1
      <3> HIDE DEF q, k
      <3>4. k <= sent'[q]
        BY <1>4, <3>3
      <3> QED BY <3>2, <3>4 DEF q, k
    <2> QED BY <2>2, <2>3
  <1>7. \A i, j \in 1..Len(data_') : data_'[i] = data_'[j] => i = j
    <2>1. \A i \in 1..Len(data_') : i = Len(data_') \/ i \in 1..Len(data_)
      BY <1>2, <1>3
    <2> QED BY <1>3, <1>5, <2>1 DEF UnboundedInv
  <1>8. pc' \in [Consumers -> {"ready", "not_empty", "woken"}] /\ NoItemForgotten'
    <2>1. CASE Blocked(pc, "not_empty") = {}
      <3>1. pc' = pc
        BY <1>1, <2>1 DEF Notified
      <3> QED BY <2>1, <3>1 DEF UnboundedInv, NoItemForgotten
    <2>2. CASE Blocked(pc, "not_empty") # {}
      <3>1. PICK u \in Blocked(pc, "not_empty") : pc' = [pc EXCEPT ![u] = "woken"]
        BY <1>1, <2>2 DEF Notified
      <3>2. u \in Consumers /\ pc[u] = "not_empty"
        BY DEF Blocked, UnboundedInv
      <3>3. Woken(Consumers)' = Woken(Consumers) \cup {u} /\ u \notin Woken(Consumers)
        BY <3>1, <3>2 DEF Woken, UnboundedInv
      <3>4. Cardinality(Woken(Consumers)') = Cardinality(Woken(Consumers)) + 1
        BY <3>2, <3>3, WokenGains
      <3>5. Len(data_) <= Cardinality(Woken(Consumers)) /\ Cardinality(Woken(Consumers)) \in Nat
        BY <2>2, WokenFinite DEF UnboundedInv, NoItemForgotten
      <3>6. pc' \in [Consumers -> {"ready", "not_empty", "woken"}]
        BY <3>1 DEF UnboundedInv
      <3> QED BY <1>2, <1>3, <3>4, <3>5, <3>6 DEF NoItemForgotten
    <2> QED BY <2>1, <2>2
  <1> QED BY <1>3, <1>4, <1>6, <1>7, <1>8 DEF UnboundedInv

\* A take removes the first item, or blocks when there is none.
LEMMA UnboundedTake ==
  ASSUME UnboundedInv, NEW c \in Consumers, Unbounded!Take(c)
  PROVE  UnboundedInv'
  <1> USE ThreadsAssumption
  <1>1. pc[c] \in {"ready", "woken"} /\ UNCHANGED sent
    BY DEF Unbounded!Take
  <1>2. CASE data_ = <<>>
    <2>1. UNCHANGED data_ /\ pc' = [pc EXCEPT ![c] = "not_empty"]
      BY <1>2 DEF Unbounded!Take
    <2>2. Cardinality(Woken(Consumers)') \in Nat
      <3>1. Woken(Consumers)' \subseteq Consumers
        BY DEF Woken
      <3> QED BY <3>1, FS_Subset, FS_CardinalityType
    <2>3. NoItemForgotten'
      <3>1. Len(data_') = 0
        BY <1>2, <2>1
      <3> QED BY <2>2, <3>1 DEF NoItemForgotten
    <2> QED BY <1>1, <2>1, <2>3 DEF UnboundedInv
  <1>3. CASE data_ # <<>>
    <2>1. data_' = Tail(data_) /\ pc' = [pc EXCEPT ![c] = "ready"]
      BY <1>3 DEF Unbounded!Take
    <2>2. /\ data_' \in Seq(Items) /\ Len(data_') = Len(data_) - 1
          /\ Len(data_) \in Nat /\ Len(data_') \in Nat
          /\ \A i \in 1..Len(data_') : data_'[i] = data_[i + 1]
      BY <1>3, <2>1 DEF UnboundedInv
    <2>3. \A i \in 1..Len(data_') : i + 1 \in 1..Len(data_)
      BY <2>2
    <2>4. \A i \in 1..Len(data_') : data_'[i][2] <= sent'[data_'[i][1]]
      BY <1>1, <2>2, <2>3 DEF UnboundedInv
    <2>5. \A i, j \in 1..Len(data_') : data_'[i] = data_'[j] => i = j
      <3> SUFFICES ASSUME NEW i \in 1..Len(data_'), NEW j \in 1..Len(data_'),
                          data_'[i] = data_'[j]
                   PROVE  i = j
        OBVIOUS
      <3>1. data_[i + 1] = data_[j + 1] /\ i + 1 \in 1..Len(data_) /\ j + 1 \in 1..Len(data_)
        BY <2>2, <2>3
      <3>2. i + 1 = j + 1
        BY <3>1 DEF UnboundedInv
      <3> QED BY <3>2
    <2>6. Woken(Consumers)' = Woken(Consumers) \ {c}
      BY <1>1, <2>1 DEF Woken, UnboundedInv
    <2>7. /\ Cardinality(Woken(Consumers)) \in Nat
          /\ Cardinality(Woken(Consumers)') \in Nat
          /\ Cardinality(Woken(Consumers)') >= Cardinality(Woken(Consumers)) - 1
      BY <2>6, WokenLoses, WokenFinite
    <2>8. Blocked(pc', "not_empty") \subseteq Blocked(pc, "not_empty")
      BY <2>1 DEF Blocked, UnboundedInv
    <2>9. NoItemForgotten'
      BY <2>2, <2>7, <2>8 DEF UnboundedInv, NoItemForgotten
    <2> QED BY <1>1, <2>1, <2>2, <2>4, <2>5, <2>9 DEF UnboundedInv
  <1> QED BY <1>2, <1>3

\* A wake-up without a notification only adds a woken consumer.
LEMMA UnboundedSpurious ==
  ASSUME UnboundedInv, NEW c \in Consumers, Unbounded!SpuriousWakeup(c)
  PROVE  UnboundedInv'
  <1> USE ThreadsAssumption
  <1>1. /\ pc[c] = "not_empty" /\ pc' = [pc EXCEPT ![c] = "woken"]
        /\ UNCHANGED <<data_, sent>>
    BY DEF Unbounded!SpuriousWakeup
  <1>2. Woken(Consumers)' = Woken(Consumers) \cup {c} /\ c \notin Woken(Consumers)
    BY <1>1 DEF Woken, UnboundedInv
  <1>3. Cardinality(Woken(Consumers)') = Cardinality(Woken(Consumers)) + 1
    BY <1>2, WokenGains
  <1>4. Len(data_) <= Cardinality(Woken(Consumers)) /\ Cardinality(Woken(Consumers)) \in Nat
    BY <1>1, WokenFinite DEF UnboundedInv, NoItemForgotten, Blocked
  <1>5. Len(data_) \in Nat
    BY DEF UnboundedInv
  <1>6. NoItemForgotten'
    BY <1>1, <1>3, <1>4, <1>5 DEF NoItemForgotten
  <1> QED BY <1>1, <1>6 DEF UnboundedInv

------------------------------------------------------------------------------
(* Both queues. *)

\* Whichever queue it is has its invariant.
EitherInv == \/ kind = "bounded" /\ IInv
             \/ kind = "unbounded" /\ UnboundedInv

LEMMA EitherInvHolds == SpecEither => []EitherInv
  <1>1. InitEither => EitherInv
    BY InitIInv, UnboundedInit DEF InitEither, EitherInv
  <1>2. EitherInv /\ [NextEither]_<<kind, data_, pc, sent, received>> => EitherInv'
    <2> SUFFICES ASSUME EitherInv, [NextEither]_<<kind, data_, pc, sent, received>>
                 PROVE  EitherInv'
      OBVIOUS
    <2>1. kind' = kind
      BY DEF NextEither
    <2>2. CASE kind = "bounded"
      <3>1. IInv /\ [Next]_vars
        BY <2>2 DEF EitherInv, NextEither, vars
      <3> QED BY <2>1, <2>2, <3>1, StepIInv DEF EitherInv
    <2>3. CASE kind = "unbounded"
      <3>1. UnboundedInv /\ (Unbounded!Next \/ UNCHANGED <<data_, pc, sent, received>>)
        BY <2>3 DEF EitherInv, NextEither
      <3>2. ASSUME UNCHANGED <<data_, pc, sent, received>> PROVE UnboundedInv'
        BY <3>1, <3>2 DEF UnboundedInv, NoItemForgotten, Woken, Blocked
      <3>3. UnboundedInv'
        BY <3>1, <3>2, UnboundedPut, UnboundedTake, UnboundedSpurious DEF Unbounded!Next
      <3> QED BY <2>1, <2>3, <3>3 DEF EitherInv
    <2> QED BY <2>2, <2>3 DEF EitherInv
  <1> QED BY <1>1, <1>2, PTL DEF SpecEither

\* In the queue without a bound, too, no item waits for a consumer that is blocked and
\* was not woken for it (BlockingQueue.h:20).
THEOREM NeitherForgetsItems == SpecEither => []NoItemForgotten
  <1>1. EitherInv => NoItemForgotten
    BY DEF EitherInv, IInv, UnboundedInv
  <1> QED BY <1>1, EitherInvHolds, PTL

\* The safety part of ImplementsFifo: every step of either queue is a step of a FIFO
\* with room for max_size_ items, or for all there can be, or leaves it unchanged.
THEOREM BothAreFifos ==
  SpecEither => FifoOfSize!Init /\ [][FifoOfSize!Next]_(FifoOfSize!vars)
  <1> DEFINE capacity == IF kind = "bounded" THEN max_size_
                         ELSE Cardinality(Producers) * PutLimit
  <1>1. Cardinality(Producers) * PutLimit \in Nat
    BY ItemsFinite, FS_CardinalityType
  <1>2. InitEither => FifoOfSize!Init
    BY <1>1, SizeAssumption
       DEF InitEither, Init, Unbounded!Init, FifoOfSize!Init
  <1>3. EitherInv /\ [NextEither]_<<kind, data_, pc, sent, received>>
           => [FifoOfSize!Next]_(FifoOfSize!vars)
    <2> SUFFICES ASSUME EitherInv, [NextEither]_<<kind, data_, pc, sent, received>>
                 PROVE  FifoOfSize!Next \/ UNCHANGED FifoOfSize!vars
      OBVIOUS
    <2>1. kind' = kind
      BY DEF NextEither
    <2>2. CASE UNCHANGED <<data_, sent, received>>
      BY <2>1, <2>2 DEF FifoOfSize!vars
    <2>3. CASE kind = "bounded" /\ Next
      <3>1. ASSUME NEW p \in Producers, Put(p) PROVE FifoOfSize!Send(p) \/ UNCHANGED FifoOfSize!vars
        <4>1. Len(data_) \in Nat /\ max_size_ \in Nat
          BY <2>3, SizeAssumption DEF EitherInv, IInv, TypeOK
        <4> QED BY <2>1, <2>3, <3>1, <4>1 DEF Put, is_full, FifoOfSize!Send, FifoOfSize!vars
      <3>2. ASSUME NEW c \in Consumers, Take(c) PROVE FifoOfSize!Receive \/ UNCHANGED FifoOfSize!vars
        BY <2>1, <3>2 DEF Take, is_empty, FifoOfSize!Receive, FifoOfSize!vars
      <3>3. ASSUME NEW t \in Threads, SpuriousWakeup(t) PROVE UNCHANGED FifoOfSize!vars
        BY <2>1, <3>3 DEF SpuriousWakeup, FifoOfSize!vars
      <3> QED BY <2>3, <3>1, <3>2, <3>3 DEF Next, FifoOfSize!Next
    <2>4. CASE kind = "unbounded" /\ Unbounded!Next
      <3>1. ASSUME NEW p \in Producers, Unbounded!Put(p) PROVE FifoOfSize!Send(p)
        <4>1. sent[p] < PutLimit
          BY <3>1 DEF Unbounded!Put
        <4>2. Len(data_) < Cardinality(Producers) * PutLimit
          BY <2>4, <4>1, RoomForAll DEF EitherInv
        <4> QED BY <2>1, <2>4, <3>1, <4>2 DEF Unbounded!Put, FifoOfSize!Send
      <3>2. ASSUME NEW c \in Consumers, Unbounded!Take(c)
            PROVE  FifoOfSize!Receive \/ UNCHANGED FifoOfSize!vars
        BY <2>1, <3>2 DEF Unbounded!Take, FifoOfSize!Receive, FifoOfSize!vars
      <3>3. ASSUME NEW c \in Consumers, Unbounded!SpuriousWakeup(c)
            PROVE  UNCHANGED FifoOfSize!vars
        BY <2>1, <3>3 DEF Unbounded!SpuriousWakeup, FifoOfSize!vars
      <3> QED BY <2>4, <3>1, <3>2, <3>3 DEF Unbounded!Next, FifoOfSize!Next
    <2> QED BY <2>2, <2>3, <2>4 DEF NextEither
  <1> QED BY <1>2, <1>3, EitherInvHolds, PTL DEF SpecEither
===============================================================================
