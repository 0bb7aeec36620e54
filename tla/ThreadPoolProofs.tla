--------------------------- MODULE ThreadPoolProofs ----------------------------
(***************************************************************************)
(* Proofs about ThreadPool, for all callers, numbers of workers, limits of *)
(* the queue and tasks, also those that throw or call run(): no            *)
(* notification is missing, stop() releases whoever is blocked, the pool   *)
(* is quiet when stop() has returned, and it implements TaskExecutor.      *)
(***************************************************************************)
EXTENDS ThreadPool, FiniteSetTheorems, SequenceTheorems, TLAPS

\* A thread inside run(), or inside a task, has the task on its stack.
Stacks ==
    \A t \in Threads : pc[t] \in {"locking", "not_full", "executing"} => stack[t] # <<>>

\* Callers are never where only a worker can be.
Places == \A c \in Callers : pc[c] \in {"outside", "locking", "not_full", "executing"}

\* running_ is set and cleared by the owner, and without a worker the queue is empty.
Phase ==
    /\ running_ <=> owner \in {"starting", "started"}
    /\ owner = "new" => threads_ = <<>> /\ queue_ = <<>>

\* A thread blocks only while the pool runs, and on not_full_ only if there is a limit.
Blocking ==
    \A t \in Threads :
        /\ pc[t] \in {"not_full", "not_empty"} => running_
        /\ pc[t] = "not_full" => max_queue_size_ > 0

\* A worker is absent until it is started, and has exited once it is joined.
Joins ==
    /\ \A w \in Workers : /\ w > Len(threads_) => pc[w] = "absent"
                          /\ w <= joined => pc[w] = "exited"
    /\ owner = "stopped" => joined = Len(threads_)

Shape == TypeOK /\ Stacks /\ Places /\ Phase /\ Blocking /\ Joins

\* The inductive invariant.
IInv == Shape /\ NoTaskForgotten /\ NoPlaceForgotten

------------------------------------------------------------------------------
\* The threads of S that are at a location are finitely many.
LEMMA AtFinite ==
  ASSUME NEW S, S = Workers \/ S = Threads, NEW location
  PROVE  /\ IsFiniteSet(At(S, location)) /\ Cardinality(At(S, location)) \in Nat
         /\ IsFiniteSet(At(S, location)') /\ Cardinality(At(S, location)') \in Nat
  <1>1. IsFiniteSet(Workers)
    BY NumberAssumption, FS_Interval DEF Workers
  <1>2. IsFiniteSet(Threads)
    BY <1>1, CallersAssumption, FS_Union DEF Threads
  <1>3. At(S, location) \subseteq S /\ At(S, location)' \subseteq S
    BY DEF At
  <1> QED BY <1>1, <1>2, <1>3, FS_Subset, FS_CardinalityType

\* One thread more at a location.
LEMMA AtGains ==
  ASSUME NEW S, S = Workers \/ S = Threads, NEW location,
         NEW u, u \notin At(S, location), At(S, location)' = At(S, location) \cup {u}
  PROVE  Cardinality(At(S, location)') = Cardinality(At(S, location)) + 1
  BY AtFinite, FS_AddElement

\* At most one thread fewer.
LEMMA AtLoses ==
  ASSUME NEW S, S = Workers \/ S = Threads, NEW location,
         NEW u, At(S, location) \subseteq At(S, location)' \cup {u}
  PROVE  Cardinality(At(S, location)') >= Cardinality(At(S, location)) - 1
  <1> DEFINE A == At(S, location)
             B == At(S, location)'
  <1>1. IsFiniteSet(A) /\ IsFiniteSet(B) /\ Cardinality(A) \in Nat /\ Cardinality(B) \in Nat
    BY AtFinite
  <1>2. IsFiniteSet(B \cup {u}) /\ Cardinality(B \cup {u}) <= Cardinality(B) + 1
    <2> HIDE DEF A, B
    <2>1. CASE u \in B
      <3>1. B \cup {u} = B
        BY <2>1
      <3> QED BY <1>1, <3>1
    <2>2. CASE u \notin B
      <3>1. IsFiniteSet(B \cup {u}) /\ Cardinality(B \cup {u}) = Cardinality(B) + 1
        BY <1>1, <2>2, FS_AddElement
      <3>2. Cardinality(B \cup {u}) \in Nat
        BY <3>1, FS_CardinalityType
      <3> QED BY <1>1, <3>1, <3>2
    <2> QED BY <2>1, <2>2
  <1>3. Cardinality(A) <= Cardinality(B \cup {u}) /\ Cardinality(B \cup {u}) \in Nat
    <2>1. A \subseteq B \cup {u}
      OBVIOUS
    <2> HIDE DEF A, B
    <2> QED BY <2>1, <1>2, FS_Subset, FS_CardinalityType
  <1> HIDE DEF A, B
  <1>4. Cardinality(B) >= Cardinality(A) - 1
    BY <1>1, <1>2, <1>3
  <1> QED BY <1>4 DEF A, B

\* None fewer.
LEMMA AtKeeps ==
  ASSUME NEW S, S = Workers \/ S = Threads, NEW location,
         At(S, location) \subseteq At(S, location)'
  PROVE  Cardinality(At(S, location)') >= Cardinality(At(S, location))
  BY AtFinite, FS_Subset, FS_CardinalityType

\* A thread that moves takes no task and loses no place: it was not the one that was
\* woken, or the queue says that there is nothing to wait for.
LEMMA MoveKeepsTasks ==
  ASSUME Shape, NoTaskForgotten, NEW t \in Threads, NEW loc \in Locations,
         pc' = [pc EXCEPT ![t] = loc], UNCHANGED running_,
         pc[t] # "taking", loc # "not_empty",
         UNCHANGED queue_
  PROVE  NoTaskForgotten'
  <1>1. At(Workers, "taking") \subseteq At(Workers, "taking")'
    BY DEF At, Shape, TypeOK, Threads
  <1>2. At(Workers, "not_empty")' \subseteq At(Workers, "not_empty")
    BY DEF At, Shape, TypeOK, Threads
  <1>3. /\ Cardinality(At(Workers, "taking")') >= Cardinality(At(Workers, "taking"))
        /\ Cardinality(At(Workers, "taking")') \in Nat
        /\ Cardinality(At(Workers, "taking")) \in Nat
    BY <1>1, AtKeeps, AtFinite
  <1>4. Len(queue_) \in Nat /\ Len(queue_') = Len(queue_)
    BY DEF Shape, TypeOK
  <1>5. CASE running_' /\ At(Workers, "not_empty")' # {}
    <2>1. Len(queue_) <= Cardinality(At(Workers, "taking"))
      BY <1>2, <1>5 DEF NoTaskForgotten
    <2> QED BY <1>3, <1>4, <2>1 DEF NoTaskForgotten
  <1> QED BY <1>5 DEF NoTaskForgotten

LEMMA MoveKeepsPlaces ==
  ASSUME Shape, NoPlaceForgotten, NEW t \in Threads, NEW loc \in Locations,
         pc' = [pc EXCEPT ![t] = loc], UNCHANGED <<running_, max_queue_size_>>,
         pc[t] # "locking", loc # "not_full",
         UNCHANGED queue_
  PROVE  NoPlaceForgotten'
  <1>1. At(Threads, "locking") \subseteq At(Threads, "locking")'
    BY DEF At, Shape, TypeOK
  <1>2. At(Threads, "not_full")' \subseteq At(Threads, "not_full")
    BY DEF At, Shape, TypeOK
  <1>3. /\ Cardinality(At(Threads, "locking")') >= Cardinality(At(Threads, "locking"))
        /\ Cardinality(At(Threads, "locking")') \in Nat
        /\ Cardinality(At(Threads, "locking")) \in Nat
    BY <1>1, AtKeeps, AtFinite
  <1>4. Len(queue_) \in Nat /\ Len(queue_') = Len(queue_) /\ max_queue_size_ \in Nat
    BY NumberAssumption DEF Shape, TypeOK
  <1>5. CASE running_' /\ At(Threads, "not_full")' # {}
    <2>1. max_queue_size_ - Len(queue_) <= Cardinality(At(Threads, "locking"))
      BY <1>2, <1>5 DEF NoPlaceForgotten
    <2> QED BY <1>3, <1>4, <2>1 DEF NoPlaceForgotten
  <1> QED BY <1>5 DEF NoPlaceForgotten

------------------------------------------------------------------------------
LEMMA ParameterTypes ==
  /\ Callers \cap Workers = {} /\ Threads = Callers \cup Workers
  /\ NumThreads \in Nat /\ MaxQueueSizes \subseteq Nat /\ TaskLimit \in Nat
  /\ Workers = 1..NumThreads
  BY CallersAssumption, NumberAssumption DEF Threads, Workers

LEMMA InitIInv == Init => IInv
  <1> SUFFICES ASSUME Init PROVE IInv
    OBVIOUS
  <1>1. TypeOK
    <2>1. queue_ \in Seq(Tasks) /\ Len(queue_) = 0 /\ threads_ \in Seq(BOOLEAN) /\ Len(threads_) = 0
      BY DEF Init
    <2>2. pc \in [Threads -> Locations] /\ owner \in OwnerLocations /\ running_ \in BOOLEAN
      BY DEF Init, Locations, OwnerLocations
    <2>3. stack \in [Threads -> Seq(Tasks)] /\ fate \in [Tasks -> Fates]
      BY DEF Init, Fates
    <2>4. max_queue_size_ = 0 /\ joined = 0
      BY DEF Init
    <2> QED BY <2>1, <2>2, <2>3, <2>4, ParameterTypes DEF TypeOK
  <1>2. Stacks /\ Places /\ Phase /\ Blocking /\ Joins
    BY ParameterTypes DEF Init, Stacks, Places, Phase, Blocking, Joins
  <1>3. NoTaskForgotten /\ NoPlaceForgotten
    BY DEF Init, NoTaskForgotten, NoPlaceForgotten
  <1> QED BY <1>1, <1>2, <1>3 DEF IInv, Shape

\* The parts of a stack, and where its thread goes on when the innermost call returns.
LEMMA StackParts ==
  ASSUME NEW s \in Seq(Tasks), s # <<>>
  PROVE  Last(s) \in Tasks /\ Front(s) \in Seq(Tasks)
  BY DEF Last, Front

LEMMA ResumeCases ==
  ASSUME NEW t \in Threads, NEW s
  PROVE  \/ Resume(t, s) = "executing" /\ s # <<>>
         \/ Resume(t, s) = "outside" /\ t \in Callers
         \/ Resume(t, s) = "loop" /\ t \notin Callers
  BY DEF Resume

\* What a notification does to the program counters.
LEMMA NotifyCases ==
  ASSUME NEW f \in [Threads -> Locations], NEW cond, NEW awake,
         pc' \in Notified(f, cond, awake)
  PROVE  \/ pc' = f /\ \A t \in Threads : f[t] # cond
         \/ \E u \in Threads : f[u] = cond /\ pc' = [f EXCEPT ![u] = awake]
  BY DEF Notified, Blocked

\* A thread moves on: all of Shape but the types of what else the step changes.
LEMMA MoveKeepsShape ==
  ASSUME Shape, NEW t \in Threads, NEW loc \in Locations,
         pc' = [pc EXCEPT ![t] = loc],
         UNCHANGED <<max_queue_size_, running_, threads_, owner, joined>>,
         queue_' \in Seq(Tasks), max_queue_size_ > 0 => Len(queue_') <= max_queue_size_,
         queue_' = queue_ \/ running_,
         stack' \in [Threads -> Seq(Tasks)], fate' \in [Tasks -> Fates],
         \A u \in Threads \ {t} : stack'[u] = stack[u],
         loc \in {"locking", "not_full", "executing"} => stack'[t] # <<>>,
         t \in Callers => loc \in {"outside", "locking", "not_full", "executing"},
         loc \in {"not_full", "not_empty"} => running_,
         loc = "not_full" => max_queue_size_ > 0,
         pc[t] \notin {"absent", "exited"}
  PROVE  Shape'
  <1>1. pc' \in [Threads -> Locations] /\ pc'[t] = loc /\ \A u \in Threads \ {t} : pc'[u] = pc[u]
    BY DEF Shape, TypeOK
  <1>2. TypeOK'
    BY <1>1 DEF Shape, TypeOK
  <1>3. Stacks'
    BY <1>1 DEF Shape, Stacks
  <1>4. Places'
    BY <1>1, ParameterTypes DEF Shape, Places
  <1>5. Phase'
    BY DEF Shape, Phase
  <1>6. Blocking'
    BY <1>1 DEF Shape, Blocking
  <1>7. Joins'
    BY <1>1, ParameterTypes DEF Shape, Joins
  <1> QED BY <1>2, <1>3, <1>4, <1>5, <1>6, <1>7 DEF Shape

------------------------------------------------------------------------------
(* run().                                                                   *)

LEMMA RunStep ==
  ASSUME IInv, NEW t \in Threads, NEW x \in Tasks, Run(t, x)
  PROVE  IInv'
  <1>1. /\ pc[t] \in {"outside", "executing"}
        /\ stack' = [stack EXCEPT ![t] = Append(@, x)]
        /\ UNCHANGED <<max_queue_size_, running_, queue_, threads_, owner, joined>>
    BY DEF Run
  <1>2. PICK loc \in {"executing", "locking"} : pc' = [pc EXCEPT ![t] = loc]
    BY DEF Run
  <1>3. fate' \in [Tasks -> Fates]
    BY DEF Run, Become, IInv, Shape, TypeOK, Fates
  <1>4. stack' \in [Threads -> Seq(Tasks)] /\ stack'[t] # <<>>
        /\ \A u \in Threads \ {t} : stack'[u] = stack[u]
    <2>1. stack \in [Threads -> Seq(Tasks)] /\ stack[t] \in Seq(Tasks)
      BY DEF IInv, Shape, TypeOK
    <2>2. Append(stack[t], x) \in Seq(Tasks) /\ Append(stack[t], x) # <<>>
      BY <2>1
    <2> QED BY <1>1, <2>1, <2>2
  <1>5. queue_' \in Seq(Tasks) /\ (max_queue_size_ > 0 => Len(queue_') <= max_queue_size_)
    BY <1>1 DEF IInv, Shape, TypeOK
  <1>6. loc \in Locations
    BY DEF Locations
  <1>7. Shape'
    BY <1>1, <1>2, <1>3, <1>4, <1>5, <1>6, MoveKeepsShape DEF IInv
  <1>8. NoTaskForgotten' /\ NoPlaceForgotten'
    BY <1>1, <1>2, <1>6, MoveKeepsTasks, MoveKeepsPlaces DEF IInv
  <1> QED BY <1>7, <1>8 DEF IInv

\* A task enters the queue, and a worker is woken for it if one is blocked.
LEMMA TaskEnters ==
  ASSUME IInv, NEW t \in Threads, pc[t] = "locking", running_, ~is_full,
         queue_' = Append(queue_, Last(stack[t])),
         pc' \in Notified(Return(t), "not_empty", "taking"),
         Pop(t), Become(Last(stack[t]), "queued"),
         UNCHANGED <<max_queue_size_, running_, threads_, owner, joined>>
  PROVE  IInv'
  <1> DEFINE x == Last(stack[t])
             loc == Resume(t, Front(stack[t]))
             f == [pc EXCEPT ![t] = loc]
  <1>1. stack[t] \in Seq(Tasks) /\ stack[t] # <<>> /\ x \in Tasks /\ Front(stack[t]) \in Seq(Tasks)
    BY StackParts DEF IInv, Shape, TypeOK, Stacks
  <1>2. /\ loc \in {"executing", "outside", "loop"}
        /\ loc = "executing" => Front(stack[t]) # <<>>
        /\ t \in Callers => loc # "loop"
    BY ResumeCases
  <1>3. f \in [Threads -> Locations] /\ f[t] = loc /\ \A u \in Threads \ {t} : f[u] = pc[u]
    BY <1>2 DEF IInv, Shape, TypeOK, Locations
  <1>4. \/ pc' = f /\ \A u \in Threads : f[u] # "not_empty"
        \/ \E u \in Threads : f[u] = "not_empty" /\ pc' = [f EXCEPT ![u] = "taking"]
    <2>1. pc' \in Notified(f, "not_empty", "taking")
      BY DEF Return
    <2> HIDE DEF f
    <2> QED BY <1>3, <2>1, NotifyCases
  <1>5. /\ Len(queue_) \in Nat /\ Len(queue_') = Len(queue_) + 1 /\ queue_' \in Seq(Tasks)
        /\ max_queue_size_ \in Nat
        /\ max_queue_size_ > 0 => Len(queue_') <= max_queue_size_
    <2>1. queue_ \in Seq(Tasks) /\ max_queue_size_ \in Nat
      BY ParameterTypes DEF IInv, Shape, TypeOK
    <2>2. max_queue_size_ > 0 => Len(queue_) < max_queue_size_
      BY <2>1 DEF is_full
    <2> HIDE DEF x
    <2> QED BY <1>1, <2>1, <2>2 DEF x
  <1> HIDE DEF x, loc, f
  <1>6. \A u \in Threads \ {t} :
           \/ pc'[u] = pc[u]
           \/ pc[u] = "not_empty" /\ pc'[u] = "taking" /\ u \notin Callers
    BY <1>3, <1>4 DEF IInv, Shape, Places
  <1>7. pc' \in [Threads -> Locations] /\ pc'[t] = loc
    BY <1>2, <1>3, <1>4 DEF Locations
  <1>8. Shape'
    <2>1. stack' \in [Threads -> Seq(Tasks)] /\ stack'[t] = Front(stack[t])
          /\ \A u \in Threads \ {t} : stack'[u] = stack[u]
      BY <1>1 DEF Pop, IInv, Shape, TypeOK
    <2>2. fate' \in [Tasks -> Fates]
      BY DEF Become, IInv, Shape, TypeOK, Fates
    <2>3. TypeOK'
      BY <1>5, <1>7, <2>1, <2>2 DEF IInv, Shape, TypeOK
    <2>4. Stacks'
      BY <1>2, <1>6, <1>7, <2>1 DEF IInv, Shape, Stacks
    <2>5. Places' /\ Blocking'
      BY <1>2, <1>6, <1>7, ParameterTypes DEF IInv, Shape, Places, Blocking
    <2>6. Phase'
      BY DEF IInv, Shape, Phase
    <2>7. Joins'
      BY <1>6, <1>7, ParameterTypes DEF IInv, Shape, Joins
    <2> QED BY <2>3, <2>4, <2>5, <2>6, <2>7 DEF Shape
  <1>9. NoTaskForgotten'
    <2>1. CASE pc' = f /\ \A u \in Threads : f[u] # "not_empty"
      BY <2>1, ParameterTypes DEF NoTaskForgotten, At
    <2>2. ASSUME NEW u \in Threads, f[u] = "not_empty", pc' = [f EXCEPT ![u] = "taking"]
          PROVE  NoTaskForgotten'
      <3>1. u # t /\ pc[u] = "not_empty" /\ u \in Workers
        BY <1>2, <1>3, <2>2, ParameterTypes DEF IInv, Shape, Places
      <3>2. /\ At(Workers, "taking")' = At(Workers, "taking") \cup {u}
            /\ u \notin At(Workers, "taking")
        BY <1>2, <1>3, <2>2, <3>1, ParameterTypes DEF At
      <3>3. Cardinality(At(Workers, "taking")') = Cardinality(At(Workers, "taking")) + 1
        BY <3>2, AtGains
      <3>4. Len(queue_) <= Cardinality(At(Workers, "taking"))
        BY <3>1 DEF IInv, NoTaskForgotten, At
      <3>5. Cardinality(At(Workers, "taking")) \in Nat
        BY AtFinite
      <3> QED BY <1>5, <3>3, <3>4, <3>5 DEF NoTaskForgotten
    <2> QED BY <1>4, <2>1, <2>2
  <1>10. NoPlaceForgotten'
    <2>1. At(Threads, "locking") \subseteq At(Threads, "locking")' \cup {t}
      BY <1>6 DEF At
    <2>2. At(Threads, "not_full")' \subseteq At(Threads, "not_full")
      BY <1>2, <1>6, <1>7 DEF At
    <2>3. /\ Cardinality(At(Threads, "locking")') >= Cardinality(At(Threads, "locking")) - 1
          /\ Cardinality(At(Threads, "locking")) \in Nat
          /\ Cardinality(At(Threads, "locking")') \in Nat
      BY <2>1, AtLoses, AtFinite
    <2>4. CASE At(Threads, "not_full")' # {}
      <3>1. max_queue_size_ - Len(queue_) <= Cardinality(At(Threads, "locking"))
        BY <2>2, <2>4 DEF IInv, NoPlaceForgotten
      <3> QED BY <1>5, <2>3, <3>1 DEF NoPlaceForgotten
    <2> QED BY <2>4 DEF NoPlaceForgotten
  <1> QED BY <1>8, <1>9, <1>10 DEF IInv

LEMMA RunLockedStep ==
  ASSUME IInv, NEW t \in Threads, RunLocked(t)
  PROVE  IInv'
  <1>1. /\ pc[t] = "locking"
        /\ UNCHANGED <<max_queue_size_, running_, threads_, owner, joined>>
        /\ \/ /\ is_full /\ running_
              /\ pc' = [pc EXCEPT ![t] = "not_full"]
              /\ UNCHANGED <<queue_, stack, fate>>
           \/ /\ ~running_
              /\ pc' = Return(t) /\ Pop(t) /\ Become(Last(stack[t]), "refused")
              /\ UNCHANGED queue_
           \/ /\ running_ /\ ~is_full
              /\ queue_' = Append(queue_, Last(stack[t]))
              /\ pc' \in Notified(Return(t), "not_empty", "taking")
              /\ Pop(t) /\ Become(Last(stack[t]), "queued")
    BY DEF RunLocked
  <1>2. CASE /\ is_full /\ running_
             /\ pc' = [pc EXCEPT ![t] = "not_full"]
             /\ UNCHANGED <<queue_, stack, fate>>
    <2>1. /\ stack' \in [Threads -> Seq(Tasks)] /\ fate' \in [Tasks -> Fates]
          /\ queue_' \in Seq(Tasks) /\ stack'[t] # <<>>
          /\ max_queue_size_ > 0 => Len(queue_') <= max_queue_size_
          /\ \A u \in Threads \ {t} : stack'[u] = stack[u]
      BY <1>1, <1>2 DEF IInv, Shape, TypeOK, Stacks
    <2>2. "not_full" \in Locations /\ max_queue_size_ > 0
      BY <1>2 DEF Locations, is_full
    <2>3. Shape'
      BY <1>1, <1>2, <2>1, <2>2, MoveKeepsShape DEF IInv
    <2>4. NoTaskForgotten'
      BY <1>1, <1>2, <2>2, MoveKeepsTasks DEF IInv
    <2>5. NoPlaceForgotten'
      <3>1. max_queue_size_ \in Nat /\ Len(queue_) \in Nat /\ max_queue_size_ - Len(queue_') <= 0
        BY <1>1, <1>2, ParameterTypes DEF IInv, Shape, TypeOK, is_full
      <3>2. Cardinality(At(Threads, "locking")') \in Nat
        BY AtFinite
      <3> QED BY <1>1, <3>1, <3>2 DEF NoPlaceForgotten
    <2> QED BY <2>3, <2>4, <2>5 DEF IInv
  <1>3. CASE /\ ~running_
             /\ pc' = Return(t) /\ Pop(t) /\ Become(Last(stack[t]), "refused")
             /\ UNCHANGED queue_
    <2> DEFINE loc == Resume(t, Front(stack[t]))
    <2>1. stack[t] \in Seq(Tasks) /\ stack[t] # <<>> /\ Front(stack[t]) \in Seq(Tasks)
      BY <1>1, StackParts DEF IInv, Shape, TypeOK, Stacks
    <2>2. /\ loc \in {"executing", "outside", "loop"}
          /\ loc = "executing" => Front(stack[t]) # <<>>
          /\ t \in Callers => loc # "loop"
      BY ResumeCases
    <2>3. pc' = [pc EXCEPT ![t] = loc]
      BY <1>3 DEF Return
    <2> HIDE DEF loc
    <2>4. /\ stack' \in [Threads -> Seq(Tasks)] /\ stack'[t] = Front(stack[t])
          /\ \A u \in Threads \ {t} : stack'[u] = stack[u]
      BY <1>3, <2>1 DEF Pop, IInv, Shape, TypeOK
    <2>5. /\ fate' \in [Tasks -> Fates] /\ queue_' \in Seq(Tasks)
          /\ max_queue_size_ > 0 => Len(queue_') <= max_queue_size_
      BY <1>3 DEF Become, IInv, Shape, TypeOK, Fates
    <2>6. loc \in Locations
      BY <2>2 DEF Locations
    <2>7. Shape'
      BY <1>1, <1>3, <2>2, <2>3, <2>4, <2>5, <2>6, MoveKeepsShape DEF IInv
    <2>8. NoTaskForgotten' /\ NoPlaceForgotten'
      BY <1>1, <1>3 DEF NoTaskForgotten, NoPlaceForgotten
    <2> QED BY <2>7, <2>8 DEF IInv
  <1>4. CASE /\ running_ /\ ~is_full
             /\ queue_' = Append(queue_, Last(stack[t]))
             /\ pc' \in Notified(Return(t), "not_empty", "taking")
             /\ Pop(t) /\ Become(Last(stack[t]), "queued")
    BY <1>1, <1>4, TaskEnters
  <1> QED BY <1>1, <1>2, <1>3, <1>4

------------------------------------------------------------------------------
(* The workers and the tasks.                                               *)

\* A worker takes a task, and a caller is woken for the place if one is blocked.
LEMMA TaskLeaves ==
  ASSUME IInv, NEW w \in Workers, pc[w] = "taking", queue_ # <<>>, Take(w)
  PROVE  IInv'
  <1> DEFINE f == [pc EXCEPT ![w] = "executing"]
  <1>1. /\ queue_' = Tail(queue_)
        /\ stack' = [stack EXCEPT ![w] = Append(@, Head(queue_))]
        /\ Become(Head(queue_), "running")
        /\ IF max_queue_size_ > 0 THEN pc' \in Notified(f, "not_full", "locking") ELSE pc' = f
        /\ UNCHANGED <<max_queue_size_, running_, threads_, owner, joined>>
    BY DEF Take
  <1>2. w \in Threads /\ w \notin Callers
    BY ParameterTypes
  <1>3. f \in [Threads -> Locations] /\ f[w] = "executing" /\ \A u \in Threads \ {w} : f[u] = pc[u]
    BY <1>2 DEF IInv, Shape, TypeOK, Locations
  <1>4. \/ pc' = f /\ \A u \in Threads : f[u] # "not_full"
        \/ \E u \in Threads : f[u] = "not_full" /\ pc' = [f EXCEPT ![u] = "locking"]
    <2>1. CASE max_queue_size_ > 0
      <3> HIDE DEF f
      <3> QED BY <1>1, <1>3, <2>1, NotifyCases
    <2>2. CASE ~(max_queue_size_ > 0)
      BY <1>1, <1>3, <2>2 DEF IInv, Shape, Blocking
    <2> QED BY <2>1, <2>2
  <1> HIDE DEF f
  <1>5. /\ Len(queue_) \in Nat /\ Len(queue_') = Len(queue_) - 1 /\ queue_' \in Seq(Tasks)
        /\ Len(queue_') \in Nat /\ Head(queue_) \in Tasks
        /\ max_queue_size_ \in Nat
        /\ max_queue_size_ > 0 => Len(queue_') <= max_queue_size_
    BY <1>1, ParameterTypes DEF IInv, Shape, TypeOK
  <1>6. \A u \in Threads \ {w} :
           \/ pc'[u] = pc[u]
           \/ pc[u] = "not_full" /\ pc'[u] = "locking"
    BY <1>3, <1>4
  <1>7. pc' \in [Threads -> Locations] /\ pc'[w] = "executing"
    <2>1. CASE pc' = f
      BY <1>3, <2>1
    <2>2. ASSUME NEW u \in Threads, f[u] = "not_full", pc' = [f EXCEPT ![u] = "locking"]
          PROVE  pc' \in [Threads -> Locations] /\ pc'[w] = "executing"
      <3>1. u # w /\ "locking" \in Locations
        BY <1>3, <2>2 DEF Locations
      <3> HIDE DEF Locations
      <3> QED BY <1>2, <1>3, <2>2, <3>1
    <2> QED BY <1>4, <2>1, <2>2
  <1>8. Shape'
    <2>1. /\ stack' \in [Threads -> Seq(Tasks)] /\ stack'[w] # <<>>
          /\ \A u \in Threads \ {w} : stack'[u] = stack[u]
      <3>1. stack \in [Threads -> Seq(Tasks)] /\ stack[w] \in Seq(Tasks)
        BY <1>2 DEF IInv, Shape, TypeOK
      <3>2. Append(stack[w], Head(queue_)) \in Seq(Tasks) /\ Append(stack[w], Head(queue_)) # <<>>
        <4> DEFINE x == Head(queue_)
        <4>1. x \in Tasks
          BY <1>5
        <4> HIDE DEF x
        <4>2. Append(stack[w], x) \in Seq(Tasks) /\ Append(stack[w], x) # <<>>
          BY <3>1, <4>1
        <4> QED BY <4>2 DEF x
      <3> QED BY <1>1, <1>2, <3>1, <3>2
    <2>2. fate' \in [Tasks -> Fates]
      BY <1>1 DEF Become, IInv, Shape, TypeOK, Fates
    <2>3. TypeOK'
      BY <1>1, <1>5, <1>7, <2>1, <2>2 DEF IInv, Shape, TypeOK
    <2>4. Stacks'
      BY <1>6, <1>7, <2>1 DEF IInv, Shape, Stacks
    <2>5. Places' /\ Blocking'
      BY <1>1, <1>2, <1>6, <1>7, ParameterTypes DEF IInv, Shape, Places, Blocking
    <2>6. Phase'
      BY <1>1 DEF IInv, Shape, Phase
    <2>7. Joins'
      BY <1>1, <1>6, <1>7, ParameterTypes DEF IInv, Shape, Joins
    <2> QED BY <2>3, <2>4, <2>5, <2>6, <2>7 DEF Shape
  <1>9. NoTaskForgotten'
    <2>1. At(Workers, "taking") \subseteq At(Workers, "taking")' \cup {w}
      BY <1>6, ParameterTypes DEF At
    <2>2. At(Workers, "not_empty")' \subseteq At(Workers, "not_empty")
      BY <1>6, <1>7, ParameterTypes DEF At
    <2>3. /\ Cardinality(At(Workers, "taking")') >= Cardinality(At(Workers, "taking")) - 1
          /\ Cardinality(At(Workers, "taking")) \in Nat
          /\ Cardinality(At(Workers, "taking")') \in Nat
      BY <2>1, AtLoses, AtFinite
    <2>4. CASE running_' /\ At(Workers, "not_empty")' # {}
      <3>1. Len(queue_) <= Cardinality(At(Workers, "taking"))
        BY <1>1, <2>2, <2>4 DEF IInv, NoTaskForgotten
      <3> QED BY <1>5, <2>3, <3>1 DEF NoTaskForgotten
    <2> QED BY <2>4 DEF NoTaskForgotten
  <1>10. NoPlaceForgotten'
    <2>1. CASE pc' = f /\ \A u \in Threads : f[u] # "not_full"
      BY <2>1 DEF NoPlaceForgotten, At
    <2>2. ASSUME NEW u \in Threads, f[u] = "not_full", pc' = [f EXCEPT ![u] = "locking"]
          PROVE  NoPlaceForgotten'
      <3>1. u # w /\ pc[u] = "not_full" /\ running_
        BY <1>3, <2>2 DEF IInv, Shape, Blocking
      <3>2. /\ At(Threads, "locking")' = At(Threads, "locking") \cup {u}
            /\ u \notin At(Threads, "locking")
        BY <1>2, <1>3, <2>2, <3>1 DEF At
      <3>3. Cardinality(At(Threads, "locking")') = Cardinality(At(Threads, "locking")) + 1
        BY <3>2, AtGains
      <3>4. max_queue_size_ - Len(queue_) <= Cardinality(At(Threads, "locking"))
        BY <3>1 DEF IInv, NoPlaceForgotten, At
      <3>5. Cardinality(At(Threads, "locking")) \in Nat
        BY AtFinite
      <3> QED BY <1>1, <1>5, <3>3, <3>4, <3>5 DEF NoPlaceForgotten
    <2> QED BY <1>4, <2>1, <2>2
  <1> QED BY <1>8, <1>9, <1>10 DEF IInv

\* take() finds no task: it waits, or it goes back to the loop.
LEMMA TakeStep ==
  ASSUME IInv, NEW w \in Workers, Take(w)
  PROVE  IInv'
  <1>1. CASE queue_ # <<>>
    BY <1>1, TaskLeaves DEF Take
  <1>2. CASE queue_ = <<>>
    <2> DEFINE loc == IF running_ THEN "not_empty" ELSE "loop"
    <2>1. /\ pc[w] = "taking" /\ pc' = [pc EXCEPT ![w] = loc]
          /\ UNCHANGED <<max_queue_size_, running_, queue_, threads_, stack, owner, joined, fate>>
      BY <1>2 DEF Take
    <2>2. w \in Threads /\ w \notin Callers
      BY ParameterTypes
    <2>3. loc \in Locations /\ loc \in {"not_empty", "loop"} /\ (loc = "not_empty" => running_)
      BY DEF Locations
    <2> HIDE DEF loc
    <2>4. /\ stack' \in [Threads -> Seq(Tasks)] /\ fate' \in [Tasks -> Fates]
          /\ queue_' \in Seq(Tasks)
          /\ max_queue_size_ > 0 => Len(queue_') <= max_queue_size_
          /\ \A u \in Threads \ {w} : stack'[u] = stack[u]
      BY <2>1 DEF IInv, Shape, TypeOK
    <2>5. Shape'
      BY <2>1, <2>2, <2>3, <2>4, MoveKeepsShape DEF IInv
    <2>6. NoPlaceForgotten'
      BY <2>1, <2>2, <2>3, MoveKeepsPlaces DEF IInv
    <2>7. NoTaskForgotten'
      <3>1. Len(queue_') = 0
        BY <1>2, <2>1
      <3>2. Cardinality(At(Workers, "taking")') \in Nat
        BY AtFinite
      <3> QED BY <3>1, <3>2 DEF NoTaskForgotten
    <2> QED BY <2>5, <2>6, <2>7 DEF IInv
  <1> QED BY <1>1, <1>2

\* A step that only moves a thread, to where it waits for nothing and blocks on nothing.
LEMMA MoveStep ==
  ASSUME IInv, NEW t \in Threads, NEW loc \in Locations,
         pc' = [pc EXCEPT ![t] = loc],
         UNCHANGED <<max_queue_size_, running_, queue_, threads_, owner, joined>>,
         pc[t] \notin {"absent", "exited", "locking", "taking"},
         stack' \in [Threads -> Seq(Tasks)], fate' \in [Tasks -> Fates],
         \A u \in Threads \ {t} : stack'[u] = stack[u],
         loc \notin {"not_full", "not_empty"},
         loc \in {"locking", "executing"} => stack'[t] # <<>>,
         t \in Callers => loc \in {"outside", "locking", "executing"}
  PROVE  IInv'
  <1>1. /\ queue_' \in Seq(Tasks)
        /\ max_queue_size_ > 0 => Len(queue_') <= max_queue_size_
    BY DEF IInv, Shape, TypeOK
  <1>2. Shape'
    BY <1>1, MoveKeepsShape DEF IInv
  <1>3. NoTaskForgotten' /\ NoPlaceForgotten'
    BY MoveKeepsTasks, MoveKeepsPlaces DEF IInv
  <1> QED BY <1>2, <1>3 DEF IInv

LEMMA WorkerStep ==
  ASSUME IInv, NEW w \in Workers, WorkerInit(w) \/ WorkerLoop(w)
  PROVE  IInv'
  <1>1. PICK loc \in {"loop", "exited", "taking"} : pc' = [pc EXCEPT ![w] = loc]
    BY DEF WorkerInit, WorkerLoop
  <1>2. /\ pc[w] \in {"init", "loop"}
        /\ UNCHANGED <<max_queue_size_, running_, queue_, threads_, stack, owner, joined, fate>>
    BY DEF WorkerInit, WorkerLoop
  <1>3. w \in Threads /\ w \notin Callers /\ loc \in Locations
    BY ParameterTypes DEF Locations
  <1>4. /\ stack' \in [Threads -> Seq(Tasks)] /\ fate' \in [Tasks -> Fates]
        /\ \A u \in Threads \ {w} : stack'[u] = stack[u]
    BY <1>2 DEF IInv, Shape, TypeOK
  <1> QED BY <1>1, <1>2, <1>3, <1>4, MoveStep

LEMMA TaskReturnsStep ==
  ASSUME IInv, NEW t \in Threads, TaskReturns(t)
  PROVE  IInv'
  <1> DEFINE loc == Resume(t, Front(stack[t]))
  <1>1. /\ pc[t] = "executing" /\ pc' = [pc EXCEPT ![t] = loc]
        /\ Pop(t) /\ Become(Last(stack[t]), "done")
        /\ UNCHANGED <<max_queue_size_, running_, queue_, threads_, owner, joined>>
    BY DEF TaskReturns, Return
  <1>2. stack[t] \in Seq(Tasks) /\ Front(stack[t]) \in Seq(Tasks)
    BY <1>1, StackParts DEF IInv, Shape, TypeOK, Stacks
  <1>3. /\ loc \in {"executing", "outside", "loop"} /\ loc \in Locations
        /\ loc = "executing" => Front(stack[t]) # <<>>
        /\ t \in Callers => loc # "loop"
    BY ResumeCases DEF Locations
  <1> HIDE DEF loc
  <1>4. /\ stack' \in [Threads -> Seq(Tasks)] /\ stack'[t] = Front(stack[t])
        /\ \A u \in Threads \ {t} : stack'[u] = stack[u]
    BY <1>1, <1>2 DEF Pop, IInv, Shape, TypeOK
  <1>5. fate' \in [Tasks -> Fates]
    BY <1>1 DEF Become, IInv, Shape, TypeOK, Fates
  <1> QED BY <1>1, <1>3, <1>4, <1>5, MoveStep

LEMMA TaskThrowsStep ==
  ASSUME IInv, NEW t \in Threads, TaskThrows(t)
  PROVE  IInv'
  <1> DEFINE loc == IF t \in Callers THEN "outside" ELSE "exited"
  <1>1. /\ pc[t] = "executing" /\ pc' = [pc EXCEPT ![t] = loc]
        /\ stack' = [stack EXCEPT ![t] = <<>>]
        /\ UNCHANGED <<max_queue_size_, running_, queue_, threads_, owner, joined>>
    BY DEF TaskThrows
  <1>2. loc \in {"outside", "exited"} /\ loc \in Locations /\ (t \in Callers => loc = "outside")
    BY DEF Locations
  <1> HIDE DEF loc
  <1>3. /\ stack' \in [Threads -> Seq(Tasks)]
        /\ \A u \in Threads \ {t} : stack'[u] = stack[u]
    BY <1>1 DEF IInv, Shape, TypeOK
  <1>4. fate' \in [Tasks -> Fates]
    BY DEF TaskThrows, IInv, Shape, TypeOK, Fates
  <1> QED BY <1>1, <1>2, <1>3, <1>4, MoveStep

LEMMA SpuriousWakeupStep ==
  ASSUME IInv, NEW t \in Threads, SpuriousWakeup(t)
  PROVE  IInv'
  <1>1. PICK loc \in {"locking", "taking"} :
           /\ pc' = [pc EXCEPT ![t] = loc]
           /\ pc[t] = IF loc = "locking" THEN "not_full" ELSE "not_empty"
    BY DEF SpuriousWakeup
  <1>2. UNCHANGED <<max_queue_size_, running_, queue_, threads_, stack, owner, joined, fate>>
    BY DEF SpuriousWakeup
  <1>3. /\ loc \in Locations /\ (loc = "locking" => stack[t] # <<>>)
        /\ t \in Callers => loc = "locking"
    BY <1>1 DEF Locations, IInv, Shape, Stacks, Places
  <1>4. /\ stack' \in [Threads -> Seq(Tasks)] /\ fate' \in [Tasks -> Fates]
        /\ \A u \in Threads \ {t} : stack'[u] = stack[u]
    BY <1>2 DEF IInv, Shape, TypeOK
  <1> QED BY <1>1, <1>2, <1>3, <1>4, MoveStep

------------------------------------------------------------------------------
(* The owner.                                                               *)

LEMMA SetMaxQueueSizeStep ==
  ASSUME IInv, NEW size \in MaxQueueSizes, SetMaxQueueSize(size)
  PROVE  IInv'
  <1>1. /\ owner = "new" /\ ~running_ /\ queue_ = <<>> /\ max_queue_size_' = size
        /\ UNCHANGED <<running_, queue_, threads_, pc, stack, owner, joined, fate>>
    BY DEF SetMaxQueueSize, IInv, Shape, Phase
  <1>2. TypeOK'
    <2>1. Len(queue_') = 0 /\ size \in Nat
      BY <1>1, ParameterTypes
    <2> QED BY <1>1, <2>1 DEF IInv, Shape, TypeOK
  <1>3. Stacks' /\ Places' /\ Phase' /\ Blocking' /\ Joins'
    BY <1>1 DEF IInv, Shape, Stacks, Places, Phase, Blocking, Joins
  <1>4. NoTaskForgotten' /\ NoPlaceForgotten'
    BY <1>1 DEF NoTaskForgotten, NoPlaceForgotten
  <1> QED BY <1>2, <1>3, <1>4 DEF IInv, Shape

LEMMA StartStep ==
  ASSUME IInv, Start
  PROVE  IInv'
  <1>1. /\ owner = "new" /\ ~running_ /\ owner' = "starting" /\ running_' = TRUE
        /\ UNCHANGED <<max_queue_size_, queue_, threads_, pc, stack, joined, fate>>
    BY DEF Start, IInv, Shape, Phase
  <1>2. TypeOK'
    BY <1>1 DEF IInv, Shape, TypeOK, OwnerLocations
  <1>3. Stacks' /\ Places' /\ Phase' /\ Blocking' /\ Joins'
    BY <1>1 DEF IInv, Shape, Stacks, Places, Phase, Blocking, Joins
  <1>4. At(Workers, "not_empty")' = {} /\ At(Threads, "not_full")' = {}
    BY <1>1, ParameterTypes DEF At, IInv, Shape, Blocking
  <1>5. NoTaskForgotten' /\ NoPlaceForgotten'
    BY <1>4 DEF NoTaskForgotten, NoPlaceForgotten
  <1> QED BY <1>2, <1>3, <1>5 DEF IInv, Shape

LEMMA StartThreadStep ==
  ASSUME IInv, StartThread
  PROVE  IInv'
  <1> DEFINE w == Len(threads_) + 1
  <1>1. /\ owner = "starting" /\ w \in Workers
        /\ UNCHANGED <<max_queue_size_, running_, queue_, stack, owner, joined, fate>>
    BY DEF StartThread
  <1>2. PICK created \in BOOLEAN :
           /\ threads_' = Append(threads_, created)
           /\ pc' = IF created THEN [pc EXCEPT ![w] = "init"] ELSE pc
    BY DEF StartThread
  <1>3. /\ threads_ \in Seq(BOOLEAN) /\ Len(threads_) \in Nat
        /\ threads_' \in Seq(BOOLEAN) /\ Len(threads_') = w /\ w <= NumThreads
        /\ joined \in Nat /\ joined < w
    BY <1>1, <1>2, ParameterTypes DEF IInv, Shape, TypeOK
  <1>4. w \in Threads /\ w \notin Callers /\ pc[w] = "absent"
    BY <1>1, <1>3, ParameterTypes DEF IInv, Shape, Joins
  <1> HIDE DEF w
  <1>5. /\ pc' \in [Threads -> Locations] /\ \A u \in Threads \ {w} : pc'[u] = pc[u]
        /\ pc'[w] \in {"init", "absent"}
    <2>1. pc \in [Threads -> Locations] /\ "init" \in Locations
      BY DEF IInv, Shape, TypeOK, Locations
    <2> HIDE DEF Locations
    <2> QED BY <1>2, <1>4, <2>1
  <1>6. TypeOK'
    BY <1>1, <1>3, <1>5 DEF IInv, Shape, TypeOK
  <1>7. Stacks' /\ Places' /\ Blocking'
    BY <1>1, <1>4, <1>5, ParameterTypes DEF IInv, Shape, Stacks, Places, Blocking
  <1>8. Phase'
    BY <1>1 DEF IInv, Shape, Phase
  <1>9. Joins'
    <2>1. ASSUME NEW v \in Workers
          PROVE  (v > w => pc'[v] = "absent") /\ (v <= joined => pc'[v] = "exited")
      <3>1. v \in Nat /\ v \in Threads
        BY ParameterTypes
      <3>2. (v > Len(threads_) => pc[v] = "absent") /\ (v <= joined => pc[v] = "exited")
        BY DEF IInv, Shape, Joins
      <3> QED BY <1>3, <1>5, <3>1, <3>2 DEF w
    <2> QED BY <1>1, <1>3, <2>1 DEF Joins
  <1>10. /\ At(Workers, "taking") \subseteq At(Workers, "taking")'
         /\ At(Workers, "not_empty")' \subseteq At(Workers, "not_empty")
         /\ At(Threads, "locking") \subseteq At(Threads, "locking")'
         /\ At(Threads, "not_full")' \subseteq At(Threads, "not_full")
    BY <1>4, <1>5, ParameterTypes DEF At
  <1>11. /\ Len(queue_) \in Nat /\ Len(queue_') = Len(queue_)
         /\ max_queue_size_ \in Nat /\ max_queue_size_' = max_queue_size_ /\ running_' = running_
    BY <1>1, ParameterTypes DEF IInv, Shape, TypeOK
  <1>12. NoTaskForgotten'
    <2>1. /\ Cardinality(At(Workers, "taking")') >= Cardinality(At(Workers, "taking"))
          /\ Cardinality(At(Workers, "taking")') \in Nat
          /\ Cardinality(At(Workers, "taking")) \in Nat
      BY <1>10, AtKeeps, AtFinite
    <2>2. CASE running_' /\ At(Workers, "not_empty")' # {}
      <3>1. Len(queue_) <= Cardinality(At(Workers, "taking"))
        BY <1>10, <1>11, <2>2 DEF IInv, NoTaskForgotten
      <3> QED BY <1>11, <2>1, <3>1 DEF NoTaskForgotten
    <2> QED BY <2>2 DEF NoTaskForgotten
  <1>13. NoPlaceForgotten'
    <2>1. /\ Cardinality(At(Threads, "locking")') >= Cardinality(At(Threads, "locking"))
          /\ Cardinality(At(Threads, "locking")') \in Nat
          /\ Cardinality(At(Threads, "locking")) \in Nat
      BY <1>10, AtKeeps, AtFinite
    <2>2. CASE running_' /\ At(Threads, "not_full")' # {}
      <3>1. max_queue_size_ - Len(queue_) <= Cardinality(At(Threads, "locking"))
        BY <1>10, <1>11, <2>2 DEF IInv, NoPlaceForgotten
      <3> QED BY <1>11, <2>1, <3>1 DEF NoPlaceForgotten
    <2> QED BY <2>2 DEF NoPlaceForgotten
  <1> QED BY <1>6, <1>7, <1>8, <1>9, <1>12, <1>13 DEF IInv, Shape

LEMMA StopStep ==
  ASSUME IInv, Stop
  PROVE  IInv'
  <1>1. /\ owner = "started" /\ owner' = "joining" /\ running_' = FALSE
        /\ pc' = NotifiedAll(NotifiedAll(pc, "not_empty", "taking"), "not_full", "locking")
        /\ UNCHANGED <<max_queue_size_, queue_, threads_, stack, joined, fate>>
    BY DEF Stop
  <1>2. pc \in [Threads -> Locations]
    BY DEF IInv, Shape, TypeOK
  <1>3. /\ pc' \in [Threads -> Locations]
        /\ \A t \in Threads : pc'[t] = IF pc[t] = "not_empty" THEN "taking"
                                       ELSE IF pc[t] = "not_full" THEN "locking" ELSE pc[t]
    BY <1>1, <1>2 DEF NotifiedAll, Locations
  <1>4. TypeOK'
    BY <1>1, <1>3 DEF IInv, Shape, TypeOK, OwnerLocations
  <1>5. Stacks' /\ Places'
    BY <1>1, <1>3, ParameterTypes DEF IInv, Shape, Stacks, Places
  <1>6. Phase' /\ Blocking'
    BY <1>1, <1>3 DEF IInv, Shape, Phase, Blocking
  <1>7. Joins'
    BY <1>1, <1>3, ParameterTypes DEF IInv, Shape, Joins
  <1>8. NoTaskForgotten' /\ NoPlaceForgotten'
    BY <1>1 DEF NoTaskForgotten, NoPlaceForgotten
  <1> QED BY <1>4, <1>5, <1>6, <1>7, <1>8 DEF IInv, Shape

LEMMA StartedStep ==
  ASSUME IInv, Started
  PROVE  IInv'
  <1>1. /\ owner = "starting" /\ owner' = "started"
        /\ UNCHANGED <<max_queue_size_, running_, queue_, threads_, pc, stack, joined, fate>>
    BY DEF Started
  <1>2. TypeOK'
    BY <1>1 DEF IInv, Shape, TypeOK, OwnerLocations
  <1>3. Stacks' /\ Places' /\ Phase' /\ Blocking' /\ Joins'
    BY <1>1 DEF IInv, Shape, Stacks, Places, Phase, Blocking, Joins
  <1>4. NoTaskForgotten' /\ NoPlaceForgotten'
    BY <1>1 DEF IInv, NoTaskForgotten, NoPlaceForgotten, At
  <1> QED BY <1>2, <1>3, <1>4 DEF IInv, Shape

LEMMA StopJoinStep ==
  ASSUME IInv, StopJoin
  PROVE  IInv'
  <1>1. /\ owner = "joining" /\ owner' \in {"joining", "stopped"} /\ ~running_
        /\ UNCHANGED <<max_queue_size_, running_, queue_, threads_, pc, stack, fate>>
    BY DEF StopJoin, IInv, Shape, Phase
  <1>2. /\ Len(threads_) \in Nat /\ joined \in Nat /\ joined' \in 0..Len(threads_)
        /\ joined' = joined \/ (joined' = joined + 1 /\ pc[joined + 1] = "exited")
        /\ owner' = "stopped" => joined' = Len(threads_)
    BY DEF StopJoin, IInv, Shape, TypeOK
  <1>3. TypeOK'
    BY <1>1, <1>2 DEF IInv, Shape, TypeOK, OwnerLocations
  <1>4. Stacks' /\ Places' /\ Phase' /\ Blocking'
    BY <1>1 DEF IInv, Shape, Stacks, Places, Phase, Blocking
  <1>5. Joins'
    <2>1. ASSUME NEW v \in Workers, v <= joined'
          PROVE  pc[v] = "exited"
      <3>1. v \in Nat /\ (v <= joined => pc[v] = "exited")
        BY ParameterTypes DEF IInv, Shape, Joins
      <3> QED BY <1>2, <2>1, <3>1
    <2> QED BY <1>1, <1>2, <2>1 DEF IInv, Shape, Joins
  <1>6. NoTaskForgotten' /\ NoPlaceForgotten'
    BY <1>1 DEF NoTaskForgotten, NoPlaceForgotten
  <1> QED BY <1>3, <1>4, <1>5, <1>6 DEF IInv, Shape

------------------------------------------------------------------------------
LEMMA StepIInv == IInv /\ [Next]_vars => IInv'
  <1> SUFFICES ASSUME IInv, [Next]_vars PROVE IInv'
    OBVIOUS
  <1>1. ASSUME NEW t \in Threads, Progress(t) PROVE IInv'
    BY <1>1, RunLockedStep, TaskReturnsStep, TaskThrowsStep, WorkerStep, TakeStep DEF Progress
  <1>2. ASSUME NEW t \in Threads, SpuriousWakeup(t) PROVE IInv'
    BY <1>2, SpuriousWakeupStep
  <1>3. ASSUME NEW t \in Threads, NEW x \in Tasks, Run(t, x) PROVE IInv'
    BY <1>3, RunStep
  <1>4. ASSUME NEW size \in MaxQueueSizes, SetMaxQueueSize(size) PROVE IInv'
    BY <1>4, SetMaxQueueSizeStep
  <1>5. CASE Start \/ StartThread \/ Started \/ Stop \/ StopJoin
    BY <1>5, StartStep, StartThreadStep, StartedStep, StopStep, StopJoinStep
  <1>6. CASE UNCHANGED vars
    BY <1>6 DEF vars, IInv, Shape, TypeOK, Stacks, Places, Phase, Blocking, Joins,
                NoTaskForgotten, NoPlaceForgotten, At
  <1> QED BY <1>1, <1>2, <1>3, <1>4, <1>5, <1>6 DEF Next

\* In every reachable state the inductive invariant holds, and with it the types of the
\* variables and the assertion of run() that the queue respects its limit (ThreadPool.cc:78).
THEOREM Inductive == Spec => []IInv
  <1>1. Init => IInv
    BY InitIInv
  <1>2. IInv /\ [Next]_vars => IInv'
    BY StepIInv
  <1> QED BY <1>1, <1>2, PTL DEF Spec

\* No wake-up is lost on not_empty_ or not_full_, whatever the interleaving of run(),
\* take(), stop() and spurious wake-ups: one notification per task and per place is
\* enough (ThreadPool.cc:81,100).
THEOREM WakeupsAreNotLost == Spec => []NoWakeupLost
  <1>1. IInv => NoWakeupLost
    BY DEF IInv, NoWakeupLost
  <1> QED BY <1>1, Inductive, PTL

\* From the critical section of stop() on nobody is blocked in run() or take(), so that
\* the threads that stop() joins can come to their end (ThreadPool.cc:45-50).
THEOREM StopReleasesAll == Spec => []NobodyBlockedAfterStop
  <1>1. IInv => NobodyBlockedAfterStop
    BY ParameterTypes DEF IInv, Shape, Phase, Blocking, NobodyBlockedAfterStop, At
  <1> QED BY <1>1, Inductive, PTL

\* When stop() has returned every worker that was started has exited: nothing runs on the
\* members of the pool that is destroyed (ThreadPool.cc:51-54).
THEOREM StoppedPoolIsQuiet == Spec => []QuietAfterStop
  <1>1. IInv => QuietAfterStop
    <2> SUFFICES ASSUME IInv, owner = "stopped", NEW w \in Workers
                 PROVE  pc[w] \in {"absent", "exited"}
      BY DEF QuietAfterStop
    <2>1. joined = Len(threads_) /\ Len(threads_) \in Nat /\ w \in Nat
      BY ParameterTypes DEF IInv, Shape, Joins, TypeOK
    <2> QED BY <2>1 DEF IInv, Shape, Joins
  <1> QED BY <1>1, Inductive, PTL

------------------------------------------------------------------------------
(* The tasks: the pool implements TaskExecutor.                             *)

\* Where a thread is inside the critical section of run(), or about to enter it.
Offering == {"locking", "not_full"}

\* The tasks on a stack run, but for the one that its thread is in run() with.
OnStacks ==
    \A t \in Threads : \A i \in 1..Len(stack[t]) :
        fate[stack[t][i]] =
            IF pc[t] \in Offering /\ i = Len(stack[t]) THEN "offered" ELSE "running"

\* A thread that is in no task and not in run() has an empty stack.
OffStack ==
    \A t \in Threads : pc[t] \notin Offering /\ pc[t] # "executing" => stack[t] = <<>>

\* No task is on a stack twice, or on two stacks.
Apart ==
    \A t \in Threads, u \in Threads : \A i \in 1..Len(stack[t]), j \in 1..Len(stack[u]) :
        stack[t][i] = stack[u][j] => t = u /\ i = j

\* The tasks in the queue are those that were accepted, each once.
InQueue ==
    \A i \in 1..Len(queue_) :
        /\ fate[queue_[i]] = "queued"
        /\ \A j \in 1..Len(queue_) : queue_[i] = queue_[j] => i = j

\* Nobody is inside the critical section of run() before there is a worker.
InRun == \A t \in Threads : pc[t] \in Offering => threads_ # <<>>

TaskInv == OnStacks /\ OffStack /\ Apart /\ InQueue /\ InRun

\* A stack without its last element.
LEMMA FrontOfStack ==
  ASSUME NEW s \in Seq(Tasks), s # <<>>
  PROVE  /\ Len(s) \in Nat /\ Len(s) > 0 /\ Len(Front(s)) = Len(s) - 1
         /\ Last(s) = s[Len(s)] /\ Last(s) \in Tasks
         /\ \A i \in 1..(Len(s) - 1) : Front(s)[i] = s[i]
  <1>1. Len(s) \in Nat /\ Len(s) > 0
    OBVIOUS
  <1>2. Last(s) = s[Len(s)] /\ Last(s) \in Tasks
    BY StackParts DEF Last
  <1>3. \A i \in 1..(Len(s) - 1) : s[i] \in Tasks
    BY <1>1, ElementOfSeq
  <1>4. /\ Len(SubSeq(s, 1, Len(s) - 1)) = Len(s) - 1
        /\ \A i \in 1..(Len(s) - 1) : SubSeq(s, 1, Len(s) - 1)[i] = s[i]
    <2> DEFINE n == Len(s) - 1
    <2>1. n \in Int /\ 1 \in Int /\ \A i \in 1..n : s[i] \in Tasks
      BY <1>1, <1>3
    <2> HIDE DEF n
    <2>2. /\ Len(SubSeq(s, 1, n)) = IF 1 <= n THEN n - 1 + 1 ELSE 0
          /\ \A i \in 1..(n - 1 + 1) : SubSeq(s, 1, n)[i] = s[1 + i - 1]
      BY <2>1, SubSeqProperties
    <2>3. n >= 0 /\ n - 1 + 1 = n
      BY <1>1 DEF n
    <2>4. Len(SubSeq(s, 1, n)) = n /\ \A i \in 1..n : SubSeq(s, 1, n)[i] = s[i]
      BY <2>1, <2>2, <2>3
    <2> QED BY <2>4 DEF n
  <1> QED BY <1>1, <1>2, <1>4 DEF Front

\* A thread keeps its part in run(), and whether it is in a task.
SamePart(u) ==
    /\ pc'[u] \in Offering <=> pc[u] \in Offering
    /\ pc'[u] = "executing" <=> pc[u] = "executing"

\* The innermost call of a thread returns, and its task gets another fate.
LEMMA PopKeeps ==
  ASSUME IInv, TaskInv, NEW t \in Threads, pc[t] \in Offering \cup {"executing"},
         NEW f, Pop(t), Become(Last(stack[t]), f),
         pc'[t] = Resume(t, Front(stack[t])),
         \A u \in Threads \ {t} : SamePart(u),
         UNCHANGED threads_
  PROVE  /\ OnStacks' /\ OffStack' /\ Apart' /\ InRun'
         /\ \A y \in Tasks : y # Last(stack[t]) => fate'[y] = fate[y]
         /\ fate'[Last(stack[t])] = f
         /\ fate[Last(stack[t])] = IF pc[t] \in Offering THEN "offered" ELSE "running"
  <1> DEFINE n == Len(stack[t])
             x == Last(stack[t])
  <1>1. /\ stack \in [Threads -> Seq(Tasks)] /\ stack[t] \in Seq(Tasks) /\ stack[t] # <<>>
        /\ fate \in [Tasks -> Fates]
    BY DEF IInv, Shape, TypeOK, Stacks, Offering
  <1>2. /\ n \in Nat /\ n > 0 /\ x \in Tasks /\ x = stack[t][n]
        /\ Len(Front(stack[t])) = n - 1
        /\ \A i \in 1..(n - 1) : Front(stack[t])[i] = stack[t][i]
    BY <1>1, FrontOfStack
  <1>3. /\ \A u \in Threads \ {t} : stack'[u] = stack[u]
        /\ stack'[t] = Front(stack[t])
    BY <1>1 DEF Pop
  <1>4. /\ fate'[x] = f /\ \A y \in Tasks : y # x => fate'[y] = fate[y]
    BY <1>1, <1>2 DEF Become
  <1>5. /\ pc'[t] \notin Offering
        /\ pc'[t] = "executing" <=> Front(stack[t]) # <<>>
    BY DEF Resume, Offering
  <1>6. fate[x] = IF pc[t] \in Offering THEN "offered" ELSE "running"
    BY <1>2 DEF TaskInv, OnStacks
  <1>7. \A u \in Threads : \A i \in 1..Len(stack[u]) : stack[u][i] \in Tasks
    BY <1>1
  <1>8. \A u \in Threads : \A i \in 1..Len(stack'[u]) :
           /\ i \in 1..Len(stack[u]) /\ stack'[u][i] = stack[u][i] /\ stack[u][i] # x
           /\ u = t => i < n
    <2>1. ASSUME NEW u \in Threads, u # t, NEW i \in 1..Len(stack[u])
          PROVE  stack[u][i] # x
      BY <1>2, <2>1 DEF TaskInv, Apart
    <2>2. ASSUME NEW i \in 1..(n - 1)
          PROVE  i \in 1..n /\ stack[t][i] # x
      BY <1>2 DEF TaskInv, Apart
    <2> SUFFICES ASSUME NEW u \in Threads, NEW i \in 1..Len(stack'[u])
                 PROVE  /\ i \in 1..Len(stack[u]) /\ stack'[u][i] = stack[u][i]
                        /\ stack[u][i] # x
                        /\ u = t => i < n
      OBVIOUS
    <2>3. CASE u = t
      <3>1. i \in 1..(n - 1) /\ stack'[u][i] = stack[u][i]
        BY <1>2, <1>3, <2>3
      <3>2. i \in 1..n /\ i < n /\ stack[t][i] # x
        BY <1>2, <2>2, <3>1
      <3> QED BY <2>3, <3>1, <3>2
    <2>4. CASE u # t
      BY <1>3, <2>1, <2>4
    <2> QED BY <2>3, <2>4
  <1> HIDE DEF n, x
  <1>9. OnStacks'
    <2> SUFFICES ASSUME NEW u \in Threads, NEW i \in 1..Len(stack'[u])
                 PROVE  fate'[stack'[u][i]] = IF pc'[u] \in Offering /\ i = Len(stack'[u])
                                              THEN "offered" ELSE "running"
      BY DEF OnStacks
    <2>1. fate'[stack'[u][i]] = fate[stack[u][i]] /\ i \in 1..Len(stack[u])
      BY <1>4, <1>7, <1>8
    <2>2. fate[stack[u][i]] = IF pc[u] \in Offering /\ i = Len(stack[u])
                              THEN "offered" ELSE "running"
      BY <2>1 DEF TaskInv, OnStacks
    <2>3. CASE u = t
      BY <1>2, <1>5, <1>8, <2>1, <2>2, <2>3 DEF n
    <2>4. CASE u # t
      BY <1>3, <2>1, <2>2, <2>4 DEF SamePart
    <2> QED BY <2>3, <2>4
  <1>10. OffStack'
    BY <1>3, <1>5 DEF TaskInv, OffStack, SamePart
  <1>11. Apart'
    <2> SUFFICES ASSUME NEW u \in Threads, NEW v \in Threads,
                        NEW i \in 1..Len(stack'[u]), NEW j \in 1..Len(stack'[v]),
                        stack'[u][i] = stack'[v][j]
                 PROVE  u = v /\ i = j
      BY DEF Apart
    <2>1. i \in 1..Len(stack[u]) /\ j \in 1..Len(stack[v]) /\ stack[u][i] = stack[v][j]
      BY <1>8
    <2> QED BY <2>1 DEF TaskInv, Apart
  <1>12. InRun'
    BY <1>5 DEF TaskInv, InRun, SamePart
  <1> QED BY <1>4, <1>6, <1>9, <1>10, <1>11, <1>12 DEF x

\* A task of another fate than those of the stacks is put on a stack.
LEMMA PushKeeps ==
  ASSUME IInv, TaskInv, NEW t \in Threads, pc[t] \notin Offering,
         NEW x \in Tasks, fate[x] \notin {"running", "offered"},
         stack' = [stack EXCEPT ![t] = Append(@, x)],
         pc'[t] \in {"locking", "executing"},
         fate' = [fate EXCEPT ![x] = IF pc'[t] = "locking" THEN "offered" ELSE "running"],
         pc'[t] = "locking" => threads_ # <<>>,
         \A u \in Threads \ {t} : SamePart(u),
         UNCHANGED threads_
  PROVE  OnStacks' /\ OffStack' /\ Apart' /\ InRun'
  <1> DEFINE n == Len(stack[t])
  <1>1. /\ stack \in [Threads -> Seq(Tasks)] /\ stack[t] \in Seq(Tasks)
        /\ fate \in [Tasks -> Fates]
    BY DEF IInv, Shape, TypeOK
  <1>2. /\ n \in Nat /\ Len(stack'[t]) = n + 1 /\ stack'[t][n + 1] = x /\ stack'[t] # <<>>
        /\ \A i \in 1..n : stack'[t][i] = stack[t][i]
        /\ \A u \in Threads \ {t} : stack'[u] = stack[u]
    BY <1>1
  <1>3. /\ fate'[x] = IF pc'[t] = "locking" THEN "offered" ELSE "running"
        /\ \A y \in Tasks : y # x => fate'[y] = fate[y]
    BY <1>1
  <1>4. \A u \in Threads : \A i \in 1..Len(stack[u]) : stack[u][i] \in Tasks /\ stack[u][i] # x
    BY <1>1 DEF TaskInv, OnStacks
  <1>5. \A u \in Threads : Len(stack[u]) \in Nat
    BY <1>1
  <1> HIDE DEF n
  <1>6. \A u \in Threads : \A i \in 1..Len(stack'[u]) :
           \/ u = t /\ i = n + 1 /\ stack'[u][i] = x
           \/ /\ i \in 1..Len(stack[u]) /\ stack'[u][i] = stack[u][i] /\ stack[u][i] # x
              /\ u = t => i # Len(stack'[u])
    BY <1>2, <1>4 DEF n
  <1>7. OnStacks'
    <2> SUFFICES ASSUME NEW u \in Threads, NEW i \in 1..Len(stack'[u])
                 PROVE  fate'[stack'[u][i]] = IF pc'[u] \in Offering /\ i = Len(stack'[u])
                                              THEN "offered" ELSE "running"
      BY DEF OnStacks
    <2>1. CASE u = t /\ i = n + 1 /\ stack'[u][i] = x
      BY <1>2, <1>3, <2>1 DEF Offering
    <2>2. CASE /\ i \in 1..Len(stack[u]) /\ stack'[u][i] = stack[u][i] /\ stack[u][i] # x
               /\ u = t => i # Len(stack'[u])
      <3>1. fate'[stack'[u][i]] = fate[stack[u][i]]
        BY <1>3, <1>4, <2>2
      <3>2. fate[stack[u][i]] = IF pc[u] \in Offering /\ i = Len(stack[u])
                                THEN "offered" ELSE "running"
        BY <2>2 DEF TaskInv, OnStacks
      <3> QED BY <1>2, <2>2, <3>1, <3>2 DEF SamePart
    <2> QED BY <1>6, <2>1, <2>2
  <1>8. OffStack'
    BY <1>2 DEF TaskInv, OffStack, SamePart, Offering
  <1>9. Apart'
    <2> SUFFICES ASSUME NEW u \in Threads, NEW v \in Threads,
                        NEW i \in 1..Len(stack'[u]), NEW j \in 1..Len(stack'[v]),
                        stack'[u][i] = stack'[v][j]
                 PROVE  u = v /\ i = j
      BY DEF Apart
    <2>1. \/ u = t /\ i = n + 1 /\ stack'[u][i] = x
          \/ i \in 1..Len(stack[u]) /\ stack'[u][i] = stack[u][i] /\ stack[u][i] # x
      BY <1>6
    <2>2. \/ v = t /\ j = n + 1 /\ stack'[v][j] = x
          \/ j \in 1..Len(stack[v]) /\ stack'[v][j] = stack[v][j] /\ stack[v][j] # x
      BY <1>6
    <2> QED BY <2>1, <2>2 DEF TaskInv, Apart
  <1>10. InRun'
    BY DEF TaskInv, InRun, SamePart, Offering
  <1> QED BY <1>7, <1>8, <1>9, <1>10

\* Nothing happens to a task.
LEMMA PartsKeep ==
  ASSUME TaskInv, UNCHANGED <<stack, queue_, fate>>,
         \A u \in Threads : SamePart(u), threads_ # <<>> => threads_' # <<>>
  PROVE  TaskInv'
  BY DEF TaskInv, OnStacks, OffStack, Apart, InQueue, InRun, SamePart

\* The queue stays as it is, and so does what was accepted.
LEMMA QueueKeeps ==
  ASSUME IInv, TaskInv, UNCHANGED queue_,
         \A y \in Tasks : fate[y] = "queued" => fate'[y] = "queued"
  PROVE  InQueue'
  <1>1. \A i \in 1..Len(queue_) : queue_[i] \in Tasks
    BY DEF IInv, Shape, TypeOK
  <1> QED BY <1>1 DEF TaskInv, InQueue

\* Offering a task: it is run inline before there is a worker, and offered after.
LEMMA RunImplements ==
  ASSUME IInv, TaskInv, NEW t \in Threads, NEW x \in Tasks, Run(t, x)
  PROVE  TaskInv' /\ (Executor!RunInline(x) \/ Executor!Offer(x))
  <1>1. /\ pc[t] \in {"outside", "executing"} /\ fate[x] = "new"
        /\ stack' = [stack EXCEPT ![t] = Append(@, x)]
        /\ UNCHANGED <<max_queue_size_, running_, queue_, threads_>>
        /\ \/ threads_ = <<>> /\ pc' = [pc EXCEPT ![t] = "executing"] /\ Become(x, "running")
           \/ threads_ # <<>> /\ pc' = [pc EXCEPT ![t] = "locking"] /\ Become(x, "offered")
    BY DEF Run
  <1>2. pc \in [Threads -> Locations] /\ fate \in [Tasks -> Fates]
    BY DEF IInv, Shape, TypeOK
  <1>3. /\ pc'[t] = IF threads_ = <<>> THEN "executing" ELSE "locking"
        /\ \A u \in Threads \ {t} : SamePart(u)
    BY <1>1, <1>2 DEF SamePart
  <1>4. fate' = [fate EXCEPT ![x] = IF pc'[t] = "locking" THEN "offered" ELSE "running"]
    BY <1>1, <1>3 DEF Become
  <1>5. OnStacks' /\ OffStack' /\ Apart' /\ InRun'
    BY <1>1, <1>3, <1>4, PushKeeps DEF Offering
  <1>6. InQueue'
    BY <1>1, <1>2, <1>4, QueueKeeps
  <1>7. Executor!RunInline(x) \/ Executor!Offer(x)
    BY <1>1 DEF Executor!RunInline, Executor!Offer, Executor!Become, Become
  <1> QED BY <1>5, <1>6, <1>7 DEF TaskInv

\* The thread whose run() ends goes on, and who is woken for its task keeps its part.
LEMMA EnterParts ==
  ASSUME IInv, NEW t \in Threads, pc[t] = "locking",
         pc' \in Notified(Return(t), "not_empty", "taking")
  PROVE  /\ pc'[t] = Resume(t, Front(stack[t]))
         /\ \A u \in Threads \ {t} : SamePart(u)
  <1> DEFINE loc == Resume(t, Front(stack[t]))
             f == [pc EXCEPT ![t] = loc]
  <1>1. loc \in {"executing", "outside", "loop"}
    BY ResumeCases
  <1>2. f \in [Threads -> Locations] /\ f[t] = loc /\ \A u \in Threads \ {t} : f[u] = pc[u]
    BY <1>1 DEF IInv, Shape, TypeOK, Locations
  <1>3. \/ pc' = f
        \/ \E u \in Threads : f[u] = "not_empty" /\ pc' = [f EXCEPT ![u] = "taking"]
    <2>1. pc' \in Notified(f, "not_empty", "taking")
      BY DEF Return
    <2> HIDE DEF f
    <2> QED BY <1>2, <2>1, NotifyCases
  <1> HIDE DEF f, loc
  <1>4. pc'[t] = loc
    BY <1>1, <1>2, <1>3
  <1>5. \A u \in Threads \ {t} : SamePart(u)
    BY <1>2, <1>3 DEF SamePart, Offering
  <1> QED BY <1>4, <1>5 DEF loc

LEMMA RunLockedImplements ==
  ASSUME IInv, TaskInv, NEW t \in Threads, RunLocked(t)
  PROVE  /\ TaskInv'
         /\ \/ UNCHANGED Executor!vars
            \/ Executor!Accept(Last(stack[t])) \/ Executor!Refuse(Last(stack[t]))
         /\ Last(stack[t]) \in Tasks
  <1> DEFINE x == Last(stack[t])
  <1>1. /\ pc[t] = "locking"
        /\ UNCHANGED <<max_queue_size_, running_, threads_, owner, joined>>
        /\ \/ /\ is_full /\ running_
              /\ pc' = [pc EXCEPT ![t] = "not_full"]
              /\ UNCHANGED <<queue_, stack, fate>>
           \/ /\ ~running_
              /\ pc' = Return(t) /\ Pop(t) /\ Become(x, "refused")
              /\ UNCHANGED queue_
           \/ /\ running_ /\ ~is_full
              /\ queue_' = Append(queue_, x)
              /\ pc' \in Notified(Return(t), "not_empty", "taking")
              /\ Pop(t) /\ Become(x, "queued")
    BY DEF RunLocked
  <1>2. /\ pc \in [Threads -> Locations] /\ queue_ \in Seq(Tasks)
        /\ stack[t] \in Seq(Tasks) /\ stack[t] # <<>> /\ fate \in [Tasks -> Fates]
    BY <1>1 DEF IInv, Shape, TypeOK, Stacks
  <1>3. x \in Tasks /\ threads_ # <<>>
    BY <1>1, <1>2, StackParts DEF TaskInv, InRun, Offering
  <1>4. CASE is_full /\ running_ /\ pc' = [pc EXCEPT ![t] = "not_full"]
             /\ UNCHANGED <<queue_, stack, fate>>
    <2>1. \A u \in Threads : SamePart(u)
      BY <1>1, <1>2, <1>4 DEF SamePart, Offering
    <2>2. UNCHANGED Executor!vars
      BY <1>1, <1>4 DEF Executor!vars
    <2> QED BY <1>1, <1>3, <1>4, <2>1, <2>2, PartsKeep
  <1>5. CASE /\ ~running_
             /\ pc' = Return(t) /\ Pop(t) /\ Become(x, "refused")
             /\ UNCHANGED queue_
    <2>1. pc'[t] = Resume(t, Front(stack[t])) /\ \A u \in Threads \ {t} : SamePart(u)
      BY <1>2, <1>5 DEF Return, SamePart
    <2>2. /\ OnStacks' /\ OffStack' /\ Apart' /\ InRun'
          /\ \A y \in Tasks : y # x => fate'[y] = fate[y]
          /\ fate[x] = "offered"
      BY <1>1, <1>5, <2>1, PopKeeps DEF Offering
    <2>3. InQueue'
      BY <1>5, <2>2, QueueKeeps
    <2>4. Executor!Refuse(x)
      BY <1>1, <1>3, <1>5, <2>2 DEF Executor!Refuse, Executor!Become, Become
    <2> QED BY <1>3, <2>2, <2>3, <2>4 DEF TaskInv
  <1>6. CASE /\ running_ /\ ~is_full
             /\ queue_' = Append(queue_, x)
             /\ pc' \in Notified(Return(t), "not_empty", "taking")
             /\ Pop(t) /\ Become(x, "queued")
    <2>1. pc'[t] = Resume(t, Front(stack[t])) /\ \A u \in Threads \ {t} : SamePart(u)
      BY <1>1, <1>6, EnterParts
    <2>2. /\ OnStacks' /\ OffStack' /\ Apart' /\ InRun'
          /\ \A y \in Tasks : y # x => fate'[y] = fate[y]
          /\ fate'[x] = "queued" /\ fate[x] = "offered"
      BY <1>1, <1>6, <2>1, PopKeeps DEF Offering
    <2>3. InQueue'
      <3> HIDE DEF x
      <3>1. \A i \in 1..Len(queue_) : queue_[i] \in Tasks /\ queue_[i] # x /\ fate'[queue_[i]] = "queued"
        BY <1>2, <2>2 DEF TaskInv, InQueue
      <3>2. /\ Len(queue_) \in Nat /\ Len(queue_') = Len(queue_) + 1
            /\ queue_'[Len(queue_) + 1] = x
            /\ \A i \in 1..Len(queue_) : queue_'[i] = queue_[i]
        BY <1>2, <1>3, <1>6
      <3>3. \A i \in 1..Len(queue_') :
               \/ i = Len(queue_) + 1
               \/ i \in 1..Len(queue_) /\ queue_'[i] = queue_[i]
        BY <3>2
      <3> QED BY <2>2, <3>1, <3>2, <3>3 DEF TaskInv, InQueue
    <2>4. Executor!Accept(x)
      <3>1. max_queue_size_ = 0 \/ Len(queue_) < max_queue_size_
        BY <1>2, <1>6, ParameterTypes DEF is_full, IInv, Shape, TypeOK
      <3> QED BY <1>1, <1>3, <1>6, <2>2, <3>1 DEF Executor!Accept, Executor!Become, Become
    <2> QED BY <1>3, <2>2, <2>3, <2>4 DEF TaskInv
  <1> QED BY <1>1, <1>4, <1>5, <1>6

\* The worker that has taken a task executes it, and who is woken for the place keeps
\* its part.
LEMMA LeaveParts ==
  ASSUME IInv, NEW w \in Workers, Take(w), queue_ # <<>>
  PROVE  /\ pc'[w] = "executing"
         /\ \A u \in Threads \ {w} : SamePart(u)
  <1> DEFINE f == [pc EXCEPT ![w] = "executing"]
  <1>1. w \in Threads /\ (pc' \in Notified(f, "not_full", "locking") \/ pc' = f)
    BY ParameterTypes DEF Take
  <1>2. f \in [Threads -> Locations] /\ f[w] = "executing" /\ \A u \in Threads \ {w} : f[u] = pc[u]
    BY <1>1 DEF IInv, Shape, TypeOK, Locations
  <1> HIDE DEF f
  <1>3. \/ pc' = f
        \/ \E u \in Threads : f[u] = "not_full" /\ pc' = [f EXCEPT ![u] = "locking"]
    BY <1>1, <1>2, NotifyCases
  <1> QED BY <1>1, <1>2, <1>3 DEF SamePart, Offering

LEMMA TakeImplements ==
  ASSUME IInv, TaskInv, NEW w \in Workers, Take(w)
  PROVE  TaskInv' /\ (UNCHANGED Executor!vars \/ Executor!Begin)
  <1>1. /\ pc[w] = "taking" /\ w \in Threads
        /\ UNCHANGED <<max_queue_size_, running_, threads_, owner, joined>>
    BY ParameterTypes DEF Take
  <1>2. pc \in [Threads -> Locations] /\ queue_ \in Seq(Tasks) /\ fate \in [Tasks -> Fates]
    BY DEF IInv, Shape, TypeOK
  <1>3. CASE queue_ = <<>>
    <2>1. UNCHANGED <<queue_, stack, fate>> /\ \A u \in Threads : SamePart(u)
      BY <1>1, <1>2, <1>3 DEF Take, SamePart, Offering
    <2>2. UNCHANGED Executor!vars
      BY <1>1, <2>1 DEF Executor!vars
    <2> QED BY <1>1, <2>1, <2>2, PartsKeep
  <1>4. CASE queue_ # <<>>
    <2> DEFINE x == Head(queue_)
    <2>1. queue_' = Tail(queue_) /\ stack' = [stack EXCEPT ![w] = Append(@, x)]
          /\ fate' = [fate EXCEPT ![x] = "running"]
      BY <1>4 DEF Take, Become
    <2>2. pc'[w] = "executing" /\ \A u \in Threads \ {w} : SamePart(u)
      BY <1>4, LeaveParts
    <2>3. /\ Len(queue_) \in Nat /\ Len(queue_) > 0 /\ x = queue_[1] /\ x \in Tasks
          /\ Len(queue_') = Len(queue_) - 1
          /\ \A i \in 1..Len(queue_') : queue_'[i] = queue_[i + 1]
          /\ \A i \in 1..Len(queue_) : queue_[i] \in Tasks
      BY <1>2, <1>4, <2>1
    <2>4. fate[x] = "queued" /\ \A i \in 2..Len(queue_) : queue_[i] # x
      BY <2>3 DEF TaskInv, InQueue
    <2> HIDE DEF x
    <2>5. OnStacks' /\ OffStack' /\ Apart' /\ InRun'
      BY <1>1, <2>1, <2>2, <2>3, <2>4, PushKeeps DEF Offering
    <2>6. InQueue'
      <3> SUFFICES ASSUME NEW i \in 1..Len(queue_')
                   PROVE  /\ fate'[queue_'[i]] = "queued"
                          /\ \A j \in 1..Len(queue_') : queue_'[i] = queue_'[j] => i = j
        BY DEF InQueue
      <3>1. i + 1 \in 2..Len(queue_) /\ i + 1 \in 1..Len(queue_) /\ queue_'[i] = queue_[i + 1]
        BY <2>3
      <3>2. queue_[i + 1] \in Tasks /\ queue_[i + 1] # x /\ fate[queue_[i + 1]] = "queued"
        BY <2>3, <2>4, <3>1 DEF TaskInv, InQueue
      <3>3. fate'[queue_'[i]] = "queued"
        BY <1>2, <2>1, <3>1, <3>2
      <3>4. ASSUME NEW j \in 1..Len(queue_'), queue_'[i] = queue_'[j]
            PROVE  i = j
        <4>1. j + 1 \in 1..Len(queue_) /\ queue_[i + 1] = queue_[j + 1]
          BY <2>3, <3>1, <3>4
        <4>2. i + 1 = j + 1
          BY <3>1, <4>1 DEF TaskInv, InQueue
        <4> QED BY <2>3, <4>2
      <3> QED BY <3>3, <3>4
    <2>7. Executor!Begin
      BY <1>1, <1>4, <2>1, <2>4 DEF Executor!Begin, Executor!Become, x
    <2> QED BY <2>5, <2>6, <2>7 DEF TaskInv
  <1> QED BY <1>3, <1>4

LEMMA TaskReturnsImplements ==
  ASSUME IInv, TaskInv, NEW t \in Threads, TaskReturns(t)
  PROVE  TaskInv' /\ Executor!Finish(Last(stack[t])) /\ Last(stack[t]) \in Tasks
  <1> DEFINE x == Last(stack[t])
  <1>1. /\ pc[t] = "executing" /\ pc' = Return(t) /\ Pop(t) /\ Become(x, "done")
        /\ UNCHANGED <<max_queue_size_, running_, queue_, threads_, owner, joined>>
    BY DEF TaskReturns
  <1>2. /\ pc \in [Threads -> Locations] /\ x \in Tasks
        /\ pc'[t] = Resume(t, Front(stack[t])) /\ \A u \in Threads \ {t} : SamePart(u)
    BY <1>1, StackParts DEF IInv, Shape, TypeOK, Stacks, Return, SamePart
  <1>3. /\ OnStacks' /\ OffStack' /\ Apart' /\ InRun'
        /\ \A y \in Tasks : y # x => fate'[y] = fate[y]
        /\ fate[x] = "running"
    BY <1>1, <1>2, PopKeeps DEF Offering
  <1>4. InQueue'
    BY <1>1, <1>3, QueueKeeps
  <1>5. Executor!Finish(x)
    BY <1>1, <1>3 DEF Executor!Finish, Executor!Become, Become
  <1> QED BY <1>2, <1>3, <1>4, <1>5 DEF TaskInv

LEMMA TaskThrowsImplements ==
  ASSUME IInv, TaskInv, NEW t \in Threads, TaskThrows(t)
  PROVE  TaskInv' /\ ToSet(stack[t]) \in SUBSET Tasks /\ Executor!Throw(ToSet(stack[t]))
  <1> DEFINE X == ToSet(stack[t])
  <1>1. /\ pc[t] = "executing"
        /\ pc' = [pc EXCEPT ![t] = IF t \in Callers THEN "outside" ELSE "exited"]
        /\ stack' = [stack EXCEPT ![t] = <<>>]
        /\ fate' = [x \in Tasks |-> IF x \in X THEN "thrown" ELSE fate[x]]
        /\ UNCHANGED <<max_queue_size_, running_, queue_, threads_, owner, joined>>
    BY DEF TaskThrows
  <1>2. /\ pc \in [Threads -> Locations] /\ stack \in [Threads -> Seq(Tasks)]
        /\ fate \in [Tasks -> Fates]
    BY DEF IInv, Shape, TypeOK
  <1>3. \A y \in X : y \in Tasks /\ \E i \in 1..Len(stack[t]) : y = stack[t][i]
    <2>1. stack[t] \in Seq(Tasks) /\ DOMAIN stack[t] = 1..Len(stack[t])
      BY <1>2
    <2> QED BY <2>1 DEF ToSet
  <1> HIDE DEF X
  <1>4. \A y \in X : fate[y] = "running"
    BY <1>1, <1>3 DEF TaskInv, OnStacks, Offering
  <1>5. /\ pc'[t] \in {"outside", "exited"} /\ stack'[t] = <<>>
        /\ \A u \in Threads \ {t} : stack'[u] = stack[u] /\ pc'[u] = pc[u]
    BY <1>1, <1>2
  <1>6. \A u \in Threads : \A i \in 1..Len(stack'[u]) :
           /\ u # t /\ i \in 1..Len(stack[u]) /\ stack'[u][i] = stack[u][i]
           /\ stack[u][i] \in Tasks /\ stack[u][i] \notin X
    <2> SUFFICES ASSUME NEW u \in Threads, NEW i \in 1..Len(stack'[u])
                 PROVE  /\ u # t /\ i \in 1..Len(stack[u]) /\ stack'[u][i] = stack[u][i]
                        /\ stack[u][i] \in Tasks /\ stack[u][i] \notin X
      OBVIOUS
    <2>1. u # t
      BY <1>5
    <2>2. i \in 1..Len(stack[u]) /\ stack'[u][i] = stack[u][i] /\ stack[u][i] \in Tasks
      BY <1>2, <1>5, <2>1
    <2>3. stack[u][i] \notin X
      BY <1>3, <2>1, <2>2 DEF TaskInv, Apart
    <2> QED BY <2>1, <2>2, <2>3
  <1>7. OnStacks'
    BY <1>1, <1>5, <1>6 DEF TaskInv, OnStacks
  <1>8. OffStack' /\ InRun'
    BY <1>1, <1>5 DEF TaskInv, OffStack, InRun, Offering
  <1>9. Apart'
    BY <1>6 DEF TaskInv, Apart
  <1>10. InQueue'
    BY <1>1, <1>4, QueueKeeps
  <1>11. Executor!Throw(X)
    BY <1>1, <1>4 DEF Executor!Throw
  <1> QED BY <1>3, <1>7, <1>8, <1>9, <1>10, <1>11 DEF TaskInv, X

\* The steps that touch no task.
LEMMA MovesImplement ==
  ASSUME IInv, TaskInv, NEW t \in Threads,
         WorkerInit(t) \/ WorkerLoop(t) \/ SpuriousWakeup(t)
  PROVE  TaskInv' /\ UNCHANGED Executor!vars
  <1>1. UNCHANGED <<max_queue_size_, running_, queue_, threads_, stack, fate>>
    BY DEF WorkerInit, WorkerLoop, SpuriousWakeup
  <1>2. pc \in [Threads -> Locations]
    BY DEF IInv, Shape, TypeOK
  <1>3. \A u \in Threads : SamePart(u)
    BY <1>2 DEF WorkerInit, WorkerLoop, SpuriousWakeup, SamePart, Offering
  <1> QED BY <1>1, <1>3, PartsKeep DEF Executor!vars

LEMMA OwnerImplements ==
  ASSUME IInv, TaskInv, Start \/ StartThread \/ Started \/ Stop \/ StopJoin
  PROVE  TaskInv' /\ (UNCHANGED Executor!vars \/ Executor!Open \/ Executor!Close)
  <1>1. UNCHANGED <<max_queue_size_, queue_, stack, fate>> /\ pc \in [Threads -> Locations]
    BY DEF Start, StartThread, Started, Stop, StopJoin, IInv, Shape, TypeOK
  <1>2. CASE Start
    <2>1. UNCHANGED <<pc, threads_>> /\ threads_ = <<>>
      BY <1>2 DEF Start, IInv, Shape, Phase
    <2> QED BY <1>1, <2>1, PartsKeep DEF SamePart, Executor!vars
  <1>3. CASE StartThread
    <2> DEFINE w == Len(threads_) + 1
    <2>1. /\ owner = "starting" /\ running_ /\ running_' = running_ /\ w \in Workers
          /\ w \in Threads
      BY <1>3, ParameterTypes DEF StartThread, IInv, Shape, Phase
    <2>2. PICK created \in BOOLEAN :
             /\ threads_' = Append(threads_, created)
             /\ pc' = IF created THEN [pc EXCEPT ![w] = "init"] ELSE pc
      BY <1>3 DEF StartThread
    <2>3. threads_' # <<>> /\ pc[w] = "absent"
      <3>1. threads_ \in Seq(BOOLEAN) /\ Len(threads_) \in Nat
        BY DEF IInv, Shape, TypeOK
      <3>2. threads_' # <<>>
        BY <2>2, <3>1
      <3> QED BY <2>1, <3>1, <3>2 DEF IInv, Shape, Joins
    <2> HIDE DEF w
    <2>4. \A u \in Threads : SamePart(u)
      BY <1>1, <2>1, <2>2, <2>3 DEF SamePart, Offering
    <2>5. TaskInv'
      BY <1>1, <2>3, <2>4, PartsKeep
    <2>6. UNCHANGED Executor!vars \/ Executor!Open
      BY <1>1, <2>1, <2>3 DEF Executor!vars, Executor!Open
    <2> QED BY <2>5, <2>6
  <1>4. CASE Started \/ StopJoin
    <2>1. UNCHANGED <<pc, threads_, running_>>
      BY <1>4 DEF Started, StopJoin
    <2> QED BY <1>1, <2>1, PartsKeep DEF SamePart, Executor!vars
  <1>5. CASE Stop
    <2>1. /\ running_ /\ running_' = FALSE /\ UNCHANGED threads_
          /\ pc' = NotifiedAll(NotifiedAll(pc, "not_empty", "taking"), "not_full", "locking")
      BY <1>5 DEF Stop, IInv, Shape, Phase
    <2>2. \A t \in Threads : pc'[t] = IF pc[t] = "not_empty" THEN "taking"
                                      ELSE IF pc[t] = "not_full" THEN "locking" ELSE pc[t]
      BY <1>1, <2>1 DEF NotifiedAll
    <2>3. \A t \in Threads : SamePart(t)
      BY <2>2 DEF SamePart, Offering
    <2>4. UNCHANGED Executor!vars \/ Executor!Close
      BY <1>1, <2>1 DEF Executor!vars, Executor!Close
    <2> QED BY <1>1, <2>1, <2>3, <2>4, PartsKeep
  <1> QED BY <1>2, <1>3, <1>4, <1>5

LEMMA SetMaxQueueSizeImplements ==
  ASSUME IInv, TaskInv, NEW size \in MaxQueueSizes, SetMaxQueueSize(size)
  PROVE  TaskInv' /\ Executor!SetCapacity
  <1>1. /\ owner = "new" /\ threads_ = <<>> /\ max_queue_size_' = size /\ size \in Nat
        /\ UNCHANGED <<running_, queue_, threads_, pc, stack, owner, joined, fate>>
    BY ParameterTypes DEF SetMaxQueueSize, IInv, Shape, Phase
  <1> QED BY <1>1, PartsKeep DEF SamePart, Executor!SetCapacity

LEMMA StepImplements ==
  ASSUME IInv, TaskInv, [Next]_vars
  PROVE  TaskInv' /\ [Executor!Next]_(Executor!vars)
  <1>1. ASSUME NEW t \in Threads, Progress(t)
        PROVE  TaskInv' /\ [Executor!Next]_(Executor!vars)
    <2>1. CASE RunLocked(t)
      BY <2>1, RunLockedImplements DEF Executor!Next
    <2>2. CASE TaskReturns(t)
      BY <2>2, TaskReturnsImplements DEF Executor!Next
    <2>3. CASE TaskThrows(t)
      BY <2>3, TaskThrowsImplements DEF Executor!Next
    <2>4. CASE t \in Workers /\ (WorkerInit(t) \/ WorkerLoop(t))
      BY <2>4, MovesImplement
    <2>5. CASE t \in Workers /\ Take(t)
      BY <2>5, TakeImplements DEF Executor!Next
    <2> QED BY <1>1, <2>1, <2>2, <2>3, <2>4, <2>5 DEF Progress
  <1>2. ASSUME NEW t \in Threads, SpuriousWakeup(t)
        PROVE  TaskInv' /\ [Executor!Next]_(Executor!vars)
    BY <1>2, MovesImplement
  <1>3. ASSUME NEW t \in Threads, NEW x \in Tasks, Run(t, x)
        PROVE  TaskInv' /\ [Executor!Next]_(Executor!vars)
    BY <1>3, RunImplements DEF Executor!Next
  <1>4. ASSUME NEW size \in MaxQueueSizes, SetMaxQueueSize(size)
        PROVE  TaskInv' /\ [Executor!Next]_(Executor!vars)
    BY <1>4, SetMaxQueueSizeImplements DEF Executor!Next
  <1>5. CASE Start \/ StartThread \/ Started \/ Stop \/ StopJoin
    BY <1>5, OwnerImplements DEF Executor!Next
  <1>6. CASE UNCHANGED vars
    BY <1>6, PartsKeep DEF vars, SamePart, Executor!vars
  <1> QED BY <1>1, <1>2, <1>3, <1>4, <1>5, <1>6 DEF Next

\* The pool is the FIFO executor it promises to be: whatever the threads do, a task is
\* executed at most once, tasks begin in the order of acceptance, none is accepted after
\* stop() or beyond the limit, and none is refused before (ThreadPool.cc:62-104).
THEOREM PoolIsExecutor == Spec => ImplementsExecutor
  <1>1. Init => Executor!Init
    BY DEF Init, Executor!Init
  <1>2. Init => TaskInv
    <2> SUFFICES ASSUME Init PROVE TaskInv
      OBVIOUS
    <2>1. /\ \A t \in Threads : stack[t] = <<>> /\ pc[t] \in {"outside", "absent"}
          /\ queue_ = <<>>
      BY DEF Init
    <2> QED BY <2>1 DEF TaskInv, OnStacks, OffStack, Apart, InQueue, InRun, Offering
  <1>3. IInv /\ TaskInv /\ [Next]_vars => TaskInv' /\ [Executor!Next]_(Executor!vars)
    BY StepImplements
  <1> QED BY <1>1, <1>2, <1>3, Inductive, PTL DEF Spec, ImplementsExecutor, Executor!Spec
===============================================================================
