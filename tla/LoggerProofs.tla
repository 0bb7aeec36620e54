----------------------------- MODULE LoggerProofs ------------------------------
(***************************************************************************)
(* What the messages show, for any number of threads, zones and pieces,    *)
(* every clock and every fork.                                             *)
(***************************************************************************)
EXTENDS Logger, FiniteSetTheorems, TLAPS

Fields == {"time", "utc", "tid", "stream_", "second", "zone", "late", "madeBy"}

\* A stream of which everything was written as long as a number had room.
StreamOK(stream) ==
    /\ stream \in [length : Nat, asked : Nat, exact : BOOLEAN]
    /\ stream.asked <= kSmallBuffer - kMaxNumericSize
         => stream.exact /\ stream.length = stream.asked

\* What a message shows is what was so when it was begun.
MessageOK(message) ==
    /\ DOMAIN message = Fields
    /\ message.tid = message.madeBy
    /\ message.utc = (message.zone = NoZone)
    /\ message.late \/ message.time = message.second + Offset(message.zone)
    /\ StreamOK(message.stream_)

\* The cached time is that of t_last_second and of the present zone, unless a zone was
\* set since; the cached id is the thread's own.
CachesOK(t) ==
    /\ lastSecond[t] = t_last_second[t]
    /\ t_last_second[t] = 0 \/ zoneSet[t]
         \/ t_time[t] = t_last_second[t] + Offset(g_logTimeZone)
    /\ t_cached_tid[t] # 0 => t_tid_string[t] = kernelTid[t]

IInv ==
    /\ now \in Nat \ {0}
    /\ DOMAIN impl_ = Threads /\ DOMAIN t_last_second = Threads /\ DOMAIN t_time = Threads
    /\ DOMAIN t_cached_tid = Threads /\ DOMAIN t_tid_string = Threads
    /\ DOMAIN kernelTid = Threads /\ DOMAIN lastSecond = Threads
    /\ zoneSet \in [Threads -> BOOLEAN]
    /\ \A t \in Threads : CachesOK(t) /\ (impl_[t] # NoMessage => MessageOK(impl_[t]))

------------------------------------------------------------------------------
(* Streams.                                                                 *)

LEMMA ConvertType == \A value \in Int : convert(value) \in Nat
  <1> TAKE value \in Int
  <1> DEFINE digits == IF value < 0 THEN -value ELSE value
             powers == {power \in 1..8 : digits >= 10^power}
  <1>1. IsFiniteSet(1..8)
    <2>1. 1 \in Int /\ 8 \in Int
      OBVIOUS
    <2>2. QED  BY <2>1, FS_Interval, Zenon
  <1>2. powers \in SUBSET (1..8)
    OBVIOUS
  <1>3. convert(value) = 1 + Cardinality(powers)
    BY DEF convert
  <1> HIDE DEF powers
  <1>4. Cardinality(powers) \in Nat
    <2>1. IsFiniteSet(powers)
      BY <1>1, <1>2, FS_Subset
    <2>2. QED  BY <2>1, FS_CardinalityType
  <1>5. QED  BY <1>3, <1>4

LEMMA TextKeeps ==
    ASSUME NEW stream, StreamOK(stream), NEW len \in Nat
    PROVE  StreamOK(PutText(stream, len))
  BY RoomAssumption DEF StreamOK, PutText, avail

LEMMA NumberKeeps ==
    ASSUME NEW stream, StreamOK(stream), NEW len \in Nat
    PROVE  StreamOK(PutNumber(stream, len))
  BY RoomAssumption DEF StreamOK, PutNumber, avail

LEMMA EmptyIsOK == StreamOK(EmptyStream)
  BY DEF StreamOK, EmptyStream

LEMMA PutKeeps ==
    ASSUME NEW stream, StreamOK(stream), NEW piece \in Pieces
    PROVE  StreamOK(Put(stream, piece))
  <1>1. CASE piece.kind = "integer"
    <2>1. convert(piece.value) \in Nat
      BY <1>1, ConvertType, PieceAssumption
    <2>2. QED  BY <1>1, <2>1, NumberKeeps DEF Put
  <1>2. CASE piece.kind = "pointer"
    <2>1. 2 + convert(piece.value) \in Nat
      BY <1>2, ConvertType, PieceAssumption
    <2>2. QED  BY <1>2, <2>1, NumberKeeps DEF Put
  <1>3. CASE piece.kind = "double"
    <2>1. piece.len \in Nat
      BY <1>3, PieceAssumption
    <2>2. QED  BY <1>3, <2>1, NumberKeeps DEF Put
  <1>4. CASE piece.kind \notin {"integer", "pointer", "double"}
    <2>1. piece.len \in Nat
      BY <1>4, PieceAssumption
    <2>2. QED  BY <1>4, <2>1, TextKeeps DEF Put
  <1>5. QED  BY <1>1, <1>2, <1>3, <1>4

LEMMA HeaderIsOK == \A savedErrno \in {0, 2} : StreamOK(Header(savedErrno))
  <1> TAKE savedErrno \in {0, 2}
  <1> DEFINE part(stream) == PutText(stream, PartLength)
             header == part(part(part(part(EmptyStream))))
  <1>1. ASSUME NEW stream, StreamOK(stream)
        PROVE  StreamOK(part(stream))
    BY <1>1, TextKeeps, PieceAssumption
  <1> HIDE DEF part
  <1>2. StreamOK(header)
    BY <1>1, EmptyIsOK
  <1> HIDE DEF header
  <1>3. StreamOK(part(PutNumber(part(header), convert(savedErrno))))
    BY <1>1, <1>2, ConvertType, NumberKeeps
  <1>4. Header(savedErrno) = IF savedErrno = 0 THEN header
                             ELSE part(PutNumber(part(header), convert(savedErrno)))
    BY DEF Header, header, part
  <1>5. QED  BY <1>2, <1>3, <1>4

LEMMA FinishKeeps ==
    ASSUME NEW stream, StreamOK(stream)
    PROVE  StreamOK(finish(stream))
  <1>1. PartLength \in Nat /\ convert(Line) \in Nat
    BY PieceAssumption, ConvertType
  <1>2. StreamOK(PutText(stream, PartLength))
    BY <1>1, TextKeeps
  <1>3. StreamOK(PutNumber(PutText(stream, PartLength), convert(Line)))
    BY <1>1, <1>2, NumberKeeps
  <1>4. QED  BY <1>1, <1>3, TextKeeps DEF finish

------------------------------------------------------------------------------
(* Steps.                                                                   *)

LEMMA InitIInv == Init => IInv
  BY DEF Init, IInv, CachesOK

\* tid() leaves the id of the thread in the cache.
LEMMA TidCaches ==
    ASSUME IInv, NEW t \in Threads, tid(t)
    PROVE  /\ DOMAIN t_cached_tid' = Threads /\ DOMAIN t_tid_string' = Threads
           /\ t_tid_string'[t] = kernelTid[t]
           /\ \A u \in Threads :
                 /\ t_cached_tid'[u] # 0 => t_tid_string'[u] = kernelTid[u]
  BY DEF IInv, CachesOK, tid

LEMMA CacheTidKeeps ==
    ASSUME IInv, NEW t \in Threads, CacheTid(t)
    PROVE  IInv'
  <1>1. /\ DOMAIN t_cached_tid' = Threads /\ DOMAIN t_tid_string' = Threads
        /\ \A u \in Threads : t_cached_tid'[u] # 0 => t_tid_string'[u] = kernelTid[u]
    BY TidCaches DEF CacheTid
  <1>2. QED  BY <1>1 DEF IInv, CachesOK, CacheTid, process, history

LEMMA ForkKeeps ==
    ASSUME IInv, NEW t \in Threads, NEW newTid \in 1..MaxTid, Fork(t, newTid)
    PROVE  IInv'
  BY DEF IInv, CachesOK, Fork, after_fork, history

\* The time of a new message is in the cache, and right unless it says late.
LEMMA BeginTime ==
    ASSUME IInv, NEW t \in Threads, NEW savedErrno \in {0, 2}, Begin(t, savedErrno)
    PROVE  /\ \A u \in Threads : /\ lastSecond'[u] = t_last_second'[u]
                               /\ \/ t_last_second'[u] = 0 \/ zoneSet'[u]
                                  \/ t_time'[u] = t_last_second'[u] + Offset(g_logTimeZone)
           /\ lastSecond'[t] = now /\ now # 0
           /\ DOMAIN t_last_second' = Threads /\ DOMAIN t_time' = Threads
           /\ DOMAIN lastSecond' = Threads /\ zoneSet' \in [Threads -> BOOLEAN]
  BY DEF IInv, CachesOK, Begin, formatTime, Outdated

LEMMA BeginKeeps ==
    ASSUME IInv, NEW t \in Threads, NEW savedErrno \in {0, 2}, Begin(t, savedErrno)
    PROVE  IInv'
  <1> DEFINE message ==
          [time |-> t_time'[t], utc |-> g_logTimeZone = NoZone, tid |-> t_tid_string'[t],
           stream_ |-> Header(savedErrno),
           second |-> now, zone |-> g_logTimeZone, late |-> zoneSet'[t],
           madeBy |-> kernelTid[t]]
  <1>1. /\ DOMAIN t_cached_tid' = Threads /\ DOMAIN t_tid_string' = Threads
        /\ t_tid_string'[t] = kernelTid[t]
        /\ \A u \in Threads : t_cached_tid'[u] # 0 => t_tid_string'[u] = kernelTid[u]
    BY TidCaches DEF Begin
  <1>2. DOMAIN message = Fields
    BY DEF Fields
  <1>3. StreamOK(message.stream_)
    BY HeaderIsOK
  <1>4. message.late \/ message.time = message.second + Offset(message.zone)
    BY BeginTime
  <1>5. message.tid = message.madeBy /\ message.utc = (message.zone = NoZone)
    BY <1>1
  <1>6. impl_' = [impl_ EXCEPT ![t] = message]
    BY DEF Begin
  <1>7. MessageOK(message)
    BY <1>2, <1>3, <1>4, <1>5 DEF MessageOK
  <1> HIDE DEF message
  <1>8. /\ DOMAIN impl_' = Threads
        /\ \A u \in Threads : impl_'[u] # NoMessage => MessageOK(impl_'[u])
    BY <1>6, <1>7 DEF IInv
  <1>9. \A u \in Threads : CachesOK(u)'
    BY <1>1, BeginTime DEF CachesOK, Begin, process
  <1>10. QED
    BY <1>1, <1>8, <1>9, BeginTime DEF IInv, Begin, process, MessageOK, Offset, StreamOK

LEMMA StreamKeeps ==
    ASSUME IInv, NEW t \in Threads, NEW piece \in Pieces, Stream(t, piece)
    PROVE  IInv'
  <1> DEFINE old == impl_[t]
             new == [old EXCEPT !.stream_ = Put(@, piece)]
  <1>1. MessageOK(old)
    BY DEF IInv, Stream
  <1>2. StreamOK(Put(old.stream_, piece))
    BY <1>1, PutKeeps DEF MessageOK
  <1>3. /\ DOMAIN new = Fields /\ new.stream_ = Put(old.stream_, piece)
        /\ \A field \in Fields \ {"stream_"} : new[field] = old[field]
    BY <1>1 DEF MessageOK, Fields
  <1> HIDE DEF new, old
  <1>4. MessageOK(new)
    BY <1>1, <1>2, <1>3 DEF MessageOK, Fields
  <1>5. impl_' = [impl_ EXCEPT ![t] = new]
    BY DEF Stream, new, old
  <1>6. /\ DOMAIN impl_' = Threads
        /\ \A u \in Threads : impl_'[u] # NoMessage => MessageOK(impl_'[u])
    BY <1>4, <1>5 DEF IInv
  <1>7. \A u \in Threads : CachesOK(u)'
    BY DEF IInv, CachesOK, Stream, caches, process, history
  <1>8. QED  BY <1>6, <1>7 DEF IInv, Stream, caches, process, history, MessageOK, Offset, StreamOK

LEMMA OthersKeep ==
    ASSUME IInv,
           \/ \E t \in Threads : End(t)
           \/ \E zone \in Zones \cup {NoZone} : SetTimeZone(zone)
           \/ Tick \/ StepBack \/ UNCHANGED vars
    PROVE  IInv'
  <1> USE DEF IInv, CachesOK, caches, process, history, MessageOK, Offset, StreamOK
  <1>1. CASE \E t \in Threads : End(t)
    BY <1>1 DEF End
  <1>2. CASE \E zone \in Zones \cup {NoZone} : SetTimeZone(zone)
    BY <1>2 DEF SetTimeZone
  <1>3. CASE Tick
    BY <1>3 DEF Tick
  <1>4. CASE StepBack
    BY <1>4 DEF StepBack
  <1>5. CASE UNCHANGED vars
    BY <1>5 DEF vars
  <1>6. QED  BY <1>1, <1>2, <1>3, <1>4, <1>5

THEOREM Inductive == Spec => []IInv
  <1>1. IInv /\ [Next]_vars => IInv'
    BY CacheTidKeeps, ForkKeeps, BeginKeeps, StreamKeeps, OthersKeep DEF Next
  <1>2. QED  BY InitIInv, <1>1, PTL DEF Spec

\* Every message shows its own second, whatever is cached (Logging.cc:103-117).
THEOREM TimeIsShown == Spec => []MessageShowsItsTime
  <1>1. IInv => MessageShowsItsTime
    BY DEF IInv, MessageOK, MessageShowsItsTime, Messages
  <1>2. QED  BY Inductive, <1>1, PTL

\* Every message shows the thread that began it, after any number of forks
\* (Thread.cc:11-16).
THEOREM ThreadIsShown == Spec => []MessageShowsItsThread
  <1>1. IInv => MessageShowsItsThread
    BY DEF IInv, MessageOK, MessageShowsItsThread, Messages
  <1>2. QED  BY Inductive, <1>1, PTL

\* A message with room for one more number is whole, for every buffer size and all
\* pieces (LogStream.h:30-37, LogStream.cc:211-219).
THEOREM ShortMessagesAreWhole == Spec => []ShortMessagesAreExact
  <1>1. ASSUME IInv, NEW message \in Messages
        PROVE  LET stream == finish(message.stream_)
               IN stream.asked <= kSmallBuffer - kMaxNumericSize
                    => stream.exact /\ stream.length = stream.asked
    <2>1. StreamOK(message.stream_)
      BY <1>1 DEF IInv, MessageOK, Messages
    <2>2. QED  BY <2>1, FinishKeeps DEF StreamOK
  <1>2. IInv => ShortMessagesAreExact
    BY <1>1 DEF ShortMessagesAreExact
  <1>3. QED  BY Inductive, <1>2, PTL
===============================================================================
