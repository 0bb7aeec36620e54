----------------------------- MODULE LogFileProofs -----------------------------
(***************************************************************************)
(* What holds of LogFile for all its parameters and every clock, and of    *)
(* the bytes of one of its files and their reader (FileUtil) for all sizes *)
(* of buffers, lengths of lines and devices.                               *)
(***************************************************************************)
EXTENDS MCLogFile, SequenceTheorems, FiniteSetTheorems, TLAPS

File_ == [name : 1..MaxTime, written : Nat]

\* The inductive invariant: TypeOK, with the last file told by its index.
Typed ==
    /\ now \in 1..MaxTime
    /\ count_ \in Nat /\ count_ < check_every_n_
    /\ last_roll_ \in 1..MaxTime
    /\ start_of_period_ = Period(last_roll_)
    /\ last_flush_ \in 1..MaxTime
    /\ files \in Seq(File_) /\ Len(files) > 0
    /\ files[Len(files)].name = last_roll_
    /\ oldest \in 0..MaxTime
    /\ strays \in Nat /\ appends \in 0..LineLimit /\ strays <= appends
    /\ setBack \in BOOLEAN

\* As long as the clock is not set back, strays are younger than the file and than the
\* last check.
StraysInCount ==
    ~setBack => /\ last_roll_ <= now
                /\ strays <= count_
                /\ strays > 0 => start_of_period_ < Period(now)

\* As long as the clock is not set back, what is not flushed came after the last flush.
FlushedBefore ==
    ~setBack => last_flush_ <= now /\ (oldest # 0 => last_flush_ <= oldest)

IInv == Typed /\ FilesAreNew /\ StraysInCount /\ FlushedBefore

\* A line of len bytes is added to the last of the files.
Longer(len) == [files EXCEPT ![Len(files)].written = @ + len]

LEMMA ParameterTypes ==
    /\ LineLimit \in Nat /\ MaxTime \in Nat /\ 0 \in 0..MaxTime
    /\ check_every_n_ \in Nat /\ 0 < check_every_n_
  BY ParameterAssumption

LEMMA PeriodType == \A time \in Nat : Period(time) \in Nat
  BY ParameterAssumption DEF Period

LEMMA PeriodMonotone ==
    ASSUME NEW a \in Nat, NEW b \in Nat, a <= b
    PROVE  Period(a) <= Period(b)
  <1> DEFINE K == kRollPerSeconds_
             p == a \div K
             q == b \div K
  <1>1. K \in Nat /\ K > 0
    BY ParameterAssumption
  <1>2. p \in Nat /\ q \in Nat /\ p <= q
    BY <1>1
  <1>3. Period(a) = p * K /\ Period(b) = q * K
    BY DEF Period
  <1> HIDE DEF p, q, K
  <1>4. PICK d \in Nat : q = p + d
    BY <1>2
  <1>5. q * K = p * K + d * K
    BY <1>1, <1>2, <1>4
  <1>6. d * K \in Nat /\ p * K \in Nat
    BY <1>1, <1>2
  <1>7. QED  BY <1>3, <1>5, <1>6

LEMMA LongerKeeps ==
    ASSUME Typed, FilesAreNew, NEW len \in LineLengths
    PROVE  /\ Longer(len) \in Seq(File_) /\ Len(Longer(len)) = Len(files)
           /\ \A i \in DOMAIN files : Longer(len)[i].name = files[i].name
  <1> DEFINE last == files[Len(files)]
             longer == [last EXCEPT !.written = @ + len]
  <1>1. len \in Nat
    BY ParameterAssumption
  <1>2. files \in Seq(File_) /\ Len(files) \in 1..Len(files) /\ DOMAIN files = 1..Len(files)
    BY DEF Typed
  <1>3. last \in File_
    BY <1>2
  <1>4. longer \in File_ /\ longer.name = last.name
    BY <1>1, <1>3 DEF File_
  <1>5. Longer(len) = [files EXCEPT ![Len(files)] = longer]
    BY DEF Longer
  <1> HIDE DEF longer, last
  <1>6. /\ Longer(len) \in Seq(File_) /\ Len(Longer(len)) = Len(files)
        /\ \A i \in 1..Len(files) :
              Longer(len)[i] = IF i = Len(files) THEN longer ELSE files[i]
    BY <1>2, <1>4, <1>5, ExceptSeq
  <1>7. QED  BY <1>2, <1>4, <1>6 DEF last

------------------------------------------------------------------------------
\* The files are those of Typed and FilesAreNew.
FilesOK ==
    /\ files \in Seq(File_) /\ Len(files) > 0
    /\ files[Len(files)].name = last_roll_
    /\ FilesAreNew

LEMMA KeptFiles ==
    ASSUME Typed, FilesAreNew, NEW len \in LineLengths,
           files' = Longer(len), last_roll_' = last_roll_
    PROVE  FilesOK'
  <1>1. /\ files' \in Seq(File_) /\ Len(files') = Len(files)
        /\ \A i \in DOMAIN files : files'[i].name = files[i].name
    BY LongerKeeps
  <1>2. /\ DOMAIN files = 1..Len(files) /\ DOMAIN files' = 1..Len(files)
        /\ Len(files) \in 1..Len(files)
    BY <1>1 DEF Typed
  <1>3. QED  BY <1>1, <1>2 DEF FilesOK, FilesAreNew, Typed

LEMMA OpenedFiles ==
    ASSUME Typed, FilesAreNew, NEW len \in LineLengths,
           now > last_roll_, OpenNext(Longer(len))
    PROVE  FilesOK'
  <1> DEFINE new == [name |-> now, written |-> 0]
             before == Longer(len)
             size == Len(files)
  <1>1. /\ before \in Seq(File_) /\ Len(before) = size
        /\ \A i \in DOMAIN files : before[i].name = files[i].name
    BY LongerKeeps
  <1>2. new \in File_
    BY DEF Typed, File_
  <1>3. files' = Append(before, new) /\ last_roll_' = now
    BY DEF OpenNext
  <1>4. DOMAIN files = 1..size /\ size \in 1..size /\ size \in Nat
    BY DEF Typed
  <1> HIDE DEF before
  <1>5. /\ files' \in Seq(File_) /\ Len(files') = size + 1 /\ DOMAIN files' = 1..(size + 1)
        /\ \A i \in 1..size : files'[i] = before[i]
        /\ files'[size + 1] = new
    BY <1>1, <1>2, <1>3, <1>4, AppendProperties
  <1> HIDE DEF size
  <1>6. \A i \in 1..size : files'[i].name = files[i].name
    BY <1>1, <1>4, <1>5
  <1>7. \A i \in 1..size : files[i].name \in Int /\ files[i].name <= last_roll_
    <2>1. \A i \in 1..size : files[i] \in File_
      BY <1>4 DEF Typed, size
    <2>2. files[size].name = last_roll_
      BY DEF Typed, size
    <2>3. \A i \in 1..size : files[i].name \in Int
      BY ONLY <2>1 DEF File_
    <2>4. \A i, j \in 1..size : i < j => files[i].name < files[j].name
      BY <1>4 DEF FilesAreNew
    <2>5. QED  BY ONLY <1>4, <2>2, <2>3, <2>4
  <1>8. \A i \in 1..size : files'[i].name < now
    BY <1>6, <1>7 DEF Typed
  <1>9. FilesAreNew'
    BY <1>4, <1>5, <1>6, <1>8 DEF FilesAreNew
  <1>10. QED  BY <1>3, <1>4, <1>5, <1>9 DEF FilesOK

LEMMA AppendedFiles ==
    ASSUME Typed, FilesAreNew, NEW len \in LineLengths, Append_(len)
    PROVE  FilesOK'
  <1>1. \/ files' = Longer(len) /\ last_roll_' = last_roll_
        \/ now > last_roll_ /\ OpenNext(Longer(len))
    BY DEF Append_, Keep, Roll, Check, Longer
  <1>2. QED  BY <1>1, KeptFiles, OpenedFiles

LEMMA AppendedFlush ==
    ASSUME Typed, FlushedBefore, NEW len \in LineLengths, Append_(len)
    PROVE  FlushedBefore'
  <1>1. \/ last_flush_' = now /\ oldest' = 0
        \/ last_flush_' = last_flush_ /\ oldest' = IF oldest = 0 THEN now ELSE oldest
    BY DEF Append_, Keep, Roll, Check, OpenNext
  <1>2. now' = now /\ setBack' = setBack
    BY DEF Append_
  <1>3. QED  BY <1>1, <1>2 DEF Typed, FlushedBefore

\* What append() does to the rest: the cases of Append_, by the file that is kept, the
\* file that is flushed and the file that is opened.
LEMMA AppendKeeps ==
    ASSUME IInv, NEW len \in LineLengths, Append_(len)
    PROVE  IInv'
  <1> DEFINE stray == strays + IF Period(now) # start_of_period_ THEN 1 ELSE 0
  <1>1. FilesOK'
    BY AppendedFiles DEF IInv
  <1>0. FlushedBefore'
    BY AppendedFlush DEF IInv
  <1>2. now' = now /\ setBack' = setBack /\ appends' = appends + 1 /\ appends < LineLimit
    BY DEF Append_
  <1>3. \/ last_flush_' = last_flush_ \/ last_flush_' = now
    BY DEF Append_, Keep, Roll, Check, OpenNext
  <1>4. oldest' \in 0..MaxTime
    <2>1. \/ oldest' = 0
          \/ oldest' = IF oldest = 0 THEN now ELSE oldest
      BY DEF Append_, Keep, Roll, Check, OpenNext
    <2>2. QED  BY <2>1, ParameterTypes DEF IInv, Typed
  <1>5. stray \in Nat /\ stray <= strays + 1
    BY DEF IInv, Typed
  <1>6. PICK p \in Nat : p = Period(now)
    BY PeriodType DEF IInv, Typed
  <1>7. PICK r \in Nat : r = Period(last_roll_)
    BY PeriodType DEF IInv, Typed
  <1>8. last_roll_ <= now => r <= p
    BY <1>6, <1>7, PeriodMonotone DEF IInv, Typed
  <1>9. last_roll_ = now => r = p
    BY <1>6, <1>7
  <1>10. CASE OpenNext(Longer(len)) /\ start_of_period_' = Period(now)
              /\ count_' \in {count_, 0} /\ last_roll_' = now
    <2>1. strays' = 0 /\ count_' \in Nat /\ count_' < check_every_n_
      BY <1>10, ParameterAssumption DEF OpenNext, IInv, Typed
    <2>2. start_of_period_' = Period(last_roll_)'
      BY <1>10 DEF Period
    <2>3. Typed'
      BY <1>1, <1>2, <1>3, <1>4, <1>10, <2>1, <2>2, ParameterAssumption DEF IInv, Typed, FilesOK
    <2>4. StraysInCount'
      BY <1>2, <1>10, <2>1 DEF IInv, Typed, StraysInCount
    <2>5. QED  BY <1>0, <1>1, <2>3, <2>4 DEF IInv, FilesOK
  <1>11. CASE /\ strays' = stray /\ UNCHANGED <<start_of_period_, last_roll_>>
              /\ \/ count_' = count_ + 1 /\ count_ + 1 < check_every_n_
                 \/ now <= last_roll_ /\ count_' \in {count_, 0}
                 \/ Period(now) = start_of_period_ /\ count_' = 0
    <2>1. Typed'
      <3>1. start_of_period_' = Period(last_roll_)'
        BY <1>11 DEF IInv, Typed, Period
      <3> HIDE DEF stray
      <3>2. count_' \in Nat /\ count_' < check_every_n_
        BY <1>11, ParameterTypes DEF IInv, Typed
      <3>3. strays' \in Nat /\ strays' <= appends' /\ appends' \in 0..LineLimit
        BY <1>2, <1>5, <1>11, ParameterAssumption DEF IInv, Typed
      <3>4. QED
        BY <1>1, <1>2, <1>3, <1>4, <1>11, <3>1, <3>2, <3>3 DEF IInv, Typed, FilesOK
    <2>2. ASSUME ~setBack
          PROVE  /\ last_roll_' <= now'
                 /\ strays' <= count_'
                 /\ strays' > 0 => start_of_period_' < Period(now)'
      <3>1. start_of_period_ = r /\ strays \in Nat /\ count_ \in Nat
        BY <1>7 DEF IInv, Typed
      <3>2. last_roll_ <= now /\ strays <= count_ /\ (strays > 0 => r < p)
        BY <1>6, <2>2, <3>1 DEF IInv, StraysInCount
      <3>3. r <= p /\ (now <= last_roll_ => r = p)
        BY <1>8, <1>9, <3>2 DEF IInv, Typed
      <3>4. stray = strays + IF p # r THEN 1 ELSE 0
        BY <1>6, <3>1
      <3>5. stray <= count_' /\ (stray > 0 => r < p)
        BY <1>6, <1>11, <3>1, <3>2, <3>3, <3>4
      <3>6. Period(now)' = p
        BY <1>2, <1>6 DEF Period
      <3>7. QED  BY <1>2, <1>11, <3>1, <3>2, <3>5, <3>6
    <2>3. StraysInCount'
      BY <1>2, <2>2 DEF StraysInCount
    <2>4. QED  BY <1>0, <1>1, <2>1, <2>3 DEF IInv, FilesOK
  <1>12. \/ /\ OpenNext(Longer(len)) /\ start_of_period_' = Period(now)
            /\ count_' \in {count_, 0} /\ last_roll_' = now
         \/ /\ strays' = stray /\ UNCHANGED <<start_of_period_, last_roll_>>
            /\ \/ count_' = count_ + 1 /\ count_ + 1 < check_every_n_
               \/ now <= last_roll_ /\ count_' \in {count_, 0}
               \/ Period(now) = start_of_period_ /\ count_' = 0
    <2> DEFINE pending == IF oldest = 0 THEN now ELSE oldest
    <2>1. \/ Roll(Longer(len), pending, stray) /\ UNCHANGED count_
          \/ /\ count_' = count_ + 1 /\ ~(count_ + 1 >= check_every_n_)
             /\ Keep(Longer(len), pending, stray)
          \/ count_' = 0 /\ Check(Longer(len), pending, stray)
      BY DEF Append_, Longer
    <2> HIDE DEF stray, pending
    <2>2. count_ + 1 < check_every_n_ <=> ~(count_ + 1 >= check_every_n_)
      BY ParameterAssumption DEF IInv, Typed
    <2>3. QED  BY <2>1, <2>2 DEF Roll, Check, Keep, OpenNext
  <1>13. QED  BY <1>10, <1>11, <1>12

------------------------------------------------------------------------------
LEMMA InitIInv == Init => IInv
  <1> SUFFICES ASSUME Init PROVE IInv
    OBVIOUS
  <1> DEFINE first == [name |-> now, written |-> 0]
  <1>1. files = <<first>> /\ first \in File_
    BY DEF Init, File_
  <1>2. files \in Seq(File_) /\ Len(files) = 1 /\ files[1] = first /\ DOMAIN files = {1}
    BY <1>1
  <1>3. FilesAreNew
    BY <1>2 DEF FilesAreNew
  <1>4. Typed
    <2>1. /\ start_of_period_ = Period(last_roll_) /\ last_roll_ = now
          /\ now \in 1..MaxTime /\ last_flush_ = now
      BY DEF Init
    <2>2. files \in Seq(File_) /\ Len(files) > 0 /\ files[Len(files)].name = last_roll_
      BY <1>2, <2>1
    <2>3. count_ = 0 /\ oldest = 0 /\ strays = 0 /\ appends = 0
      BY DEF Init
    <2>4. setBack \in BOOLEAN
      BY DEF Init
    <2>5. /\ count_ \in Nat /\ count_ < check_every_n_ /\ oldest \in 0..MaxTime
          /\ strays \in Nat /\ appends \in 0..LineLimit /\ strays <= appends
      BY <2>3, ParameterTypes
    <2>6. last_roll_ \in 1..MaxTime /\ last_flush_ \in 1..MaxTime
      BY <2>1
    <2>7. QED  BY <2>1, <2>2, <2>4, <2>5, <2>6 DEF Typed
  <1>5. StraysInCount
    BY DEF Init, StraysInCount
  <1>6. FlushedBefore
    BY DEF Init, FlushedBefore
  <1>7. QED  BY <1>3, <1>4, <1>5, <1>6 DEF IInv

LEMMA ClockKeeps ==
    ASSUME IInv, Flush \/ Tick \/ StepBack \/ UNCHANGED vars
    PROVE  IInv'
  <1>1. CASE Flush
    BY <1>1, ParameterAssumption
       DEF IInv, Typed, FilesAreNew, StraysInCount, FlushedBefore, Flush, Period
  <1>2. CASE Tick
    <2>1. Typed' /\ FilesAreNew'
      BY <1>2, ParameterAssumption DEF IInv, Typed, FilesAreNew, Tick, Period
    <2>0. now \in Nat /\ now' \in Nat /\ now <= now'
      BY <1>2 DEF IInv, Typed, Tick
    <2>2. Period(now) <= Period(now') /\ Period(now) \in Nat /\ Period(now') \in Nat
      BY <2>0, PeriodMonotone, PeriodType
    <2>3. Period(now)' = Period(now')
      BY DEF Period
    <2>4. start_of_period_ \in Nat
      BY PeriodType DEF IInv, Typed
    <2>5. StraysInCount'
      BY <1>2, <2>2, <2>3, <2>4 DEF IInv, Typed, StraysInCount, Tick
    <2>6. FlushedBefore'
      BY <1>2 DEF IInv, Typed, FlushedBefore, Tick
    <2>7. QED  BY <2>1, <2>5, <2>6 DEF IInv
  <1>3. CASE StepBack
    BY <1>3, ParameterAssumption
       DEF IInv, Typed, FilesAreNew, StraysInCount, FlushedBefore, StepBack, Period
  <1>4. CASE UNCHANGED vars
    BY <1>4 DEF IInv, Typed, FilesAreNew, StraysInCount, FlushedBefore, vars, Period
  <1>5. QED  BY <1>1, <1>2, <1>3, <1>4

THEOREM Inductive == Spec => []IInv
  <1>1. IInv /\ [Next]_vars => IInv'
    BY AppendKeeps, ClockKeeps DEF Next
  <1>2. QED  BY InitIInv, <1>1, PTL DEF Spec

\* No file is opened twice, whatever the clock does (LogFile.cc:83-101).
THEOREM FilesAreNotReopened == Spec => []FilesAreNew
  BY Inductive, PTL DEF IInv

\* A file gets fewer lines of a later period than there are between two looks at the
\* clock, as long as it is not set back (LogFile.cc:63-72).
THEOREM StraysAreFew == Spec => []FewStrays
  <1>1. IInv => FewStrays
    BY ParameterTypes DEF IInv, Typed, StraysInCount, FewStrays
  <1>2. QED  BY Inductive, <1>1, PTL

------------------------------------------------------------------------------
\* What an append can end in, with the line in file_ and its size compared.
LEMMA AppendEnds ==
    ASSUME IInv, NEW len \in LineLengths, Append_(len)
    PROVE  \/ oldest' = 0 /\ Last(files').written <= roll_size_
           \/ now <= last_roll_ /\ Last(files').written > roll_size_
           \/ /\ Last(files').written <= roll_size_
              /\ oldest' = IF oldest = 0 THEN now ELSE oldest
              /\ \/ count_' = count_ + 1
                 \/ Period(now) # start_of_period_ /\ now <= last_roll_
                 \/ now - last_flush_ <= flush_interval_
  <1> DEFINE before == Longer(len)
             pending == IF oldest = 0 THEN now ELSE oldest
             stray == strays + IF Period(now) # start_of_period_ THEN 1 ELSE 0
  <1>1. before \in Seq(File_) /\ Len(before) > 0
    BY LongerKeeps DEF IInv, Typed
  <1>2. Last(before).written \in Nat
    <2>1. before[Len(before)] \in File_
      BY <1>1
    <2> HIDE DEF before
    <2>2. QED  BY <2>1 DEF Last, File_
  <1>3. roll_size_ \in Nat
    BY ParameterAssumption
  <1>4. ASSUME OpenNext(before)
        PROVE  oldest' = 0 /\ Last(files').written <= roll_size_
    <2> DEFINE new == [name |-> now, written |-> 0]
    <2>1. files' = Append(before, new) /\ oldest' = 0
      BY <1>4 DEF OpenNext
    <2>2. new \in File_
      BY DEF IInv, Typed, File_
    <2> HIDE DEF before
    <2>3. Last(files') = new
      BY <1>1, <2>1, <2>2, AppendProperties DEF Last
    <2>4. QED  BY <1>3, <2>1, <2>3
  <1>5. \/ Last(before).written > roll_size_ /\ Roll(before, pending, stray)
        \/ /\ ~(Last(before).written > roll_size_)
           /\ \/ count_' = count_ + 1 /\ Keep(before, pending, stray)
              \/ Check(before, pending, stray)
    BY DEF Append_, Longer
  <1> HIDE DEF before, stray
  <1>6. CASE Last(before).written > roll_size_ /\ Roll(before, pending, stray)
    BY <1>4, <1>6 DEF Roll, Keep
  <1>7. CASE Last(before).written <= roll_size_ /\ count_' = count_ + 1
             /\ Keep(before, pending, stray)
    BY <1>7 DEF Keep
  <1>8. CASE Last(before).written <= roll_size_ /\ Check(before, pending, stray)
    BY <1>4, <1>8 DEF Check, Roll, Keep
  <1>9. QED  BY <1>2, <1>3, <1>5, <1>6, <1>7, <1>8

LEMMA OnlyAppendAppends ==
    ASSUME IInv, [Next]_vars, appends' # appends
    PROVE  \E len \in LineLengths : Append_(len)
  BY DEF Next, Flush, Tick, StepBack, vars

\* A file outgrows its size only until the clock has passed the last roll
\* (LogFile.cc:56-60,89).
THEOREM SizeIsKept == Spec => OversizeOnlyInOneSecond
  <1>1. ASSUME IInv, [Next]_vars, appends' # appends, Last(files').written > roll_size_
        PROVE  now <= last_roll_
    <2>1. PICK len \in LineLengths : Append_(len)
      BY <1>1, OnlyAppendAppends
    <2>2. Last(files').written > roll_size_ => ~(Last(files').written <= roll_size_)
      <3>1. files' \in Seq(File_) /\ Len(files') > 0
        BY <1>1, <2>1, AppendedFiles DEF IInv, FilesOK
      <3>2. Last(files').written \in Nat
        <4>1. files'[Len(files')] \in File_
          BY <3>1
        <4>2. QED  BY <4>1 DEF Last, File_
      <3>3. QED  BY <3>2, ParameterAssumption
    <2>3. QED  BY <1>1, <2>1, <2>2, AppendEnds
  <1>2. QED  BY Inductive, <1>1, PTL DEF Spec, OversizeOnlyInOneSecond

\* A look at the clock leaves no line unflushed for longer than flush_interval_ while
\* the clock is not set back (LogFile.cc:74-78).
THEOREM ChecksFlush == Spec => FlushedInTime
  <1>1. ASSUME IInv, [Next]_vars, ~setBack, appends' # appends, count_' = 0, oldest' # 0
        PROVE  now - oldest' <= flush_interval_ \/ Last(files').written > roll_size_
    <2>1. PICK len \in LineLengths : Append_(len)
      BY <1>1, OnlyAppendAppends
    <2>2. /\ count_ \in Nat /\ now \in Nat /\ last_flush_ \in Nat /\ oldest \in Nat
          /\ last_roll_ \in Nat /\ flush_interval_ \in Nat
          /\ start_of_period_ = Period(last_roll_)
      BY <1>1, ParameterAssumption DEF IInv, Typed
    <2>3. last_roll_ <= now /\ last_flush_ <= now /\ (oldest # 0 => last_flush_ <= oldest)
      BY <1>1 DEF IInv, StraysInCount, FlushedBefore
    <2>4. ~(Period(now) # start_of_period_ /\ now <= last_roll_)
      BY <2>2, <2>3
    <2>5. \/ Last(files').written > roll_size_
          \/ /\ oldest' = IF oldest = 0 THEN now ELSE oldest
             /\ now - last_flush_ <= flush_interval_
      BY <1>1, <2>1, <2>2, <2>4, AppendEnds
    <2>6. QED  BY <2>2, <2>3, <2>5
  <1>2. QED  BY Inductive, <1>1, PTL DEF Spec, FlushedInTime

------------------------------------------------------------------------------
(* The file of an AppendFile, byte by byte, and its reader.                   *)

Byte == Nat

\* A run of bytes after number b.
Piece(bytes, b) == \A i \in 1..Len(bytes) : bytes[i] = b + i

\* Bytes in their order, none twice and none after the first top.
Ordered(bytes, top) ==
    /\ \A i, j \in 1..Len(bytes) : i < j => bytes[i] < bytes[j]
    /\ \A i \in 1..Len(bytes) : bytes[i] \in 1..top

\* Those of the first top bytes that are not there, and the last of each piece of a set.
Gone(bytes, top) == {b \in 1..top : \A i \in 1..Len(bytes) : bytes[i] # b}
Ends(S) == {b \in S : b + 1 \notin S}

\* Of the first top bytes, f failures have lost a piece of a buffer each.
Arrived(bytes, top, f) ==
    /\ Ordered(bytes, top)
    /\ Cardinality(Ends(Gone(bytes, top))) <= f
    /\ Cardinality(Gone(bytes, top)) <= f * BufferSize

CallType ==
    [len : Nat, n : Nat, x : Nat, again : BOOLEAN,
     at : {"none", "fill", "full", "blocks", "return"}]

\* The buffer holds the last of the bytes that stdio has taken, without a gap, and what
\* left it before has arrived but for the failures.  When an fwrite has fallen short the
\* buffer is empty, so that the next one takes something.
Contents ==
    /\ disk \in Seq(Byte) /\ buffer_ \in Seq(Byte)
    /\ written_bytes_ \in Nat /\ failures \in Nat
    /\ call \in CallType
    /\ call.n + call.x <= call.len
    /\ call.at = "none" => call = Util!NoCall
    /\ Len(buffer_) <= BufferSize /\ Len(buffer_) <= Util!Taken
    /\ Piece(buffer_, Util!Taken - Len(buffer_))
    /\ Arrived(disk, Util!Taken - Len(buffer_), failures)
    /\ call.at = "fill" => call.x = 0
    /\ call.at = "fill" /\ call.again => Len(buffer_) = 0 /\ call.n < call.len
    /\ call.at = "blocks" => Len(buffer_) = 0
    /\ call.at = "return" /\ call.n + call.x < call.len => Len(buffer_) = 0
    /\ call.again /\ call.at # "fill" => call.x > 0

\* One sequence is the beginning of another.
Begins(s, t) == Len(s) <= Len(t) /\ \A i \in 1..Len(s) : s[i] = t[i]

\* The reader has the beginning of the file, and stops at the end of it, at MaxSize or
\* with an error; a size that fstat has told it is reached by then.
Reading ==
    /\ path \in {"file", "directory", "missing"}
    /\ content \in Seq(Byte) /\ Begins(content, disk)
    /\ reading # "buffer done" => Len(content) <= MaxSize
    /\ file_size \in Int /\ file_size <= Len(disk)
    /\ reading = "open" => content = <<>> /\ (fd_ < 0 => err # 0)
    /\ reading = "new" => content = <<>>
    /\ reading = "string done" => \/ err # 0
                                  \/ Len(content) >= MaxSize
                                  \/ Len(content) >= file_size

FileInv == Contents /\ Reading

\* The least of two numbers.
LEMMA LeastOfTwo ==
  ASSUME NEW a \in Int, NEW b \in Int
  PROVE  /\ Util!Min({a, b}) \in Int
         /\ Util!Min({a, b}) = a \/ Util!Min({a, b}) = b
         /\ Util!Min({a, b}) <= a /\ Util!Min({a, b}) <= b
  <1>1. \E m \in {a, b} : \A y \in {a, b} : m <= y
    OBVIOUS
  <1>2. Util!Min({a, b}) \in {a, b} /\ \A y \in {a, b} : Util!Min({a, b}) <= y
    BY <1>1 DEF Util!Min
  <1> QED BY <1>2

\* The first k bytes of a file are a beginning of it.
LEMMA FirstBytes ==
  ASSUME NEW d \in Seq(Byte), NEW k \in 0..Len(d)
  PROVE  /\ SubSeq(d, 1, k) \in Seq(Byte) /\ Len(SubSeq(d, 1, k)) = k
         /\ \A i \in 1..k : SubSeq(d, 1, k)[i] = d[i]
         /\ Begins(SubSeq(d, 1, k), d)
  <1> DEFINE m == Len(d)
             f == SubSeq(d, 1, k)
  <1>1. m \in Nat /\ k \in Nat /\ k <= m /\ \A i \in 1..m : d[i] \in Byte
    BY LenProperties, ElementOfSeq
  <1>2. \A i \in 1..k : d[i] \in Byte
    BY <1>1
  <1>3. f \in Seq(Byte) /\ Len(f) = k /\ \A i \in 1..k : f[i] = d[i]
    <2>1. /\ f \in Seq(Byte) /\ Len(f) = (IF 1 <= k THEN k - 1 + 1 ELSE 0)
          /\ \A i \in 1..k - 1 + 1 : f[i] = d[1 + i - 1]
      BY <1>1, <1>2, SubSeqProperties
    <2>2. k - 1 + 1 = k /\ \A i \in 1..k : 1 + i - 1 = i
      BY <1>1
    <2> HIDE DEF f
    <2> QED BY <1>1, <2>1, <2>2
  <1> HIDE DEF f
  <1> QED BY <1>1, <1>3 DEF Begins, f

\* A run of bytes is a sequence.
LEMMA RunType ==
  ASSUME NEW b \in Nat, NEW k \in Nat
  PROVE  /\ Util!Run(b, k) \in Seq(Byte) /\ Len(Util!Run(b, k)) = k
         /\ Piece(Util!Run(b, k), b)
  <1> DEFINE f == [i \in 1..k |-> b + i]
  <1>1. f \in [1..k -> Byte]
    BY DEF Byte
  <1>2. f \in Seq(Byte) /\ DOMAIN f = 1..k /\ \A i \in 1..k : f[i] = b + i
    BY <1>1, IsASeq
  <1> HIDE DEF f
  <1>3. Len(f) = k
    BY <1>2, LenProperties
  <1> QED BY <1>2, <1>3 DEF f, Piece, Util!Run

\* What follows the bytes of a file without a gap arrives there.
LEMMA MoreArrives ==
  ASSUME NEW d \in Seq(Byte), NEW s \in Seq(Byte), NEW top \in Nat, NEW f \in Nat,
         NEW k \in 0..Len(s), NEW most, most = top + k,
         Arrived(d, top, f), Piece(s, top)
  PROVE  /\ d \o SubSeq(s, 1, k) \in Seq(Byte)
         /\ Begins(d, d \o SubSeq(s, 1, k))
         /\ Arrived(d \o SubSeq(s, 1, k), most, f)
  <1> DEFINE m == Len(d)
             add == SubSeq(s, 1, k)
             c == d \o add
  <1>1. /\ add \in Seq(Byte) /\ Len(add) = k /\ k \in Nat /\ m \in Nat
        /\ \A i \in 1..k : add[i] = s[i]
    BY FirstBytes, LenProperties
  <1>2. \A i \in 1..k : i \in 1..Len(s)
    BY LenProperties
  <1>3. \A i \in 1..k : add[i] = top + i
    BY <1>1, <1>2 DEF Piece
  <1>4. /\ c \in Seq(Byte) /\ Len(c) = m + k
        /\ \A i \in 1..m+k : c[i] = IF i <= m THEN d[i] ELSE add[i - m]
    BY <1>1, ConcatProperties
  <1>5. /\ \A i, j \in 1..m : i < j => d[i] < d[j]
        /\ \A i \in 1..m : d[i] \in 1..top
    BY DEF Arrived, Ordered
  <1> HIDE DEF m, add, c
  <1>6. \A i \in 1..m+k : IF i <= m THEN i \in 1..m /\ c[i] = d[i]
                          ELSE i - m \in 1..k /\ c[i] = top + (i - m)
    BY <1>1, <1>3, <1>4
  <1>7. Ordered(c, most)
    <2>1. ASSUME NEW i \in 1..m+k, NEW j \in 1..m+k, i < j PROVE c[i] < c[j]
      <3>1. CASE j <= m
        <4>1. i <= m
          BY <1>1, <2>1, <3>1
        <4> QED BY <1>5, <1>6, <2>1, <3>1, <4>1
      <3>2. CASE i <= m /\ ~(j <= m)
        <4>1. c[i] \in 1..top /\ j - m \in 1..k /\ c[j] = top + (j - m)
          BY <1>5, <1>6, <3>2
        <4>2. k \in Nat /\ top \in Nat
          BY <1>1
        <4> QED BY ONLY <4>1, <4>2
      <3>3. CASE ~(i <= m)
        <4>1. ~(j <= m)
          BY <1>1, <2>1, <3>3
        <4>2. c[i] = top + (i - m) /\ c[j] = top + (j - m)
          BY <1>6, <3>3, <4>1
        <4> QED BY <1>1, <2>1, <4>2
      <3> QED BY <3>1, <3>2, <3>3
    <2>2. ASSUME NEW i \in 1..m+k PROVE c[i] \in 1..most
      BY <1>1, <1>5, <1>6
    <2> QED BY <1>4, <2>1, <2>2 DEF Ordered
  <1>8. Gone(c, most) = Gone(d, top)
    <2>1. ASSUME NEW b \in 1..top, \A i \in 1..m : d[i] # b PROVE b \in Gone(c, most)
      <3>1. b \in 1..most
        BY <1>1
      <3>2. ASSUME NEW i \in 1..m+k PROVE c[i] # b
        BY <1>1, <1>6, <2>1
      <3> QED BY <1>4, <3>1, <3>2 DEF Gone
    <2>2. ASSUME NEW b \in 1..most, \A i \in 1..m+k : c[i] # b PROVE b \in Gone(d, top)
      <3>1. b \in 1..top
        <4>1. SUFFICES ASSUME b > top PROVE FALSE
          OBVIOUS
        <4> DEFINE i == m + (b - top)
        <4>2. i \in 1..m+k /\ ~(i <= m) /\ top + (i - m) = b
          BY <1>1, <4>1
        <4> HIDE DEF i
        <4> QED BY <1>6, <2>2, <4>2
      <3>2. ASSUME NEW i \in 1..m PROVE d[i] # b
        <4>1. i \in 1..m+k /\ i <= m
          BY <1>1
        <4> QED BY <1>6, <2>2, <4>1
      <3> QED BY <3>1, <3>2 DEF Gone, m
    <2> QED BY <1>4, <2>1, <2>2 DEF Gone, m
  <1>9. Begins(d, c)
    <2>1. \A i \in 1..m : i \in 1..m+k /\ i <= m
      BY <1>1
    <2> QED BY <1>1, <1>4, <1>6, <2>1 DEF Begins, m
  <1>10. Arrived(c, most, f)
    BY <1>7, <1>8 DEF Arrived
  <1> QED BY <1>4, <1>9, <1>10 DEF c, add

\* What is missing is finite.
LEMMA GoneFinite ==
  ASSUME NEW d, NEW top \in Nat
  PROVE  /\ IsFiniteSet(Gone(d, top)) /\ IsFiniteSet(Ends(Gone(d, top)))
         /\ Cardinality(Gone(d, top)) \in Nat /\ Cardinality(Ends(Gone(d, top))) \in Nat
  <1>1. 1 \in Int /\ top \in Int
    OBVIOUS
  <1>2. IsFiniteSet(1..top)
    BY ONLY <1>1, FS_Interval
  <1>3. Gone(d, top) \in SUBSET (1..top)
    BY DEF Gone
  <1>4. IsFiniteSet(Gone(d, top))
    BY ONLY <1>2, <1>3, FS_Subset
  <1>5. Ends(Gone(d, top)) \in SUBSET Gone(d, top)
    BY DEF Ends
  <1>6. IsFiniteSet(Ends(Gone(d, top)))
    BY ONLY <1>4, <1>5, FS_Subset
  <1> QED BY ONLY <1>4, <1>6, FS_CardinalityType

\* One more failure, with no byte lost.
LEMMA NoneLost ==
  ASSUME NEW d, NEW top \in Nat, NEW f \in Nat, Arrived(d, top, f)
  PROVE  Arrived(d, top, f + 1)
  <1>1. /\ Cardinality(Gone(d, top)) \in Nat /\ Cardinality(Ends(Gone(d, top))) \in Nat
        /\ BufferSize \in Nat
    BY GoneFinite, FileAssumption
  <1>2. (f + 1) * BufferSize = f * BufferSize + BufferSize /\ f * BufferSize \in Nat
    BY <1>1
  <1> QED BY <1>1, <1>2 DEF Arrived

\* One more failure, with a piece lost that is not longer than a buffer.
LEMMA PieceLost ==
  ASSUME NEW d, NEW top \in Nat, NEW f \in Nat, NEW k \in Nat, k > 0, k <= BufferSize,
         NEW most, most = top + k, Arrived(d, top, f)
  PROVE  Arrived(d, most, f + 1)
  <1> DEFINE G == Gone(d, top)
             H == Gone(d, most)
             P == top+1..most
  <1>1. most \in Nat /\ BufferSize \in Nat
    BY FileAssumption
  <1>2. /\ \A i, j \in 1..Len(d) : i < j => d[i] < d[j]
        /\ \A i \in 1..Len(d) : d[i] \in 1..top
        /\ Cardinality(Ends(G)) <= f /\ Cardinality(G) <= f * BufferSize
    BY DEF Arrived, Ordered
  <1>3. H = G \cup P
    BY <1>1, <1>2 DEF Gone
  <1>4. G \subseteq 1..top
    BY DEF Gone
  <1>5. Ends(H) \subseteq Ends(G) \cup {most}
    <2> SUFFICES ASSUME NEW b \in H, b + 1 \notin H, b # most PROVE b \in Ends(G)
      BY DEF Ends
    <2> HIDE DEF G, H
    <2>1. b \notin P
      <3> SUFFICES ASSUME b \in P PROVE FALSE
        OBVIOUS
      <3>1. b + 1 \in P
        BY <1>1
      <3> QED BY <1>3, <3>1
    <2>2. b \in G /\ b + 1 \notin G
      BY <1>3, <2>1
    <2> QED BY <2>2 DEF Ends
  <1>6. Ordered(d, most)
    BY <1>1, <1>2 DEF Ordered
  <1>7. Cardinality(P) = k /\ IsFiniteSet(P)
    <2>1. top + 1 \in Int /\ most \in Int /\ ~(top + 1 > most) /\ most - (top + 1) + 1 = k
      BY <1>1
    <2>2. /\ IsFiniteSet(P)
          /\ Cardinality(P) = IF top + 1 > most THEN 0 ELSE most - (top + 1) + 1
      BY ONLY <2>1, FS_Interval
    <2> QED BY ONLY <2>1, <2>2
  <1>8. /\ IsFiniteSet(G) /\ IsFiniteSet(Ends(G))
        /\ Cardinality(G) \in Nat /\ Cardinality(Ends(G)) \in Nat
        /\ Cardinality(H) \in Nat /\ Cardinality(Ends(H)) \in Nat
    BY <1>1, GoneFinite
  <1>9. Cardinality(H) <= Cardinality(G) + k
    <2>1. /\ Cardinality(G \cup P) = Cardinality(G) + Cardinality(P) - Cardinality(G \cap P)
          /\ IsFiniteSet(G \cap P)
      <3>1. IsFiniteSet(G) /\ IsFiniteSet(P)
        BY <1>7, <1>8
      <3>2. G \cap P \in SUBSET P
        OBVIOUS
      <3> HIDE DEF G, P
      <3>3. IsFiniteSet(G \cap P)
        BY ONLY <3>1, <3>2, FS_Subset
      <3> QED BY ONLY <3>1, <3>3, FS_Union
    <2>2. Cardinality(G \cap P) \in Nat
      BY ONLY <2>1, FS_CardinalityType
    <2> HIDE DEF G, P, H
    <2> QED BY <1>3, <1>7, <1>8, <2>1, <2>2
  <1>10. Cardinality(Ends(H)) <= Cardinality(Ends(G)) + 1
    <2> DEFINE E == Ends(G)
               F == Ends(H)
    <2>1. IsFiniteSet(E) /\ F \in SUBSET (E \cup {most}) /\ Cardinality(E) \in Nat
      BY <1>5, <1>8
    <2>2. Cardinality(F) \in Nat
      BY <1>8
    <2> HIDE DEF E, F
    <2>3. /\ IsFiniteSet(E \cup {most})
          /\ Cardinality(E \cup {most}) =
                IF most \in E THEN Cardinality(E) ELSE Cardinality(E) + 1
      BY ONLY <2>1, FS_AddElement
    <2>4. Cardinality(F) <= Cardinality(E \cup {most})
      BY ONLY <2>1, <2>3, FS_Subset
    <2>5. Cardinality(F) <= Cardinality(E) + 1
      BY ONLY <2>1, <2>2, <2>3, <2>4
    <2> QED BY <2>5 DEF E, F
  <1>11. (f + 1) * BufferSize = f * BufferSize + BufferSize /\ f * BufferSize \in Nat
    BY <1>1
  <1> HIDE DEF G, H
  <1>12. Cardinality(Ends(H)) <= f + 1 /\ Cardinality(H) <= (f + 1) * BufferSize
    BY <1>1, <1>2, <1>8, <1>9, <1>10, <1>11
  <1> QED BY <1>6, <1>12 DEF Arrived, H

------------------------------------------------------------------------------
(* Steps of the writer.                                                       *)

LEMMA InitContents == Util!Init => FileInv
  <1> SUFFICES ASSUME Util!Init PROVE FileInv
    OBVIOUS
  <1>1. /\ disk = <<>> /\ buffer_ = <<>> /\ Len(disk) = 0 /\ Len(buffer_) = 0
        /\ written_bytes_ = 0 /\ failures = 0 /\ call = Util!NoCall
    BY DEF Util!Init
  <1>2. /\ call.len = 0 /\ call.n = 0 /\ call.x = 0 /\ call.again = FALSE /\ call.at = "none"
        /\ call \in CallType
    BY <1>1 DEF Util!NoCall, CallType
  <1>3. Util!Taken = 0 /\ BufferSize \in Nat
    BY <1>1, <1>2, FileAssumption DEF Util!Taken
  <1>4. Arrived(disk, 0, 0)
    <2>1. Gone(disk, 0) = {} /\ Ends(Gone(disk, 0)) = {}
      BY DEF Gone, Ends
    <2>2. Cardinality({}) = 0
      BY FS_EmptySet
    <2>3. 0 * BufferSize = 0
      BY <1>3
    <2>4. Ordered(disk, 0)
      BY <1>1 DEF Ordered
    <2> QED BY <2>1, <2>2, <2>3, <2>4 DEF Arrived
  <1>5. Contents
    <2>1. Util!Taken - Len(buffer_) = 0
      <3>1. Util!Taken = 0 /\ Len(buffer_) = 0
        BY <1>1, <1>3
      <3> QED BY ONLY <3>1
    <2>2. Piece(buffer_, Util!Taken - Len(buffer_))
      BY <1>1 DEF Piece
    <2> QED BY <1>1, <1>2, <1>3, <1>4, <2>1, <2>2 DEF Contents
  <1>6. Reading
    BY <1>1, FileAssumption DEF Util!Init, Reading, Begins
  <1> QED BY <1>5, <1>6 DEF FileInv

\* What Contents says of the numbers.
LEMMA CallTypes ==
  ASSUME Contents
  PROVE  /\ call \in CallType
         /\ call.len \in Nat /\ call.n \in Nat /\ call.x \in Nat /\ call.again \in BOOLEAN
         /\ call.n + call.x <= call.len /\ written_bytes_ \in Nat /\ failures \in Nat
         /\ BufferSize \in Nat /\ BufferSize > 0
         /\ Util!Taken = written_bytes_ + call.n + call.x /\ Util!Taken \in Nat
         /\ Util!Start + call.x = Util!Taken
         /\ Util!Left = call.len - call.n - call.x /\ Util!Left \in Nat
         /\ Len(buffer_) \in Nat /\ Len(buffer_) <= BufferSize
         /\ Len(buffer_) <= Util!Taken /\ Util!Taken - Len(buffer_) \in Nat
  <1>1. /\ call \in CallType /\ call.n + call.x <= call.len
        /\ written_bytes_ \in Nat /\ failures \in Nat /\ buffer_ \in Seq(Byte)
        /\ Len(buffer_) <= BufferSize /\ Len(buffer_) <= Util!Taken
    BY DEF Contents
  <1>2. /\ call.len \in Nat /\ call.n \in Nat /\ call.x \in Nat /\ call.again \in BOOLEAN
    BY <1>1 DEF CallType
  <1>3. BufferSize \in Nat /\ BufferSize > 0 /\ Len(buffer_) \in Nat
    BY <1>1, FileAssumption, LenProperties
  <1>4. Util!Taken = written_bytes_ + call.n + call.x /\ Util!Taken \in Nat
    BY <1>1, <1>2 DEF Util!Taken
  <1>5. Util!Start + call.x = Util!Taken
    BY <1>1, <1>2, <1>4 DEF Util!Start
  <1>6. Util!Left = call.len - call.n - call.x /\ Util!Left \in Nat
    BY <1>1, <1>2 DEF Util!Left
  <1>7. Util!Taken - Len(buffer_) \in Nat
    BY <1>1, <1>3, <1>4
  <1> QED BY <1>1, <1>2, <1>3, <1>4, <1>5, <1>6, <1>7

LEMMA AppendContents ==
  ASSUME Contents, NEW len \in Lengths, Util!Append_(len)
  PROVE  Contents'
  <1>1. len \in Nat /\ len > 0
    BY FileAssumption
  <1>2. /\ call = Util!NoCall /\ call' = [Util!NoCall EXCEPT !.len = len, !.at = "fill"]
        /\ UNCHANGED <<disk, buffer_, written_bytes_, failures>>
    BY DEF Util!Append_
  <1>3. call.n = 0 /\ call.x = 0
    BY <1>2 DEF Util!NoCall
  <1>4. /\ call'.len = len /\ call'.n = 0 /\ call'.x = 0 /\ call'.again = FALSE
        /\ call'.at = "fill" /\ call' \in CallType
    BY <1>1, <1>2 DEF Util!NoCall, CallType
  <1>5. Util!Taken' = Util!Taken
    BY <1>2, <1>3, <1>4 DEF Util!Taken
  <1>6. /\ disk \in Seq(Byte) /\ buffer_ \in Seq(Byte) /\ written_bytes_ \in Nat
        /\ failures \in Nat /\ Len(buffer_) <= BufferSize /\ Len(buffer_) <= Util!Taken
        /\ Piece(buffer_, Util!Taken - Len(buffer_))
        /\ Arrived(disk, Util!Taken - Len(buffer_), failures)
    BY DEF Contents
  <1>7. call'.n + call'.x <= call'.len
    BY ONLY <1>1, <1>4
  <1> QED BY <1>2, <1>4, <1>5, <1>6, <1>7 DEF Contents

\* fwrite fills the buffer with what comes next.
LEMMA FillContents ==
  ASSUME Contents, Util!Fill
  PROVE  Contents' /\ disk' = disk
  <1> DEFINE k == Util!Min({Util!Space, Util!Left})
             add == Util!Run(Util!Taken, k)
             m == Len(buffer_)
             t == Util!Taken
  <1>1. /\ call.at = "fill" /\ call.x = 0 /\ (call.again => m = 0 /\ call.n < call.len)
        /\ disk \in Seq(Byte) /\ buffer_ \in Seq(Byte) /\ written_bytes_ \in Nat
        /\ failures \in Nat
        /\ Piece(buffer_, t - m) /\ Arrived(disk, t - m, failures)
    BY DEF Contents, Util!Fill
  <1>2. /\ m \in Nat /\ t \in Nat /\ m <= t /\ m <= BufferSize /\ BufferSize \in Nat
        /\ BufferSize > 0 /\ t - m \in Nat
        /\ call.len \in Nat /\ call.n \in Nat /\ call.x \in Nat /\ call.again \in BOOLEAN
        /\ call \in CallType /\ call.n + call.x <= call.len
        /\ Util!Left = call.len - call.n - call.x /\ Util!Left \in Nat
        /\ t = written_bytes_ + call.n + call.x /\ Util!Start + call.x = t
    BY CallTypes
  <1>3. /\ Util!Space \in Nat /\ m + Util!Space <= BufferSize
        /\ call.again => Util!Space > 0
    BY <1>1, <1>2 DEF Util!Space
  <1>4. k \in Nat /\ k <= Util!Space /\ k <= Util!Left /\ (call.again => k > 0)
    <2>1. Util!Space \in Int /\ Util!Left \in Int
      BY ONLY <1>2, <1>3
    <2>2. k \in Int /\ (k = Util!Space \/ k = Util!Left) /\ k <= Util!Space /\ k <= Util!Left
      BY ONLY <2>1, LeastOfTwo
    <2>3. call.again => Util!Left > 0
      BY ONLY <1>1, <1>2
    <2> HIDE DEF k
    <2> QED BY ONLY <1>2, <1>3, <2>2, <2>3
  <1>5. /\ buffer_' = buffer_ \o add
        /\ call' = [call EXCEPT !.x = @ + k,
                                !.at = IF k = Util!Left THEN "return" ELSE "full"]
        /\ UNCHANGED <<disk, written_bytes_, failures>>
    BY <1>2 DEF Util!Fill, Util!Part
  <1> HIDE DEF k
  <1>6. add \in Seq(Byte) /\ Len(add) = k /\ \A i \in 1..k : add[i] = t + i
    BY <1>2, <1>4, RunType DEF Piece
  <1> HIDE DEF add
  <1>7. /\ call'.len = call.len /\ call'.n = call.n /\ call'.x = call.x + k
        /\ call'.again = call.again
        /\ call'.at = (IF k = Util!Left THEN "return" ELSE "full")
        /\ call' \in CallType
    <2> DEFINE a == IF k = Util!Left THEN "return" ELSE "full"
    <2>1. a \in {"return", "full"} /\ call.x + k \in Nat /\ call \in CallType
      BY <1>2, <1>4
    <2>2. call' = [call EXCEPT !.x = call.x + k, !.at = a]
      BY ONLY <1>5
    <2> HIDE DEF a
    <2>3. /\ call'.len = call.len /\ call'.n = call.n /\ call'.x = call.x + k
          /\ call'.again = call.again /\ call'.at = a /\ call' \in CallType
      BY ONLY <2>1, <2>2 DEF CallType
    <2> QED BY ONLY <2>3 DEF a
  <1>8. Util!Taken' = t + k
    <2>1. Util!Taken' = written_bytes_' + call'.n + call'.x /\ written_bytes_' = written_bytes_
      BY <1>5 DEF Util!Taken
    <2>2. written_bytes_ \in Nat
      BY <1>1
    <2>3. t = written_bytes_ + call.n + call.x /\ call.n \in Nat /\ call.x \in Nat /\ k \in Nat
      BY <1>2, <1>4
    <2>4. Util!Taken' = written_bytes_ + call.n + (call.x + k)
      BY ONLY <1>7, <2>1
    <2> HIDE DEF t
    <2> QED BY ONLY <2>2, <2>3, <2>4
  <1>9. /\ buffer_' \in Seq(Byte) /\ Len(buffer_') = m + k
        /\ \A i \in 1..m+k : buffer_'[i] = IF i <= m THEN buffer_[i] ELSE add[i - m]
    BY <1>1, <1>5, <1>6, ConcatProperties
  <1>10. \A i \in 1..m : buffer_[i] = (t - m) + i
    BY <1>1 DEF Piece
  <1> HIDE DEF m, t
  <1>11. (t + k) - (m + k) = t - m
    BY ONLY <1>2, <1>4
  <1>12. Piece(buffer_', t - m)
    <2>1. ASSUME NEW i \in 1..m+k PROVE buffer_'[i] = (t - m) + i
      <3>1. CASE i <= m
        <4>1. i \in 1..m
          BY <3>1
        <4> QED BY <1>9, <1>10, <3>1, <4>1
      <3>2. CASE ~(i <= m)
        <4>1. i - m \in 1..k /\ t + (i - m) = (t - m) + i
          BY <1>2, <1>4, <3>2
        <4> QED BY <1>6, <1>9, <3>2, <4>1
      <3> QED BY <3>1, <3>2
    <2> QED BY <1>9, <2>1 DEF Piece
  <1>13. call'.n + call'.x <= call'.len
    BY ONLY <1>2, <1>4, <1>7
  <1>14. m + k <= BufferSize /\ m + k <= t + k
    BY ONLY <1>2, <1>3, <1>4
  <1>15. call'.at = "return" => ~(call'.n + call'.x < call'.len)
    BY ONLY <1>2, <1>4, <1>7
  <1>16. call'.again => call'.x > 0
    BY ONLY <1>1, <1>2, <1>4, <1>7
  <1>17. call'.at = "return" \/ call'.at = "full"
    BY ONLY <1>7
  <1>18. /\ Len(buffer_') <= BufferSize /\ Len(buffer_') <= Util!Taken'
         /\ Piece(buffer_', Util!Taken' - Len(buffer_'))
         /\ Arrived(disk', Util!Taken' - Len(buffer_'), failures')
    BY <1>1, <1>5, <1>8, <1>9, <1>11, <1>12, <1>14 DEF m, t
  <1> QED BY <1>1, <1>5, <1>7, <1>9, <1>13, <1>15, <1>16, <1>17, <1>18 DEF Contents

\* A device is given bytes that follow those that it was given before, and takes some.
LEMMA DeviceTakes ==
  ASSUME disk \in Seq(Byte), failures \in Nat, NEW top \in Nat, Arrived(disk, top, failures),
         NEW s \in Seq(Byte), Piece(s, top), NEW k \in 0..Len(s), Util!Device(s, k),
         NEW most, most = top + k
  PROVE  /\ disk' \in Seq(Byte) /\ failures' \in Nat /\ Begins(disk, disk')
         /\ Arrived(disk', most, failures)
         /\ IF k = Len(s) THEN failures' = failures ELSE failures' = failures + 1
  <1>1. disk' = disk \o SubSeq(s, 1, k)
    BY DEF Util!Device
  <1>2. IF k = Len(s) THEN failures' = failures ELSE failures' = failures + 1
    BY DEF Util!Device
  <1>3. /\ disk \o SubSeq(s, 1, k) \in Seq(Byte)
        /\ Begins(disk, disk \o SubSeq(s, 1, k))
        /\ Arrived(disk \o SubSeq(s, 1, k), most, failures)
    BY MoreArrives
  <1> QED BY <1>1, <1>2, <1>3

\* The buffer goes to the device, and is empty then.
LEMMA BufferWritten ==
  ASSUME Contents, NEW k \in 0..Len(buffer_), Util!Device(buffer_, k)
  PROVE  /\ disk' \in Seq(Byte) /\ failures' \in Nat /\ Begins(disk, disk')
         /\ Arrived(disk', Util!Taken, failures')
  <1> DEFINE m == Len(buffer_)
             t == Util!Taken
             top == t - m
             most == top + k
  <1>1. /\ m \in Nat /\ t \in Nat /\ m <= BufferSize /\ m <= t /\ top \in Nat
        /\ failures \in Nat /\ BufferSize \in Nat
    BY CallTypes
  <1>2. /\ disk \in Seq(Byte) /\ buffer_ \in Seq(Byte) /\ Piece(buffer_, top)
        /\ Arrived(disk, top, failures)
    BY DEF Contents
  <1>3. k \in Nat /\ k <= m /\ most \in Nat
    BY <1>1
  <1> HIDE DEF top
  <1>4. /\ disk' \in Seq(Byte) /\ failures' \in Nat /\ Begins(disk, disk')
        /\ Arrived(disk', most, failures)
        /\ IF k = m THEN failures' = failures ELSE failures' = failures + 1
    BY <1>1, <1>2, DeviceTakes
  <1>5. CASE k = m
    <2>1. most = t
      BY <1>1, <1>5 DEF top
    <2> QED BY <1>4, <1>5, <2>1
  <1>6. CASE k # m
    <2> DEFINE j == m - k
    <2>1. j \in Nat /\ j > 0 /\ j <= BufferSize /\ t = most + j
      BY <1>1, <1>3, <1>6 DEF top
    <2> HIDE DEF j, most, t
    <2>2. Arrived(disk', t, failures + 1)
      BY <1>1, <1>3, <1>4, <2>1, PieceLost
    <2> QED BY <1>4, <1>6, <2>2 DEF t
  <1> QED BY <1>5, <1>6

\* An empty buffer after all that was taken.
LEMMA EmptyBuffer ==
  ASSUME Contents, buffer_' = <<>>, Util!Taken' = Util!Taken,
         Arrived(disk', Util!Taken, failures')
  PROVE  /\ buffer_' \in Seq(Byte) /\ Len(buffer_') = 0
         /\ Len(buffer_') <= BufferSize /\ Len(buffer_') <= Util!Taken'
         /\ Piece(buffer_', Util!Taken' - Len(buffer_'))
         /\ Arrived(disk', Util!Taken' - Len(buffer_'), failures')
  <1>1. BufferSize \in Nat /\ Util!Taken \in Nat
    BY CallTypes
  <1>2. buffer_' \in Seq(Byte) /\ Len(buffer_') = 0 /\ Util!Taken' - Len(buffer_') = Util!Taken
    BY <1>1
  <1>3. Piece(buffer_', Util!Taken' - Len(buffer_'))
    BY <1>2 DEF Piece
  <1> QED BY <1>1, <1>2, <1>3

LEMMA OverflowContents ==
  ASSUME Contents, Util!Overflow
  PROVE  Contents' /\ Begins(disk, disk')
  <1>1. PICK k \in 0..Len(buffer_) :
           /\ Util!Device(buffer_, k)
           /\ call' = [call EXCEPT !.at = IF k = Len(buffer_) THEN "blocks" ELSE "return"]
    BY DEF Util!Overflow
  <1>2. call.at = "full" /\ buffer_' = <<>> /\ written_bytes_' = written_bytes_
    BY DEF Util!Overflow
  <1>3. /\ disk' \in Seq(Byte) /\ failures' \in Nat /\ Begins(disk, disk')
        /\ Arrived(disk', Util!Taken, failures')
    BY <1>1, BufferWritten
  <1>4. /\ call'.len = call.len /\ call'.n = call.n /\ call'.x = call.x
        /\ call'.again = call.again /\ call'.at \in {"blocks", "return"} /\ call' \in CallType
    <2>1. call \in CallType
      BY CallTypes
    <2> QED BY <1>1, <2>1 DEF CallType
  <1>5. Util!Taken' = Util!Taken
    BY <1>2, <1>4 DEF Util!Taken
  <1>6. /\ buffer_' \in Seq(Byte) /\ Len(buffer_') = 0
        /\ Len(buffer_') <= BufferSize /\ Len(buffer_') <= Util!Taken'
        /\ Piece(buffer_', Util!Taken' - Len(buffer_'))
        /\ Arrived(disk', Util!Taken' - Len(buffer_'), failures')
    BY <1>2, <1>3, <1>5, EmptyBuffer
  <1>7. /\ written_bytes_ \in Nat /\ call.n + call.x <= call.len
        /\ call.again => call.x > 0
    BY <1>2 DEF Contents
  <1> QED BY <1>2, <1>3, <1>4, <1>6, <1>7 DEF Contents

LEMMA BlocksContents ==
  ASSUME Contents, Util!Blocks
  PROVE  Contents' /\ Begins(disk, disk')
  <1> DEFINE l == Util!Left
             t == Util!Taken
             r == l % BufferSize
             whole == l - r
             blocks == Util!Run(t, whole)
  <1>1. /\ call.at = "blocks" /\ written_bytes_' = written_bytes_ /\ Len(buffer_) = 0
        /\ disk \in Seq(Byte) /\ buffer_ \in Seq(Byte) /\ written_bytes_ \in Nat
        /\ Arrived(disk, t - Len(buffer_), failures) /\ (call.again => call.x > 0)
    BY DEF Util!Blocks, Contents
  <1>2. /\ t \in Nat /\ l \in Nat /\ BufferSize \in Nat /\ BufferSize > 0 /\ failures \in Nat
        /\ call.len \in Nat /\ call.n \in Nat /\ call.x \in Nat /\ call.again \in BOOLEAN
        /\ call \in CallType /\ l = call.len - call.n - call.x
        /\ t = written_bytes_ + call.n + call.x /\ Util!Start + call.x = t
    BY CallTypes
  <1>3. r \in Nat /\ r < BufferSize /\ r <= l /\ whole \in Nat
    BY <1>2
  <1>4. PICK k \in 0..whole :
           /\ Util!Device(blocks, k)
           /\ IF k = whole
              THEN /\ buffer_' = Util!Run(t + k, r)
                   /\ call' = [call EXCEPT !.x = @ + l, !.at = "return"]
              ELSE /\ buffer_' = buffer_
                   /\ call' = [call EXCEPT !.x = @ + k, !.at = "return"]
    BY <1>2 DEF Util!Blocks, Util!Part
  <1> HIDE DEF r, whole, l
  <1>5. k \in Nat /\ k <= whole /\ whole <= l /\ whole + r = l
    BY <1>2, <1>3 DEF whole
  <1>6. blocks \in Seq(Byte) /\ Len(blocks) = whole /\ Piece(blocks, t)
    BY <1>2, <1>3, RunType
  <1>7. Arrived(disk, t, failures)
    BY <1>1, <1>2
  <1> HIDE DEF blocks
  <1> DEFINE most == t + k
  <1>8. /\ disk' \in Seq(Byte) /\ failures' \in Nat /\ Begins(disk, disk')
        /\ Arrived(disk', most, failures)
        /\ IF k = whole THEN failures' = failures ELSE failures' = failures + 1
    BY <1>1, <1>2, <1>4, <1>6, <1>7, DeviceTakes
  <1>9. most \in Nat
    BY <1>2, <1>5
  <1>10. CASE k = whole
    <2>1. /\ call'.len = call.len /\ call'.n = call.n /\ call'.x = call.x + l
          /\ call'.again = call.again /\ call'.at = "return" /\ call' \in CallType
      <3>1. call' = [call EXCEPT !.x = call.x + l, !.at = "return"]
        BY <1>4, <1>10
      <3>2. call.x + l \in Nat /\ call \in CallType
        BY <1>2
      <3> QED BY ONLY <3>1, <3>2 DEF CallType
    <2>2. Util!Taken' = t + l /\ call'.n + call'.x = call'.len
          /\ (call'.again => call'.x > 0)
      <3>1. Util!Taken' = written_bytes_' + call'.n + call'.x
        BY DEF Util!Taken
      <3>2. /\ written_bytes_ \in Nat /\ call.len \in Nat /\ call.n \in Nat /\ call.x \in Nat
            /\ l \in Nat /\ l = call.len - call.n - call.x
            /\ t = written_bytes_ + call.n + call.x
        BY <1>1, <1>2
      <3>3. Util!Taken' = written_bytes_ + call.n + (call.x + l)
        BY ONLY <1>1, <2>1, <3>1
      <3> HIDE DEF t
      <3>4. Util!Taken' = t + l
        BY ONLY <3>2, <3>3
      <3>5. call'.n + call'.x = call'.len
        BY ONLY <2>1, <3>2
      <3>6. call'.again => call'.x > 0
        BY ONLY <1>1, <2>1, <3>2
      <3> QED BY ONLY <3>4, <3>5, <3>6
    <2>3. /\ buffer_' \in Seq(Byte) /\ Len(buffer_') = r /\ Piece(buffer_', most)
      BY <1>3, <1>4, <1>9, <1>10, RunType
    <2>4. (t + l) - r = most /\ r <= t + l /\ r <= BufferSize
      BY <1>2, <1>3, <1>5, <1>10
    <2>5. failures' = failures
      BY <1>8, <1>10
    <2> HIDE DEF most, t
    <2>6. /\ Len(buffer_') <= BufferSize /\ Len(buffer_') <= Util!Taken'
          /\ Piece(buffer_', Util!Taken' - Len(buffer_'))
          /\ Arrived(disk', Util!Taken' - Len(buffer_'), failures')
      BY <1>8, <2>2, <2>3, <2>4, <2>5
    <2>7. call'.n + call'.x <= call'.len /\ ~(call'.n + call'.x < call'.len)
      BY <1>2, <2>1, <2>2
    <2> QED BY <1>1, <1>8, <2>1, <2>2, <2>3, <2>6, <2>7 DEF Contents
  <1>11. CASE k # whole
    <2>1. /\ call'.len = call.len /\ call'.n = call.n /\ call'.x = call.x + k
          /\ call'.again = call.again /\ call'.at = "return" /\ call' \in CallType
      <3>1. call' = [call EXCEPT !.x = call.x + k, !.at = "return"]
        BY <1>4, <1>11
      <3>2. call.x + k \in Nat /\ call \in CallType
        BY <1>2, <1>5
      <3> QED BY ONLY <3>1, <3>2 DEF CallType
    <2>2. /\ Util!Taken' = most /\ call'.n + call'.x <= call'.len
          /\ (call'.again => call'.x > 0)
      <3>1. Util!Taken' = written_bytes_' + call'.n + call'.x /\ whole \in Nat
        BY <1>3 DEF Util!Taken
      <3>2. /\ written_bytes_ \in Nat /\ call.len \in Nat /\ call.n \in Nat /\ call.x \in Nat
            /\ l \in Nat /\ l = call.len - call.n - call.x
            /\ t = written_bytes_ + call.n + call.x
        BY <1>1, <1>2
      <3>3. Util!Taken' = written_bytes_ + call.n + (call.x + k)
        BY ONLY <1>1, <2>1, <3>1
      <3> HIDE DEF t
      <3>4. k \in Nat /\ k <= l
        BY ONLY <1>5, <3>1, <3>2
      <3>5. Util!Taken' = most
        BY ONLY <3>2, <3>3, <3>4
      <3>6. call'.n + call'.x <= call'.len
        BY ONLY <2>1, <3>2, <3>4
      <3>7. call'.again => call'.x > 0
        BY ONLY <1>1, <2>1, <3>2, <3>4
      <3> QED BY ONLY <3>5, <3>6, <3>7
    <2>3. buffer_' = buffer_ /\ failures' = failures + 1
      BY <1>4, <1>8, <1>11
    <2>4. Arrived(disk', most, failures + 1)
      BY <1>2, <1>8, <1>9, NoneLost
    <2> HIDE DEF most
    <2>5. most - 0 = most /\ 0 <= most /\ 0 <= BufferSize
      BY ONLY <1>2, <1>9
    <2>6. /\ Len(buffer_') <= BufferSize /\ Len(buffer_') <= Util!Taken'
          /\ Arrived(disk', Util!Taken' - Len(buffer_'), failures')
      BY <1>1, <2>2, <2>3, <2>4, <2>5
    <2>7. Piece(buffer_', Util!Taken' - Len(buffer_'))
      BY <1>1, <2>3 DEF Piece
    <2> QED BY <1>1, <1>8, <2>1, <2>2, <2>3, <2>6, <2>7 DEF Contents
  <1> QED BY <1>8, <1>10, <1>11

LEMMA WriteReturnsContents ==
  ASSUME Contents, Util!WriteReturns
  PROVE  Contents' /\ disk' = disk
  <1>1. /\ call.at = "return" /\ UNCHANGED <<disk, buffer_, failures>>
    BY DEF Util!WriteReturns
  <1>2. /\ disk \in Seq(Byte) /\ buffer_ \in Seq(Byte) /\ failures \in Nat
        /\ Len(buffer_) <= BufferSize /\ Len(buffer_) <= Util!Taken
        /\ Piece(buffer_, Util!Taken - Len(buffer_))
        /\ Arrived(disk, Util!Taken - Len(buffer_), failures)
        /\ call.n + call.x < call.len => Len(buffer_) = 0
        /\ call.again => call.x > 0
    BY <1>1 DEF Contents
  <1>3. /\ call.len \in Nat /\ call.n \in Nat /\ call.x \in Nat /\ call \in CallType
        /\ written_bytes_ \in Nat /\ call.n + call.x <= call.len
        /\ Util!Left = call.len - call.n - call.x
        /\ Util!Taken = written_bytes_ + call.n + call.x
    BY CallTypes
  <1>4. CASE Util!Left = 0 \/ (call.again /\ call.x = 0)
    <2>1. call.n + call.x = call.len
      <3>1. ~(call.again /\ call.x = 0)
        BY ONLY <1>2, <1>3
      <3>2. Util!Left = 0
        BY ONLY <1>4, <3>1
      <3> QED BY ONLY <1>3, <3>2
    <2>2. call' = Util!NoCall /\ written_bytes_' = written_bytes_ + call.len
      BY <1>4 DEF Util!WriteReturns
    <2>3. /\ call'.len = 0 /\ call'.n = 0 /\ call'.x = 0 /\ call'.again = FALSE
          /\ call'.at = "none" /\ call' \in CallType
      BY <2>2 DEF Util!NoCall, CallType
    <2>4. Util!Taken' = Util!Taken /\ written_bytes_' \in Nat
      BY <1>3, <2>1, <2>2, <2>3 DEF Util!Taken
    <2> QED BY <1>1, <1>2, <2>2, <2>3, <2>4 DEF Contents
  <1>5. CASE ~(Util!Left = 0 \/ (call.again /\ call.x = 0))
    <2>1. call.n + call.x < call.len
      BY <1>3, <1>5
    <2>2. /\ call' = [call EXCEPT !.n = @ + call.x, !.x = 0, !.again = TRUE, !.at = "fill"]
          /\ written_bytes_' = written_bytes_
      BY <1>5 DEF Util!WriteReturns
    <2>3. /\ call'.len = call.len /\ call'.n = call.n + call.x /\ call'.x = 0
          /\ call'.again = TRUE /\ call'.at = "fill" /\ call' \in CallType
      <3>1. call.n + call.x \in Nat /\ call \in CallType
        BY <1>3
      <3>2. call' = [call EXCEPT !.n = call.n + call.x, !.x = 0, !.again = TRUE,
                                 !.at = "fill"]
        BY <2>2
      <3> QED BY ONLY <3>1, <3>2 DEF CallType
    <2>4. /\ Util!Taken' = Util!Taken /\ call'.n < call'.len
          /\ call'.n + call'.x <= call'.len
      BY <1>3, <2>1, <2>2, <2>3 DEF Util!Taken
    <2> QED BY <1>1, <1>2, <1>3, <2>1, <2>2, <2>3, <2>4 DEF Contents
  <1> QED BY <1>1, <1>4, <1>5

LEMMA FlushContents ==
  ASSUME Contents, Util!Flush
  PROVE  Contents' /\ Begins(disk, disk')
  <1>1. PICK k \in 0..Len(buffer_) : Util!Device(buffer_, k)
    BY DEF Util!Flush
  <1>2. /\ call = Util!NoCall /\ buffer_' = <<>> /\ call' = call
        /\ written_bytes_' = written_bytes_
    BY DEF Util!Flush
  <1>3. /\ disk' \in Seq(Byte) /\ failures' \in Nat /\ Begins(disk, disk')
        /\ Arrived(disk', Util!Taken, failures')
    BY <1>1, BufferWritten
  <1>4. Util!Taken' = Util!Taken
    BY <1>2 DEF Util!Taken
  <1>5. /\ buffer_' \in Seq(Byte) /\ Len(buffer_') = 0
        /\ Len(buffer_') <= BufferSize /\ Len(buffer_') <= Util!Taken'
        /\ Piece(buffer_', Util!Taken' - Len(buffer_'))
        /\ Arrived(disk', Util!Taken' - Len(buffer_'), failures')
    BY <1>2, <1>3, <1>4, EmptyBuffer
  <1>6. call'.at = "none" /\ call'.again = FALSE
    BY <1>2 DEF Util!NoCall
  <1>7. call \in CallType /\ call.n + call.x <= call.len /\ written_bytes_ \in Nat
    BY DEF Contents
  <1> QED BY <1>2, <1>3, <1>5, <1>6, <1>7 DEF Contents

LEMMA SameContents ==
  ASSUME Contents, UNCHANGED <<disk, buffer_, written_bytes_, failures, call>>
  PROVE  Contents' /\ disk' = disk
  <1>1. /\ Util!Taken' = Util!Taken /\ disk' = disk /\ buffer_' = buffer_ /\ call' = call
        /\ written_bytes_' = written_bytes_ /\ failures' = failures
    BY DEF Util!Taken
  <1> QED BY <1>1 DEF Contents

------------------------------------------------------------------------------
(* Steps of the reader.                                                       *)

\* A file that grows does not change what was read of it.
LEMMA GrowingFile ==
  ASSUME disk \in Seq(Byte), disk' \in Seq(Byte), Begins(disk, disk'), Reading,
         UNCHANGED <<path, fd_, reading, content, file_size, err, n>>
  PROVE  Reading'
  <1> DEFINE c == content
             d == disk
             e == disk'
  <1>1. Len(c) \in Nat /\ Len(d) \in Nat /\ Len(e) \in Nat
    BY LenProperties DEF Reading
  <1>2. Begins(c, d) /\ Begins(d, e) /\ file_size \in Int /\ file_size <= Len(d)
    BY DEF Reading
  <1>3. Begins(c, e) /\ file_size <= Len(e)
    <2> HIDE DEF c, d, e
    <2> QED BY ONLY <1>1, <1>2 DEF Begins
  <1>4. /\ path' = path /\ fd_' = fd_ /\ reading' = reading /\ content' = content
        /\ file_size' = file_size /\ err' = err /\ n' = n
    OBVIOUS
  <1> HIDE DEF Begins
  <1>5. Begins(content', disk') /\ file_size' <= Len(disk')
    BY ONLY <1>3, <1>4 DEF c, e
  <1> QED BY <1>4, <1>5 DEF Reading

LEMMA OpenReading ==
  ASSUME disk \in Seq(Byte), disk' = disk, Reading, Util!Open
  PROVE  Reading'
  <1>1. /\ reading' = "open" /\ path' = path /\ content' = content /\ file_size' = file_size
        /\ content = <<>> /\ (fd_' < 0 => err' # 0)
    BY DEF Util!Open, Util!ENOENT, Reading
  <1>2. /\ path \in {"file", "directory", "missing"} /\ Begins(content, disk)
        /\ content \in Seq(Byte) /\ Len(content) <= MaxSize
        /\ file_size \in Int /\ file_size <= Len(disk)
    BY DEF Reading, Util!Open
  <1> QED BY <1>1, <1>2 DEF Reading

LEMMA ReadToStringReading ==
  ASSUME disk \in Seq(Byte), disk' = disk, Reading, NEW wantsSize \in BOOLEAN,
         Util!ReadToString(wantsSize)
  PROVE  Reading'
  <1>1. /\ path' = path /\ content' = content /\ content = <<>> /\ (fd_ < 0 => err # 0)
        /\ path \in {"file", "directory", "missing"} /\ Begins(content, disk)
        /\ content \in Seq(Byte) /\ Len(content) <= MaxSize
        /\ file_size \in Int /\ file_size <= Len(disk)
    BY DEF Util!ReadToString, Reading
  <1>2. Len(disk) \in Nat
    BY LenProperties
  <1>3. /\ file_size' \in Int /\ file_size' <= Len(disk)
        /\ \/ reading' = "loop"
           \/ reading' = "string done" /\ err' # 0
    <2>1. CASE fd_ < 0
      BY <1>1, <2>1 DEF Util!ReadToString
    <2>2. CASE ~(fd_ < 0)
      <3>1. reading' = "loop" /\ (file_size' = Len(disk) \/ file_size' = -1)
        BY <2>2 DEF Util!ReadToString
      <3> QED BY ONLY <1>2, <3>1
    <2> QED BY <2>1, <2>2
  <1> QED BY <1>1, <1>3 DEF Reading

\* A round that reads k bytes.
LEMMA MoreRead ==
  ASSUME NEW c \in Seq(Byte), NEW d \in Seq(Byte), Begins(c, d),
         NEW k \in Nat, k > 0, Len(c) + k <= Len(d)
  PROVE  /\ c \o SubSeq(d, Len(c) + 1, Len(c) + k) \in Seq(Byte)
         /\ Len(c \o SubSeq(d, Len(c) + 1, Len(c) + k)) = Len(c) + k
         /\ Begins(c \o SubSeq(d, Len(c) + 1, Len(c) + k), d)
  <1> DEFINE l == Len(c)
             m == Len(d)
             lo == l + 1
             hi == l + k
             add == SubSeq(d, lo, hi)
             e == c \o add
  <1>1. /\ l \in Nat /\ m \in Nat /\ hi <= m /\ \A i \in 1..m : d[i] \in Byte
        /\ \A i \in 1..l : c[i] = d[i]
    BY LenProperties, ElementOfSeq DEF Begins
  <1> HIDE DEF l, m
  <1>2. /\ lo \in Int /\ hi \in Int /\ lo \in 1..m /\ hi \in lo..m /\ hi - lo + 1 = k /\ lo <= hi
        /\ \A i \in lo..hi : d[i] \in Byte
    BY <1>1
  <1>3. /\ add \in Seq(Byte)
        /\ Len(add) = IF lo <= hi THEN hi - lo + 1 ELSE 0
        /\ \A i \in 1..hi - lo + 1 : add[i] = d[lo + i - 1]
    <2> HIDE DEF lo, hi
    <2> QED BY <1>2, SubSeqProperties DEF m
  <1>4. Len(add) = k /\ \A i \in 1..k : add[i] = d[l + i]
    <2>1. \A i \in 1..k : lo + i - 1 = l + i
      BY <1>1
    <2> HIDE DEF lo, hi, add
    <2> QED BY <1>2, <1>3, <2>1
  <1> HIDE DEF add, lo
  <1>5. /\ e \in Seq(Byte) /\ Len(e) = l + k
        /\ \A i \in 1..l+k : e[i] = IF i <= l THEN c[i] ELSE add[i - l]
    BY <1>3, <1>4, ConcatProperties DEF l
  <1> HIDE DEF e
  <1>6. ASSUME NEW i \in 1..l+k PROVE e[i] = d[i]
    <2>1. CASE i <= l
      <3>1. i \in 1..l
        BY <1>1, <2>1
      <3> QED BY <1>1, <1>5, <2>1, <3>1
    <2>2. CASE ~(i <= l)
      <3>1. i - l \in 1..k /\ l + (i - l) = i
        BY <1>1, <2>2
      <3> QED BY <1>4, <1>5, <2>2, <3>1
    <2> QED BY <2>1, <2>2
  <1>7. Begins(e, d)
    BY <1>1, <1>5, <1>6 DEF Begins, m
  <1> QED BY <1>5, <1>7 DEF e, add, lo, l

LEMMA ReadSomeReading ==
  ASSUME disk \in Seq(Byte), disk' = disk, Reading, Util!ReadSome
  PROVE  Reading'
  <1> DEFINE l == Len(content)
             m == Len(disk)
             ask == Util!Min({MaxSize - l, kBuffSize})
             there == Util!Min({ask, m - l})
  <1>1. /\ path \in {"file", "directory", "missing"}
        /\ content \in Seq(Byte) /\ Begins(content, disk)
        /\ file_size \in Int /\ file_size <= m
        /\ reading = "loop" /\ l < MaxSize /\ path' = path /\ file_size' = file_size
    BY DEF Reading, Util!ReadSome
  <1>2. l \in Nat /\ m \in Nat /\ l <= m /\ MaxSize \in Nat /\ kBuffSize \in Nat /\ kBuffSize > 0
    BY <1>1, LenProperties, FileAssumption DEF Begins
  <1>3. /\ ask \in Int /\ (ask = MaxSize - l \/ ask = kBuffSize) /\ ask <= MaxSize - l
        /\ there \in Int /\ (there = ask \/ there = m - l) /\ there <= ask /\ there <= m - l
    <2>1. MaxSize - l \in Int /\ kBuffSize \in Int /\ m - l \in Int
      BY ONLY <1>2
    <2> HIDE DEF l, m
    <2>2. ask \in Int /\ (ask = MaxSize - l \/ ask = kBuffSize) /\ ask <= MaxSize - l
      BY ONLY <2>1, LeastOfTwo
    <2> HIDE DEF ask
    <2> QED BY ONLY <2>1, <2>2, LeastOfTwo
  <1>4. \/ /\ there > 0 /\ n' \in 1..there
           /\ content' = content \o SubSeq(disk, l + 1, l + n') /\ reading' = reading
        \/ there = 0 /\ reading' = "string done" /\ content' = content
        \/ err' = Util!EISDIR /\ reading' = "string done" /\ content' = content
    BY Zenon DEF Util!ReadSome, Util!to_read
  <1> HIDE DEF ask, there
  <1>5. CASE /\ there > 0 /\ n' \in 1..there
             /\ content' = content \o SubSeq(disk, l + 1, l + n') /\ reading' = reading
    <2> DEFINE k == n'
    <2>1. k \in Nat /\ k > 0 /\ l + k <= m /\ l + k <= MaxSize
      <3>1. k \in 1..there
        BY <1>5
      <3> HIDE DEF l, m, k
      <3> QED BY ONLY <1>2, <1>3, <3>1
    <2> HIDE DEF k
    <2>2. /\ content \o SubSeq(disk, l + 1, l + k) \in Seq(Byte)
          /\ Len(content \o SubSeq(disk, l + 1, l + k)) = l + k
          /\ Begins(content \o SubSeq(disk, l + 1, l + k), disk)
      BY <1>1, <2>1, MoreRead
    <2>3. content' \in Seq(Byte) /\ Begins(content', disk) /\ Len(content') <= MaxSize
      BY <1>5, <2>1, <2>2 DEF k
    <2> QED BY <1>1, <1>5, <2>3 DEF Reading
  <1>6. CASE there = 0 /\ reading' = "string done" /\ content' = content
    <2>1. l = m /\ l <= MaxSize
      <3>1. l < MaxSize /\ there = 0
        BY <1>1, <1>6
      <3> HIDE DEF l, m
      <3> QED BY ONLY <1>2, <1>3, <3>1
    <2> QED BY <1>1, <1>6, <2>1 DEF Reading
  <1>7. CASE err' = Util!EISDIR /\ reading' = "string done" /\ content' = content
    <2>1. l <= MaxSize
      BY <1>1, <1>2
    <2>2. err' # 0
      <3>1. Util!EISDIR # 0
        BY ONLY DEF Util!EISDIR
      <3> QED BY ONLY <1>7, <3>1
    <2>3. /\ Begins(content', disk') /\ content' \in Seq(Byte) /\ Len(content') <= MaxSize
          /\ file_size' \in Int /\ file_size' <= Len(disk')
      BY <1>1, <1>7, <2>1
    <2> QED BY ONLY <1>1, <1>7, <2>2, <2>3 DEF Reading
  <1> QED BY <1>4, <1>5, <1>6, <1>7

LEMMA EndLoopReading ==
  ASSUME disk' = disk, Reading, Util!EndLoop
  PROVE  Reading'
  BY DEF Reading, Util!EndLoop

LEMMA ReadToBufferReading ==
  ASSUME disk \in Seq(Byte), disk' = disk, Reading, Util!ReadToBuffer
  PROVE  Reading'
  <1> DEFINE m == Len(disk)
             most == Util!Min({kBuffSize - 1, m})
  <1>1. /\ path \in {"file", "directory", "missing"} /\ path' = path
        /\ content \in Seq(Byte) /\ Begins(content, disk)
        /\ file_size \in Int /\ file_size <= m /\ file_size' = file_size
        /\ reading' = "buffer done"
    BY DEF Reading, Util!ReadToBuffer
  <1>2. \/ /\ n' \in (IF disk = <<>> THEN {0} ELSE 1..most)
           /\ content' = SubSeq(disk, 1, n')
        \/ content' = content
    BY Zenon DEF Util!ReadToBuffer
  <1>3. most \in Int /\ most <= m /\ m \in Nat
    <2>1. kBuffSize - 1 \in Int /\ m \in Nat /\ m \in Int
      BY FileAssumption, LenProperties
    <2> HIDE DEF m
    <2> QED BY ONLY <2>1, LeastOfTwo
  <1> HIDE DEF most
  <1>4. CASE /\ n' \in (IF disk = <<>> THEN {0} ELSE 1..most)
             /\ content' = SubSeq(disk, 1, n')
    <2> DEFINE k == n'
    <2>1. k \in 0..m
      <3>1. k = 0 \/ k \in 1..most
        BY <1>4
      <3> HIDE DEF k, m
      <3> QED BY ONLY <1>3, <3>1
    <2> HIDE DEF k
    <2>2. SubSeq(disk, 1, k) \in Seq(Byte) /\ Begins(SubSeq(disk, 1, k), disk)
      BY <2>1, FirstBytes
    <2>3. content' \in Seq(Byte) /\ Begins(content', disk)
      BY <1>4, <2>2 DEF k
    <2> QED BY <1>1, <2>3 DEF Reading
  <1>5. CASE content' = content
    BY <1>1, <1>5 DEF Reading
  <1> QED BY <1>2, <1>4, <1>5

LEMMA CloseReading ==
  ASSUME disk \in Seq(Byte), disk' = disk, Reading, Util!Close
  PROVE  Reading'
  <1>1. Len(disk) \in Nat /\ MaxSize \in Nat
    BY LenProperties, FileAssumption
  <1>2. /\ path' = path /\ path \in {"file", "directory", "missing"} /\ reading' = "new"
        /\ content' = <<>> /\ file_size' = -1
    BY DEF Util!Close, Reading
  <1>3. Begins(<<>>, disk) /\ <<>> \in Seq(Byte) /\ Len(<<>>) <= MaxSize
    BY <1>1 DEF Begins
  <1>4. file_size' \in Int /\ file_size' <= Len(disk)
    BY ONLY <1>1, <1>2
  <1>5. Begins(content', disk') /\ content' \in Seq(Byte) /\ Len(content') <= MaxSize
        /\ file_size' \in Int /\ file_size' <= Len(disk')
    BY <1>2, <1>3, <1>4
  <1> QED BY ONLY <1>2, <1>5 DEF Reading

------------------------------------------------------------------------------
LEMMA StepFileInv ==
  ASSUME FileInv, [Util!Next]_(Util!vars)
  PROVE  FileInv'
  <1>1. Contents /\ Reading /\ disk \in Seq(Byte)
    BY DEF FileInv, Contents
  <1>2. ASSUME Contents', Begins(disk, disk'),
               UNCHANGED <<path, fd_, reading, content, file_size, err, n>>
        PROVE  FileInv'
    BY <1>1, <1>2, GrowingFile DEF FileInv, Contents
  <1>3. disk' = disk => Begins(disk, disk')
    BY DEF Begins
  <1>4. ASSUME UNCHANGED <<disk, buffer_, written_bytes_, failures, call>>,
               Reading'
        PROVE  FileInv'
    BY <1>1, <1>4, SameContents DEF FileInv
  <1>5. ASSUME NEW len \in Lengths, Util!Append_(len) PROVE FileInv'
    <2>1. Contents'
      BY <1>1, <1>5, AppendContents
    <2>2. disk' = disk /\ UNCHANGED <<path, fd_, reading, content, file_size, err, n>>
      BY <1>5 DEF Util!Append_, Util!readSmallFile
    <2> QED BY <1>2, <1>3, <2>1, <2>2
  <1>6. CASE Util!Fill
    <2>1. Contents' /\ disk' = disk
      BY <1>1, <1>6, FillContents
    <2>2. UNCHANGED <<path, fd_, reading, content, file_size, err, n>>
      BY <1>6 DEF Util!Fill, Util!readSmallFile
    <2> QED BY <1>2, <1>3, <2>1, <2>2
  <1>7. CASE Util!Overflow
    <2>1. Contents' /\ Begins(disk, disk')
      BY <1>1, <1>7, OverflowContents
    <2>2. UNCHANGED <<path, fd_, reading, content, file_size, err, n>>
      BY <1>7 DEF Util!Overflow, Util!readSmallFile
    <2> QED BY <1>2, <2>1, <2>2
  <1>8. CASE Util!Blocks
    <2>1. Contents' /\ Begins(disk, disk')
      BY <1>1, <1>8, BlocksContents
    <2>2. UNCHANGED <<path, fd_, reading, content, file_size, err, n>>
      BY <1>8 DEF Util!Blocks, Util!readSmallFile
    <2> QED BY <1>2, <2>1, <2>2
  <1>9. CASE Util!WriteReturns
    <2>1. Contents' /\ disk' = disk
      BY <1>1, <1>9, WriteReturnsContents
    <2>2. UNCHANGED <<path, fd_, reading, content, file_size, err, n>>
      BY <1>9 DEF Util!WriteReturns, Util!readSmallFile
    <2> QED BY <1>2, <1>3, <2>1, <2>2
  <1>10. CASE Util!Flush
    <2>1. Contents' /\ Begins(disk, disk')
      BY <1>1, <1>10, FlushContents
    <2>2. UNCHANGED <<path, fd_, reading, content, file_size, err, n>>
      BY <1>10 DEF Util!Flush, Util!readSmallFile
    <2> QED BY <1>2, <2>1, <2>2
  <1>11. CASE Util!Open
    <2>1. UNCHANGED <<disk, buffer_, written_bytes_, failures, call>>
      BY <1>11 DEF Util!Open, Util!appendFile
    <2> QED BY <1>1, <1>4, <1>11, <2>1, OpenReading
  <1>12. ASSUME NEW wantsSize \in BOOLEAN, Util!ReadToString(wantsSize) PROVE FileInv'
    <2>1. UNCHANGED <<disk, buffer_, written_bytes_, failures, call>>
      BY <1>12 DEF Util!ReadToString, Util!appendFile
    <2>2. Reading'
      BY <1>1, <1>12, <2>1, ReadToStringReading
    <2> QED BY <1>4, <2>1, <2>2
  <1>13. CASE Util!ReadSome
    <2>1. UNCHANGED <<disk, buffer_, written_bytes_, failures, call>>
      BY <1>13 DEF Util!ReadSome, Util!appendFile
    <2> QED BY <1>1, <1>4, <1>13, <2>1, ReadSomeReading
  <1>14. CASE Util!EndLoop
    <2>1. UNCHANGED <<disk, buffer_, written_bytes_, failures, call>>
      BY <1>14 DEF Util!EndLoop, Util!appendFile
    <2> QED BY <1>1, <1>4, <1>14, <2>1, EndLoopReading
  <1>15. CASE Util!ReadToBuffer
    <2>1. UNCHANGED <<disk, buffer_, written_bytes_, failures, call>>
      BY <1>15 DEF Util!ReadToBuffer, Util!appendFile
    <2> QED BY <1>1, <1>4, <1>15, <2>1, ReadToBufferReading
  <1>16. CASE Util!Close
    <2>1. UNCHANGED <<disk, buffer_, written_bytes_, failures, call>>
      BY <1>16 DEF Util!Close, Util!appendFile
    <2> QED BY <1>1, <1>4, <1>16, <2>1, CloseReading
  <1>17. CASE UNCHANGED Util!vars
    <2>1. /\ UNCHANGED <<disk, buffer_, written_bytes_, failures, call>>
          /\ UNCHANGED <<path, fd_, reading, content, file_size, err, n>>
      BY <1>17 DEF Util!vars
    <2> QED BY <1>1, <1>2, <1>3, <2>1, SameContents
  <1>18. Util!Next \/ UNCHANGED Util!vars
    OBVIOUS
  <1> QED BY <1>5, <1>6, <1>7, <1>8, <1>9, <1>10, <1>11, <1>12, <1>13, <1>14, <1>15, <1>16, <1>17,
             <1>18 DEF Util!Next, Util!Writer, Util!Reader

LEMMA SpecFileInv == Util!Spec => []FileInv
  <1>1. FileInv /\ [Util!Next]_(Util!vars) => FileInv'
    BY StepFileInv
  <1> QED BY <1>1, InitContents, PTL DEF Util!Spec

\* However the device fails, the file and the buffer hold the bytes of the lines in their
\* order and none twice, and each failed write has lost at most one piece of at most a
\* buffer; nothing else is lost (AppendFile, FileUtil.cc:130-155).
THEOREM FileLosesOnlyByFailures == Util!Spec => []OnlyFailuresLose
  <1>1. FileInv => OnlyFailuresLose
    <2> SUFFICES ASSUME Contents PROVE OnlyFailuresLose
      BY DEF FileInv
    <2> DEFINE m == Len(buffer_)
               t == Util!Taken
               top == t - m
               c == disk \o SubSeq(buffer_, 1, m)
    <2>1. m \in Nat /\ t \in Nat /\ m <= t /\ top \in Nat /\ failures \in Nat
      BY CallTypes
    <2>2. /\ disk \in Seq(Byte) /\ buffer_ \in Seq(Byte) /\ Piece(buffer_, top)
          /\ Arrived(disk, top, failures)
      BY DEF Contents
    <2>3. t = top + m /\ m \in 0..m
      BY <2>1
    <2> HIDE DEF top, t
    <2>4. c \in Seq(Byte) /\ Arrived(c, t, failures)
      BY <2>1, <2>2, <2>3, MoreArrives
    <2>5. Util!Bytes = c
      BY <2>2, SubSeqFull DEF Util!Bytes
    <2> HIDE DEF c
    <2>6. DOMAIN c = 1..Len(c) /\ Util!ToSet(c) = {c[i] : i \in 1..Len(c)}
      BY <2>4, LenProperties DEF Util!ToSet
    <2>7. Util!Missing = Gone(c, t)
      BY <2>5, <2>6 DEF Util!Missing, Gone, t
    <2>8. Util!LostPieces = Ends(Gone(c, t))
      BY <2>7 DEF Util!LostPieces, Ends
    <2>9. Util!Cardinality(Gone(c, t)) = Cardinality(Gone(c, t))
      BY DEF Cardinality, Util!Cardinality
    <2>10. Util!Cardinality(Ends(Gone(c, t))) = Cardinality(Ends(Gone(c, t)))
      BY DEF Cardinality, Util!Cardinality
    <2> QED BY <2>4, <2>5, <2>6, <2>7, <2>8, <2>9, <2>10
            DEF OnlyFailuresLose, Util!OnlyFailuresLose, Arrived, Ordered, t
  <1> QED BY <1>1, SpecFileInv, PTL

\* A reader that returns no error has the beginning of the file, at most MaxSize bytes
\* and as many as fstat told it, however the file grows (FileUtil.cc:42-88).
THEOREM ReaderGetsTheBeginning == Util!Spec => []ReaderSeesTheFile
  <1>1. FileInv => ReaderSeesTheFile
    <2> SUFFICES ASSUME FileInv, reading = "string done", err = 0
                 PROVE  /\ Len(content) <= MaxSize
                        /\ Util!IsPrefix(content, disk)
                        /\ Len(content) >= Util!Min({MaxSize, file_size})
      BY DEF ReaderSeesTheFile, Util!ReaderSeesTheFile
    <2> DEFINE l == Len(content)
    <2>1. /\ content \in Seq(Byte) /\ disk \in Seq(Byte) /\ Begins(content, disk)
          /\ l <= MaxSize /\ file_size \in Int /\ (l >= MaxSize \/ l >= file_size)
      BY DEF FileInv, Reading, Contents
    <2>2. l \in Nat /\ MaxSize \in Int
      <3>1. MaxSize \in Int
        BY ONLY FileAssumption
      <3> QED BY ONLY <2>1, <3>1, LenProperties
    <2>3. l >= Util!Min({MaxSize, file_size})
      <3>1. /\ Util!Min({MaxSize, file_size}) \in Int
            /\ Util!Min({MaxSize, file_size}) <= MaxSize
            /\ Util!Min({MaxSize, file_size}) <= file_size
        BY ONLY <2>1, <2>2, LeastOfTwo
      <3> HIDE DEF l
      <3> QED BY ONLY <2>1, <2>2, <3>1
    <2>4. SubSeq(content, 1, l) = SubSeq(disk, 1, l) /\ l <= Len(disk)
      <3>1. l \in 0..Len(disk) /\ l <= Len(disk)
        <4>1. Len(disk) \in Nat
          BY ONLY <2>1, LenProperties
        <4>2. l <= Len(disk)
          BY ONLY <2>1 DEF Begins
        <4> HIDE DEF l
        <4> QED BY ONLY <2>2, <4>1, <4>2
      <3>2. /\ SubSeq(disk, 1, l) \in Seq(Byte) /\ Len(SubSeq(disk, 1, l)) = l
            /\ \A i \in 1..l : SubSeq(disk, 1, l)[i] = disk[i]
        BY <2>1, <3>1, FirstBytes
      <3>3. SubSeq(disk, 1, l) = content
        BY <2>1, <3>2, SeqEqual DEF Begins
      <3>4. SubSeq(content, 1, l) = content
        BY ONLY <2>1, SubSeqFull
      <3> HIDE DEF l
      <3> QED BY ONLY <3>1, <3>3, <3>4
    <2> QED BY <2>1, <2>3, <2>4 DEF Util!IsPrefix
  <1> QED BY <1>1, SpecFileInv, PTL
================================================================================
