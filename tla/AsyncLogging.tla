----------------------------- MODULE AsyncLogging -----------------------------
(***************************************************************************)
(* src/muduo/base/AsyncLogging.{h,cc}: any thread appends lines to an      *)
(* in-memory buffer, one backend thread collects the full buffers and      *)
(* writes them to the log file.  Four buffers circulate between the        *)
(* threads and the backend: current_buffer_ and next_buffer_ in front,     *)
(* newBuffer1 and newBuffer2 behind.                                       *)
(*                                                                         *)
(* append() is one critical section of mutex_; so is the backend's         *)
(* exchange of buffers, cut in two where it waits (Monitor justifies the   *)
(* grain).  A thread that appends keeps no state of its own, so the lines  *)
(* are numbered in the order of the critical sections.                     *)
(***************************************************************************)
EXTENDS Integers, SequencesExt

CONSTANTS
    kLargeBuffer,   \* the capacity of a buffer
    LineLengths,    \* the lengths a line may have
    DropThreshold,  \* 25 in the code: more buffers than this are an overload
    NoBuffer,       \* the null unique_ptr<Buffer>
    CreateMayFail,  \* whether pthread_create may fail
    LineLimit       \* bound: the number of calls of append()

Buffers == [lines : Seq(Nat), used : Nat]

\* A line is shorter than a buffer: it is taken to fit the kSmallBuffer in which
\* Logger formats it.  Two buffers survive a drop.
ASSUME BufferAssumption == kLargeBuffer \in Nat \ {0} /\ LineLengths \subseteq 1..(kLargeBuffer - 1)
ASSUME ThresholdAssumption == DropThreshold \in Nat /\ DropThreshold >= 2
ASSUME NoBufferAssumption == NoBuffer \notin Buffers
ASSUME CreateAssumption == CreateMayFail \in BOOLEAN
ASSUME LineLimitAssumption == LineLimit \in Nat

VARIABLES
    running_,           \* AsyncLogging::running_, an atomic<bool>
    current_buffer_,    \* the buffer that is filled
    next_buffer_,       \* the one that follows it, or NoBuffer
    buffers_,           \* the full buffers, oldest first
    newBuffer1,         \* the backend's spare buffers, or NoBuffer
    newBuffer2,
    buffersToWrite,     \* the buffers the backend has collected
    output,             \* the LogFile: the lines appended to it, in order
    onDisk,             \* how many of these have left the buffer of stdio
    pc,                 \* where the backend is
    owner,              \* where the thread that calls start() and stop() is
    appended,           \* history: how many lines append() has accepted
    dropped             \* history: the lines the backend threw away

front == <<current_buffer_, next_buffer_, buffers_, appended>>
back == <<newBuffer1, newBuffer2, buffersToWrite, output, onDisk, dropped>>
vars == <<running_, front, back, pc, owner>>

\* absent:  no thread                 entry:   before latch_.count_down()
\* check:   while (running_)          collect: before it locks mutex_
\* waiting: blocked in cond_          woken:   the wait re-acquires mutex_
\* write:   buffersToWrite collected  recycle: written, before resize(2)
\* exited:  thread_func() has returned
Locations == {"absent", "entry", "check", "collect", "waiting", "woken",
              "write", "recycle", "exited"}

\* new; starting: in latch_.wait(); started; notifying: running_ cleared,
\* cond_ not notified; joining: in thread_.join(); stopped.
OwnerLocations == {"new", "starting", "started", "notifying", "joining", "stopped"}

EmptyBuffer == [lines |-> <<>>, used |-> 0]
Notice == 0     \* the line "Dropped log messages at ...": the others count from 1

\* FixedBuffer (LogStream.h): a line that does not fit moves cur_ all the same.
avail(buffer) == kLargeBuffer - buffer.used
FixedBufferAppend(buffer, line, len) ==
    [lines |-> IF avail(buffer) > len THEN Append(buffer.lines, line) ELSE buffer.lines,
     used  |-> buffer.used + len]

\* The contents of a sequence of buffers.
LinesOf(buffers) == FlattenSeq([i \in DOMAIN buffers |-> buffers[i].lines])

Init ==
    /\ running_ = FALSE
    /\ current_buffer_ = EmptyBuffer
    /\ next_buffer_ = EmptyBuffer
    /\ buffers_ = <<>>
    /\ newBuffer1 = NoBuffer
    /\ newBuffer2 = NoBuffer
    /\ buffersToWrite = <<>>
    /\ output = <<>>
    /\ onDisk = 0
    /\ pc = "absent"
    /\ owner = "new"
    /\ appended = 0
    /\ dropped = {}

------------------------------------------------------------------------------
(* The threads that log.                                                    *)

\* cond_.notify(): only the backend waits on cond_.
NotifyBackend == pc' = IF pc = "waiting" THEN "woken" ELSE pc

\* Mutant of Append: >= for > in the test for room.
AppendOffByOne(len) ==
    LET line == appended + 1 IN
    /\ appended < LineLimit
    /\ appended' = line
    /\ \/ /\ avail(current_buffer_) >= len
          /\ current_buffer_' = FixedBufferAppend(current_buffer_, line, len)
          /\ UNCHANGED <<next_buffer_, buffers_, pc>>
       \/ /\ avail(current_buffer_) < len
          /\ buffers_' = Append(buffers_, current_buffer_)
          /\ current_buffer_' = FixedBufferAppend(
                IF next_buffer_ # NoBuffer THEN next_buffer_ ELSE EmptyBuffer, line, len)
          /\ next_buffer_' = NoBuffer
          /\ NotifyBackend
    /\ UNCHANGED <<running_, back, owner>>

\* append(): the line goes to current_buffer_ if there is room for it, or to a
\* buffer that takes its place.
Append_(len) ==
    LET line == appended + 1 IN
    /\ appended < LineLimit
    /\ appended' = line
    /\ \/ /\ avail(current_buffer_) > len
          /\ current_buffer_' = FixedBufferAppend(current_buffer_, line, len)
          /\ UNCHANGED <<next_buffer_, buffers_, pc>>
       \/ /\ avail(current_buffer_) <= len
          /\ buffers_' = Append(buffers_, current_buffer_)
          /\ current_buffer_' = FixedBufferAppend(
                IF next_buffer_ # NoBuffer THEN next_buffer_ ELSE EmptyBuffer, line, len)
          /\ next_buffer_' = NoBuffer
          /\ NotifyBackend
    /\ UNCHANGED <<running_, back, owner>>

------------------------------------------------------------------------------
(* The backend, thread_func().                                              *)

Goto(from, to) == pc = from /\ pc' = to

\* From latch_.count_down(), which lets start() return, to the loop.
BackendEnter ==
    /\ Goto("entry", "check")
    /\ newBuffer1' = EmptyBuffer
    /\ newBuffer2' = EmptyBuffer
    /\ owner' = IF owner = "starting" THEN "started" ELSE owner
    /\ UNCHANGED <<running_, front, buffersToWrite, output, onDisk, dropped>>

\* while (running_): running_ is read without mutex_.
BackendCheck ==
    /\ pc = "check"
    /\ pc' = IF running_ THEN "collect" ELSE "exited"
    /\ UNCHANGED <<running_, front, back, owner>>

\* Mutant of Exchange: the buffer being filled goes in front of the full ones.
ExchangeCurrentFirst ==
    /\ buffersToWrite' = <<current_buffer_>> \o buffers_
    /\ buffers_' = <<>>
    /\ current_buffer_' = newBuffer1
    /\ newBuffer1' = NoBuffer
    /\ IF next_buffer_ = NoBuffer
       THEN next_buffer_' = newBuffer2 /\ newBuffer2' = NoBuffer
       ELSE UNCHANGED <<next_buffer_, newBuffer2>>
    /\ pc' = "write"

\* Mutant of Exchange: a buffer that is not full yet is left where it is.
ExchangeFullOnly ==
    /\ buffersToWrite' = IF buffers_ = <<>> THEN <<EmptyBuffer>> ELSE buffers_
    /\ buffers_' = <<>>
    /\ UNCHANGED <<current_buffer_, newBuffer1>>
    /\ IF next_buffer_ = NoBuffer
       THEN next_buffer_' = newBuffer2 /\ newBuffer2' = NoBuffer
       ELSE UNCHANGED <<next_buffer_, newBuffer2>>
    /\ pc' = "write"

\* The exchange of buffers, AsyncLogging.cc:82-88, with mutex_ held.
Exchange ==
    /\ buffersToWrite' = Append(buffers_, current_buffer_)
    /\ buffers_' = <<>>
    /\ current_buffer_' = newBuffer1
    /\ newBuffer1' = NoBuffer
    /\ IF next_buffer_ = NoBuffer
       THEN next_buffer_' = newBuffer2 /\ newBuffer2' = NoBuffer
       ELSE UNCHANGED <<next_buffer_, newBuffer2>>
    /\ pc' = "write"

\* The critical section up to the wait.  With nothing to collect the backend
\* waits for at most flush_interval_; but wait_for_seconds() may compute a
\* deadline that pthread_cond_timedwait refuses (TimedWait), and then it goes on
\* at once without having released mutex_.
BackendCollect ==
    /\ pc = "collect"
    /\ \/ /\ buffers_ = <<>>
          /\ pc' = "waiting"
          /\ UNCHANGED <<front, newBuffer1, newBuffer2, buffersToWrite>>
       \/ Exchange /\ UNCHANGED appended
    /\ UNCHANGED <<running_, output, onDisk, dropped, owner>>

\* Mutant of BackendTimeout: cond_.wait() for cond_.wait_for_seconds().
NoTimeout == FALSE

\* The wait ends because flush_interval_ is over, or for no reason.
BackendTimeout ==
    /\ Goto("waiting", "woken")
    /\ UNCHANGED <<running_, front, back, owner>>

\* The rest of the critical section: buffers_ is not tested again.
BackendResume ==
    /\ pc = "woken"
    /\ Exchange
    /\ UNCHANGED <<running_, output, onDisk, dropped, owner, appended>>

\* Mutant of BackendWrite: nothing in the file tells of a drop.
BackendWriteNoNotice ==
    LET overload == Len(buffersToWrite) > DropThreshold
        kept == IF overload THEN SubSeq(buffersToWrite, 1, 2) ELSE buffersToWrite
        erased == IF overload THEN SubSeq(buffersToWrite, 3, Len(buffersToWrite)) ELSE <<>>
    IN /\ Goto("write", "recycle")
       /\ output' = output \o LinesOf(kept)
       /\ onDisk' \in onDisk..Len(output')
       /\ dropped' = dropped \cup ToSet(LinesOf(erased))
       /\ buffersToWrite' = kept
       /\ UNCHANGED <<running_, front, newBuffer1, newBuffer2, owner>>

\* Under an overload a notice is written and all but the two oldest buffers are
\* thrown away; the others are written, one append() of the file for each.  stdio
\* keeps what it likes of that in its buffer; a new file takes the old one's out.
BackendWrite ==
    LET overload == Len(buffersToWrite) > DropThreshold
        kept == IF overload THEN SubSeq(buffersToWrite, 1, 2) ELSE buffersToWrite
        erased == IF overload THEN SubSeq(buffersToWrite, 3, Len(buffersToWrite)) ELSE <<>>
    IN /\ Goto("write", "recycle")
       /\ output' = output \o (IF overload THEN <<Notice>> ELSE <<>>) \o LinesOf(kept)
       /\ onDisk' \in onDisk..Len(output')
       /\ dropped' = dropped \cup ToSet(LinesOf(erased))
       /\ buffersToWrite' = kept
       /\ UNCHANGED <<running_, front, newBuffer1, newBuffer2, owner>>

\* Mutant of Refill: a recycled buffer is not reset.
RefillUsed(buffers) == IF buffers = <<>> THEN NoBuffer ELSE Last(buffers)

\* buffersToWrite.back(), moved and reset; there is none if it is empty.
Refill(buffers) == IF buffers = <<>> THEN NoBuffer ELSE EmptyBuffer

\* Mutant of BackendRecycle: a round ends without output.flush().
BackendRecycleUnflushed ==
    LET two == SubSeq(buffersToWrite, 1, IF Len(buffersToWrite) > 2 THEN 2 ELSE Len(buffersToWrite))
        rest == IF newBuffer1 = NoBuffer THEN Front(two) ELSE two
    IN /\ Goto("recycle", "check")
       /\ newBuffer1' = IF newBuffer1 = NoBuffer THEN Refill(two) ELSE newBuffer1
       /\ newBuffer2' = IF newBuffer2 = NoBuffer THEN Refill(rest) ELSE newBuffer2
       /\ buffersToWrite' = <<>>
       /\ UNCHANGED <<running_, front, output, onDisk, dropped, owner>>

\* resize(2), the two spare buffers are taken from what was written, the rest is
\* freed, and output.flush().
BackendRecycle ==
    LET two == SubSeq(buffersToWrite, 1, IF Len(buffersToWrite) > 2 THEN 2 ELSE Len(buffersToWrite))
        rest == IF newBuffer1 = NoBuffer THEN Front(two) ELSE two
    IN /\ Goto("recycle", "check")
       /\ newBuffer1' = IF newBuffer1 = NoBuffer THEN Refill(two) ELSE newBuffer1
       /\ newBuffer2' = IF newBuffer2 = NoBuffer THEN Refill(rest) ELSE newBuffer2
       /\ buffersToWrite' = <<>>
       /\ onDisk' = Len(output)
       /\ UNCHANGED <<running_, front, output, dropped, owner>>

Backend ==
    \/ BackendEnter \/ BackendCheck \/ BackendCollect \/ BackendTimeout
    \/ BackendResume \/ BackendWrite \/ BackendRecycle

------------------------------------------------------------------------------
(* The owner of the object.                                                 *)

\* start(): running_ is set, the thread is created, start() waits for latch_.
\* When pthread_create fails, Thread::start() says so to nobody.
Start ==
    /\ owner = "new"
    /\ owner' = "starting"
    /\ running_' = TRUE
    /\ pc' \in {"entry"} \cup (IF CreateMayFail THEN {"absent"} ELSE {})
    /\ UNCHANGED <<front, back>>

\* stop(), called by the owner or by ~AsyncLogging().
Stop ==
    /\ owner = "started"
    /\ owner' = "notifying"
    /\ running_' = FALSE
    /\ UNCHANGED <<front, back, pc>>

\* cond_.notify() of stop(), without mutex_.
StopNotify ==
    /\ owner = "notifying"
    /\ owner' = "joining"
    /\ NotifyBackend
    /\ UNCHANGED <<running_, front, back>>

\* thread_.join() returns.
StopJoin ==
    /\ owner = "joining"
    /\ pc = "exited"
    /\ owner' = "stopped"
    /\ UNCHANGED <<running_, front, back, pc>>

Next ==
    \/ \E len \in LineLengths : Append_(len)
    \/ Backend
    \/ Start \/ Stop \/ StopNotify \/ StopJoin

\* The scheduler runs the backend, also out of its wait when flush_interval_ is
\* over, and the owner inside stop().  Nobody has to append, start or stop.
Fairness == WF_vars(Backend) /\ WF_vars(StopNotify) /\ WF_vars(StopJoin)

Spec == Init /\ [][Next]_vars /\ Fairness

------------------------------------------------------------------------------
\* Every variable has its type (what output and dropped hold is the subject of
\* NothingLost).  current_buffer_ is never null: append() and the
\* backend dereference and move it without a test (AsyncLogging.cc:38,82).
TypeOK ==
    /\ running_ \in BOOLEAN
    /\ current_buffer_ \in Buffers
    /\ next_buffer_ \in Buffers \cup {NoBuffer}
    /\ buffers_ \in Seq(Buffers)
    /\ newBuffer1 \in Buffers \cup {NoBuffer}
    /\ newBuffer2 \in Buffers \cup {NoBuffer}
    /\ buffersToWrite \in Seq(Buffers)
    /\ pc \in Locations
    /\ owner \in OwnerLocations
    /\ appended \in 0..LineLimit

\* The assertions of thread_func() on its way round the loop: at its beginning
\* (AsyncLogging.cc:61), at the head of the loop (72-74) and after the exchange
\* (91).
LoopAssertions ==
    /\ pc = "entry" => running_
    /\ pc \in {"check", "collect", "waiting", "woken"} =>
         newBuffer1 = EmptyBuffer /\ newBuffer2 = EmptyBuffer /\ buffersToWrite = <<>>
    /\ pc = "write" => buffersToWrite # <<>>

\* The assertions of the refill (AsyncLogging.cc:118,126): what was written is
\* enough to replace the spare buffers that were given away, after a drop too.
RefillPossible ==
    pc = "recycle" =>
        Len(buffersToWrite) >= (IF newBuffer1 = NoBuffer THEN 1 ELSE 0)
                             + (IF newBuffer2 = NoBuffer THEN 1 ELSE 0)

\* What the code itself asserts of the backend.
AssertionsHold == LoopAssertions /\ RefillPossible

\* next_buffer_ is taken only together with a full buffer, so the exchange finds
\* two buffers whenever it gives two away; a buffer in reserve is empty.
NextBufferInReserve ==
    /\ next_buffer_ = NoBuffer => buffers_ # <<>>
    /\ next_buffer_ # NoBuffer => next_buffer_ = EmptyBuffer

\* FixedBuffer::append never meets a line without room for it, which it would
\* count and not copy (LogStream.h:32-36).
BuffersFit ==
    /\ current_buffer_.used < kLargeBuffer
    /\ \A i \in DOMAIN buffers_ : buffers_[i].used < kLargeBuffer
    /\ \A i \in DOMAIN buffersToWrite : buffersToWrite[i].used < kLargeBuffer

\* A sequence of lines without those of a set.
Without(lines, removed) ==
    FlattenSeq([i \in DOMAIN lines |-> IF lines[i] \in removed THEN <<>> ELSE <<lines[i]>>])

\* Every line appended is in the file, or on its way there behind all the lines
\* appended before it, or was dropped: none is lost, duplicated or overtaken.
Pending ==
    (IF pc = "write" THEN LinesOf(buffersToWrite) ELSE <<>>)
    \o LinesOf(buffers_) \o current_buffer_.lines
Written == Without(output, {Notice})
NothingLost == Written \o Pending = Without([i \in 1..appended |-> i], dropped)

\* Lines are missing from the file only where a notice precedes the gap: when the line
\* after a gap is written, a round after the drop, there has been a notice for each gap up
\* to this one (AsyncLogging.cc:93-102).
Gaps == {i \in 2..Len(Written) : Written[i] # Written[i-1] + 1}
Notices == {i \in DOMAIN output : output[i] = Notice}
GapsAnnounced == [][Cardinality(Gaps') <= Cardinality(Notices)]_vars

\* A process that is killed, in any state, loses only the newest of the lines it has
\* not dropped, and while the backend is not at work only lines that no exchange has
\* collected yet: the file is flushed in every round (AsyncLogging.cc:133).
Safe == ToSet(SubSeq(output, 1, onDisk)) \ {Notice}
Lost == (1..appended) \ (Safe \cup dropped)
CrashLosesTheNewest ==
    /\ \A line \in Lost, other \in Safe : other < line
    /\ pc \notin {"write", "recycle"} =>
         Lost \subseteq ToSet(LinesOf(Append(buffers_, current_buffer_)))

\* start() returns if the thread exists, and stop() returns, although its notify()
\* may come between the backend's test of running_ and its wait and is then lost
\* (AsyncLogging.h:39-40).
CallsReturn ==
    /\ (owner = "starting" /\ pc # "absent") ~> (owner = "started")
    /\ (owner = "notifying") ~> (owner = "stopped")

\* A line does not stay in a buffer that nobody fills: it gets to the disk, or is
\* dropped, or stop() is called first.
LinesGetWritten ==
    \A line \in 1..LineLimit :
        (appended >= line /\ running_ /\ pc # "absent")
            ~> (line \in Safe \cup dropped \/ ~running_)
===============================================================================
