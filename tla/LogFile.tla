-------------------------------- MODULE LogFile --------------------------------
(***************************************************************************)
(* src/muduo/base/LogFile.cc and the AppendFile of FileUtil.cc it writes   *)
(* to: a log that goes on in a new file when the file is too large or when *)
(* a new day (period) has begun, and that flushes what it has buffered.    *)
(*                                                                         *)
(* With a mutex append() and flush() are critical sections, without one    *)
(* the object belongs to one thread (AsyncLogging): they are atomic here.  *)
(* A file name is the second it was opened in, the rest of the name being  *)
(* constant in a process.  The wall clock may be set back; append() reads  *)
(* it twice when it rolls (LogFile.cc:68 and :108), here in one second.    *)
(***************************************************************************)
EXTENDS Integers, SequencesExt

CONSTANTS
    roll_size_,         \* the constructor's arguments
    flush_interval_,
    check_every_n_,
    kRollPerSeconds_,   \* the length of a period: a day
    LineLengths,        \* the lengths a line may have
    MaxStepBack,        \* how far the clock may be set back at a time
    MaxTime,            \* bound: the clock stops there
    LineLimit           \* bound: the number of calls of append()

ASSUME ParameterAssumption ==
    /\ {roll_size_, flush_interval_, MaxStepBack, LineLimit} \subseteq Nat
    /\ check_every_n_ \in Nat \ {0}
    /\ kRollPerSeconds_ \in Nat \ {0}
    /\ MaxTime \in Nat \ {0}
    /\ LineLengths \subseteq Nat \ {0}

VARIABLES
    now,                \* time(NULL)
    count_,             \* LogFile::count_
    start_of_period_,   \* LogFile::start_of_period_
    last_roll_,         \* LogFile::last_roll_
    last_flush_,        \* LogFile::last_flush_
    files,              \* the files opened, the one behind file_ last: the name
                        \* of each, and its AppendFile::written_bytes_
    oldest,             \* history: when the oldest line that is not flushed was
                        \* appended, or 0 if there is none
    strays,             \* history: how many lines of other periods are in file_
    setBack,            \* history: whether the clock was ever set back
    appends             \* history: how many lines were appended

vars == <<now, count_, start_of_period_, last_roll_, last_flush_, files, oldest,
          strays, setBack, appends>>

Period(time) == (time \div kRollPerSeconds_) * kRollPerSeconds_

\* The constructor opens the first file.
Init ==
    /\ now \in 1..MaxTime
    /\ count_ = 0
    /\ start_of_period_ = Period(now)
    /\ last_roll_ = now
    /\ last_flush_ = now
    /\ files = <<[name |-> now, written |-> 0]>>
    /\ oldest = 0
    /\ strays = 0
    /\ setBack = FALSE
    /\ appends = 0

\* The line goes to the file that is open, and nothing else happens.
Keep(written, pending, stray) ==
    /\ files' = written /\ oldest' = pending /\ strays' = stray
    /\ UNCHANGED <<start_of_period_, last_roll_, last_flush_>>

\* A new file; the old one is closed, and so flushed.
OpenNext(written) ==
    /\ last_roll_' = now
    /\ last_flush_' = now
    /\ files' = Append(written, [name |-> now, written |-> 0])
    /\ oldest' = 0
    /\ strays' = 0

\* Mutant of Roll: a file is opened even if the last one has the same name.
RollAlways(written, pending, stray) ==
    OpenNext(written) /\ start_of_period_' = Period(now)

\* roll_file(): nothing happens within the second of the last roll, or before it.
Roll(written, pending, stray) ==
    \/ now > last_roll_ /\ OpenNext(written) /\ start_of_period_' = Period(now)
    \/ now <= last_roll_ /\ Keep(written, pending, stray)

\* Mutant of Check: the file is never flushed.
CheckWithoutFlush(written, pending, stray) ==
    \/ Period(now) # start_of_period_ /\ Roll(written, pending, stray)
    \/ Period(now) = start_of_period_ /\ Keep(written, pending, stray)

\* Mutant of Check: a new period is not noticed.
CheckWithoutRoll(written, pending, stray) ==
    \/ /\ now - last_flush_ > flush_interval_
       /\ last_flush_' = now
       /\ files' = written /\ oldest' = 0 /\ strays' = stray
       /\ UNCHANGED <<start_of_period_, last_roll_>>
    \/ now - last_flush_ <= flush_interval_ /\ Keep(written, pending, stray)

\* The look at the clock, LogFile.cc:68-78.
Check(written, pending, stray) ==
    \/ Period(now) # start_of_period_ /\ Roll(written, pending, stray)
    \/ /\ Period(now) = start_of_period_
       /\ now - last_flush_ > flush_interval_
       /\ last_flush_' = now
       /\ files' = written /\ oldest' = 0 /\ strays' = stray
       /\ UNCHANGED <<start_of_period_, last_roll_>>
    \/ /\ Period(now) = start_of_period_
       /\ now - last_flush_ <= flush_interval_
       /\ Keep(written, pending, stray)

\* Mutant of Append_: the size of the file is tested only when a check is due.
AppendChecksSizeLate(len) ==
    LET written == [files EXCEPT ![Len(files)].written = @ + len]
        pending == IF oldest = 0 THEN now ELSE oldest
        stray == strays + IF Period(now) # start_of_period_ THEN 1 ELSE 0
        due == count_ + 1 >= check_every_n_
    IN /\ appends < LineLimit
       /\ appends' = appends + 1
       /\ count_' = IF due THEN 0 ELSE count_ + 1
       /\ \/ ~due /\ Keep(written, pending, stray)
          \/ due /\ Last(written).written > roll_size_ /\ Roll(written, pending, stray)
          \/ due /\ Last(written).written <= roll_size_ /\ Check(written, pending, stray)
       /\ UNCHANGED <<now, setBack>>

\* append(): the line goes to the file; then the file is replaced if it is too
\* large; otherwise every check_every_n_-th line looks at the clock.
Append_(len) ==
    LET written == [files EXCEPT ![Len(files)].written = @ + len]
        pending == IF oldest = 0 THEN now ELSE oldest
        stray == strays + IF Period(now) # start_of_period_ THEN 1 ELSE 0
        full == Last(written).written > roll_size_
        due == count_ + 1 >= check_every_n_
    IN /\ appends < LineLimit
       /\ appends' = appends + 1
       /\ \/ full /\ Roll(written, pending, stray) /\ UNCHANGED count_
          \/ ~full /\ ~due /\ count_' = count_ + 1 /\ Keep(written, pending, stray)
          \/ ~full /\ due /\ count_' = 0 /\ Check(written, pending, stray)
       /\ UNCHANGED <<now, setBack>>

\* flush(): last_flush_ is left as it is.
Flush ==
    /\ oldest' = 0
    /\ UNCHANGED <<now, count_, start_of_period_, last_roll_, last_flush_, files,
                   strays, setBack, appends>>

\* The wall clock goes on, or is set back.
Tick ==
    /\ now < MaxTime
    /\ now' = now + 1
    /\ UNCHANGED <<count_, start_of_period_, last_roll_, last_flush_, files, oldest,
                   strays, setBack, appends>>

StepBack ==
    /\ \E step \in 1..MaxStepBack : now - step >= 1 /\ now' = now - step
    /\ setBack' = TRUE
    /\ UNCHANGED <<count_, start_of_period_, last_roll_, last_flush_, files, oldest,
                   strays, appends>>

Next == (\E len \in LineLengths : Append_(len)) \/ Flush \/ Tick \/ StepBack

Spec == Init /\ [][Next]_vars

------------------------------------------------------------------------------
File == Last(files)

\* Every variable has its type, and file_ is the file of the last roll.
TypeOK ==
    /\ now \in 1..MaxTime
    /\ count_ \in 0..check_every_n_
    /\ last_roll_ \in 1..MaxTime
    /\ start_of_period_ = Period(last_roll_)
    /\ last_flush_ \in 1..MaxTime
    /\ files \in Seq([name : 1..MaxTime, written : Nat]) \ {<<>>}
    /\ File.name = last_roll_
    /\ oldest \in 0..MaxTime
    /\ {strays, appends} \subseteq 0..LineLimit
    /\ setBack \in BOOLEAN

\* No file is opened twice: rolls in one second, or after the clock was set back,
\* would append to a file of which written_bytes_ knows nothing (LogFile.cc:89).
FilesAreNew ==
    \A i, j \in DOMAIN files : i < j => files[i].name < files[j].name

\* An append leaves the file larger than roll_size_ only while the clock does not
\* show a later second than the one of the last roll (LogFile.cc:58).
OversizeOnlyInOneSecond ==
    [][appends' # appends /\ Last(files').written > roll_size_ => now <= last_roll_]_vars

\* A file gets fewer than check_every_n_ lines of a later period, if the clock is
\* not set back: the others go to a file of their own period (LogFile.cc:70).
FewStrays == ~setBack => strays < check_every_n_

\* A check leaves no line unflushed for longer than flush_interval_, if the clock
\* is not set back (LogFile.cc:74).
FlushedInTime ==
    [][~setBack /\ appends' # appends /\ count_' = 0 /\ oldest' # 0
         => now - oldest' <= flush_interval_ \/ Last(files').written > roll_size_]_vars
================================================================================
