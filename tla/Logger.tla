-------------------------------- MODULE Logger --------------------------------
(***************************************************************************)
(* src/muduo/base/Logging.cc over LogStream and CurrentThread: threads     *)
(* make messages, each beginning with the time and the id of its thread.   *)
(* Both are cached per thread as text: the time with its second, the       *)
(* thread id until a fork.                                                 *)
(*                                                                         *)
(* A message is made by one thread in an object of its own.  Begin is the  *)
(* constructor of Logger, Stream its text, End its destructor, which gives *)
(* the message to g_output (AsyncLogging::append, say).  A message that    *)
(* the log level leaves out is never begun.  The assignment of the zone is *)
(* one step: what a thread sees that formats a time during it is undefined *)
(* in C++ and not modelled.                                                *)
(***************************************************************************)
EXTENDS LogStream

CONSTANTS
    Threads,        \* the threads of the process
    MainThread,     \* the one that ran the static initializers
    Zones,          \* the time zones, by their offsets
    NoZone,         \* a TimeZone that is not valid(): times are shown in UTC
    Pieces,         \* what a program may put into a message
    PartLength,     \* the length of each fixed part of a message
    Line,           \* the line number a message ends with
    NoMessage,      \* no Logger object
    Writers,        \* bound: the threads whose messages have a text
    MaxAsked,       \* bound: the length of the text a message is made of
    MaxTime,        \* bound: the last second of the clock
    MaxTid          \* bound: the last id the kernel gives to a thread

ASSUME MainAssumption == MainThread \in Threads
ASSUME PieceAssumption ==
    /\ Line \in Int /\ PartLength \in Nat
    /\ \A piece \in Pieces :
          IF piece.kind \in {"integer", "pointer"} THEN piece.value \in Int ELSE piece.len \in Nat
ASSUME ZoneAssumption == Zones \subseteq Int /\ NoZone \notin Zones

VARIABLES
    g_logTimeZone,      \* the zone set last, or NoZone
    t_last_second,      \* the second that t_time shows, or 0
    t_time,             \* the formatted time, as the seconds it stands for
    t_cached_tid,       \* the cached id of the thread, or 0
    t_tid_string,       \* its text: the id it stands for
    impl_,              \* the message each thread is making, or NoMessage
    aborted,            \* whether the process has ended with a FATAL message
    now,                \* the seconds of the clock
    threads,            \* the threads of this process that exist
    kernelTid,          \* the ids the kernel knows them by
    lastSecond,         \* history: the second of the last message of each thread
    zoneSet             \* history: whether set_time_zone was called since the
                        \* first message of each thread in that second

caches == <<t_last_second, t_time, t_cached_tid, t_tid_string>>
process == <<threads, kernelTid>>
history == <<lastSecond, zoneSet>>
vars == <<g_logTimeZone, caches, impl_, aborted, now, process, history>>

Offset(zone) == IF zone = NoZone THEN 0 ELSE zone

\* The main thread has its id cached and after_fork() registered
\* (ThreadNameInitializer); the others start with nothing.
Init ==
    /\ g_logTimeZone = NoZone
    /\ t_last_second = [t \in Threads |-> 0]
    /\ t_time = [t \in Threads |-> 0]
    /\ threads = Threads
    /\ kernelTid \in [Threads -> 1..Cardinality(Threads)]
    /\ \A t, u \in Threads : t # u => kernelTid[t] # kernelTid[u]
    /\ t_cached_tid = [t \in Threads |-> IF t = MainThread THEN kernelTid[t] ELSE 0]
    /\ t_tid_string = t_cached_tid
    /\ impl_ = [t \in Threads |-> NoMessage]
    /\ aborted = FALSE
    /\ now = 1
    /\ lastSecond = [t \in Threads |-> 0]
    /\ zoneSet = [t \in Threads |-> FALSE]

------------------------------------------------------------------------------
(* CurrentThread.                                                           *)

\* tid(), which caches the id and its text once.
tid(t) ==
    IF t_cached_tid[t] = 0
    THEN /\ t_cached_tid' = [t_cached_tid EXCEPT ![t] = kernelTid[t]]
         /\ t_tid_string' = [t_tid_string EXCEPT ![t] = kernelTid[t]]
    ELSE UNCHANGED <<t_cached_tid, t_tid_string>>

\* Thread::run_thread and MutexLock::lock call tid() too, at any time.
CacheTid(t) ==
    /\ t \in threads /\ t_cached_tid[t] = 0
    /\ tid(t)
    /\ UNCHANGED <<g_logTimeZone, t_last_second, t_time, impl_, aborted, now, process, history>>

\* Mutant of after_fork: the cached id is not reset before tid() is called.
AfterForkKeepsTid(t, newTid) == UNCHANGED <<t_cached_tid, t_tid_string>>

\* after_fork: in the child the id is forgotten and cached again.
after_fork(t, newTid) ==
    /\ t_cached_tid' = [t_cached_tid EXCEPT ![t] = newTid]
    /\ t_tid_string' = [t_tid_string EXCEPT ![t] = newTid]

\* fork() by t, seen in the child: t is its only thread and has an id of its own.
\* The message t is making, if any, goes on in the child.
Fork(t, newTid) ==
    /\ t \in threads /\ ~aborted
    /\ \A u \in Threads : newTid # kernelTid[u]
    /\ threads' = {t}
    /\ kernelTid' = [kernelTid EXCEPT ![t] = newTid]
    /\ after_fork(t, newTid)
    /\ impl_' = [u \in Threads |-> IF u = t THEN impl_[u] ELSE NoMessage]
    /\ UNCHANGED <<g_logTimeZone, t_last_second, t_time, aborted, now, history>>

------------------------------------------------------------------------------
(* Logger.                                                                  *)

\* Mutant of Outdated: the cached time is used until a later second comes.
OutdatedForward(t) == now > t_last_second[t]

\* formatTime: whether the cached time is that of another second.
Outdated(t) == now # t_last_second[t]

\* formatTime: the time is formatted once in a second, in the zone of that moment.
formatTime(t) ==
    /\ t_last_second' = [t_last_second EXCEPT ![t] = IF Outdated(t) THEN now ELSE @]
    /\ t_time' = [t_time EXCEPT ![t] = IF Outdated(t) THEN now + Offset(g_logTimeZone) ELSE @]

\* The constructor's parts of a message: time, microseconds, id and level, and with
\* an errno its text and number.
Header(savedErrno) ==
    LET part(stream) == PutText(stream, PartLength)
        header == part(part(part(part(EmptyStream))))
    IN IF savedErrno = 0 THEN header
       ELSE part(PutNumber(part(header), convert(savedErrno)))

\* Logger::Impl::Impl.  The message keeps what it shows, and, as history, the
\* second, zone and thread it was made in.
Begin(t, savedErrno) ==
    /\ t \in threads /\ impl_[t] = NoMessage /\ ~aborted
    /\ formatTime(t)
    /\ tid(t)
    /\ lastSecond' = [lastSecond EXCEPT ![t] = now]
    /\ zoneSet' = [zoneSet EXCEPT ![t] = @ /\ lastSecond[t] = now]
    /\ impl_' = [impl_ EXCEPT ![t] =
          [time |-> t_time'[t], utc |-> g_logTimeZone = NoZone, tid |-> t_tid_string'[t],
           stream_ |-> Header(savedErrno),
           second |-> now, zone |-> g_logTimeZone, late |-> zoneSet'[t],
           madeBy |-> kernelTid[t]]]
    /\ UNCHANGED <<g_logTimeZone, aborted, now, process>>

\* operator<< on stream().
Stream(t, piece) ==
    /\ t \in threads \cap Writers /\ impl_[t] # NoMessage /\ ~aborted
    /\ impl_[t].stream_.asked <= MaxAsked
    /\ impl_' = [impl_ EXCEPT ![t].stream_ = Put(@, piece)]
    /\ UNCHANGED <<g_logTimeZone, caches, aborted, now, process, history>>

\* Impl::finish: the file and the line number.
finish(stream) ==
    PutText(PutNumber(PutText(stream, PartLength), convert(Line)), PartLength)

\* ~Logger: finish, g_output, and after a FATAL message the end of the process.  The
\* level of a message is looked at only here.
End(t) ==
    /\ t \in threads /\ impl_[t] # NoMessage /\ ~aborted
    /\ aborted' \in BOOLEAN
    /\ impl_' = [impl_ EXCEPT ![t] = NoMessage]
    /\ UNCHANGED <<g_logTimeZone, caches, now, process, history>>

\* set_time_zone does not reset what the threads have cached.
SetTimeZone(zone) ==
    /\ ~aborted
    /\ g_logTimeZone' = zone
    /\ zoneSet' = [t \in Threads |-> TRUE]
    /\ UNCHANGED <<caches, impl_, aborted, now, process, lastSecond>>

\* The clock goes on, or is set back.
Tick ==
    /\ now < MaxTime /\ ~aborted
    /\ now' = now + 1
    /\ UNCHANGED <<g_logTimeZone, caches, impl_, aborted, process, history>>

StepBack ==
    /\ ~aborted
    /\ now' \in 1..(now - 1)
    /\ UNCHANGED <<g_logTimeZone, caches, impl_, aborted, process, history>>

Next ==
    \/ \E t \in Threads : \/ CacheTid(t) \/ End(t)
                          \/ \E newTid \in 1..MaxTid : Fork(t, newTid)
                          \/ \E savedErrno \in {0, 2} : Begin(t, savedErrno)
                          \/ \E piece \in Pieces : Stream(t, piece)
    \/ \E zone \in Zones \cup {NoZone} : SetTimeZone(zone)
    \/ Tick \/ StepBack

Spec == Init /\ [][Next]_vars

------------------------------------------------------------------------------
Messages == {impl_[t] : t \in Threads} \ {NoMessage}

\* A message shows the second in which it was begun, in the zone then in force and
\* with the mark of that zone, however the clock was set since the thread's last
\* message (Logging.cc:103-117).  Not so if the zone was set in the second in which
\* the thread had already formatted the time.
MessageShowsItsTime ==
    \A message \in Messages :
        /\ message.utc = (message.zone = NoZone)
        /\ message.late \/ message.time = message.second + Offset(message.zone)

\* A message shows the id of the thread that began it, in a forked child too
\* (Thread.cc:13, CurrentThread.cc:68).
MessageShowsItsThread ==
    \A message \in Messages : message.tid = message.madeBy

\* A message that leaves room for one more number is put out as it was put in, but
\* for the signs of negative numbers, its file and line number included
\* (LogStream.h:32, LogStream.cc:203).
ShortMessagesAreExact ==
    \A message \in Messages :
        LET stream == finish(message.stream_)
        IN stream.asked <= kSmallBuffer - kMaxNumericSize
             => stream.exact /\ stream.length = stream.asked
================================================================================
