# Verification of muduo's base library

TLA+ models of `src/muduo/base`: its threads, locks, queues and log, and the
functions they compute with.  They are checked with TLC and, for eight modules,
proved with TLAPS.  All paths below are relative to
`src/muduo/base` of this repository.  The code is read as a release build
compiles it (`CMakeLists.txt` defaults to `release`): an `assert` is a
statement to verify, not a check that is executed.

Contents: 1 the system, 2 how the modules are built, 3 the components one by one,
4 the runs, 5 fairness, 6 the proofs, 7 what disagrees with the code's own
statements, 8 what is not modelled, 9 the plan.

## 1. The system

The library gives programs threads, locks, queues and a log.

    Logger --LogStream/FixedBuffer--> output function
                                        |
                                        v
      AsyncLogging::append --buffers--> backend thread --> LogFile --> AppendFile
          |                               |
          |  MutexLock, Condition         |  Thread, CountDownLatch
          v                               v
      BlockingQueue  BoundedBlockingQueue  ThreadPool
                                             |
      Date --> TimeZone --> Logger           +--> Thread (one per worker)
                                                    |
      ReadSmallFile --> ProcessInfo                 +--> Singleton, ThreadLocal

| component | state it keeps | operations | interacts with |
|---|---|---|---|
| MutexLock (`Mutex.h`) | a pthread mutex, `holder_` | lock, unlock, assert_locked, guards | every class below |
| Condition (`Condition.h`, `.cc`) | a pthread condition | wait, wait_for_seconds, notify, notify_all | clears and restores `holder_` around a wait |
| CountDownLatch | `count_` | wait, count_down, get_count | Thread::start and AsyncLogging::start wait on one |
| BlockingQueue, BoundedBlockingQueue | a deque or list, one or two conditions | put, take | callers' threads |
| ThreadPool | `running_`, `queue_`, `threads_`, `max_queue_size_` | start, stop, run, take, run_in_thread | one Thread per worker; tasks may call run() |
| Thread | `started_`, `joined_`, `pid_`, `latch_` | start, join, destruction; run_thread in the new thread | the new thread writes through pointers into the object, and its name points into its ThreadData |
| Singleton, ThreadLocal | `once_`, `value_`; a pthread key | instance, init, destroy at exit; value, the destructor at a thread's end | all threads that ask, and exit() |
| AsyncLogging | four buffers, `running_` | append, start, stop, thread_func | Thread, latch, LogFile |
| LogFile, AppendFile | `count_`, `start_of_period_`, `last_roll_`, `last_flush_`, `written_bytes_` | append, flush, roll_file | the wall clock, stdio, a device that can fail |
| ReadSmallFile | `fd_`, `buf_` | read_to_string, read_to_buffer | a file that others write |
| Logger, LogStream, FixedBuffer | a buffer per message, a formatted second per thread | operators `<<`, finish | AsyncLogging::append as the output function |
| Date, TimeZone | the transitions of a zone file | UTC and local conversions | Logger |
| StringPiece, ProcessInfo | none | comparisons; proc_name, num_threads | the texts of /proc |
| CurrentThread | a thread's id and its text, cached | tid, after_fork | Logger, Thread |
| TimeStamp, Atomic, ThreadLocalSingleton, WeakCallback, Exception | little | see section 8 | |

What is hard in it:

* *interleaving*: one `notify()` per put or take while several threads are
  blocked, woken and not yet running, or just coming in; `stop()` that notifies
  without the mutex; a Thread object that is destroyed while its thread runs;
* *bounds*: a full queue, more than 25 collected log buffers, a latch that is
  counted below zero, a line that does not fit a buffer;
* *time*: a wait whose deadline is computed wrongly, a clock that is set back, a
  log file that is rolled twice in one second, the hour that occurs twice;
* *failure*: `pthread_create` fails, a task throws, every worker is blocked, the
  process is killed with lines in its buffers, the device fails within a line;
* *lifetime*: a thread that ends deletes its data in an order of its own, and main
  may exit while others run.

What makes each component correct (the names are those of the properties):

* Mutex and Condition: `assert_locked()` tells the truth at every instant, waits
  included (`HolderIsExact`).
* CountDownLatch: nobody stays behind (`NobodyLeftBehind`, `WaitersPass`), and the
  steps over a mutex and a condition are those of its critical sections
  (`ImplementsLatch`).
* BlockingQueue, BoundedBlockingQueue: no lost wake-up on any side
  (`NoItemForgotten`, `NoPlaceForgotten`), and the promise of a FIFO, of bounded
  size or not (`ImplementsFifo`).
* ThreadPool: the same for tasks and places (`NoWakeupLost`), a stop that releases
  and joins everybody (`NobodyBlockedAfterStop`, `QuietAfterStop`, `StopReturns`),
  a FIFO executor (`ImplementsExecutor`), and calls and tasks that come to an end as
  long as a worker is left (`AcceptedTasksRun`, `RunReturns`).
* Thread: no access to a destroyed object or a deleted name (`NoDanglingAccess`),
  one join or detach per pthread and a known id (`ReclaimedOnce`), calls that return
  (`CallsReturn`).
* Singleton, ThreadLocal: an instance that is there for whoever asks
  (`InstanceAlive`), and no object that outlives its thread (`TestsAreDestroyed`).
* AsyncLogging: the assertions of its loop and the refill of its buffers
  (`AssertionsHold`), room for every line (`BuffersFit`), lines in order, each once
  (`NothingLost`), a notice before every gap (`GapsAnnounced`), a crash that takes the
  newest lines only (`CrashLosesTheNewest`), calls that return and lines that reach
  the disk (`CallsReturn`, `LinesGetWritten`).
* Logger, LogStream, CurrentThread: a message shows its own second and its own
  thread although both are cached (`MessageShowsItsTime`, `MessageShowsItsThread`),
  and its text is whole while there is room (`ShortMessagesAreExact`).
* LogFile: a name is used once (`FilesAreNew`), size and period are respected
  (`OversizeOnlyInOneSecond`, `FewStrays`), lines get flushed (`FlushedInTime`).
* AppendFile, ReadSmallFile: a device that fails costs a piece of at most a buffer
  each time and nothing else (`OnlyFailuresLose`), and who reads a growing file gets
  a beginning of it (`ReaderSeesTheFile`).
* Date and TimeZone: agreement with the rules of the calendar (`DateIsRight`), the
  fields of a time in UTC and at the offset in force (`FieldsAreRight`), a way back
  from local time that is exact in the repeated hour (`LocalRoundTrip`).
* StringPiece, ProcessInfo: one order in six functions (`OrderIsTotal`), and names
  that cannot confuse the readers of /proc (`NamesDoNotConfuse`).

## 2. How the modules are built

Every class has a module of its name.  The fields of the class are its
VARIABLES under their own names; `pc` (or `child`, `owner`) says where each thread
is; a variable whose comment begins with "history" is read by properties only.
An action is one critical section, cut where the code waits.  `Monitor` is the
justification of that grain: it models the single writes to `holder_` around the
pthread calls and shows that a thread is inside its critical section only while
it holds the mutex, and `LockedLatch` writes `CountDownLatch` over those steps and
shows that the module with one action per critical section loses nothing.  Reads
without a mutex (`running_` in the two loops, `threads_.empty()` in `run()`) are
steps of their own.

`CondVar` holds what a notification does to the blocked threads: `notify()` wakes
any one of them, or nobody if none is blocked.  A woken thread still has to take
the mutex again, against all who come in meanwhile, and every wait may end
without a notification (`SpuriousWakeup`).

For the classes with a promise that can be said without their locks there is an
abstract module, and the class is checked to implement it through a refinement
mapping: `BoundedFifo` for `BoundedBlockingQueue` and, with room for everything, for
`BlockingQueue`; `TaskExecutor` for `ThreadPool`; `CountDownLatch` for `LockedLatch`,
whose count is seen as lowered only when the notification is out.

`ThreadLocals` composes `Thread`, `Singleton` and `ThreadLocal` into the program of
`tests/singleton_thread_test.cc`: every action is an action of one of the three or
joins two of them (the `T` that `init()` makes is a `ThreadLocal`, a thread's end runs
its destructors).

`MC*` modules and `.cfg` files are the instances for TLC.  Where the variables of two
models have nothing to do with each other, the `MC` module lets each behaviour walk
in one of them (`walk`, `kind`), and a property of the one holds trivially in the
other.  `*Proofs` modules hold
the theorems.  A definition whose comment begins "Mutant of" is a wrong version
of the definition it stands before, of a kind one could write by mistake (a
missing retest, a missing reset, an off-by-one); with it in place the property
named beside it in `PROJECT.json` fails, which shows that the property depends on
the code.

## 3. The components

**Monitor** (`Mutex.h`, `Condition.h`, `Condition.cc`).  `MutexAcquire` and
`AssignHolder` are `lock()`; `UnassignHolder` and `MutexRelease` are `unlock()`;
`UnassignGuard`, `CondBlock` (or `CondRefuse`, when a deadline is not accepted),
`CondTimeout`, `CondReturn` and `RestoreHolder` are the two waits; `Notify` and
`NotifyAll` may be called with or without the mutex, as `AsyncLogging::stop()`
does.

**TimedWait** (`Condition.cc`).  The deadline of `wait_for_seconds` as lines 14
and 15 compute it, and the three ways out: notified, timed out, refused (EINVAL,
when `tv_nsec` is a second or more).  The other modules need from it only that a
wait ends some time, and that it may end at once; both are possible there.

**CountDownLatch**, **LockedLatch**.  `Wait`, `CountDown`.  The constructor checks
nothing, so `Count` is any integer, and `count_` goes below zero (`LatchParameters`
has the constants of both).  In `LockedLatch` the same methods are `EnterWait`,
`EnterCountDown`, `Test`, `Decrement`, `NotifyWaiters`, `Leave`, between which the
steps of `Monitor` happen.

**BoundedBlockingQueue**, **BlockingQueue**, **BoundedFifo**.  `Put`, `Take`.  An item
is the pair of its producer and a number, which makes order and repetition visible.
The copying and the moving `put` are one action.  `BlockingQueue::put` notifies with
the mutex held and never waits.

**ThreadPool**, **TaskExecutor**.  `Run` is `run()` up to its lock, with the
unlocked look at `threads_`; `RunLocked` is the rest.  `WorkerInit`, `WorkerLoop`,
`Take`, `TaskReturns` and `TaskThrows` are `run_in_thread()`; `Start`,
`StartThread`, `Started`, `Stop`, `StopJoin` are the owner; `SetMaxQueueSize` is the
setter.  A task that calls `run()` keeps its place on the thread's `stack`, so a
worker can be blocked in `run()` below a task it executes.  An exception ends a
worker (`ThreadPool.cc:136`), or reaches the caller if there are no workers.  In
`TaskExecutor` there are no threads: tasks run inline before it is open, are
accepted in order while it is open and refused after.

**Thread**.  `Start`, `StartReturn`, `Join`, `JoinReturn`, `Destroy` are the owner of
the object; `ChildSetPid`, `ChildCountDown`, `ChildLeaveLatch`, `ChildReturn` are the
new thread, which owns its `ThreadData` but points to `pid_` and `latch_` in the
object.  `latchHeld` is the mutex of that latch: `count_down()` uses it until it
returns, so the latch must outlive the call and not only the decrement.
`ChildRun` points `t_thread_name` into the `ThreadData`, `ChildFinish` away from it
and deletes the data, and `ChildReturn` is the end of the pthread, after the
destructors of its thread-specific data.

**Singleton**, **ThreadLocal**, **ThreadLocals**.  `Call`, `BeginInit`, `EndInit`,
`PassOnce`, `Get`, `Leave` are a call of `instance()` and the use of what it returns;
`pthread_once` is external: the first caller runs `init()`, the others wait.
`Delete` and `Forget` are `destroy()`.  `Create`, `DeleteKey`, `Value` and `Destructor`
are the four operations of a `ThreadLocal`; that a key's destructor runs at the end
of a thread with a value, and that a deleted key has none, is POSIX.  `ThreadLocals`
has main, which may end by `pthread_exit()` or call `exit()` at any time.

**AsyncLogging**.  `Append_` is `append()`.  `BackendEnter` to `BackendRecycle` are
`thread_func()` in its order: the loop test, the critical section with its wait,
the exchange of buffers, the write with the drop of an overload, and the refill
of the spare buffers.  `Stop` clears `running_`, `StopNotify` notifies without the
mutex, `StopJoin` joins.  Lines are numbered in the order of `append()`'s critical
sections, `output` is what went to the file, and `onDisk` says how much of that has
been flushed.  The process may be killed in any state: a crash is not an action, the
property about it speaks of what would be left.  A line is assumed to be shorter than a
buffer (`BufferAssumption`): `Logger` formats it in a `kSmallBuffer`, a thousandth
of a `kLargeBuffer`.

**LogFile** (`LogFile.cc`).  `Append_` is
`append_unlocked`, with the roll (`Roll`) for size or period and the flush
(`Check`) it makes; `Flush` is `flush()`.  A file is named by the second it was
opened in, which is what its real name varies by in one process.  `Tick` and
`StepBack` are the wall clock; a roll that a check makes reads it twice
(`LogFile.cc:68` and `:108`), which is one reading in the model.

**FileUtil** (`FileUtil.cc`).  `Append_` and `WriteReturns` are `append()` with its
loop over short writes, `Flush` is `flush()` and the `fclose` of the destructor.  A
byte is its number among all bytes of all lines, so that a repeated or a missing piece
shows. `fwrite` is external, with the steps of glibc: `Fill` puts what fits into the
buffer, `Overflow` writes the full buffer, `Blocks` writes whole buffers from the line
itself and keeps the rest.  A write that the device does not take all of ends the
`fwrite`.  The buffer is empty afterwards whatever of it was written, and the bytes
that were put into it count as taken: `append()` goes on behind them.  `Open`,
`ReadToString`, `ReadSome`, `EndLoop`, `ReadToBuffer`, `Close` are a `ReadSmallFile`
on the same file while it grows, on a directory, or on nothing; `read()` may return
less than there is.  The descriptor may be 0.  `FileParameters` has the constants it
shares with `MCLogFile`.

**Logger**, **LogStream** (`Logging.cc`, `LogStream.{h,cc}`, `CurrentThread.cc`,
`Thread.cc:11-28`).  `Begin` is the constructor of a message with `formatTime` and
`tid`, `Stream` an operator `<<`, `End` the destructor.  `LogStream` says what each
operator does to the length of the buffer: a text without room is counted and not
copied (`PutText`), a number is written only where the longest one has room
(`PutNumber`), and is written without its sign (`convert`, which counts nine digits at
most).  A stream is its length, the length of all that was put into it, and whether
all of that was written. `Fork` goes on in the child, with `after_fork`;
`SetTimeZone`, `Tick` and `StepBack` are what the cached time has to stand.

**Date**, **Calendar**.  The arithmetic of `Date.cc`; the calendar by its rules, one
day after the other, as the reference.

**TimeZone**.  `to_utc_time`, both forms of `from_utc_time`, the transitions that
`read_time_zone_file` builds, `find_local_time` by GMT and by local time,
`to_local_time`, `from_local_time`.  A clock walks over a range of times for each
zone and the properties compare each time with what the conversions make of it.

**StringPiece**, **ProcessInfo**.  The comparison functions over sequences of bytes,
with `memcmp` external; `proc_name` and `num_threads` over texts made of the words
that matter to them.

## 4. The runs

| run | shows | instance, and why it is enough |
|---|---|---|
| `latch` | `HolderIsExact`, `NobodyLeftBehind`, `ImplementsLatch`, `WaitersPass` | two walks with four threads. One on a latch of two, up to four count_downs, two wake-ups without a notification: two blocked at once, a third on its way in, two steps below zero. One with a mutex and a condition used in any order, without a bound. |
| `queues` | `NoItemForgotten`, `NoPlaceForgotten`, `ImplementsFifo` (with its liveness) | three producers and two consumers, two items each, on two places or on an unbounded queue: two threads blocked on each condition while others are woken or come in. |
| `pool` | `NoWakeupLost`, `NobodyBlockedAfterStop`, `QuietAfterStop`, `ImplementsExecutor`, `StopReturns`, `AcceptedTasksRun`, `RunReturns` | two callers, two workers, no limit or a queue of one or two, three tasks that may throw or call `run()`; `start` and `stop` at any time: two callers blocked on a full queue, a worker dead and the other one blocked in `run()`, a stop at each of these moments. |
| `pool_create_fails` | violates `JoinsStartedThreads` | one caller, two workers whose creation may fail. |
| `thread` | `NoDanglingAccess`, `ReclaimedOnce`, `InstanceAlive`, `TestsAreDestroyed`, `CallsReturn` | main and two `Thread` objects, which meet in `pthread_once` and at exit; a third thread would wait as the second does. No bound. |
| `async_logging` | `AssertionsHold`, `BuffersFit`, `NothingLost`, `GapsAnnounced`, `CrashLosesTheNewest`, `CallsReturn`, `LinesGetWritten` | seven lines of length one or two, buffers of three, drop above two (`DropThreshold`, 25 in the code): drops of one to several buffers, both spare buffers given away or one, lines that come in during every step of the backend, creation that fails. |
| `log_file` | `FilesAreNew`, `FewStrays`, `OversizeOnlyInOneSecond`, `FlushedInTime`, `OnlyFailuresLose`, `ReaderSeesTheFile` | two walks. Seconds: six lines of length one or three, a roll size of four, a check every three lines, periods of three seconds, a clock of seven seconds that may be set back by up to four: rolls for size, for the period, both in one second, and rolls that are refused. Bytes: nine bytes in lines of one or four, a buffer of two, so that a line fills the buffer, goes past it and leaves a rest, and a read takes several rounds; three writes to the device that fail, which may be those of one line or of several, and after any number of bytes; a reader that asks for at most three bytes. |
| `timed_wait_result` | violates `FalseMeansWoken` | a second of four nanoseconds, waits below, at and above one second. |
| `logger` | `MessageShowsItsTime`, `MessageShowsItsThread`, `ShortMessagesAreExact` | two threads, of which one puts texts and numbers into its messages, a buffer of 16 with room for a number of 5, so that each kind of piece meets each state of the buffer, overrun included; two seconds that go forth and back, UTC and one zone, a fork by either thread. |
| `conversions` | `DateIsRight`, `FieldsAreRight`, `LocalRoundTrip`, `OrderIsTotal`, `NamesDoNotConfuse` | four walks. Days: every day from 1900 to 2500, the range of `Date.h`: each rule of the leap years occurs several times. Times: the range of `testUtc` (`tests/time_zone_test.cc`) in steps of 2999 seconds, which meet every hour and minute; 2005 and 2006 in steps of 20 minutes for New York, Sydney and Lord Howe, which meet each transition exactly and three times in each hour that is repeated or left out; the days of 1911 when Paris set its clocks back by 561 seconds, in steps of 187. The zones have the mean time of their place as first type, as zone files do. Strings: all pairs of up to three bytes out of the least, the largest and one between. Names: up to six words, the brackets and `Threads:` among them. |
| `utc_test` | violates `UtcTestPasses` | the times of `conversions`. |
| `read_errors` | violates `ReadErrorIsReturned` | the bytes of `log_file`. |

Bounds that are not in the code, all of them CONSTANTS: `MaxDowns`, `SpuriousLimit`,
`PutLimit`, `TaskLimit`, `LineLimit`, `MaxBytes`, `MaxFailures`, `MaxLength`,
`LastCall`, `MaxTime`, `MaxStepBack`, `LastYear`, `Clock`, `Writers`,
`MaxAsked`, `MaxTid`.  They cap numbers of calls, the text of a message, the length of
a string, or the clock; a specification never makes use of reaching them other than by
stopping there, hence `CHECK_DEADLOCK FALSE` where a program that has nothing more to
do, or one whose owner never stops it, comes to rest.  `log_file` is checked for
deadlock.

Remarks on single properties:

* `NoItemForgotten` and its like are stronger than "nobody sleeps while there is
  an item": they count the woken threads that are still on their way.  They fail
  at once if a put notifies only when the queue was empty, an "optimisation" that
  a test with one consumer does not notice.
* `RunReturns` and `AcceptedTasksRun` carry the exception `NoWorkerLeft`.  It is a
  fact of the code, not of the model: with a bounded queue, tasks that call
  `run()` can block every worker for good, and tasks that throw end their
  workers.  What the properties say is that nothing else stops the pool.  In
  both cases `stop()` returns.
* `CallsReturn` of AsyncLogging depends on the timeout: `stop()` notifies without
  the mutex, and the notification may come between the backend's test of
  `running_` and its wait.
* `GapsAnnounced` is about steps: the notice of a drop is written before the two buffers
  that were kept, the gap shows in the next round, and by then the notice must have been
  in the file.
* `CrashLosesTheNewest` has two parts: what a crash takes are the newest lines, and
  while the backend is not at work they are all still in the buffers of `append()`.
  A backend that does not flush in each round breaks the second.
* `NothingLost` and `LinesGetWritten` do not say that lines appended before `stop()`
  are written: the backend may find `running_` false before it collects them, and
  nothing in the code promises otherwise.
* `FewStrays` and `FlushedInTime` hold as long as the clock is not set back.
  Afterwards every check finds another period, tries to roll, is refused and does
  not flush, until the clock has passed the last roll.
* `MessageShowsItsTime` excludes the messages a thread begins after `set_time_zone`
  in a second whose text it has cached: they show the time of the old zone with
  the mark of the new one (`Logging.cc:105`).
* `ShortMessagesAreExact` is as strong as the code: a message whose text does not
  fit has a hole where the text was to be, and is longer than the buffer.  With
  less room than the longest number needs, a number is left out, the line number
  at the end included.
* `InstanceAlive` excludes a main that calls `exit()`, or returns, while threads run:
  `destroy()` then deletes what they use, and `instance()` fails its assertion
  (`Singleton.h:36`), for `pthread_once` does not set the pointer again.  When the
  last thread ends the process, as in `tests/singleton_thread_test.cc` after
  `pthread_exit()`, everybody's object is deleted first (`TestsAreDestroyed`).
* `OnlyFailuresLose` is as strong as the code.  After a write to the device has failed,
  stdio has dropped its buffer, and with it perhaps the front of the line that
  `append()` is about to go on with: the file then has that line without its front,
  and nobody learns of it.  `ferror` is looked at only when an `fwrite` of the loop
  takes nothing (`FileUtil.cc:138-146`).  That never happens, for the buffer is empty
  after a failure and takes at least one byte; so no line is given up either.
* `NamesDoNotConfuse` excludes names that contain `Threads:`, which precede the line
  that `num_threads` looks for.
* `LocalRoundTrip` excludes the times that a clock shows twice, unless it is because a
  daylight saving time of one hour ends.  `from_local_time` corrects by 3600 seconds,
  and only from `tm_isdst` to not `tm_isdst`: half an hour (Lord Howe), a change of the
  standard time (Paris in 1911) and a winter time with `tm_isdst` set (Dublin) are not
  told apart.  All other times of these zones are covered, and `FieldsAreRight` holds
  of all their times; it leaves out the minute, see `utc_test` in section 7.

## 5. Fairness

Only what a scheduler has to do is fair: a thread that is inside the library's code
and is not blocked goes on (`Progress` of the latch and the pool, `Puts` and `Takes` of
the queues, `Backend`, `ThreadEnters`, `InstanceStep`, the owner inside `start()`, `stop()`
and `join()`), tasks come to an end, the handlers of `exit()` run, and the timeout of
AsyncLogging's wait expires.  All of it is weak, but for one: a thread's `func()`
returns at last (`FinishRun`), although the thread may ask for the singleton again and
again before it does, which disables that step each time.  Nothing makes anybody call
`start`, `stop`, `append`, `run` or `count_down`, and no liveness property relies on a
wake-up without a notification.  A producer of a queue puts what it has (`PutLimit`
items), and consumers go on taking: that is the liveness of `BoundedFifo`, which
promises nothing without consumers.

Weak fairness of a thread that wants a mutex means that it gets the mutex in the
end if it is free again and again at the points where the model can see it:
critical sections are single steps, so a thread that wants the lock is enabled all
the time.  In `LockedLatch` they are not, but there the calls are bounded.
Whether a caller of `run()` or `put()` may lose the race for every free place
for ever is a question these bounded runs do not decide.

## 6. The proofs

| module | theorems | for every |
|---|---|---|
| `LatchProofs` | of the monitor `TypeCorrect`, `HolderExact`, `FreeMutex`; of the latch over it `LockedLatchImplementsLatch`, `NoEarlyPass`, `NoneLeftBehind`, `LatchHolderExact`, `LatchCorrect` | set of threads, count, below zero too, and number of calls |
| `BoundedBlockingQueueProofs` | `TypeCorrect`, `ItemsAreNotForgotten`, `PlacesAreNotForgotten`, `FifoSafety`; of both queues `NeitherForgetsItems`, `BothAreFifos` | finite sets of producers and consumers, size and number of items |
| `ThreadPoolProofs` | `Inductive`, `WakeupsAreNotLost`, `StopReleasesAll`, `StoppedPoolIsQuiet`, `PoolIsExecutor` | finite set of callers, number of workers, limits and tasks, that may throw or call `run()` or not, and threads that cannot be created |
| `ThreadProofs` | `Inductive`, `UsesThreads`, `TypeCorrect`, `NothingDangles`, `PthreadsAreReclaimed`, `SingletonIsAlive`, `NoTestIsLeft` | set of objects |
| `AsyncLoggingProofs` | `TypeCorrect`, `AssertionsNeverFail`, `ReserveIsSound`, `LinesAlwaysFit`, `NoLineLost`, `GapsAreAnnounced`, `OnlyTheNewestAreLost` | buffer size, set of line lengths, drop threshold of at least two, number of lines |
| `LogFileProofs` | `Inductive`, `FilesAreNotReopened`, `StraysAreFew`, `SizeIsKept`, `ChecksFlush`; of the bytes `FileLosesOnlyByFailures`, `ReaderGetsTheBeginning` | sizes, intervals, periods, line lengths, and every clock; sizes of all buffers, and however the device fails |
| `LoggerProofs` | `Inductive`, `TimeIsShown`, `ThreadIsShown`, `ShortMessagesAreWhole` | set of threads and of zones, pieces, sizes of the buffer, clock and forks |
| `ConversionProofs` | `DatesAreRight`, `FieldsAreTheTimes`, `LocalTimesGoRound`, `StringsAreOrdered`, `NamesAreRead` | day from whatever year on; time from the first Julian day on; zone file; pair of strings; name |

With them every invariant and every action property of the passing runs is a theorem.

In each module the theorems follow from an inductive invariant, of which a lemma says that
the initial states satisfy it and one more, for each action, that the action keeps it.

* *Monitor* (`MonitorInv`).  `HolderIsExact` is not inductive: it does not say who
  holds the mutex.  The invariant adds that the owner is exactly the thread at one
  of the places between `pthread_mutex_lock` and `pthread_mutex_unlock` (`Owning`),
  and that `holder_` names a thread only in its critical section.
* *LockedLatch* (`CountInv`, `LatchInv`).  Of `CountDownLatch`, `CountInv` has the
  equation `count_ = Count - downs`; with it the two safety properties are
  inductive.  That `count_` is lowered by one at a time and so meets zero is where
  `Count` below zero matters: then nobody ever blocks.  `Whereabouts` says which
  places of a thread in `LockedLatch` go with which call of the latch.  A count of
  zero whose notification is not out is seen as one: `LockedLatchImplementsLatch`
  maps a decrement to zero to nothing and the notification to all of `CountDown`,
  every other decrement to `CountDown` at once.  So what is proved of the latch
  holds of the steps over the mutex (`NoneLeftBehind`, `NoEarlyPass`).
* *BoundedBlockingQueue* (`IInv`).  The two "forgotten" properties are inductive
  together with the types.  The argument is about the number of woken threads: a put
  adds one item and, if a consumer is blocked, one woken consumer; a take removes
  one item and at most one woken consumer; a thread blocks only when there is
  nothing.  `WokenGains` and `WokenLoses` are those facts about cardinalities.
  `FifoSafety` maps every step to a step of `BoundedFifo` or to none.
* *BlockingQueue* (`UnboundedInv`).  The same for the consumers.  That there is room
  for everything is a fact about sequences: the items inside are different ones of
  those that were put, so they are fewer than all as long as one is left to put
  (`RoomForAll`).  `BothAreFifos` is about the program of the run, which has either
  queue.
* *ThreadPool* (`IInv`, `TaskInv`).  The same argument about tasks and places
  (`AtGains`, `AtLoses`, `AtKeeps`), but a pool has threads that are both: a worker
  whose task calls `run()` is among the callers, and a caller never is among the
  workers (`Places`).  The counting needs to know that nobody blocks on `not_full_`
  without a limit, for then `take()` does not notify (`Blocking`), that nobody is
  blocked when the limit is set or `running_` changes (`Phase`), and that a thread
  in `run()` has its task on its stack (`Stacks`).  `QuietAfterStop` rests on
  `Joins`: what was joined has exited, what was not created is absent.
  `PoolIsExecutor` maps every step to one of `TaskExecutor`, or to none; it needs a
  second invariant, `TaskInv`: a task is in the queue once, or on one stack once,
  and its fate says which (`OnStacks`, `Apart`, `InQueue`).
* *Thread* (`IInv`).  The handshake over `latch_` (`Handshake`): the owner is in
  `start()` as long as the new thread has a pointer into the object.  `Bookkeeping`
  ties `started_` and `joined_` to the place of the owner.  `UsesThreads` shows that
  the program of `ThreadLocals` takes only steps of `Thread`, so that what is proved
  of `Thread` holds of it.
* *Singleton, ThreadLocal* (`LocalsInv`).  `Made` ties the instance to `pthread_once`
  and the key to the instance: who is past `pthread_once` finds both, as long as
  `exit()` has not run its handlers.  `Ended` is about the ways out: the handlers
  run only when main called `exit()` or nobody is left, and a thread that has ended
  has no object, unless the key was deleted before its destructors could run.
* *AsyncLogging* (`IInv`, `Stream`).  The properties do not say how many buffers are
  under way.  The conjunct `Circulation` does: at every place of the backend it says
  which of the spare buffers are there and how many buffers were collected, so that
  two were collected whenever two were given away.  `BuffersFit` rests on
  `BufferAssumption`, the drop on `ThresholdAssumption`.  What is lost is a matter
  of order, which `Stream` keeps: the lines in the buffers, one buffer after the
  other, are consecutive and end with the last one appended; those in the file are
  increasing and older (`Base`), and an older line is in the file or was dropped.
  Of the lines that come first after a drop (`Resumptions`) there are no more than
  notices; a write brings one into the file only if it was counted before
  (`ResumedWereAnnounced`).
* *LogFile* (`IInv`).  `FilesAreNew` needs that the last file is named by `last_roll_`
  and that a roll is to a later second.  That strays are few is a matter of
  `count_`: as long as the clock is not set back they came after the last check
  (`StraysInCount`), which came less than `check_every_n_` lines ago.
  `FlushedBefore` is the same for the flush. `Period` rounds down to a multiple, so
  that it is monotone (`PeriodMonotone`).
* *FileUtil* (`FileInv`).  `Contents`: the buffer has bytes without a gap, the last
  ones taken (`Piece`); what left it has arrived but for the failures (`Arrived`: in
  order, below those still to come, and with no more lost pieces and lost bytes than
  failures allow).  `MoreArrives`, `PieceLost` and `NoneLost` say what a write that
  succeeds or fails does to that.  When an `fwrite` has fallen short the buffer is
  empty, so the next one takes something.  `Reading`: the reader has a beginning of
  the file, as long as it has to be where it stops.  The file only grows, so a
  beginning of it remains one (`Begins`).
* *Logger* (`IInv`).  `CachesOK` says what the two caches of a thread are caches of,
  `MessageOK` what was put into a message that is not finished, `StreamOK` that a
  stream is whole as long as a number had room.
* *Date* (`CalendarInv`).  `NumberOf` is the day number counted in years that begin in
  March, which is what `Date.cc:11` computes; `ThereAndBack` and `BackAndThere` are
  that `get_year_month_day` undoes it, for every number.  The invariant says that
  the number of today is the number of days gone by, which the three ways to step to
  the next day keep (`AfterDay`, `AfterMonth`, `AfterYear`).  The theorem supposes
  that the first day of the walk is given its right day of the week; `FirstMonday`
  is that fact for 1900.
* *TimeZone* (`TimesInv`).  The fields are those of the day number and the second of
  the day, although C divides negative times towards zero (`UtcOfTime`).  The search
  of `find_local_time` ends at the last transition that is not later (`Searches`, by
  `lower_bound`), which is the one in force (`CurrentType`, `InForce`).  For the way
  back, `LocalIndex` shows where the search by local time ends: at the transition in
  force, or, in the hour that is repeated, at the next one, and then
  `from_local_time` takes its hour off. `LocalTimesGoRound` supposes of every zone
  that any two of its changes are farther apart than any two of its offsets
  (`ChangesApart`): otherwise the local times of the changes are not in order, which
  the search needs (`LocalTimesIncrease`).  The first mean times count among the
  offsets. The zone files in use satisfy it.  `ZoneAssumption` says what a zone file
  has to be, and that its clock begins on a day that has a number.
* *StringPiece, ProcessInfo* (`ChosenInv`).  Two strings are equal, one is a beginning
  of the other, or there is a first place where they differ; all six functions
  decide by that (`Orders`).  In the texts of /proc the name ends before the last
  `)`, which is the system's, and begins after the first `(`.

The assumptions are those named in the modules; TLC evaluates them in every run.  Where
an argument is by induction over data (the lines of a flattened list of buffers, the
elements a search goes over) the proofs take a least counterexample instead: a set of
numbers that is not empty has a least one.

Only model-checked: the liveness properties, `WaitersPass`, `CallsReturn`,
`LinesGetWritten`, `StopReturns`, `AcceptedTasksRun`, `RunReturns`, and the fairness in
`ImplementsFifo`, because the proof system does not treat ENABLED.  The runs that
expect a violation have nothing to prove.

## 7. Where the code and its own statements disagree

* `ThreadPool::stop()` joins threads that were never created (run
  `pool_create_fails`): `Thread::start()` gives no sign when `pthread_create` fails,
  and `Thread::join()` asserts `started_` (`Thread.cc:133`).
* `wait_for_seconds` can return false at once, without a notification (run
  `timed_wait_result`), although false should mean that the time is not over
  (`Condition.h:28`): seconds since the epoch are added to nanoseconds and
  `tv_nsec` is not carried (`Condition.cc:14-15`).  When the wait is not refused its
  deadline is late by about as many nanoseconds as there are seconds since the
  epoch.
* `to_utc_time` gives the minutes since midnight for the minute of the hour
  (`TimeZone.cc:70`), and `from_utc_time(const struct tm&)` passes the month for the
  minute (`TimeZone.cc:315`); `testUtc` asserts the opposite of both (run
  `utc_test`).  `FieldsAreRight` is about the other fields, and about the six-argument
  `from_utc_time`.
* `ReadSmallFile::read_to_buffer` returns 0 when its read failed, of a directory for
  instance (run `read_errors`), although both functions are to return the errno
  (`FileUtil.h:16,20`): nobody looks at the failure of `pread` (`FileUtil.cc:98`).  The
  errno is returned only when `fd_` is not positive, which it may be after a successful
  open, and is then that of an earlier call.

## 8. What is not modelled

* `TimeStamp`: one line of arithmetic per function, which needs no model.  Two of them
  mix units.  `time_difference` divides whole seconds by 10^6 (`TimeStamp.h:65-66`), so
  that 1.25 seconds give 0.000001, while `tests/logging_test.cc:45-47` prints the
  difference as seconds and divides by it, and `tests/asyn_log_test.cc:40` computes
  microseconds per message from it.  `add_time` adds microseconds to seconds; nobody
  calls it.
* `Logger`: `set_log_level`, `set_output`, `set_flush`, which change no message, and
  the data race of a thread that formats a time during `set_time_zone`.
  `LogStream`: the characters it writes, `format_si`, `from_iec`, `convert_hex`.
* `CurrentThread`: stack traces, `sleep_usec`.
* `Thread`: the counter behind default names, the abort of the process by an
  exception.
* `LogFile`: `roll_file()` called from outside, which nobody in the repository does.
* `TimeZone`: the bytes of a zone file and its errors, abbreviations.  A zone of
  the model has at least one local time type.
* `StringPiece`: the constructors and setters, which store a pointer and a length.
* `ProcessInfo`: all but `proc_name` and `num_threads`; the rest hands through what
  the system answers.
* `Atomic` (single compiler builtins), `Exception` (a text and a stack trace).
* `WeakCallback`, `ThreadLocalSingleton`: they do not compile when instantiated.
* Undefined behaviour of C++ beyond what the models show: in particular a
  `run()` that reads `threads_` while `start()` is inside `emplace_back`.

## 9. The plan

Order, the most important first.  Done:

1. `CondVar`, `Monitor`: the grain of everything else.
2. `CountDownLatch`, over `Monitor` in `LockedLatch`; `BoundedBlockingQueue` and
   `BlockingQueue` over `BoundedFifo`.
3. `AsyncLogging`, with what is on the disk when the process is killed.
4. `ThreadPool` over `TaskExecutor`.
5. `Thread`, with `Singleton` and `ThreadLocal` in `ThreadLocals`.
6. `LogFile`, `FileUtil`.
7. `TimedWait`, `Date` with `Calendar`, `TimeZone`, `StringPiece`, `ProcessInfo`.
8. `Logger` over `LogStream`, with the thread id of `CurrentThread` across a fork.
9. Proofs for `BoundedBlockingQueue`, `ThreadPool`, `Thread`, `AsyncLogging`, `LogFile`,
   `Logger`, then for the latch over `Monitor`, what a crash of the logger loses, the
   singletons, the bytes of a file, and the conversions.

Left:

10. `format_si` and `from_iec` at their boundaries: the comment of `LogStream.h`
    promises five and six characters.
11. An argument for the liveness of the smaller components that does without ENABLED:
    a step that is never disabled, and a quantity each step lowers.
