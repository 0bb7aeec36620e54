------------------------------ MODULE ThreadPool ------------------------------
(***************************************************************************)
(* src/muduo/base/ThreadPool.cc: callers offer tasks with run(), workers   *)
(* take() and execute them, an owner calls start() and stop().             *)
(*                                                                         *)
(* run() and take() are critical sections of mutex_, cut where they wait;  *)
(* since both test their condition again after a wait, a woken thread is   *)
(* back where it locks mutex_.  threads_.empty() and running_ are read     *)
(* without mutex_ in run() and in the workers' loop, each a step of its    *)
(* own; running_ is a plain bool, and a racing read yields the value before*)
(* or after the write, as the two orders of the steps do.  A task may call *)
(* run() itself, and may throw.                                            *)
(***************************************************************************)
EXTENDS Naturals, SequencesExt, FiniteSets, CondVar

CONSTANTS
    Callers,            \* the threads outside the pool that call run()
    NumThreads,         \* the argument of start()
    MaxQueueSizes,      \* the arguments of set_max_queue_size(); 0 is no limit
    TaskLimit,          \* bound: the number of tasks
    Nested,             \* whether a task may call run()
    Throwing,           \* whether a task or the init callback may throw a
                        \* std::exception (muduo's Exception aborts the process)
    CreateMayFail       \* whether pthread_create may fail

Workers == 1..NumThreads
Threads == Callers \cup Workers
Tasks == 1..TaskLimit

ASSUME CallersAssumption == Callers \cap Workers = {} /\ IsFiniteSet(Callers)
ASSUME NumberAssumption ==
    NumThreads \in Nat /\ MaxQueueSizes \subseteq Nat /\ TaskLimit \in Nat
ASSUME FlagAssumption == {Nested, Throwing, CreateMayFail} \subseteq BOOLEAN

VARIABLES
    max_queue_size_,    \* ThreadPool::max_queue_size_
    running_,   \* ThreadPool::running_
    queue_,     \* ThreadPool::queue_
    threads_,   \* the worker threads emplaced so far: whether each was created
    pc,         \* where each thread is
    stack,      \* the tasks on each thread's call stack, the innermost last
    owner,      \* where the thread that calls start() and stop() is
    joined,     \* how many workers stop() has joined
    fate        \* history: what has become of each task

vars == <<max_queue_size_, running_, queue_, threads_, pc, stack, owner, joined, fate>>

\* Any thread:   locking (in run(), before it locks mutex_), not_full (blocked),
\*               executing (in task())
\* A caller:     outside
\* A worker:     absent, init (before the callback), loop (while (running_)),
\*               taking (in take(), before it locks mutex_), not_empty (blocked),
\*               exited
Locations == {"locking", "not_full", "executing", "outside", "absent", "init",
              "loop", "taking", "not_empty", "exited"}

\* new; starting: in start(); started; joining: in stop(), mutex_ released; stopped.
OwnerLocations == {"new", "starting", "started", "joining", "stopped"}
Fates == {"new", "offered", "queued", "running", "done", "thrown", "refused"}

Init ==
    /\ max_queue_size_ = 0
    /\ running_ = FALSE
    /\ queue_ = <<>>
    /\ threads_ = <<>>
    /\ pc = [t \in Threads |-> IF t \in Callers THEN "outside" ELSE "absent"]
    /\ stack = [t \in Threads |-> <<>>]
    /\ owner = "new"
    /\ joined = 0
    /\ fate = [x \in Tasks |-> "new"]

is_full == max_queue_size_ > 0 /\ Len(queue_) >= max_queue_size_

\* Where thread t goes on when the innermost call on stack s returns.
Resume(t, s) ==
    IF s # <<>> THEN "executing" ELSE IF t \in Callers THEN "outside" ELSE "loop"

Return(t) == [pc EXCEPT ![t] = Resume(t, Front(stack[t]))]
Pop(t) == stack' = [stack EXCEPT ![t] = Front(@)]
Become(x, f) == fate' = [fate EXCEPT ![x] = f]

------------------------------------------------------------------------------
(* run().                                                                   *)

\* run() up to the lock: without threads the task is executed by its caller.
\* Tasks are numbered in the order of these steps.
Run(t, x) ==
    /\ pc[t] = "outside" \/ (Nested /\ pc[t] = "executing")
    /\ fate[x] = "new" /\ \A y \in 1..(x - 1) : fate[y] # "new"
    /\ stack' = [stack EXCEPT ![t] = Append(@, x)]
    /\ IF threads_ = <<>>
       THEN pc' = [pc EXCEPT ![t] = "executing"] /\ Become(x, "running")
       ELSE pc' = [pc EXCEPT ![t] = "locking"] /\ Become(x, "offered")
    /\ UNCHANGED <<max_queue_size_, running_, queue_, threads_, owner, joined>>

\* Mutant of RunLocked: not_empty_ is notified only when the queue was empty.
RunLockedNotifyWhenEmpty(t) ==
    LET x == Last(stack[t]) IN
    /\ pc[t] = "locking"
    /\ \/ /\ is_full /\ running_
          /\ pc' = [pc EXCEPT ![t] = "not_full"]
          /\ UNCHANGED <<queue_, stack, fate>>
       \/ /\ ~running_
          /\ pc' = Return(t) /\ Pop(t) /\ Become(x, "refused")
          /\ UNCHANGED queue_
       \/ /\ running_ /\ ~is_full
          /\ queue_' = Append(queue_, x)
          /\ IF queue_ = <<>> THEN pc' \in Notified(Return(t), "not_empty", "taking")
                              ELSE pc' = Return(t)
          /\ Pop(t) /\ Become(x, "queued")
    /\ UNCHANGED <<max_queue_size_, running_, threads_, owner, joined>>

\* Mutant of RunLocked: not_empty_ is never notified.
RunLockedSilently(t) ==
    LET x == Last(stack[t]) IN
    /\ pc[t] = "locking"
    /\ \/ /\ is_full /\ running_
          /\ pc' = [pc EXCEPT ![t] = "not_full"]
          /\ UNCHANGED <<queue_, stack, fate>>
       \/ /\ ~running_
          /\ pc' = Return(t) /\ Pop(t) /\ Become(x, "refused")
          /\ UNCHANGED queue_
       \/ /\ running_ /\ ~is_full
          /\ queue_' = Append(queue_, x)
          /\ pc' = Return(t) /\ Pop(t) /\ Become(x, "queued")
    /\ UNCHANGED <<max_queue_size_, running_, threads_, owner, joined>>

\* run() with mutex_ held, from its call or from the return of its wait.
RunLocked(t) ==
    LET x == Last(stack[t]) IN
    /\ pc[t] = "locking"
    /\ \/ /\ is_full /\ running_
          /\ pc' = [pc EXCEPT ![t] = "not_full"]
          /\ UNCHANGED <<queue_, stack, fate>>
       \/ /\ ~running_
          /\ pc' = Return(t) /\ Pop(t) /\ Become(x, "refused")
          /\ UNCHANGED queue_
       \/ /\ running_ /\ ~is_full
          /\ queue_' = Append(queue_, x)
          /\ pc' \in Notified(Return(t), "not_empty", "taking")
          /\ Pop(t) /\ Become(x, "queued")
    /\ UNCHANGED <<max_queue_size_, running_, threads_, owner, joined>>

------------------------------------------------------------------------------
(* The workers, run_in_thread().                                            *)

\* thread_init_callback_, if there is one; an exception of it ends the worker.
WorkerInit(w) ==
    /\ pc[w] = "init"
    /\ \/ pc' = [pc EXCEPT ![w] = "loop"]
       \/ Throwing /\ pc' = [pc EXCEPT ![w] = "exited"]
    /\ UNCHANGED <<max_queue_size_, running_, queue_, threads_, stack, owner, joined, fate>>

\* Mutant of WorkerLoop: the loop goes on until the queue is empty as well.
WorkerLoopForever(w) ==
    /\ pc[w] = "loop"
    /\ pc' = [pc EXCEPT ![w] = "taking"]
    /\ UNCHANGED <<max_queue_size_, running_, queue_, threads_, stack, owner, joined, fate>>

\* while (running_): running_ is read without mutex_.
WorkerLoop(w) ==
    /\ pc[w] = "loop"
    /\ pc' = [pc EXCEPT ![w] = IF running_ THEN "taking" ELSE "exited"]
    /\ UNCHANGED <<max_queue_size_, running_, queue_, threads_, stack, owner, joined, fate>>

\* Mutant of Take: not_full_ is never notified.
TakeSilently(w) ==
    /\ pc[w] = "taking"
    /\ \/ /\ queue_ = <<>>
          /\ pc' = [pc EXCEPT ![w] = IF running_ THEN "not_empty" ELSE "loop"]
          /\ UNCHANGED <<queue_, stack, fate>>
       \/ /\ queue_ # <<>>
          /\ queue_' = Tail(queue_)
          /\ stack' = [stack EXCEPT ![w] = Append(@, Head(queue_))]
          /\ Become(Head(queue_), "running")
          /\ pc' = [pc EXCEPT ![w] = "executing"]
    /\ UNCHANGED <<max_queue_size_, running_, threads_, owner, joined>>

\* Mutant of Take: the newest task is taken.
TakeNewest(w) ==
    /\ pc[w] = "taking"
    /\ \/ /\ queue_ = <<>>
          /\ pc' = [pc EXCEPT ![w] = IF running_ THEN "not_empty" ELSE "loop"]
          /\ UNCHANGED <<queue_, stack, fate>>
       \/ /\ queue_ # <<>>
          /\ queue_' = Front(queue_)
          /\ stack' = [stack EXCEPT ![w] = Append(@, Last(queue_))]
          /\ Become(Last(queue_), "running")
          /\ pc' \in Notified([pc EXCEPT ![w] = "executing"], "not_full", "locking")
    /\ UNCHANGED <<max_queue_size_, running_, threads_, owner, joined>>

\* take(), from its call or from the return of its wait.  A task that is in the
\* queue is taken even when running_ is false; an empty queue then yields the
\* empty task, which the loop does not execute.
Take(w) ==
    /\ pc[w] = "taking"
    /\ \/ /\ queue_ = <<>>
          /\ pc' = [pc EXCEPT ![w] = IF running_ THEN "not_empty" ELSE "loop"]
          /\ UNCHANGED <<queue_, stack, fate>>
       \/ /\ queue_ # <<>>
          /\ queue_' = Tail(queue_)
          /\ stack' = [stack EXCEPT ![w] = Append(@, Head(queue_))]
          /\ Become(Head(queue_), "running")
          /\ LET after == [pc EXCEPT ![w] = "executing"]
             IN IF max_queue_size_ > 0
                THEN pc' \in Notified(after, "not_full", "locking")
                ELSE pc' = after
    /\ UNCHANGED <<max_queue_size_, running_, threads_, owner, joined>>

------------------------------------------------------------------------------
(* The execution of a task, by a worker or, without workers, by its caller. *)

TaskReturns(t) ==
    /\ pc[t] = "executing"
    /\ pc' = Return(t) /\ Pop(t) /\ Become(Last(stack[t]), "done")
    /\ UNCHANGED <<max_queue_size_, running_, queue_, threads_, owner, joined>>

\* An exception unwinds the whole stack: it reaches the caller of run(), or the
\* handler of run_in_thread(), after which the worker's thread returns.
TaskThrows(t) ==
    /\ Throwing
    /\ pc[t] = "executing"
    /\ pc' = [pc EXCEPT ![t] = IF t \in Callers THEN "outside" ELSE "exited"]
    /\ stack' = [stack EXCEPT ![t] = <<>>]
    /\ fate' = [x \in Tasks |-> IF x \in ToSet(stack[t]) THEN "thrown" ELSE fate[x]]
    /\ UNCHANGED <<max_queue_size_, running_, queue_, threads_, owner, joined>>

\* pthread_cond_wait may return without a notification.
SpuriousWakeup(t) ==
    /\ \/ pc[t] = "not_full" /\ pc' = [pc EXCEPT ![t] = "locking"]
       \/ pc[t] = "not_empty" /\ pc' = [pc EXCEPT ![t] = "taking"]
    /\ UNCHANGED <<max_queue_size_, running_, queue_, threads_, stack, owner, joined, fate>>

------------------------------------------------------------------------------
(* The owner.                                                               *)

\* set_max_queue_size(), "call before start()".
SetMaxQueueSize(size) ==
    /\ owner = "new"
    /\ max_queue_size_' = size
    /\ UNCHANGED <<running_, queue_, threads_, pc, stack, owner, joined, fate>>

\* start() up to its loop: running_ is set without mutex_.
Start ==
    /\ owner = "new"
    /\ owner' = "starting"
    /\ running_' = TRUE
    /\ UNCHANGED <<max_queue_size_, queue_, threads_, pc, stack, joined, fate>>

\* One round of the loop of start(): the thread is in threads_ whether or not
\* pthread_create could create it.
StartThread ==
    LET w == Len(threads_) + 1 IN
    /\ owner = "starting"
    /\ w \in Workers
    /\ \/ threads_' = Append(threads_, TRUE) /\ pc' = [pc EXCEPT ![w] = "init"]
       \/ CreateMayFail /\ threads_' = Append(threads_, FALSE) /\ UNCHANGED pc
    /\ UNCHANGED <<max_queue_size_, running_, queue_, stack, owner, joined, fate>>

Started ==
    /\ owner = "starting"
    /\ Len(threads_) = NumThreads
    /\ owner' = "started"
    /\ UNCHANGED <<max_queue_size_, running_, queue_, threads_, pc, stack, joined, fate>>

\* Mutant of Stop: not_full_ is not notified.
StopForgetsNotFull ==
    /\ owner = "started"
    /\ owner' = "joining"
    /\ running_' = FALSE
    /\ pc' = NotifiedAll(pc, "not_empty", "taking")
    /\ UNCHANGED <<max_queue_size_, queue_, threads_, stack, joined, fate>>

\* stop(), called by the owner or by ~ThreadPool(), with mutex_ held.
Stop ==
    /\ owner = "started"
    /\ owner' = "joining"
    /\ running_' = FALSE
    /\ pc' = NotifiedAll(NotifiedAll(pc, "not_empty", "taking"), "not_full", "locking")
    /\ UNCHANGED <<max_queue_size_, queue_, threads_, stack, joined, fate>>

\* Mutant of StopJoin: stop() joins all threads but the last one.
StopJoinOffByOne ==
    /\ owner = "joining"
    /\ \/ /\ joined < Len(threads_) - 1
          /\ pc[joined + 1] = "exited"
          /\ joined' = joined + 1
          /\ UNCHANGED owner
       \/ /\ joined >= Len(threads_) - 1
          /\ owner' = "stopped"
          /\ UNCHANGED joined
    /\ UNCHANGED <<max_queue_size_, running_, queue_, threads_, pc, stack, fate>>

\* The loop of stop(), which joins the threads one after the other.
StopJoin ==
    /\ owner = "joining"
    /\ \/ /\ joined < Len(threads_)
          /\ pc[joined + 1] = "exited"
          /\ joined' = joined + 1
          /\ UNCHANGED owner
       \/ /\ joined = Len(threads_)
          /\ owner' = "stopped"
          /\ UNCHANGED joined
    /\ UNCHANGED <<max_queue_size_, running_, queue_, threads_, pc, stack, fate>>

\* What a thread does once it is inside the pool's code.
Progress(t) ==
    \/ RunLocked(t) \/ TaskReturns(t) \/ TaskThrows(t)
    \/ t \in Workers /\ (WorkerInit(t) \/ WorkerLoop(t) \/ Take(t))

Next ==
    \/ \E t \in Threads : Progress(t) \/ SpuriousWakeup(t) \/ \E x \in Tasks : Run(t, x)
    \/ \E size \in MaxQueueSizes : SetMaxQueueSize(size)
    \/ Start \/ StartThread \/ Started \/ Stop \/ StopJoin

\* The scheduler runs every thread that is not blocked, and tasks come to an
\* end.  Nobody has to call run(), start() or stop(); no wake-up is spurious.
Fairness ==
    /\ \A t \in Threads : WF_vars(Progress(t))
    /\ WF_vars(StartThread \/ Started \/ StopJoin)

Spec == Init /\ [][Next]_vars /\ Fairness

------------------------------------------------------------------------------
At(S, location) == {t \in S : pc[t] = location}

\* Every variable has its type; the queue respects max_queue_size_, which is the
\* assertion of run() (ThreadPool.cc:78).
TypeOK ==
    /\ max_queue_size_ \in MaxQueueSizes \cup {0}
    /\ running_ \in BOOLEAN
    /\ queue_ \in Seq(Tasks)
    /\ max_queue_size_ > 0 => Len(queue_) <= max_queue_size_
    /\ threads_ \in Seq(BOOLEAN) /\ Len(threads_) <= NumThreads
    /\ pc \in [Threads -> Locations]
    /\ stack \in [Threads -> Seq(Tasks)]
    /\ owner \in OwnerLocations
    /\ joined \in 0..Len(threads_)
    /\ fate \in [Tasks -> Fates]

\* While the pool runs, a worker stays blocked only if for every waiting task a
\* worker is on its way to take() (ThreadPool.cc:81 notifies one).
NoTaskForgotten ==
    running_ /\ At(Workers, "not_empty") # {} =>
        Len(queue_) <= Cardinality(At(Workers, "taking"))

\* While the pool runs, a caller stays blocked only if for every free place a
\* caller is on its way to run() (ThreadPool.cc:100 notifies one).
NoPlaceForgotten ==
    running_ /\ At(Threads, "not_full") # {} =>
        max_queue_size_ - Len(queue_) <= Cardinality(At(Threads, "locking"))

\* No wake-up is lost on either condition, under any interleaving of callers and
\* workers (ThreadPool.cc:81,100).
NoWakeupLost == NoTaskForgotten /\ NoPlaceForgotten

\* Once stop() has released mutex_ nobody is blocked and nobody will block.
NobodyBlockedAfterStop ==
    owner \in {"joining", "stopped"} =>
        At(Threads, "not_full") \cup At(Threads, "not_empty") = {}

\* When stop() has returned no worker executes, or will execute, a task.
QuietAfterStop ==
    owner = "stopped" => \A w \in Workers : pc[w] \in {"absent", "exited"}

\* join() is called on threads that were started: assert(started_), Thread.cc:133.
JoinsStartedThreads ==
    owner = "joining" /\ joined < Len(threads_) => threads_[joined + 1]

\* The pool is a FIFO of tasks: each is executed at most once, in the order of
\* acceptance, none is accepted after stop() or refused before it.
Executor == INSTANCE TaskExecutor
    WITH queue <- queue_, capacity <- max_queue_size_,
         state <- IF threads_ = <<>> THEN "inline" ELSE IF running_ THEN "open" ELSE "closed"
ImplementsExecutor == Executor!Spec

\* stop() returns, also when tasks throw, or wait in run() for a place that only
\* they could free (ThreadPool.cc:47-54).
StopReturns == (owner = "joining") ~> (owner = "stopped")

\* No worker is left to take a task: each has been ended by an exception, or waits
\* in run(), called by its task, for a place that only a worker could free.
NoWorkerLeft == \A w \in Workers : pc[w] \in {"exited", "not_full"}

\* A task that was accepted is executed, unless stop() comes first or no worker is
\* left (ThreadPool.cc:73 waits in a worker as in any thread).
AcceptedTasksRun ==
    \A x \in Tasks : (fate[x] = "queued") ~>
        (fate[x] \in {"done", "thrown"} \/ ~running_ \/ NoWorkerLeft)

\* A call of run() comes back to its caller, unless no worker is left; after stop()
\* it comes back in any case.
RunReturns ==
    \A c \in Callers : (pc[c] # "outside") ~>
        (pc[c] = "outside" \/ (running_ /\ NoWorkerLeft))
===============================================================================
