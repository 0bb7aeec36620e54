----------------------------- MODULE ThreadLocals ------------------------------
(***************************************************************************)
(* Threads that share a Singleton<ThreadLocal<Test>>, as in                *)
(* src/muduo/base/tests/singleton_thread_test.cc: main starts, joins and   *)
(* destroys Thread objects, and every thread asks for its Test as often as *)
(* it likes.  main ends with pthread_exit(), and the process exits when    *)
(* the last thread has ended; or it calls exit() (or returns), and the     *)
(* handlers of exit() run while other threads still do.                    *)
(***************************************************************************)
EXTENDS Thread

CONSTANTS
    main            \* the main thread

VARIABLES
    once_, value_, handlers, at,    \* Singleton<ThreadLocal<Test>>
    pkey_, specific, objects,       \* the ThreadLocal<Test>
    mainAt,     \* "running"; "ending": in pthread_exit(); "ended"; "exited": in exit()
    process     \* "running"; "exiting": the handlers of exit() run; "over"

Users == Objects \cup {main}
ASSUME MainAssumption == main \notin Objects

STL == INSTANCE Singleton WITH has_no_destroy <- FALSE
Local == INSTANCE ThreadLocal

threads == <<started_, joined_, latch_, latchHeld, owner, reclaims,
             pid_, child, t_thread_name>>
singleton == <<once_, value_, handlers, at>>
local == <<pkey_, specific, objects>>
allVars == <<threads, singleton, local, mainAt, process>>

InitLocals ==
    /\ Init /\ STL!Init /\ Local!Init
    /\ mainAt = "running" /\ process = "running"

\* main is in none of its calls.
MainFree ==
    /\ mainAt = "running"
    /\ at[main] = "out"
    /\ \A o \in Objects : owner[o] \notin {"waiting", "joining"}

\* The threads that execute their own code.
Runs(u) == IF u = main THEN mainAt = "running" ELSE child[u] = "running"

------------------------------------------------------------------------------
\* main calls start(), join() or the destructor of a Thread.
MainCalls(o) ==
    /\ MainFree
    /\ Start(o) \/ Join(o) \/ Destroy(o)
    /\ UNCHANGED <<singleton, local, mainAt, process>>

MainReturns(o) ==
    /\ StartReturn(o) \/ JoinReturn(o)
    /\ UNCHANGED <<singleton, local, mainAt, process>>

\* The pthread until func() is called.
ThreadEnters(o) == Enter(o) /\ UNCHANGED <<singleton, local, mainAt, process>>

\* func() returns; it is in no call of instance().
FinishRun(o) ==
    /\ at[o] = "out"
    /\ ChildFinish(o)
    /\ UNCHANGED <<singleton, local, mainAt, process>>

\* The destructors of the thread's specific data run before the pthread has ended.
RunDestructors(u) ==
    /\ IF u = main THEN mainAt = "ending" ELSE child[u] = "ending"
    /\ Local!Destructor(u)
    /\ UNCHANGED <<threads, singleton, mainAt, process>>

EndThread(o) ==
    /\ ~Local!MustDestroy(o)
    /\ ChildReturn(o)
    /\ UNCHANGED <<singleton, local, mainAt, process>>

\* instance(), up to the reference.  The T that init() makes is a ThreadLocal.
AskForTest(u) ==
    /\ Runs(u) /\ (u = main => MainFree)
    /\ STL!Call(u)
    /\ UNCHANGED <<threads, local, mainAt, process>>

InstanceStep(u) ==
    /\ \/ (STL!BeginInit(u) \/ STL!PassOnce(u) \/ STL!Get(u)) /\ UNCHANGED local
       \/ STL!EndInit(u) /\ Local!Create
    /\ UNCHANGED <<threads, mainAt, process>>

\* .value(), on an object that is still there.
UseTest(u) ==
    /\ value_ = "alive"
    /\ STL!Leave(u) /\ Local!Value(u)
    /\ UNCHANGED <<threads, mainAt, process>>

\* A null pointer fails the assertion, a deleted object is undefined behaviour: the
\* process is taken to end.
Break(u) ==
    /\ \/ at[u] = "past" /\ value_ = "null"
       \/ at[u] = "got" /\ value_ # "alive"
    /\ process' = "over"
    /\ UNCHANGED <<threads, singleton, local, mainAt>>

\* pthread_exit() of main.
MainEnds ==
    /\ \/ MainFree /\ mainAt' = "ending"
       \/ mainAt = "ending" /\ ~Local!MustDestroy(main) /\ mainAt' = "ended"
    /\ UNCHANGED <<threads, singleton, local, process>>

\* exit(): by main, whatever the others do, or by the end of the last thread.
Exit ==
    /\ process = "running"
    /\ \/ MainFree /\ mainAt' = "exited"
       \/ /\ mainAt = "ended"
          /\ \A o \in Objects : child[o] \in {"none", "returned"}
          /\ UNCHANGED mainAt
    /\ process' = "exiting"
    /\ UNCHANGED <<threads, singleton, local>>

\* The handlers of exit(): destroy() of the singleton, then the process is over.
RunHandlers ==
    /\ process = "exiting"
    /\ \/ STL!Delete /\ Local!DeleteKey /\ UNCHANGED process
       \/ STL!Forget /\ UNCHANGED <<local, process>>
       \/ handlers = 0 /\ process' = "over" /\ UNCHANGED <<singleton, local>>
    /\ UNCHANGED <<threads, mainAt>>

NextLocals ==
    /\ process # "over"
    /\ \/ \E o \in Objects : \/ MainCalls(o) \/ MainReturns(o) \/ ThreadEnters(o)
                             \/ FinishRun(o) \/ EndThread(o)
       \/ \E u \in Users : \/ AskForTest(u) \/ InstanceStep(u) \/ UseTest(u)
                           \/ Break(u) \/ RunDestructors(u)
       \/ MainEnds \/ Exit \/ RunHandlers

\* The scheduler runs every thread that can go on, and func() returns at last, between
\* its uses of the Test.  A call that a program need not make has no fairness.
Fairness ==
    /\ \A o \in Objects :
           /\ WF_allVars(process # "over" /\ MainReturns(o))
           /\ WF_allVars(process # "over" /\ (ThreadEnters(o) \/ EndThread(o)))
           /\ SF_allVars(process # "over" /\ FinishRun(o))
    /\ \A u \in Users :
           WF_allVars(process # "over" /\ (InstanceStep(u) \/ UseTest(u) \/ RunDestructors(u)))
    /\ WF_allVars(RunHandlers)

SpecLocals == InitLocals /\ [][NextLocals]_allVars /\ Fairness

------------------------------------------------------------------------------
\* The singleton is made once, and whoever is past pthread_once finds it alive
\* (Singleton.h:35-37), except a thread that still runs when main calls exit().
InstanceAlive ==
    /\ handlers <= 1
    /\ mainAt # "exited" =>
          \A u \in Users : at[u] \in {"past", "got"} => value_ = "alive" /\ pkey_ = "live"

\* A thread has at most one Test, and none once it has been joined;
\* nothing is left of any thread when the last one ends the
\* process (ThreadLocal.h:22-32,35-42; singleton_thread_test.cc:55-58).
TestsAreDestroyed ==
    /\ \A u \in Users : objects[u] <= 1
    /\ \A o \in Objects : joined_[o] /\ owner[o] # "joining" => objects[o] = 0
    /\ process # "running" /\ mainAt # "exited" => \A u \in Users : objects[u] = 0

\* start(), join() and instance() come back, the last unless it breaks, or the process
\* ends: the latch is counted down (Thread.cc:126), the pthread ends
\* (Thread.cc:136), init() runs once and lets the others go on (Singleton.h:35).
CallsReturn ==
    /\ \A o \in Objects :
           owner[o] \in {"waiting", "joining"} ~> (owner[o] = "back" \/ process # "running")
    /\ \A u \in Users : at[u] # "out" ~> (at[u] = "out" \/ process # "running")
===============================================================================
