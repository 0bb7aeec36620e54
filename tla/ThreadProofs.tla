----------------------------- MODULE ThreadProofs ------------------------------
(***************************************************************************)
(* What holds of Thread objects for any number of them, and for every      *)
(* program that uses them as ThreadLocals does.                            *)
(***************************************************************************)
EXTENDS ThreadLocals, TLAPS

\* Where the owner and the new thread of one object can be at the same time.  The
\* count of latch_ is zero from the count_down() on, and the owner gets out of
\* start() only when the new thread is past it.
Handshake(o) ==
    /\ child[o] \in {"born", "counting"} => owner[o] = "waiting"
    /\ child[o] \in {"none", "born"} => latch_[o] = 1
    /\ child[o] = "counting" => (latch_[o] = 0 <=> latchHeld[o])
    /\ latchHeld[o] => child[o] = "counting"
    /\ child[o] \notin {"none", "born"} => pid_[o] = 1
    /\ t_thread_name[o] = "data" => child[o] = "running"

\* What started_, joined_ and the place of the owner say of each other.
Bookkeeping(o) ==
    /\ started_[o] <=> child[o] # "none"
    /\ joined_[o] => started_[o]
    /\ owner[o] = "new" => ~started_[o]
    /\ owner[o] = "waiting" => started_[o] /\ ~joined_[o]
    /\ owner[o] = "joining" => joined_[o]
    /\ reclaims[o] = IF \/ owner[o] = "back" /\ joined_[o]
                        \/ owner[o] = "destroyed" /\ started_[o]
                     THEN 1 ELSE 0

\* The inductive invariant.
IInv == TypeOK /\ \A o \in Objects : Handshake(o) /\ Bookkeeping(o)

LEMMA InitIInv == Init => IInv
  BY DEF Init, IInv, TypeOK, Handshake, Bookkeeping, OwnerLocations, ChildLocations

\* A step of the owner keeps the invariant.
LEMMA OwnerKeeps ==
    ASSUME IInv, NEW o \in Objects, Owner(o)
    PROVE  IInv'
  <1> USE DEF IInv, TypeOK, Handshake, Bookkeeping, OwnerLocations, ChildLocations,
              OwnerGoto, ChildGoto
  <1>1. CASE Start(o)
    <2>1. ~started_[o] /\ owner[o] = "new" /\ child[o] = "none"
      BY <1>1 DEF Start
    <2>2. CASE /\ owner' = [owner EXCEPT ![o] = "waiting"]
               /\ started_' = [started_ EXCEPT ![o] = TRUE]
               /\ child' = [child EXCEPT ![o] = "born"]
      BY <1>1, <2>1, <2>2 DEF Start
    <2>3. CASE /\ owner' = [owner EXCEPT ![o] = "back"]
               /\ UNCHANGED <<started_, child>>
      BY <1>1, <2>1, <2>3 DEF Start
    <2>4. QED  BY <1>1, <2>2, <2>3 DEF Start
  <1>2. CASE StartReturn(o)
    BY <1>2 DEF StartReturn
  <1>3. CASE Join(o)
    BY <1>3 DEF Join
  <1>4. CASE JoinReturn(o)
    BY <1>4 DEF JoinReturn
  <1>5. CASE Destroy(o)
    BY <1>5 DEF Destroy
  <1>6. QED  BY <1>1, <1>2, <1>3, <1>4, <1>5 DEF Owner

\* A step of the new thread keeps the invariant.
LEMMA ChildKeeps ==
    ASSUME IInv, NEW o \in Objects, Enter(o) \/ ChildFinish(o) \/ ChildReturn(o)
    PROVE  IInv'
  <1> USE DEF IInv, TypeOK, Handshake, Bookkeeping, OwnerLocations, ChildLocations,
              ChildGoto, object
  <1>1. CASE ChildSetPid(o)
    BY <1>1 DEF ChildSetPid
  <1>2. CASE ChildCountDown(o)
    BY <1>2 DEF ChildCountDown
  <1>3. CASE ChildLeaveLatch(o)
    BY <1>3 DEF ChildLeaveLatch
  <1>4. CASE ChildRun(o)
    BY <1>4 DEF ChildRun
  <1>5. CASE ChildFinish(o)
    BY <1>5 DEF ChildFinish
  <1>6. CASE ChildReturn(o)
    BY <1>6 DEF ChildReturn
  <1>7. QED  BY <1>1, <1>2, <1>3, <1>4, <1>5, <1>6 DEF Enter

LEMMA StutterKeeps == IInv /\ UNCHANGED vars => IInv'
  BY DEF IInv, TypeOK, Handshake, Bookkeeping, vars, object

LEMMA NextKeeps == IInv /\ [Next]_vars => IInv'
  BY OwnerKeeps, ChildKeeps, StutterKeeps DEF Next

THEOREM Inductive == Spec => []IInv
  BY InitIInv, NextKeeps, PTL DEF Spec

LEMMA IInvIsEnough == IInv => TypeOK /\ NoDanglingAccess /\ ReclaimedOnce
  BY DEF IInv, TypeOK, Handshake, Bookkeeping, NoDanglingAccess, ReclaimedOnce,
         OwnerLocations, ChildLocations

------------------------------------------------------------------------------
\* A step of the threads that share a singleton is a step of their Thread objects,
\* or leaves these alone.
LEMMA StepRefines == [NextLocals]_allVars => [Next]_vars
  <1> SUFFICES ASSUME [NextLocals]_allVars
               PROVE  Next \/ UNCHANGED vars
    OBVIOUS
  <1> USE DEF threads, vars, object
  <1>1. ASSUME NEW o \in Objects,
               MainCalls(o) \/ MainReturns(o) \/ ThreadEnters(o) \/ FinishRun(o) \/ EndThread(o)
        PROVE  Next
    BY <1>1 DEF MainCalls, MainReturns, ThreadEnters, FinishRun, EndThread, Owner, Next
  <1>2. ASSUME NEW u \in Users,
               \/ AskForTest(u) \/ InstanceStep(u) \/ UseTest(u)
               \/ Break(u) \/ RunDestructors(u)
        PROVE  UNCHANGED vars
    BY <1>2 DEF AskForTest, InstanceStep, UseTest, Break, RunDestructors
  <1>3. MainEnds \/ Exit \/ RunHandlers => UNCHANGED vars
    BY DEF MainEnds, Exit, RunHandlers
  <1>4. UNCHANGED allVars => UNCHANGED vars
    BY DEF allVars
  <1>5. QED  BY <1>1, <1>2, <1>3, <1>4 DEF NextLocals

\* Threads that use a singleton and thread-specific data use their Thread objects as
\* Thread says.
THEOREM UsesThreads == SpecLocals => Spec
  BY StepRefines, PTL DEF SpecLocals, InitLocals, Spec

\* Every variable of Thread keeps its type: the latch is counted down once, and no
\* pthread is joined or detached twice.
THEOREM TypeCorrect == Spec => []TypeOK
  BY Inductive, IInvIsEnough, PTL

\* The new thread never uses a destroyed object or the deleted name (Thread.cc:44-49).
THEOREM NothingDangles == SpecLocals => []NoDanglingAccess
  BY UsesThreads, Inductive, IInvIsEnough, PTL

\* Every pthread is joined or detached exactly once (Thread.cc:97-101,131-137).
THEOREM PthreadsAreReclaimed == SpecLocals => []ReclaimedOnce
  BY UsesThreads, Inductive, IInvIsEnough, PTL

------------------------------------------------------------------------------
\* How far the singleton is: not asked for, being made, there, and taken down by the
\* handlers of exit(), which never run before the process exits.  A thread has a Test
\* exactly while it has a value under the key.
Made ==
    /\ once_ \in {"new", "running", "done"}
    /\ at \in [Users -> STL!InstanceLocations]
    /\ specific \in [Users -> BOOLEAN]
    /\ objects = [u \in Users |-> IF specific[u] THEN 1 ELSE 0]
    /\ \A u \in Users : at[u] \in {"past", "got"} => once_ = "done"
    /\ \A u \in Users : at[u] = "init" => once_ = "running"
    /\ \A u, v \in Users : at[u] = "init" /\ at[v] = "init" => u = v
    /\ once_ # "done" =>
         /\ value_ = "null" /\ handlers = 0 /\ pkey_ = "none"
         /\ \A u \in Users : ~specific[u]
    /\ once_ = "done" =>
         \/ value_ = "alive" /\ handlers = 1 /\ pkey_ = "live"
         \/ value_ = "deleted" /\ handlers = 1 /\ pkey_ = "deleted" /\ process # "running"
         \/ value_ = "null" /\ handlers = 0 /\ pkey_ = "deleted" /\ process # "running"

\* What a thread can still be doing, and what can be left of it, when it ends, when it
\* was joined, and when the process exits.
Ended ==
    /\ mainAt \in {"running", "ending", "ended", "exited"}
    /\ mainAt \in {"running", "ending"} => process = "running"
    /\ mainAt = "exited" => process # "running"
    /\ at[main] # "out" => mainAt = "running"
    /\ mainAt = "ended" => ~specific[main]
    /\ \A o \in Objects :
         /\ at[o] # "out" => child[o] = "running"
         /\ owner[o] \in {"waiting", "joining"} => mainAt = "running"
         /\ specific[o] => child[o] \in {"running", "ending", "returned"}
         /\ child[o] = "returned" /\ pkey_ # "deleted" => ~specific[o]
         /\ joined_[o] /\ owner[o] # "joining" => child[o] = "returned" /\ ~specific[o]
         /\ mainAt = "ended" /\ process # "running" =>
              child[o] \in {"none", "returned"} /\ ~specific[o]

LocalsInv == IInv /\ Made /\ Ended

LEMMA InitLocalsInv == InitLocals => LocalsInv
  BY InitIInv, MainAssumption
     DEF InitLocals, LocalsInv, Made, Ended, Init, STL!Init, STL!InstanceLocations, Local!Init,
         Users

\* Every step keeps the invariant.
LEMMA StepLocalsInv == LocalsInv /\ [NextLocals]_allVars => LocalsInv'
  <1> SUFFICES ASSUME LocalsInv, [NextLocals]_allVars PROVE LocalsInv'
    OBVIOUS
  <1>i. IInv /\ IInv'
    BY StepRefines, NextKeeps DEF LocalsInv
  <1>t. /\ child \in [Objects -> ChildLocations] /\ child' \in [Objects -> ChildLocations]
        /\ owner \in [Objects -> OwnerLocations] /\ joined_ \in [Objects -> BOOLEAN]
    BY <1>i DEF IInv, TypeOK
  <1>u. main \in Users /\ Objects \subseteq Users /\ main \notin Objects
    BY MainAssumption DEF Users
  <1> USE <1>i, <1>t, <1>u DEF LocalsInv, Made, Ended, singleton, local, threads
  <1>1. ASSUME NEW o \in Objects, MainCalls(o) PROVE LocalsInv'
    BY <1>1 DEF MainCalls, MainFree, Start, Join, Destroy, OwnerGoto, ChildGoto
  <1>2. ASSUME NEW o \in Objects, MainReturns(o) PROVE LocalsInv'
    BY <1>2 DEF MainReturns, StartReturn, JoinReturn, OwnerGoto
  <1>3. ASSUME NEW o \in Objects, ThreadEnters(o) PROVE LocalsInv'
    BY <1>3 DEF ThreadEnters, Enter, ChildSetPid, ChildCountDown, ChildLeaveLatch, ChildRun,
                ChildGoto, object
  <1>4. ASSUME NEW o \in Objects, FinishRun(o) PROVE LocalsInv'
    BY <1>4 DEF FinishRun, ChildFinish, ChildGoto, object
  <1>5. ASSUME NEW o \in Objects, EndThread(o) PROVE LocalsInv'
    BY <1>5 DEF EndThread, ChildReturn, ChildGoto, object, Local!MustDestroy
  <1>6. ASSUME NEW u \in Users, AskForTest(u) PROVE LocalsInv'
    BY <1>6 DEF AskForTest, Runs, MainFree, STL!Call, STL!Goto, STL!InstanceLocations, Users
  <1>7. ASSUME NEW u \in Users, InstanceStep(u) PROVE LocalsInv'
    <2>1. CASE STL!BeginInit(u) /\ UNCHANGED local
      BY <1>7, <2>1 DEF InstanceStep, STL!BeginInit, STL!Goto, STL!InstanceLocations, Users
    <2>2. CASE STL!PassOnce(u) /\ UNCHANGED local
      BY <1>7, <2>2 DEF InstanceStep, STL!PassOnce, STL!Goto, STL!InstanceLocations, Users
    <2>3. CASE STL!Get(u) /\ UNCHANGED local
      BY <1>7, <2>3 DEF InstanceStep, STL!Get, STL!Goto, STL!InstanceLocations, Users
    <2>4. CASE STL!EndInit(u) /\ Local!Create
      BY <1>7, <2>4 DEF InstanceStep, STL!EndInit, STL!Goto, STL!InstanceLocations,
                        Local!Create, Users
    <2> QED BY <1>7, <2>1, <2>2, <2>3, <2>4 DEF InstanceStep
  <1>8. ASSUME NEW u \in Users, UseTest(u) PROVE LocalsInv'
    <2>1. /\ value_ = "alive" /\ at[u] = "got" /\ at' = [at EXCEPT ![u] = "out"]
          /\ specific' = [specific EXCEPT ![u] = TRUE]
          /\ UNCHANGED <<once_, value_, handlers, pkey_, threads, mainAt, process>>
      BY <1>8 DEF UseTest, STL!Leave, STL!Goto, Local!Value
    <2>2. objects' = [v \in Users |-> IF specific'[v] THEN 1 ELSE 0]
      <3>1. objects' = IF specific[u] THEN objects ELSE [objects EXCEPT ![u] = objects[u] + 1]
        BY <1>8 DEF UseTest, Local!Value
      <3>2. \A v \in Users : specific'[v] = (v = u \/ specific[v])
        BY <2>1
      <3>3. CASE specific[u]
        BY <3>1, <3>2, <3>3
      <3>4. CASE ~specific[u]
        <4>1. objects' = [v \in Users |-> IF v = u THEN 1 ELSE IF specific[v] THEN 1 ELSE 0]
          BY <3>1, <3>4
        <4> QED BY <3>2, <4>1
      <3> QED BY <3>3, <3>4
    <2>3. IF u = main THEN mainAt = "running" ELSE u \in Objects /\ child[u] = "running"
      BY <2>1 DEF Users
    <2>4. Made'
      BY <2>1, <2>2 DEF STL!InstanceLocations
    <2>5. Ended'
      BY <2>1, <2>3
    <2> QED BY <2>4, <2>5
  <1>9. ASSUME NEW u \in Users, Break(u) PROVE LocalsInv'
    BY <1>9 DEF Break, Users
  <1>10. ASSUME NEW u \in Users, RunDestructors(u) PROVE LocalsInv'
    <2>1. /\ specific[u] /\ specific' = [specific EXCEPT ![u] = FALSE]
          /\ UNCHANGED <<singleton, pkey_, threads, mainAt, process>>
      BY <1>10 DEF RunDestructors, Local!Destructor, Local!MustDestroy
    <2>2. objects' = [v \in Users |-> IF specific'[v] THEN 1 ELSE 0]
      <3>1. objects' = [objects EXCEPT ![u] = objects[u] - 1]
        BY <1>10 DEF RunDestructors, Local!Destructor
      <3>2. \A v \in Users : specific'[v] = (v # u /\ specific[v])
        BY <2>1
      <3> QED BY <2>1, <3>1, <3>2
    <2>3. Made'
      BY <2>1, <2>2
    <2>4. Ended'
      BY <2>1
    <2> QED BY <2>3, <2>4
  <1>11. CASE MainEnds
    BY <1>11 DEF MainEnds, MainFree, Local!MustDestroy
  <1>12. CASE Exit
    BY <1>12 DEF Exit, MainFree
  <1>13. CASE RunHandlers
    BY <1>13 DEF RunHandlers, STL!Delete, STL!Forget, Local!DeleteKey
  <1>14. CASE UNCHANGED allVars
    BY <1>14 DEF allVars
  <1> QED
    BY <1>1, <1>2, <1>3, <1>4, <1>5, <1>6, <1>7, <1>8, <1>9, <1>10, <1>11, <1>12, <1>13, <1>14
       DEF NextLocals

LEMMA SpecLocalsInv == SpecLocals => []LocalsInv
  BY InitLocalsInv, StepLocalsInv, PTL DEF SpecLocals

\* Whoever is past pthread_once finds the singleton and the key alive, unless main has
\* called exit() (Singleton.h:35-37), and destroy() is registered once.
THEOREM SingletonIsAlive == SpecLocals => []InstanceAlive
  <1>1. LocalsInv => InstanceAlive
    BY MainAssumption DEF LocalsInv, Made, Ended, InstanceAlive, Users
  <1> QED BY <1>1, SpecLocalsInv, PTL

\* Each thread has one Test at most and none once it is joined; none is left when the
\* last thread ends the process (ThreadLocal.h:22-32,35-42).
THEOREM NoTestIsLeft == SpecLocals => []TestsAreDestroyed
  <1>1. LocalsInv => TestsAreDestroyed
    <2> SUFFICES ASSUME LocalsInv PROVE TestsAreDestroyed
      OBVIOUS
    <2>1. \A u \in Users : objects[u] = IF specific[u] THEN 1 ELSE 0
      BY DEF LocalsInv, Made
    <2>2. \A o \in Objects : joined_[o] /\ owner[o] # "joining" => ~specific[o]
      BY DEF LocalsInv, Ended
    <2>3. process # "running" /\ mainAt # "exited" => \A u \in Users : ~specific[u]
      BY DEF LocalsInv, Ended, Users
    <2>4. Objects \subseteq Users
      BY DEF Users
    <2> QED BY <2>1, <2>2, <2>3, <2>4 DEF TestsAreDestroyed
  <1> QED BY <1>1, SpecLocalsInv, PTL
==============================================================================
