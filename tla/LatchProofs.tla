------------------------------ MODULE LatchProofs ------------------------------
(***************************************************************************)
(* Proofs about Monitor, CountDownLatch and LockedLatch, for every number  *)
(* of threads, every initial count (also zero and negative ones) and every *)
(* number of calls.                                                        *)
(*                                                                         *)
(* Monitor: the inductive invariant says, location by location, who owns   *)
(* the pthread mutex and what holder_ contains.                            *)
(* LockedLatch: on top of it, where in lock() and condition_.wait() a      *)
(* thread can be for what it does next in the latch.  Then each of its     *)
(* steps is one of CountDownLatch or changes nothing of it, and what holds *)
(* of CountDownLatch holds of the latch over a mutex and a condition.      *)
(***************************************************************************)
EXTENDS LockedLatch, TLAPS

\* The locations at which a thread holds the pthread mutex.
Owning == {"acquired", "critical", "leaving", "parking", "returned"}

\* A thread is at an owning location exactly when it owns the mutex, and
\* holder_ is the owner in the critical section and nobody elsewhere.
MonitorInv ==
    /\ TypeOK
    /\ \A t \in Threads : pc[t] \in Owning <=> owner = t
    /\ \A t \in Threads : pc[t] = "critical" => holder_ = t
    /\ \A t \in Threads : holder_ = t => pc[t] = "critical"

LEMMA InitMonitorInv == Init => MonitorInv
  BY NoThreadAssumption DEF Init, MonitorInv, TypeOK, Owning, Locations

\* A notification moves blocked threads only, and only to "woken".
LEMMA NotifyMovesBlocked ==
  ASSUME TypeOK,
         \/ pc' \in Notified(pc, "waiting", "woken")
         \/ pc' = NotifiedAll(pc, "waiting", "woken")
  PROVE  /\ pc' \in [Threads -> Locations]
         /\ \A t \in Threads : \/ pc'[t] = pc[t]
                               \/ pc[t] = "waiting" /\ pc'[t] = "woken"
  <1>1. CASE pc' \in Notified(pc, "waiting", "woken")
    BY <1>1 DEF TypeOK, Notified, Blocked, Locations
  <1>2. CASE pc' = NotifiedAll(pc, "waiting", "woken")
    BY <1>2 DEF TypeOK, NotifiedAll, Locations
  <1> QED BY <1>1, <1>2

LEMMA StepMonitorInv == MonitorInv /\ [Next]_vars => MonitorInv'
  <1> SUFFICES ASSUME MonitorInv, [Next]_vars PROVE MonitorInv'
    OBVIOUS
  <1>1. ASSUME UNCHANGED vars PROVE MonitorInv'
    BY <1>1 DEF vars, MonitorInv, TypeOK
  <1>2. ASSUME NEW t \in Threads, Step(t) PROVE MonitorInv'
    <2> USE NoThreadAssumption DEF MonitorInv, TypeOK, Locations, Owning, Goto
    <2>1. CASE MutexAcquire(t)    BY <2>1 DEF MutexAcquire
    <2>2. CASE AssignHolder(t)    BY <2>2 DEF AssignHolder
    <2>3. CASE UnassignHolder(t)  BY <2>3 DEF UnassignHolder
    <2>4. CASE MutexRelease(t)    BY <2>4 DEF MutexRelease
    <2>5. CASE UnassignGuard(t)   BY <2>5 DEF UnassignGuard
    <2>6. CASE CondBlock(t)       BY <2>6 DEF CondBlock
    <2>7. CASE CondRefuse(t)      BY <2>7 DEF CondRefuse
    <2>8. CASE CondTimeout(t)     BY <2>8 DEF CondTimeout
    <2>9. CASE CondReturn(t)      BY <2>9 DEF CondReturn
    <2>10. CASE RestoreHolder(t)  BY <2>10 DEF RestoreHolder
    <2>11. CASE Notify(t) \/ NotifyAll(t)
      <3>1. UNCHANGED <<owner, holder_>>
        BY <2>11 DEF Notify, NotifyAll
      <3>2. /\ pc' \in [Threads -> Locations]
            /\ \A u \in Threads : \/ pc'[u] = pc[u]
                                  \/ pc[u] = "waiting" /\ pc'[u] = "woken"
        BY <2>11, NotifyMovesBlocked DEF Notify, NotifyAll
      <3> QED BY <3>1, <3>2
    <2> QED
      BY <1>2, <2>1, <2>2, <2>3, <2>4, <2>5, <2>6, <2>7, <2>8, <2>9, <2>10, <2>11
         DEF Step
  <1> QED BY <1>1, <1>2 DEF Next

LEMMA SpecMonitorInv == Spec => []MonitorInv
  BY InitMonitorInv, StepMonitorInv, PTL DEF Spec

\* Type correctness, for any set of threads.
THEOREM TypeCorrect == Spec => []TypeOK
  <1>1. MonitorInv => TypeOK
    BY DEF MonitorInv
  <1> QED BY <1>1, SpecMonitorInv, PTL

\* assert_locked() is exact: holder_ is the calling thread in the critical
\* section, and is never a thread that does not hold the mutex.
THEOREM HolderExact == Spec => []HolderIsExact
  <1>1. MonitorInv => HolderIsExact
    BY DEF MonitorInv, HolderIsExact, IsLockedByThisThread, Owning
  <1> QED BY <1>1, SpecMonitorInv, PTL

\* A mutex that is free can be destroyed: holder_ is 0 (Mutex.h:45).
THEOREM FreeMutex == Spec => []FreeMutexHasNoHolder
  <1>1. MonitorInv => FreeMutexHasNoHolder
    BY NoThreadAssumption DEF MonitorInv, TypeOK, FreeMutexHasNoHolder, Owning
  <1> QED BY <1>1, SpecMonitorInv, PTL

------------------------------------------------------------------------------
\* CountDownLatch.  Its two safety properties are inductive together with the type
\* invariant: count_ = Count - downs ties the test of wait() to the history.
CountInv == Latch!TypeOK /\ Latch!PassedOnlyWhenDown /\ Latch!NobodyLeftBehind

LEMMA InitCountInv == Latch!Init => CountInv
  BY CountAssumption, MaxDownsAssumption
     DEF Latch!Init, CountInv, Latch!TypeOK, Latch!Locations, Latch!PassedOnlyWhenDown,
         Latch!NobodyLeftBehind, Latch!Blocked

LEMMA StepCountInv ==
  CountInv /\ [Latch!Next]_<<count_ + pending, place, downs - pending>> => CountInv'
  <1> SUFFICES ASSUME CountInv, [Latch!Next]_<<count_ + pending, place, downs - pending>>
               PROVE  CountInv'
    OBVIOUS
  <1> DEFINE count == count_ + pending
             calls == downs - pending
  <1>1. /\ count = Count - calls /\ calls \in 0..MaxDowns
        /\ place \in [Threads -> Latch!Locations]
        /\ (\E t \in Threads : place[t] = "passed") => calls >= Count
        /\ calls >= Count => \A t \in Threads : place[t] # "blocked"
    BY DEF CountInv, Latch!TypeOK, Latch!PassedOnlyWhenDown, Latch!NobodyLeftBehind,
           Latch!Blocked
  <1>2. SUFFICES
        /\ count' = Count - calls' /\ calls' \in 0..MaxDowns
        /\ place' \in [Threads -> Latch!Locations]
        /\ (\E t \in Threads : place'[t] = "passed") => calls' >= Count
        /\ calls' >= Count => \A t \in Threads : place'[t] # "blocked"
    BY DEF CountInv, Latch!TypeOK, Latch!PassedOnlyWhenDown, Latch!NobodyLeftBehind,
           Latch!Blocked
  <1>3. ASSUME NEW t \in Threads, Latch!Wait(t) PROVE <1>2!1
    <2>1. count' = count /\ calls' = calls
          /\ place' = [place EXCEPT ![t] = IF count > 0 THEN "blocked" ELSE "passed"]
      BY <1>3 DEF Latch!Wait
    <2> HIDE DEF count, calls
    <2> QED BY <1>1, <2>1, CountAssumption, MaxDownsAssumption DEF Latch!Locations
  <1>4. ASSUME NEW t \in Threads, Latch!CountDown(t) PROVE <1>2!1
    <2>1. count' = count - 1 /\ calls' = calls + 1 /\ calls < MaxDowns
          /\ place' = IF count' = 0 THEN Latch!NotifiedAll(place, "blocked", "woken")
                                    ELSE place
      BY <1>4 DEF Latch!CountDown
    <2> HIDE DEF count, calls
    <2>2. CASE count' = 0
      <3>1. place' = [u \in Threads |-> IF place[u] = "blocked" THEN "woken" ELSE place[u]]
        BY <1>1, <2>1, <2>2 DEF Latch!NotifiedAll
      <3> QED BY <1>1, <2>1, <2>2, <3>1, CountAssumption, MaxDownsAssumption
              DEF Latch!Locations
    <2>3. CASE count' # 0
      BY <1>1, <2>1, <2>3, CountAssumption, MaxDownsAssumption DEF Latch!Locations
    <2> QED BY <2>2, <2>3
  <1>5. ASSUME NEW t \in Threads, Latch!SpuriousWakeup(t) PROVE <1>2!1
    <2>1. count' = count /\ calls' = calls /\ place' = [place EXCEPT ![t] = "woken"]
      BY <1>5 DEF Latch!SpuriousWakeup
    <2> HIDE DEF count, calls
    <2> QED BY <1>1, <2>1, CountAssumption, MaxDownsAssumption DEF Latch!Locations
  <1>6. CASE UNCHANGED <<count_ + pending, place, downs - pending>>
    <2>1. count' = count /\ calls' = calls /\ place' = place
      BY <1>6
    <2> HIDE DEF count, calls
    <2> QED BY <1>1, <2>1
  <1> QED BY <1>3, <1>4, <1>5, <1>6 DEF Latch!Next

------------------------------------------------------------------------------
\* LockedLatch.  Where a thread can be, for what it has to do next.
Whereabouts ==
    \A t \in Threads :
        /\ call[t] = "none" <=> pc[t] = "outside"
        /\ call[t] \in {"test", "down"} => pc[t] \in {"acquired", "critical"}
        /\ call[t] = "retest" =>
             pc[t] \in {"parking", "waiting", "woken", "returned", "critical"}
        /\ call[t] = "notify" => pc[t] = "critical"
        /\ call[t] = "end" => pc[t] \in {"critical", "leaving"}

\* count_ is the initial count less the calls.  A thread counts down when a call is
\* left, notifies when the count is zero, and blocks while the count, as it will be
\* when everybody is notified, is above zero.
LatchInv ==
    /\ MonitorInv
    /\ count_ = Count - downs
    /\ downs \in 0..MaxDowns
    /\ passed \subseteq Threads
    /\ call \in [Threads -> Calls]
    /\ Whereabouts
    /\ \A t \in passed : call[t] \notin {"test", "retest"}
    /\ \A t \in Threads : call[t] = "down" => downs < MaxDowns
    /\ \A t \in Threads : call[t] = "notify" => count_ = 0
    /\ \A t \in Threads : pc[t] \in {"parking", "waiting"} => count_ + pending > 0

SpecLatch == InitLatch /\ [][NextLatch]_<<vars, latchVars>>

\* The steps of a latch are steps of a monitor.
LEMMA LatchUsesMonitor == [NextLatch]_<<vars, latchVars>> => [Next]_vars
  BY DEF NextLatch, Progress, EnterWait, EnterCountDown, Test, Decrement, NotifyWaiters,
         Leave, Inside, SpuriousWakeup, Next, Step, vars

\* A thread inside the critical section or on its way into it or out of it is alone.
LEMMA Alone ==
  ASSUME MonitorInv, NEW t \in Threads, NEW u \in Threads,
         pc[t] \in Owning, pc[u] \in Owning
  PROVE  t = u
  BY DEF MonitorInv

\* One thread at most has threads to notify.
LEMMA PendingIs ==
  /\ pending \in {0, 1} /\ pending' \in {0, 1}
  /\ pending = 1 <=> \E t \in Threads : call[t] = "notify"
  /\ pending' = 1 <=> \E t \in Threads : call'[t] = "notify"
  BY DEF pending, Notifying

LEMMA InitLatchInv == InitLatch => LatchInv /\ Latch!Init
  <1> SUFFICES ASSUME InitLatch PROVE LatchInv /\ Latch!Init
    OBVIOUS
  <1>1. MonitorInv
    BY InitMonitorInv DEF InitLatch
  <1>2. pending = 0
    BY PendingIs DEF InitLatch
  <1>3. LatchInv
    BY <1>1, <1>2, CountAssumption, MaxDownsAssumption
       DEF InitLatch, Init, LatchInv, Calls, Whereabouts
  <1>4. Latch!Init
    BY <1>2, CountAssumption DEF InitLatch, Init, Latch!Init, place
  <1> QED BY <1>3, <1>4

\* A thread that neither begins nor ends a notification leaves pending alone.
LEMMA PendingStays ==
  ASSUME \A t \in Threads : call'[t] = "notify" <=> call[t] = "notify"
  PROVE  pending' = pending
  BY PendingIs

LEMMA StepLatchInv == LatchInv /\ [NextLatch]_<<vars, latchVars>> => LatchInv'
  <1> SUFFICES ASSUME LatchInv, [NextLatch]_<<vars, latchVars>> PROVE LatchInv'
    OBVIOUS
  <1>1. MonitorInv /\ MonitorInv'
    BY LatchUsesMonitor, StepMonitorInv DEF LatchInv
  <1>t. pc \in [Threads -> Locations] /\ pc' \in [Threads -> Locations]
    BY <1>1 DEF MonitorInv, TypeOK
  <1>a. \A t, u \in Threads : pc[t] \in Owning /\ pc[u] \in Owning => t = u
    BY <1>1, Alone
  <1> USE CountAssumption, MaxDownsAssumption, PendingIs
      DEF LatchInv, Owning, Whereabouts, Locations, Calls, Continue, Goto
  <1>2. ASSUME NEW t \in Threads, EnterWait(t) \/ EnterCountDown(t) PROVE LatchInv'
    <2>1. pending' = pending
      BY <1>2, PendingStays DEF EnterWait, EnterCountDown
    <2> QED BY <1>1, <1>t, <1>2, <2>1 DEF EnterWait, EnterCountDown, MutexAcquire
  <1>3. ASSUME NEW t \in Threads, Test(t) PROVE LatchInv'
    <2>1. pending' = pending
      BY <1>3, PendingStays DEF Test
    <2>2. CASE count_ > 0 /\ UnassignGuard(t)
      BY <1>1, <1>t, <1>a, <1>3, <2>1, <2>2 DEF Test, UnassignGuard
    <2>3. CASE count_ <= 0 /\ UNCHANGED vars
      BY <1>1, <1>t, <1>a, <1>3, <2>1, <2>3 DEF Test, vars
    <2> QED BY <1>3, <2>2, <2>3 DEF Test
  <1>4. ASSUME NEW t \in Threads, Decrement(t) PROVE LatchInv'
    <2>1. /\ pc' = pc /\ passed' = passed /\ pc[t] = "critical" /\ call[t] = "down"
          /\ call' = [call EXCEPT ![t] = IF count_ = 1 THEN "notify" ELSE "end"]
          /\ count_' = count_ - 1 /\ downs' = downs + 1 /\ downs < MaxDowns
      BY <1>4 DEF Decrement, vars
    <2>2. \A u \in Threads : pc[u] \in Owning => u = t
      BY <1>a, <2>1
    <2>3. Whereabouts' /\ call' \in [Threads -> Calls]
      BY <1>t, <2>1
    <2>4. /\ \A u \in passed' : call'[u] \notin {"test", "retest"}
          /\ \A u \in Threads : call'[u] = "down" => downs' < MaxDowns
          /\ \A u \in Threads : call'[u] = "notify" => count_' = 0
          /\ \A u \in Threads : pc'[u] \notin {"parking"}
      BY <1>t, <2>1, <2>2
    <2>5. ASSUME NEW u \in Threads, pc'[u] \in {"parking", "waiting"}
          PROVE  count_' + pending' > 0
      <3>1. pending = 0
        BY <2>1, <2>2
      <3>2. count_ > 0
        BY <2>1, <2>5, <3>1
      <3>3. count_ = 1 => pending' = 1
        BY <1>t, <2>1
      <3>4. count_ \in Int /\ pending' \in {0, 1} /\ count_' = count_ - 1
        BY <2>1
      <3>5. count_' \in Int
        BY <3>4
      <3> DEFINE p == pending'
                 c == count_'
      <3>6. /\ count_ \in Int /\ c \in Int /\ p \in {0, 1}
            /\ count_ > 0 /\ (count_ = 1 => p = 1) /\ c = count_ - 1
        BY <3>2, <3>3, <3>4, <3>5
      <3> HIDE DEF p, c
      <3>7. c + p > 0
        BY ONLY <3>6
      <3> QED BY <3>7 DEF p, c
    <2>6. count_' = Count - downs' /\ downs' \in 0..MaxDowns /\ passed' \subseteq Threads
      BY <2>1
    <2> HIDE DEF Whereabouts
    <2> QED BY <1>1, <2>3, <2>4, <2>5, <2>6
  <1>5. ASSUME NEW t \in Threads, NotifyWaiters(t) PROVE LatchInv'
    <2>1. /\ call[t] = "notify" /\ call' = [call EXCEPT ![t] = "end"]
          /\ count_' = count_ /\ downs' = downs /\ passed' = passed
      BY <1>5 DEF NotifyWaiters
    <2>2. pc' = [u \in Threads |-> IF pc[u] = "waiting" THEN "woken" ELSE pc[u]]
      BY <1>5, <1>t DEF NotifyWaiters, NotifyAll, NotifiedAll
    <2>3. \A u \in Threads : pc[u] \in Owning => u = t
      BY <1>a, <2>1
    <2>4. Whereabouts' /\ call' \in [Threads -> Calls]
      BY <1>t, <2>1, <2>2
    <2>5. \A u \in Threads : pc'[u] \notin {"parking", "waiting"}
      BY <2>1, <2>2, <2>3
    <2> QED BY <1>1, <2>1, <2>4, <2>5
  <1>6. ASSUME NEW t \in Threads, Leave(t) PROVE LatchInv'
    <2>1. pending' = pending
      BY <1>6, PendingStays DEF Leave
    <2>2. CASE UnassignHolder(t) /\ Continue(t, "end", "end")
      BY <1>1, <1>t, <1>6, <2>1, <2>2 DEF Leave, UnassignHolder
    <2>3. CASE MutexRelease(t) /\ Continue(t, "end", "none")
      BY <1>1, <1>t, <1>6, <2>1, <2>3 DEF Leave, MutexRelease
    <2> QED BY <1>6, <2>2, <2>3 DEF Leave
  <1>7. ASSUME NEW t \in Threads, Inside(t) PROVE LatchInv'
    <2>1. UNCHANGED latchVars /\ pending' = pending
      BY <1>7, PendingStays DEF Inside, latchVars
    <2>2. Whereabouts'
      BY <1>t, <1>7, <2>1 DEF Inside, AssignHolder, CondBlock, CondReturn, RestoreHolder, latchVars
    <2>3. \A u \in Threads : pc'[u] \in {"parking", "waiting"} => pc[u] \in {"parking", "waiting"}
      BY <1>t, <1>7 DEF Inside, AssignHolder, CondBlock, CondReturn, RestoreHolder
    <2> QED BY <1>1, <2>1, <2>2, <2>3 DEF latchVars
  <1>8. ASSUME NEW t \in Threads, SpuriousWakeup(t) PROVE LatchInv'
    <2>1. pending' = pending
      BY <1>8, PendingStays DEF SpuriousWakeup
    <2> QED BY <1>1, <1>t, <1>8, <2>1 DEF SpuriousWakeup, CondTimeout
  <1>9. CASE UNCHANGED <<vars, latchVars>>
    BY <1>1, <1>9 DEF vars, latchVars
  <1> QED BY <1>2, <1>3, <1>4, <1>5, <1>6, <1>7, <1>8, <1>9 DEF NextLatch, Progress

\* Every step of the latch over a mutex is one of CountDownLatch or changes nothing
\* of it.
LEMMA StepLatch ==
  LatchInv /\ [NextLatch]_<<vars, latchVars>>
    => [Latch!Next]_<<count_ + pending, place, downs - pending>>
  <1> SUFFICES ASSUME LatchInv, [NextLatch]_<<vars, latchVars>>
               PROVE  [Latch!Next]_<<count_ + pending, place, downs - pending>>
    OBVIOUS
  <1>1. \A t, u \in Threads : pc[t] \in Owning /\ pc[u] \in Owning => t = u
    BY Alone DEF LatchInv
  <1>t. pc \in [Threads -> Locations] /\ call \in [Threads -> Calls]
    BY DEF LatchInv, MonitorInv, TypeOK
  <1> USE CountAssumption, MaxDownsAssumption, PendingIs
      DEF LatchInv, Owning, Whereabouts, Locations, Calls, Continue, Goto
  <1>2. ASSUME NEW t \in Threads, EnterWait(t) \/ EnterCountDown(t)
        PROVE  UNCHANGED <<count_ + pending, place, downs - pending>>
    <2>1. pending' = pending
      BY <1>2, PendingStays DEF EnterWait, EnterCountDown
    <2> QED BY <1>t, <1>2, <2>1 DEF EnterWait, EnterCountDown, MutexAcquire, place
  <1>3. ASSUME NEW t \in Threads, Test(t) PROVE Latch!Wait(t)
    <2>1. /\ call[t] \in {"test", "retest"} /\ t \notin passed
          /\ pc[t] = "critical" /\ UNCHANGED <<count_, downs>>
      BY <1>3 DEF Test, UnassignGuard
    <2>2. pending = 0 /\ pending' = 0
      <3>1. pending = 0
        BY <1>1, <2>1
      <3> QED BY <1>3, <3>1, PendingStays DEF Test
    <2>3. place[t] \in {"ready", "woken"}
      BY <2>1 DEF place
    <2>4. CASE count_ > 0
      <3>1. /\ pc' = [pc EXCEPT ![t] = "parking"] /\ call' = [call EXCEPT ![t] = "retest"]
            /\ passed' = passed
        BY <1>3, <2>4 DEF Test, UnassignGuard
      <3>2. place' = [place EXCEPT ![t] = "blocked"]
        BY <1>t, <2>1, <3>1 DEF place
      <3> QED BY <2>1, <2>2, <2>3, <2>4, <3>2 DEF Latch!Wait
    <2>5. CASE count_ <= 0
      <3>1. /\ pc' = pc /\ call' = [call EXCEPT ![t] = "end"]
            /\ passed' = passed \cup {t}
        BY <1>3, <2>5 DEF Test, vars
      <3>2. place' = [place EXCEPT ![t] = "passed"]
        BY <1>t, <2>1, <3>1 DEF place
      <3>3. count_ + pending = count_ /\ count_' + pending' = count_ + pending
            /\ downs' - pending' = downs - pending
        BY <2>1, <2>2
      <3>4. ~(count_ + pending > 0)
        BY <2>5, <3>3
      <3> QED BY <2>3, <3>2, <3>3, <3>4 DEF Latch!Wait
    <2> QED BY <2>4, <2>5
  <1>4. ASSUME NEW t \in Threads, Decrement(t)
        PROVE  \/ Latch!CountDown(t)
               \/ UNCHANGED <<count_ + pending, place, downs - pending>>
    <2>1. /\ pc' = pc /\ passed' = passed /\ pc[t] = "critical" /\ call[t] = "down"
          /\ call' = [call EXCEPT ![t] = IF count_ = 1 THEN "notify" ELSE "end"]
          /\ count_' = count_ - 1 /\ downs' = downs + 1 /\ downs < MaxDowns
      BY <1>4 DEF Decrement, vars
    <2>2. place' = place /\ place[t] \in {"ready", "passed"}
      BY <1>t, <2>1 DEF place
    <2>3. pending = 0
      BY <1>1, <2>1
    <2>4. CASE count_ = 1
      <3>1. pending' = 1
        BY <1>t, <2>1, <2>4
      <3> QED BY <2>1, <2>2, <2>3, <2>4, <3>1
    <2>5. CASE count_ # 1
      <3>1. pending' = 0
        BY <1>t, <2>1, <2>3, <2>5
      <3> QED BY <2>1, <2>2, <2>3, <2>5, <3>1 DEF Latch!CountDown
    <2> QED BY <2>4, <2>5
  <1>5. ASSUME NEW t \in Threads, NotifyWaiters(t) PROVE Latch!CountDown(t)
    <2>1. /\ call[t] = "notify" /\ call' = [call EXCEPT ![t] = "end"]
          /\ count_' = count_ /\ downs' = downs /\ passed' = passed /\ count_ = 0
      BY <1>5 DEF NotifyWaiters
    <2>2. pc' = [u \in Threads |-> IF pc[u] = "waiting" THEN "woken" ELSE pc[u]]
      BY <1>5, <1>t DEF NotifyWaiters, NotifyAll, NotifiedAll
    <2>3. pc[t] = "critical" /\ \A u \in Threads : pc[u] \in Owning => u = t
      BY <1>1, <2>1
    <2>4. pending = 1 /\ pending' = 0
      <3>1. \A u \in Threads : call'[u] # "notify"
        BY <1>t, <2>1, <2>3
      <3> QED BY <2>1, <3>1
    <2>5. place[t] \in {"ready", "passed"}
      BY <2>1 DEF place
    <2>6. place' = [u \in Threads |-> IF place[u] = "blocked" THEN "woken" ELSE place[u]]
      BY <1>t, <2>1, <2>2, <2>3 DEF place
    <2>7. place' = Latch!NotifiedAll(place, "blocked", "woken")
      BY <2>6 DEF Latch!NotifiedAll, place
    <2> QED BY <2>1, <2>4, <2>5, <2>7 DEF Latch!CountDown
  <1>6. ASSUME NEW t \in Threads, Leave(t)
        PROVE  UNCHANGED <<count_ + pending, place, downs - pending>>
    <2>1. pending' = pending
      BY <1>6, PendingStays DEF Leave
    <2>2. \A u \in Threads : /\ call[u] = "retest" <=> call'[u] = "retest"
                             /\ call[u] = "retest" => pc'[u] = pc[u]
      BY <1>t, <1>6 DEF Leave, UnassignHolder, MutexRelease
    <2> QED BY <1>6, <2>1, <2>2 DEF Leave, place
  <1>7. ASSUME NEW t \in Threads, Inside(t)
        PROVE  UNCHANGED <<count_ + pending, place, downs - pending>>
    <2>1. UNCHANGED latchVars /\ pending' = pending
      BY <1>7, PendingStays DEF Inside, latchVars
    <2>2. \A u \in Threads : call[u] = "retest" =>
            (pc[u] \in {"parking", "waiting"} <=> pc'[u] \in {"parking", "waiting"})
      BY <1>t, <1>7 DEF Inside, AssignHolder, CondBlock, CondReturn, RestoreHolder
    <2> QED BY <2>1, <2>2 DEF latchVars, place
  <1>8. ASSUME NEW t \in Threads, SpuriousWakeup(t) PROVE Latch!SpuriousWakeup(t)
    <2>1. pending' = pending
      BY <1>8, PendingStays DEF SpuriousWakeup
    <2> QED BY <1>t, <1>8, <2>1 DEF SpuriousWakeup, CondTimeout, place, Latch!SpuriousWakeup
  <1>9. CASE UNCHANGED <<vars, latchVars>>
    BY <1>9 DEF vars, latchVars, pending, Notifying, place
  <1> QED
    BY <1>2, <1>3, <1>4, <1>5, <1>6, <1>7, <1>8, <1>9 DEF NextLatch, Progress, Latch!Next

\* The critical sections of CountDownLatch.cc:9-26 are a sound view of it: the latch
\* over a mutex and a condition implements CountDownLatch.
THEOREM LockedLatchImplementsLatch == SpecLatch => ImplementsLatch
  <1>1. InitLatch => LatchInv /\ Latch!Init
    BY InitLatchInv
  <1>2. LatchInv /\ [NextLatch]_<<vars, latchVars>> => LatchInv'
    BY StepLatchInv
  <1>3. LatchInv /\ [NextLatch]_<<vars, latchVars>>
          => [Latch!Next]_<<count_ + pending, place, downs - pending>>
    BY StepLatch
  <1> QED BY <1>1, <1>2, <1>3, PTL DEF SpecLatch, ImplementsLatch

LEMMA SpecLatchInv == SpecLatch => [](LatchInv /\ CountInv)
  <1>1. InitLatch => LatchInv /\ CountInv
    BY InitLatchInv, InitCountInv
  <1>2. LatchInv /\ CountInv /\ [NextLatch]_<<vars, latchVars>> => (LatchInv /\ CountInv)'
    BY StepLatchInv, StepLatch, StepCountInv
  <1> QED BY <1>1, <1>2, PTL DEF SpecLatch

\* No thread gets through wait() before count_down() was called Count times
\* (CountDownLatch.cc:12).
THEOREM NoEarlyPass == SpecLatch => []Latch!PassedOnlyWhenDown
  <1>1. CountInv => Latch!PassedOnlyWhenDown
    BY DEF CountInv
  <1> QED BY <1>1, SpecLatchInv, PTL

\* No thread stays blocked once count_down() was called Count times, however often it
\* is called afterwards (CountDownLatch.cc:22).
THEOREM NoneLeftBehind == SpecLatch => []NobodyLeftBehind
  <1>1. CountInv => NobodyLeftBehind
    BY DEF CountInv, NobodyLeftBehind
  <1> QED BY <1>1, SpecLatchInv, PTL

\* The latch keeps assert_locked() exact (Mutex.h:54).
THEOREM LatchHolderExact == SpecLatch => []HolderIsExact
  <1>1. LatchInv => HolderIsExact
    BY DEF LatchInv, MonitorInv, HolderIsExact, IsLockedByThisThread, Owning
  <1> QED BY <1>1, SpecLatchInv, PTL

\* The same of CountDownLatch by itself, one critical section in one step.
THEOREM LatchCorrect ==
  Latch!Init /\ [][Latch!Next]_<<count_ + pending, place, downs - pending>>
    => [](Latch!TypeOK /\ Latch!PassedOnlyWhenDown /\ Latch!NobodyLeftBehind)
  BY InitCountInv, StepCountInv, PTL DEF CountInv
==============================================================================
