------------------------------ MODULE TimedWait -------------------------------
(***************************************************************************)
(* Condition::wait_for_seconds, src/muduo/base/Condition.cc: the deadline  *)
(* it computes, and what pthread_cond_timedwait makes of it.               *)
(*                                                                         *)
(* Time is counted in nanoseconds since the epoch, with a second of        *)
(* kNanoSecondsPerSecond nanoseconds: a few instead of 10^9.  As today the *)
(* epoch lies more than kNanoSecondsPerSecond seconds back.                *)
(***************************************************************************)
EXTENDS Integers

CONSTANTS
    kNanoSecondsPerSecond,
    Waits,      \* the arguments of wait_for_seconds, in nanoseconds
    LastCall,   \* bound: the thread calls wait_for_seconds until then
    MaxTime     \* bound: the clock stops there

VARIABLES
    now,        \* CLOCK_REALTIME
    pc,         \* out, or blocked in pthread_cond_timedwait
    deadline,   \* abs_time of the last call
    result,     \* what the last call returned
    woken       \* history: whether anything but the clock ended the last call

vars == <<now, pc, deadline, result, woken>>

Instant(time) == [tv_sec |-> time \div kNanoSecondsPerSecond,
                  tv_nsec |-> time % kNanoSecondsPerSecond]
Nanoseconds(timespec) ==
    timespec.tv_sec * kNanoSecondsPerSecond + timespec.tv_nsec

Epoch == kNanoSecondsPerSecond * kNanoSecondsPerSecond

Init ==
    /\ now \in Epoch .. Epoch + kNanoSecondsPerSecond - 1
    /\ pc = "out"
    /\ deadline = Instant(now)
    /\ result = FALSE
    /\ woken = TRUE

\* abs_time after Condition.cc:14-15, where the seconds since the epoch are
\* added to the nanoseconds asked for, twice.
Deadline(abs_time, nano_seconds) ==
    LET tv_sec == abs_time.tv_sec + (abs_time.tv_sec + nano_seconds) \div kNanoSecondsPerSecond
    IN [tv_sec |-> tv_sec,
        tv_nsec |-> abs_time.tv_nsec + ((tv_sec + nano_seconds) % kNanoSecondsPerSecond)]

\* wait_for_seconds: pthread_cond_timedwait refuses a tv_nsec of a second or
\* more with EINVAL, at once and without releasing the mutex.
WaitForSeconds(nano_seconds) ==
    /\ pc = "out" /\ now <= LastCall
    /\ deadline' = Deadline(Instant(now), nano_seconds)
    /\ pc' = IF deadline'.tv_nsec < kNanoSecondsPerSecond THEN "blocked" ELSE "out"
    /\ result' = FALSE
    /\ woken' = FALSE
    /\ UNCHANGED now

\* Another thread notifies, or pthread_cond_timedwait returns for no reason.
Wake ==
    /\ pc = "blocked"
    /\ pc' = "out" /\ result' = FALSE /\ woken' = TRUE
    /\ UNCHANGED <<now, deadline>>

\* The deadline is over: ETIMEDOUT.
Expire ==
    /\ pc = "blocked"
    /\ now >= Nanoseconds(deadline)
    /\ pc' = "out" /\ result' = TRUE
    /\ UNCHANGED <<now, deadline, woken>>

Tick ==
    /\ now < MaxTime
    /\ now' = now + 1
    /\ UNCHANGED <<pc, deadline, result, woken>>

Next == (\E n \in Waits : WaitForSeconds(n)) \/ Wake \/ Expire \/ Tick

Spec == Init /\ [][Next]_vars

------------------------------------------------------------------------------
\* Condition.h:28: "returns true if time out, false otherwise", that is, a call
\* that returns false was not ended by the time but by somebody else.
FalseMeansWoken == pc = "out" /\ ~result => woken
==============================================================================
