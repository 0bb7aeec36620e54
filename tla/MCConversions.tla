----------------------------- MODULE MCConversions -----------------------------
(* The functions that only compute, as four walks in one run: over the times of *)
(* MCTimeZone, over the days of the calendar, over pairs of strings, and over   *)
(* names of a process.  Date.h:10-12 gives the years 1900 to 2500 as the range  *)
(* of Date; January 1st, 1900 was a Monday.                                     *)
EXTENDS MCTimeZone

CONSTANTS
    FirstYear, FirstWeekDay, LastYear,
    Bytes, MaxLength,           \* the strings
    Words,                      \* what a name may be made of
    Numbers                     \* those of Words that are numbers

ASSUME CalendarAssumption == FirstYear \in Nat
ASSUME TextAssumption == Bytes \subseteq Int /\ MaxLength \in Nat /\ "7" \in Numbers

VARIABLES
    walk,                       \* which of the four it is
    today, weekDay, days,       \* the variables of Calendar
    left, right                 \* two strings, or two parts of a name

Days == INSTANCE Calendar
Piece == INSTANCE StringPiece
Process == INSTANCE ProcessInfo

Texts(alphabet) == UNION {[1..length -> alphabet] : length \in 0..MaxLength}

InitWalk ==
    /\ walk \in {"times", "days", "strings", "names"}
    /\ Init /\ Days!Init
    /\ walk # "times" => zone = China
    /\ left = <<>> /\ right = <<>>

\* One string or part is chosen after the other.
Choose(alphabet) ==
    /\ \/ left = <<>> /\ left' \in Texts(alphabet) /\ UNCHANGED right
       \/ right = <<>> /\ right' \in Texts(alphabet) /\ UNCHANGED left
    /\ UNCHANGED <<walk, time, zone, today, weekDay, days>>

NextWalk ==
    \/ walk = "times" /\ Tick /\ UNCHANGED <<walk, today, weekDay, days, left, right>>
    \/ walk = "days" /\ Days!Next /\ UNCHANGED <<walk, time, zone, left, right>>
    \/ walk = "strings" /\ Choose(Bytes)
    \/ walk = "names" /\ Choose(Words)

SpecWalk ==
    InitWalk /\ [][NextWalk]_<<walk, time, zone, today, weekDay, days, left, right>>

\* The days of the calendar and their Julian day numbers agree (Date.cc:11-33), see
\* Calendar.
DateIsRight == Days!DateIsRight

\* The orders of StringPiece are one, and that of a dictionary (StringPiece.h:67-115).
OrderIsTotal == walk = "strings" => Piece!OrdersAgree(left, right)

\* A name, whatever it is made of, does not confuse the readers of /proc
\* (ProcessInfo.cc:136-146,216-226), but for the one word named in ProcessInfo.
NamesDoNotConfuse == walk = "names" => Process!TextsAreRead(left \o right, "7")
===============================================================================
