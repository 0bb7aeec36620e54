--------------------------- MODULE LatchParameters ----------------------------
(* The parameters of a latch, for the two descriptions of it: CountDownLatch, *)
(* by critical sections, and LockedLatch, by the steps of a mutex.            *)
EXTENDS Integers

CONSTANTS
    Count,      \* the constructor's argument, which nothing checks
    MaxDowns    \* bound: the number of calls of count_down()

ASSUME CountAssumption == Count \in Int
ASSUME MaxDownsAssumption == MaxDowns \in Nat
===============================================================================
