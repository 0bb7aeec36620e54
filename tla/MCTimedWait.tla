------------------------------ MODULE MCTimedWait ------------------------------
(* A small instance of TimedWait for TLC: a second of four nanoseconds, and   *)
(* waits below, at and above one second and its multiples.                    *)
EXTENDS TimedWait
================================================================================
