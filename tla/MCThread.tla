------------------------------- MODULE MCThread -------------------------------
(* A small instance of ThreadLocals for TLC: main and two Thread objects.      *)
EXTENDS ThreadLocals
===============================================================================
