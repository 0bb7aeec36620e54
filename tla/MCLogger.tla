------------------------------- MODULE MCLogger --------------------------------
(* Pieces for TLC: texts of three lengths, the last one too long for any        *)
(* message, and numbers of one to four characters.                              *)
EXTENDS Logger

Text(len) == [kind |-> "text", len |-> len]
Number(kind, value) == [kind |-> kind, value |-> value]

MCPieces == {Text(1), Text(5), Text(16), Number("integer", 7), Number("integer", -25),
             Number("pointer", 40), [kind |-> "double", len |-> 3]}
================================================================================
