---------------------------- MODULE FileParameters -----------------------------
(* The parameters of FileUtil, for it and for the module that runs it.         *)
EXTENDS Integers

CONSTANTS
    BufferSize,     \* the size of AppendFile::buffer_, 64 K in the code
    kBuffSize,      \* the size of ReadSmallFile::buf_, 64 K in the code
    MaxSize,        \* the argument max_size of read_to_string
    Lengths,        \* the lengths of the lines
    MaxBytes,       \* bound: the bytes given to append()
    MaxFailures     \* bound: the writes to the device that fail

ASSUME FileAssumption ==
    /\ BufferSize \in Nat \ {0}
    /\ kBuffSize \in Nat \ {0}
    /\ {MaxSize, MaxBytes, MaxFailures} \subseteq Nat
    /\ Lengths \subseteq Nat \ {0}
================================================================================
