------------------------------- MODULE LogStream -------------------------------
(***************************************************************************)
(* src/muduo/base/LogStream.{h,cc}: the text of one message in a           *)
(* FixedBuffer<kSmallBuffer>.  A stream is how far cur_ has come and       *)
(* whether everything put into it so far stands where it belongs; of a     *)
(* piece that is put into it only its kind and length matter.              *)
(***************************************************************************)
EXTENDS Integers, FiniteSets

CONSTANTS
    kSmallBuffer,       \* the size of data_, 4000 in the code
    kMaxNumericSize     \* the room asked for a number, 32 in the code

ASSUME RoomAssumption ==
    /\ kSmallBuffer \in Nat /\ kMaxNumericSize \in Nat \ {0}
    /\ kMaxNumericSize <= kSmallBuffer

\* length is cur_ - data_.  History: asked, the length of all that was put in, and
\* exact, whether all of it was written.
EmptyStream == [length |-> 0, asked |-> 0, exact |-> TRUE]

avail(stream) == kSmallBuffer - stream.length

\* FixedBuffer::append, the end of every << for texts: without room for it a text
\* is counted but not copied.  avail() is compared as a size_t: once cur_ is
\* behind the end it is large and the text is copied, behind the end.
PutText(stream, len) ==
    [length |-> stream.length + len,
     asked  |-> stream.asked + len,
     exact  |-> stream.exact /\ (avail(stream) > len \/ avail(stream) < 0)]

\* Mutant of PutNumber: the digits are written and not counted.
PutNumberUncounted(stream, len) ==
    [length |-> stream.length,
     asked  |-> stream.asked + len,
     exact  |-> stream.exact /\ avail(stream) >= kMaxNumericSize]

\* format_integer and << for double and const void *: without room for the longest
\* number none is written, or counted.
PutNumber(stream, len) ==
    LET room == avail(stream) >= kMaxNumericSize
    IN [length |-> stream.length + (IF room THEN len ELSE 0),
        asked  |-> stream.asked + len,
        exact  |-> stream.exact /\ room]

\* convert(): the digits of a value.  The sign of a negative one is overwritten by
\* the '\0' that ends the digits.  Nine digits at most are counted here: larger values
\* are written in the same way.
convert(value) ==
    LET digits == IF value < 0 THEN -value ELSE value
    IN 1 + Cardinality({power \in 1..8 : digits >= 10^power})

\* operator<<: integers of all widths; a pointer is "0x" and its decimal digits; a
\* double has at most 12 digits; everything else is a text, "(null)" for a null
\* const char * included.
Put(stream, piece) ==
    CASE piece.kind = "integer" -> PutNumber(stream, convert(piece.value))
      [] piece.kind = "pointer" -> PutNumber(stream, 2 + convert(piece.value))
      [] piece.kind = "double" -> PutNumber(stream, piece.len)
      [] OTHER -> PutText(stream, piece.len)
================================================================================
