----------------------------- MODULE StringPiece ------------------------------
(***************************************************************************)
(* src/muduo/base/StringPiece.h: a piece of a string is the sequence of    *)
(* its bytes, without the place it points to.                              *)
(***************************************************************************)
EXTENDS Integers, SequencesExt

\* The sign of memcmp on the first n bytes.
memcmp(a, b, n) ==
    LET differ == {i \in 1..n : a[i] # b[i]}
        i == Min(differ)
    IN IF differ = {} THEN 0 ELSE IF a[i] < b[i] THEN -1 ELSE 1

size(piece) == Len(piece)
remove_prefix(piece, n) == SubSeq(piece, n + 1, Len(piece))
remove_suffix(piece, n) == SubSeq(piece, 1, Len(piece) - n)

\* memcmp of what both have, as every order takes it.
CommonPart(a, b) == memcmp(a, b, Min({size(a), size(b)}))

Equal(a, b) == size(a) = size(b) /\ memcmp(a, b, size(a)) = 0

\* Mutant of Less: the lengths are compared first.
LessByLength(a, b) == size(a) < size(b) \/ (size(a) = size(b) /\ CommonPart(a, b) < 0)

\* STRINGPIECE_BINARY_PREDICATE for <, <=, >= and >.
Less(a, b) == CommonPart(a, b) < 0 \/ (CommonPart(a, b) = 0 /\ size(a) < size(b))
LessOrEqual(a, b) == CommonPart(a, b) < 0 \/ (CommonPart(a, b) = 0 /\ size(a) <= size(b))
GreaterOrEqual(a, b) == CommonPart(a, b) > 0 \/ (CommonPart(a, b) = 0 /\ size(a) >= size(b))
Greater(a, b) == CommonPart(a, b) > 0 \/ (CommonPart(a, b) = 0 /\ size(a) > size(b))

compare(a, b) ==
    CASE CommonPart(a, b) # 0 -> CommonPart(a, b)
      [] CommonPart(a, b) = 0 /\ size(a) < size(b) -> -1
      [] CommonPart(a, b) = 0 /\ size(a) > size(b) -> 1
      [] OTHER -> 0

start_with(piece, x) == size(piece) >= size(x) /\ memcmp(piece, x, size(x)) = 0

------------------------------------------------------------------------------
\* The order of a dictionary: a strict prefix comes first, otherwise the first byte
\* that differs decides.
ComesBefore(a, b) ==
    \/ IsStrictPrefix(a, b)
    \/ \E i \in 1..Min({Len(a), Len(b)}) :
          SubSeq(a, 1, i - 1) = SubSeq(b, 1, i - 1) /\ a[i] < b[i]

\* The five predicates and compare() are one total order, that of a dictionary, and
\* start_with() finds what remove_prefix() takes away (StringPiece.h:67-115).
OrdersAgree(a, b) ==
    /\ Equal(a, b) <=> a = b
    /\ Less(a, b) <=> ComesBefore(a, b)
    /\ Greater(a, b) <=> ComesBefore(b, a)
    /\ LessOrEqual(a, b) <=> ~Greater(a, b)
    /\ GreaterOrEqual(a, b) <=> ~Less(a, b)
    /\ compare(a, b) = (IF Less(a, b) THEN -1 ELSE IF Greater(a, b) THEN 1 ELSE 0)
    /\ start_with(a, b) <=> size(b) <= size(a) /\ a = b \o remove_prefix(a, size(b))
    /\ start_with(a, b) <=> size(b) <= size(a) /\ b = remove_suffix(a, size(a) - size(b))
===============================================================================
