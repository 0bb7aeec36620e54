-------------------------- MODULE AsyncLoggingProofs --------------------------
(***************************************************************************)
(* Proofs about AsyncLogging, for every buffer size, every set of line     *)
(* lengths, every drop threshold of at least two and any number of lines.  *)
(*                                                                         *)
(* The circulation of the four buffers: append() takes the buffer in       *)
(* reserve only when it leaves a full one in buffers_.  The exchange gives *)
(* away newBuffer1 always and newBuffer2 only if the reserve is empty, and *)
(* then it collects at least two buffers; a drop leaves two; so the refill *)
(* never comes up short.                                                   *)
(*                                                                         *)
(* The stream of lines: the lines in the buffers are the newest ones, one  *)
(* after the other; those before them are, in their order, in the file or  *)
(* dropped, and every dropped run of them has its notice.  That says what  *)
(* the file contains, what a gap in it means and what a crash costs.       *)
(*                                                                         *)
(* What they need of sequences comes first: induction over numbers and     *)
(* over sequences, FlattenSeq, the members of a sequence, sequences that   *)
(* increase and sequences of consecutive numbers.  Induction is over a SET *)
(* of numbers or sequences, by the least number outside of it, which is    *)
(* first-order; the induction theorems of the library take a predicate,    *)
(* which the provers cannot instantiate.                                   *)
(***************************************************************************)
EXTENDS AsyncLogging, SequenceTheorems, FiniteSetTheorems, WellFoundedInduction, TLAPS

------------------------------------------------------------------------------
(* Induction.                                                                 *)

\* A set of natural numbers that is not empty has a least element.
LEMMA LeastNumber ==
  ASSUME NEW T, T \subseteq Nat, T # {}
  PROVE  \E n \in T : \A m \in T : n <= m
  <1> DEFINE R == OpToRel(<, Nat)
  <1>1. IsWellFoundedOn(R, Nat)
    BY NatLessThanWellFounded
  <1>2. ASSUME NEW x \in Nat, NEW y \in Nat, y < x
        PROVE <<y, x>> \in R
    BY <1>2 DEF OpToRel
  <1> HIDE DEF R
  <1>3. PICK n \in T : \A m \in T : <<m, n>> \notin R
    BY <1>1, WFMin
  <1>4. ASSUME NEW m \in T PROVE n <= m
    <2>1. n \in Nat /\ m \in Nat OBVIOUS
    <2>2. ~ (m < n) BY <1>2, <1>3, <2>1
    <2> QED BY <2>1, <2>2
  <1> QED BY <1>4

\* Induction over the numbers, for a set.
LEMMA SetInduction ==
  ASSUME NEW X, 0 \in X, \A n \in Nat : n \in X => n + 1 \in X
  PROVE  Nat \subseteq X
  <1> SUFFICES ASSUME Nat \ X # {} PROVE FALSE
    OBVIOUS
  <1>1. PICK n \in Nat \ X : \A m \in Nat \ X : n <= m
    BY LeastNumber
  <1>2. n # 0 /\ n - 1 \in Nat /\ n - 1 \in X
    BY <1>1
  <1> QED BY <1>1, <1>2

\* Induction over sequences, for a set.
LEMMA SeqInduction ==
  ASSUME NEW S, NEW X, <<>> \in X,
         \A s \in Seq(S), e \in S : s \in X => Append(s, e) \in X
  PROVE  Seq(S) \subseteq X
  <1> DEFINE N == {n \in Nat : \A s \in Seq(S) : Len(s) = n => s \in X}
  <1>1. 0 \in N
    BY EmptySeq
  <1>2. ASSUME NEW n \in Nat, n \in N PROVE n + 1 \in N
    <2> SUFFICES ASSUME NEW s \in Seq(S), Len(s) = n + 1 PROVE s \in X
      OBVIOUS
    <2>1. s # <<>>
      BY EmptySeq
    <2>2. PICK t \in Seq(S), e \in S : s = Append(t, e)
      BY <2>1, SequenceEmptyOrAppend
    <2>3. Len(t) = n
      BY <2>2, AppendProperties
    <2> QED BY <1>2, <2>2, <2>3
  <1> HIDE DEF N
  <1>3. Nat \subseteq N
    BY <1>1, <1>2, SetInduction
  <1> QED BY <1>3, LenProperties DEF N

------------------------------------------------------------------------------
(* FlattenSeq.                                                                *)

\* The function in the definition of FlattenSeq.
Flattens(f, s, n) == f = [i \in 1..n |-> IF i = 1 THEN s[i] ELSE f[i-1] \o s[i]]

\* What such a function says of one index.
LEMMA FlattensAt ==
  ASSUME NEW f, NEW s, NEW n, Flattens(f, s, n), NEW i \in 1..n
  PROVE  f[i] = IF i = 1 THEN s[i] ELSE f[i-1] \o s[i]
  BY Zenon DEF Flattens

\* There is such a function for every length, by induction.
LEMMA FlattenExists ==
  ASSUME NEW s
  PROVE  \A n \in Nat : \E f : Flattens(f, s, n)
  <1> DEFINE X == {n \in Nat : \E f : Flattens(f, s, n)}
  <1>1. 0 \in X
    <2>1. <<>> = [i \in 1..0 |-> IF i = 1 THEN s[i] ELSE <<>>[i-1] \o s[i]]
      OBVIOUS
    <2> QED BY <2>1 DEF Flattens
  <1>2. ASSUME NEW n \in Nat, n \in X PROVE n + 1 \in X
    <2>1. PICK f : Flattens(f, s, n)
      BY <1>2, Zenon
    <2> DEFINE g == [i \in 1..n+1 |-> IF i = 1 THEN s[i] ELSE f[i-1] \o s[i]]
    <2>2. \A i \in 1..n : g[i] = f[i]
      BY <2>1, FlattensAt
    <2> DEFINE h == [i \in 1..n+1 |-> IF i = 1 THEN s[i] ELSE g[i-1] \o s[i]]
    <2>3. g = h
      <3> SUFFICES ASSUME NEW i \in 1..n+1
                   PROVE  (IF i = 1 THEN s[i] ELSE f[i-1] \o s[i])
                        = (IF i = 1 THEN s[i] ELSE g[i-1] \o s[i])
        BY Zenon
      <3>1. CASE i = 1
        BY <3>1
      <3>2. CASE i # 1
        <4>1. i - 1 \in 1..n BY <3>2
        <4> HIDE DEF g
        <4> QED BY <4>1, <2>2
      <3> QED BY <3>1, <3>2
    <2>4. Flattens(g, s, n+1)
      BY <2>3, Zenon DEF Flattens
    <2>5. n + 1 \in Nat OBVIOUS
    <2> HIDE DEF g
    <2> QED BY <2>4, <2>5
  <1> HIDE DEF X
  <1>3. Nat \subseteq X
    BY <1>1, <1>2, SetInduction
  <1> QED BY <1>3 DEF X

\* FlattenSeq is the last value of the function that defines it.
LEMMA FlattenEquation ==
  ASSUME NEW T, NEW s \in Seq(T), s # <<>>
  PROVE  \E f : Flattens(f, s, Len(s)) /\ FlattenSeq(s) = f[Len(s)]
  <1> DEFINE flatten[i \in 1..Len(s)] == IF i = 1 THEN s[i] ELSE flatten[i-1] \o s[i]
  <1>1. Len(s) # 0 /\ Len(s) \in Nat
    OBVIOUS
  <1>2. Flattens(flatten, s, Len(s))
    <2>1. \E f : Flattens(f, s, Len(s))
      BY <1>1, FlattenExists
    <2> QED BY <2>1, Zenon DEF Flattens
  <1>3. FlattenSeq(s) = flatten[Len(s)]
    BY <1>1, Zenon DEF FlattenSeq
  <1> HIDE DEF flatten
  <1> QED BY <1>2, <1>3

\* The functions that flatten a sequence and a longer one agree.
LEMMA FlattenUnique ==
  ASSUME NEW s, NEW t, NEW f, NEW g, NEW m \in Nat, NEW n \in Nat, n <= m,
         Flattens(f, s, n), Flattens(g, t, m), \A i \in 1..n : s[i] = t[i]
  PROVE  \A i \in 1..n : f[i] = g[i]
  <1> SUFFICES ASSUME NEW k \in 1..n, f[k] # g[k] PROVE FALSE
    OBVIOUS
  <1> DEFINE X == {i \in 1..n : f[i] # g[i]}
  <1>1. X \subseteq Nat /\ X # {}
    OBVIOUS
  <1>2. PICK i \in X : \A j \in X : i <= j
    BY <1>1, LeastNumber
  <1>3. /\ f[i] = IF i = 1 THEN s[i] ELSE f[i-1] \o s[i]
        /\ g[i] = IF i = 1 THEN t[i] ELSE g[i-1] \o t[i]
    <2>1. i \in 1..n /\ i \in 1..m OBVIOUS
    <2> QED BY <2>1, FlattensAt
  <1>4. CASE i = 1
    BY <1>3, <1>4
  <1>5. CASE i # 1
    <2>1. i - 1 \in 1..n /\ i - 1 \notin X
      BY <1>2, <1>5
    <2> QED BY <1>3, <1>5, <2>1
  <1> QED BY <1>4, <1>5

\* FlattenSeq of no sequences.
LEMMA FlattenEmpty == FlattenSeq(<<>>) = <<>>
  BY DEF FlattenSeq

\* What FlattenSeq does with one more sequence.
LEMMA FlattenAppend ==
  ASSUME NEW T, NEW s \in Seq(Seq(T)), NEW e \in Seq(T)
  PROVE  FlattenSeq(Append(s, e)) = FlattenSeq(s) \o e
  <1> DEFINE t == Append(s, e)
             n == Len(s)
             m == n + 1
  <1>1. /\ t \in Seq(Seq(T)) /\ t # <<>> /\ Len(t) = m
        /\ n \in Nat /\ m \in Nat /\ m \in 1..m /\ n <= m /\ m - 1 = n
        /\ \A i \in 1..n : s[i] = t[i]
        /\ t[m] = e
    BY AppendProperties, LenProperties
  <1> HIDE DEF t, m
  <1>2. PICK g : Flattens(g, t, m) /\ FlattenSeq(t) = g[m]
    BY <1>1, FlattenEquation
  <1>3. g[m] = IF m = 1 THEN e ELSE g[n] \o e
    BY <1>1, <1>2, FlattensAt
  <1>4. CASE s = <<>>
    <2>1. m = 1 BY <1>4 DEF m
    <2>2. FlattenSeq(t) = e BY <1>2, <1>3, <2>1
    <2>3. FlattenSeq(s) \o e = e BY <1>4, FlattenEmpty, ConcatEmptySeq
    <2> QED BY <2>2, <2>3 DEF t
  <1>5. CASE s # <<>>
    <2>1. PICK f : Flattens(f, s, n) /\ FlattenSeq(s) = f[n]
      BY <1>5, FlattenEquation
    <2>2. n \in 1..n /\ m # 1
      BY <1>1, <1>5, EmptySeq DEF m
    <2> HIDE DEF n
    <2>3. f[n] = g[n]
      <3>1. \A i \in 1..n : s[i] = t[i]
        BY <1>1
      <3>2. n \in Nat /\ m \in Nat /\ n <= m
        BY <1>1
      <3>3. Flattens(f, s, n) /\ Flattens(g, t, m)
        BY <1>2, <2>1
      <3> QED BY ONLY <2>2, <3>1, <3>2, <3>3, FlattenUnique
    <2> QED BY <1>2, <1>3, <2>1, <2>2, <2>3 DEF t
  <1> QED BY <1>4, <1>5

\* FlattenSeq of sequences over T is a sequence over T.
LEMMA FlattenType ==
  ASSUME NEW T, NEW s \in Seq(Seq(T))
  PROVE  FlattenSeq(s) \in Seq(T)
  <1> DEFINE X == {q \in Seq(Seq(T)) : FlattenSeq(q) \in Seq(T)}
  <1>1. <<>> \in X
    BY FlattenEmpty, EmptySeq
  <1>2. ASSUME NEW q \in Seq(Seq(T)), NEW e \in Seq(T), q \in X PROVE Append(q, e) \in X
    BY <1>2, FlattenAppend, ConcatProperties, AppendProperties
  <1> HIDE DEF X
  <1>3. Seq(Seq(T)) \subseteq X
    BY <1>1, <1>2, SeqInduction
  <1> QED BY <1>3 DEF X

\* FlattenSeq distributes over concatenation.
LEMMA FlattenConcat ==
  ASSUME NEW T, NEW s \in Seq(Seq(T)), NEW t \in Seq(Seq(T))
  PROVE  FlattenSeq(s \o t) = FlattenSeq(s) \o FlattenSeq(t)
  <1> DEFINE X == {q \in Seq(Seq(T)) : FlattenSeq(s \o q) = FlattenSeq(s) \o FlattenSeq(q)}
  <1>1. <<>> \in X
    BY FlattenEmpty, FlattenType, ConcatEmptySeq
  <1>2. ASSUME NEW q \in Seq(Seq(T)), NEW e \in Seq(T), q \in X PROVE Append(q, e) \in X
    <2>1. s \o Append(q, e) = Append(s \o q, e)
      OBVIOUS
    <2>2. FlattenSeq(Append(s \o q, e)) = FlattenSeq(s \o q) \o e
      BY FlattenAppend, ConcatProperties
    <2>3. FlattenSeq(s \o q) \o e = FlattenSeq(s) \o (FlattenSeq(q) \o e)
      <3>1. FlattenSeq(s) \in Seq(T) /\ FlattenSeq(q) \in Seq(T)
        BY FlattenType
      <3>2. FlattenSeq(s \o q) = FlattenSeq(s) \o FlattenSeq(q)
        BY <1>2
      <3> QED BY <3>1, <3>2, ConcatAssociative
    <2>4. FlattenSeq(Append(q, e)) = FlattenSeq(q) \o e
      BY FlattenAppend
    <2> QED BY <2>1, <2>2, <2>3, <2>4, AppendProperties
  <1> HIDE DEF X
  <1>3. Seq(Seq(T)) \subseteq X
    BY <1>1, <1>2, SeqInduction
  <1> QED BY <1>3 DEF X

------------------------------------------------------------------------------
(* Members.                                                                   *)

\* The members of a sequence are its values.
LEMMA MembersOf ==
  ASSUME NEW S, NEW s \in Seq(S)
  PROVE  /\ \A x : x \in ToSet(s) => \E i \in 1..Len(s) : s[i] = x
         /\ \A i \in 1..Len(s) : s[i] \in ToSet(s)
  <1>1. DOMAIN s = 1..Len(s)
    BY LenProperties
  <1>2. ToSet(s) = {s[i] : i \in 1..Len(s)}
    BY <1>1, Zenon DEF ToSet
  <1> QED BY <1>2

\* The members of a longer sequence, and of two in a row.
LEMMA MembersAppend ==
  ASSUME NEW S, NEW s \in Seq(S), NEW x \in S
  PROVE  ToSet(Append(s, x)) = ToSet(s) \cup {x}
  <1> DEFINE a == Append(s, x)
  <1>1. /\ a \in Seq(S) /\ Len(a) = Len(s) + 1 /\ Len(s) \in Nat
        /\ \A i \in 1..Len(s) : a[i] = s[i]
        /\ a[Len(s) + 1] = x
    BY AppendProperties, LenProperties
  <1> HIDE DEF a
  <1>2. ASSUME NEW y \in ToSet(a) PROVE y \in ToSet(s) \cup {x}
    <2>1. PICK i \in 1..Len(a) : a[i] = y
      BY <1>1, MembersOf
    <2> QED BY <1>1, <2>1, MembersOf
  <1>3. ASSUME NEW y \in ToSet(s) PROVE y \in ToSet(a)
    <2>1. PICK i \in 1..Len(s) : s[i] = y
      BY MembersOf
    <2>2. i \in 1..Len(a) /\ a[i] = y
      BY <1>1, <2>1
    <2> QED BY <1>1, <2>2, MembersOf
  <1>4. x \in ToSet(a)
    <2>1. Len(s) + 1 \in 1..Len(a)
      BY <1>1
    <2> QED BY <1>1, <2>1, MembersOf
  <1> QED BY <1>2, <1>3, <1>4 DEF a

LEMMA MembersConcat ==
  ASSUME NEW s \in Seq(Nat), NEW t \in Seq(Nat)
  PROVE  ToSet(s \o t) = ToSet(s) \cup ToSet(t)
  <1> DEFINE m == Len(s)
             n == Len(t)
             c == s \o t
  <1>1. /\ c \in Seq(Nat) /\ Len(c) = m + n /\ m \in Nat /\ n \in Nat
        /\ \A i \in 1..m+n : c[i] = IF i <= m THEN s[i] ELSE t[i - m]
    BY ConcatProperties, LenProperties
  <1> HIDE DEF c
  <1>2. ASSUME NEW x \in ToSet(c) PROVE x \in ToSet(s) \cup ToSet(t)
    <2>1. PICK i \in 1..Len(c) : c[i] = x
      BY <1>1, MembersOf
    <2>2. CASE i <= m
      <3>1. i \in 1..Len(s) /\ s[i] = x BY <1>1, <2>1, <2>2
      <3> QED BY <3>1, MembersOf
    <2>3. CASE ~(i <= m)
      <3>1. i - m \in 1..Len(t) /\ t[i - m] = x BY <1>1, <2>1, <2>3
      <3> QED BY <3>1, MembersOf
    <2> QED BY <2>2, <2>3
  <1>3. ASSUME NEW x \in ToSet(s) PROVE x \in ToSet(c)
    <2>1. PICK i \in 1..Len(s) : s[i] = x
      BY MembersOf
    <2>2. i \in 1..Len(c) /\ c[i] = x
      BY <1>1, <2>1
    <2> QED BY <1>1, <2>2, MembersOf
  <1>4. ASSUME NEW x \in ToSet(t) PROVE x \in ToSet(c)
    <2>1. PICK i \in 1..Len(t) : t[i] = x
      BY MembersOf
    <2>2. m + i \in 1..Len(c) /\ c[m + i] = x
      <3>1. m + i \in 1..m+n /\ ~(m + i <= m) /\ (m + i) - m = i BY <1>1
      <3> QED BY <1>1, <2>1, <3>1
    <2> QED BY <1>1, <2>2, MembersOf
  <1> QED BY <1>2, <1>3, <1>4 DEF c

------------------------------------------------------------------------------
(* Order.                                                                     *)

\* The elements that are not in D come in increasing order.
Increasing(s, D) ==
  \A i, j \in 1..Len(s) : i < j /\ s[i] \notin D /\ s[j] \notin D => s[i] < s[j]

\* A strictly increasing sequence.
Sorted(s) == \A i, j \in 1..Len(s) : i < j => s[i] < s[j]

\* Elements that are greater than all those before, or are in D, keep the order.
LEMMA IncreasingConcat ==
  ASSUME NEW s \in Seq(Nat), NEW t \in Seq(Nat), NEW D, NEW lo \in Nat,
         Increasing(s, D), Increasing(t, D),
         \A x \in ToSet(s) : x \in D \/ x <= lo,
         \A x \in ToSet(t) : x \in D \/ x > lo
  PROVE  Increasing(s \o t, D)
  <1> DEFINE m == Len(s)
             n == Len(t)
             c == s \o t
  <1>1. /\ Len(c) = m + n /\ m \in Nat /\ n \in Nat
        /\ \A i \in 1..m+n : c[i] = IF i <= m THEN s[i] ELSE t[i - m]
    BY ConcatProperties, LenProperties
  <1>2. \A i \in 1..m : s[i] \in Nat /\ s[i] \in ToSet(s)
    BY MembersOf, ElementOfSeq
  <1>3. \A i \in 1..n : t[i] \in Nat /\ t[i] \in ToSet(t)
    BY MembersOf, ElementOfSeq
  <1>4. /\ \A i, j \in 1..m : i < j /\ s[i] \notin D /\ s[j] \notin D => s[i] < s[j]
        /\ \A i, j \in 1..n : i < j /\ t[i] \notin D /\ t[j] \notin D => t[i] < t[j]
    BY DEF Increasing
  <1> HIDE DEF m, n, c
  <1> SUFFICES ASSUME NEW i \in 1..m+n, NEW j \in 1..m+n, i < j, c[i] \notin D, c[j] \notin D
               PROVE  c[i] < c[j]
    BY <1>1 DEF Increasing, c
  <1>5. CASE j <= m
    <2>1. i \in 1..m /\ j \in 1..m /\ c[i] = s[i] /\ c[j] = s[j] BY <1>1, <1>5
    <2> QED BY <1>4, <2>1
  <1>6. CASE i <= m /\ ~(j <= m)
    <2>1. i \in 1..m /\ j - m \in 1..n /\ c[i] = s[i] /\ c[j] = t[j - m] BY <1>1, <1>6
    <2>2. s[i] \in Nat /\ s[i] <= lo
      BY <1>2, <2>1
    <2>3. t[j - m] \in Nat /\ t[j - m] > lo
      BY <1>3, <2>1
    <2> QED BY <2>1, <2>2, <2>3
  <1>7. CASE ~(i <= m)
    <2>1. i - m \in 1..n /\ j - m \in 1..n /\ i - m < j - m /\ c[i] = t[i - m] /\ c[j] = t[j - m]
      BY <1>1, <1>7
    <2> QED BY <1>4, <2>1
  <1> QED BY <1>5, <1>6, <1>7

\* An increasing sequence is determined by the set of its elements.
LEMMA IncreasingUnique ==
  ASSUME NEW s \in Seq(Nat), NEW t \in Seq(Nat),
         Sorted(s), Sorted(t), ToSet(s) = ToSet(t)
  PROVE  s = t
  <1>1. ASSUME NEW a \in Seq(Nat), NEW b \in Seq(Nat),
               Sorted(a), Sorted(b), ToSet(a) = ToSet(b)
        PROVE  \A i \in 1..Len(a) : i <= Len(b) /\ a[i] = b[i]
    <2> DEFINE X == {i \in 1..Len(a) : ~(i <= Len(b) /\ a[i] = b[i])}
    <2>1. SUFFICES ASSUME X # {} PROVE FALSE
      OBVIOUS
    <2>2. Len(a) \in Nat /\ Len(b) \in Nat /\ DOMAIN a = 1..Len(a) /\ DOMAIN b = 1..Len(b)
      BY LenProperties
    <2>3. X \subseteq Nat
      BY <1>1, <2>2
    <2>4. PICK i \in X : \A j \in X : i <= j
      BY <1>1, <2>1, <2>3, LeastNumber
    <2>5. i \in 1..Len(a) /\ ~(i <= Len(b) /\ a[i] = b[i])
      OBVIOUS
    <2>6. \A j \in 1..Len(a) : j < i => j <= Len(b) /\ a[j] = b[j]
      BY <1>1, <2>2, <2>4
    <2> HIDE DEF X
    <2>7. (\A j \in 1..Len(a) : a[j] \in Nat) /\ (\A j \in 1..Len(b) : b[j] \in Nat)
      BY ElementOfSeq
    <2>8. PICK k \in 1..Len(b) : b[k] = a[i]
      <3>1. a[i] \in ToSet(b) BY <1>1, <2>5, MembersOf
      <3> QED BY <3>1, MembersOf
    <2>9. ~(k < i)
      <3> SUFFICES ASSUME k < i PROVE FALSE OBVIOUS
      <3>1. k \in 1..Len(a) BY <2>2, <2>5
      <3>2. a[k] = b[k] BY <2>6, <3>1
      <3>3. a[k] < a[i] BY <1>1, <2>5, <3>1 DEF Sorted
      <3>4. a[i] \in Nat BY <2>5, <2>7
      <3> QED BY <2>8, <3>2, <3>3, <3>4
    <2>10. i <= Len(b)
      BY <1>1, <2>2, <2>5, <2>8, <2>9
    <2>11. PICK m \in 1..Len(a) : a[m] = b[i]
      <3>1. b[i] \in ToSet(a) BY <1>1, <2>2, <2>5, <2>10, MembersOf
      <3> QED BY <3>1, MembersOf
    <2>12. ~(m < i)
      <3> SUFFICES ASSUME m < i PROVE FALSE OBVIOUS
      <3>1. a[m] = b[m] /\ m \in 1..Len(b) /\ i \in 1..Len(b) BY <1>1, <2>2, <2>5, <2>6, <2>10
      <3>2. b[m] < b[i] BY <1>1, <3>1 DEF Sorted
      <3>3. b[m] = b[i] BY <2>11, <3>1
      <3>4. b[i] \in Nat BY <2>7, <3>1
      <3> QED BY <3>2, <3>3, <3>4
    <2>13. k = i \/ b[i] < b[k]
      BY <1>1, <2>2, <2>5, <2>8, <2>9, <2>10 DEF Sorted
    <2>14. m = i \/ a[i] < a[m]
      BY <1>1, <2>2, <2>5, <2>11, <2>12 DEF Sorted
    <2>15. a[i] \in Nat /\ b[i] \in Nat
      BY <1>1, <2>5, <2>7, <2>8, <2>11
    <2>16. a[i] # b[i] BY <2>5, <2>10
    <2>17. b[i] < a[i] BY <2>8, <2>13, <2>16
    <2>18. a[i] < b[i] BY <2>11, <2>14, <2>16
    <2> QED BY <2>15, <2>17, <2>18
  <1>2. Len(s) \in Nat /\ Len(t) \in Nat
    BY LenProperties
  <1>3. \A i \in 1..Len(s) : i <= Len(t) /\ s[i] = t[i]
    BY <1>1
  <1>4. \A i \in 1..Len(t) : i <= Len(s) /\ t[i] = s[i]
    BY <1>1
  <1>5. Len(s) = Len(t)
    <2>1. Len(s) <= Len(t)
      <3>1. CASE Len(s) = 0 BY <1>2, <3>1
      <3>2. CASE Len(s) # 0
        <4>1. Len(s) \in 1..Len(s) BY <1>2, <3>2
        <4> QED BY <1>3, <4>1
      <3> QED BY <3>1, <3>2
    <2>2. Len(t) <= Len(s)
      <3>1. CASE Len(t) = 0 BY <1>2, <3>1
      <3>2. CASE Len(t) # 0
        <4>1. Len(t) \in 1..Len(t) BY <1>2, <3>2
        <4> QED BY <1>4, <4>1
      <3> QED BY <3>1, <3>2
    <2> QED BY <1>2, <2>1, <2>2
  <1> QED BY <1>3, <1>5, SeqEqual

\* Consecutive numbers that begin after lo.
Run(s, lo) == \A i \in 1..Len(s) : s[i] = lo + i

\* Consecutive numbers cut in two.
LEMMA RunConcat ==
  ASSUME NEW s \in Seq(Nat), NEW t \in Seq(Nat), NEW lo \in Nat, Run(s \o t, lo)
  PROVE  Run(s, lo) /\ Run(t, lo + Len(s)) /\ Len(s) \in Nat /\ Len(t) \in Nat
         /\ Len(s \o t) = Len(s) + Len(t)
  <1> DEFINE m == Len(s)
             n == Len(t)
             c == s \o t
  <1>1. /\ m \in Nat /\ n \in Nat /\ Len(c) = m + n
        /\ \A i \in 1..m+n : c[i] = IF i <= m THEN s[i] ELSE t[i - m]
    BY ConcatProperties, LenProperties
  <1>2. \A i \in 1..m+n : c[i] = lo + i
    BY <1>1 DEF Run
  <1> HIDE DEF m, n, c
  <1>3. ASSUME NEW i \in 1..m PROVE s[i] = lo + i
    <2>1. i \in 1..m+n /\ i <= m BY <1>1
    <2> QED BY <1>1, <1>2, <2>1
  <1>4. ASSUME NEW i \in 1..n PROVE t[i] = (lo + m) + i
    <2>1. m + i \in 1..m+n /\ ~(m + i <= m) /\ (m + i) - m = i BY <1>1
    <2>2. t[i] = lo + (m + i) BY <1>1, <1>2, <2>1
    <2> QED BY <1>1, <2>2
  <1> QED BY <1>1, <1>3, <1>4 DEF Run, m, n, c

\* The members of consecutive numbers.
LEMMA RunMembers ==
  ASSUME NEW s \in Seq(Nat), NEW lo \in Nat, Run(s, lo)
  PROVE  ToSet(s) = (lo + 1)..(lo + Len(s))
  <1>1. Len(s) \in Nat
    BY LenProperties
  <1>2. ASSUME NEW x \in ToSet(s) PROVE x \in (lo + 1)..(lo + Len(s))
    <2>1. PICK i \in 1..Len(s) : s[i] = x
      BY MembersOf
    <2> QED BY <1>1, <2>1 DEF Run
  <1>3. ASSUME NEW x \in (lo + 1)..(lo + Len(s)) PROVE x \in ToSet(s)
    <2>1. x - lo \in 1..Len(s) /\ lo + (x - lo) = x
      BY <1>1
    <2>2. s[x - lo] = x
      BY <2>1 DEF Run
    <2>3. s[x - lo] \in ToSet(s)
      BY <2>1, MembersOf
    <2> QED BY <2>2, <2>3
  <1> QED BY <1>2, <1>3

\* One more number.
LEMMA RunAppend ==
  ASSUME NEW s \in Seq(Nat), NEW lo \in Nat, Run(s, lo)
  PROVE  /\ Run(Append(s, lo + Len(s) + 1), lo)
         /\ Len(Append(s, lo + Len(s) + 1)) = Len(s) + 1
  <1> DEFINE m == Len(s)
             a == Append(s, lo + m + 1)
  <1>1. m \in Nat
    BY LenProperties
  <1>2. lo + m + 1 \in Nat
    BY <1>1
  <1>3. /\ Len(a) = m + 1
        /\ \A i \in 1..m : a[i] = s[i]
        /\ a[m + 1] = lo + m + 1
    BY <1>2, AppendProperties
  <1> HIDE DEF a, m
  <1>4. ASSUME NEW i \in 1..m+1 PROVE a[i] = lo + i
    <2>1. CASE i = m + 1 BY <1>1, <1>3, <2>1
    <2>2. CASE i # m + 1
      <3>1. i \in 1..m BY <1>1, <2>2
      <3> QED BY <1>3, <3>1 DEF Run, m
    <2> QED BY <2>1, <2>2
  <1> QED BY <1>3, <1>4 DEF Run, a, m

\* Consecutive numbers increase.
LEMMA RunIncreasing ==
  ASSUME NEW s \in Seq(Nat), NEW lo \in Nat, NEW D, Run(s, lo)
  PROVE  Increasing(s, D) /\ Sorted(s)
  <1>1. Len(s) \in Nat BY LenProperties
  <1> QED BY <1>1 DEF Run, Increasing, Sorted

------------------------------------------------------------------------------
(* The buffers and the lines.                                                 *)

\* What the backend still has to refill after an exchange, and where the owner
\* and the backend can be at the same time.
Circulation ==
    /\ pc \in {"absent", "entry"} => buffersToWrite = <<>>
    /\ pc = "absent" => owner \in {"new", "starting"}
    /\ owner = "new" => pc = "absent"
    /\ pc = "entry" => owner = "starting"
    /\ owner = "starting" => running_
    /\ pc \in {"write", "recycle"} =>
         newBuffer1 = NoBuffer /\ newBuffer2 \in {NoBuffer, EmptyBuffer}
    /\ pc = "write" /\ newBuffer2 = NoBuffer => Len(buffersToWrite) >= 2

IInv ==
    /\ TypeOK
    /\ LoopAssertions
    /\ RefillPossible
    /\ NextBufferInReserve
    /\ BuffersFit
    /\ Circulation

LEMMA EmptyIsBuffer == EmptyBuffer \in Buffers /\ EmptyBuffer # NoBuffer
  <1>1. EmptyBuffer \in Buffers
    BY DEF EmptyBuffer, Buffers
  <1> QED BY <1>1, NoBufferAssumption

LEMMA InitIInv == Init => IInv
  <1> SUFFICES ASSUME Init PROVE IInv
    OBVIOUS
  <1>1. TypeOK
    <2>1. <<>> \in Seq(Buffers) /\ 0 \in 0..LineLimit
      BY LineLimitAssumption
    <2> QED
      BY <2>1, EmptyIsBuffer DEF Init, TypeOK, Locations, OwnerLocations
  <1>2. BuffersFit
    BY BufferAssumption DEF Init, BuffersFit, EmptyBuffer
  <1>3. LoopAssertions /\ RefillPossible /\ NextBufferInReserve /\ Circulation
    BY EmptyIsBuffer
       DEF Init, LoopAssertions, RefillPossible, NextBufferInReserve, Circulation
  <1> QED BY <1>1, <1>2, <1>3 DEF IInv

\* The first n elements of a sequence.
LEMMA PrefixOf ==
  ASSUME NEW S, NEW s \in Seq(S), NEW n \in 0..Len(s)
  PROVE  /\ SubSeq(s, 1, n) \in Seq(S)
         /\ Len(SubSeq(s, 1, n)) = n
         /\ \A i \in 1..n : SubSeq(s, 1, n)[i] = s[i]
  <1>1. \A i \in 1..n : s[i] \in S
    BY ElementOfSeq
  <1> QED BY <1>1, SubSeqProperties

\* A line that fits is copied, and the buffer it is copied to has room left.
LEMMA AppendFits ==
  ASSUME NEW b \in Buffers, NEW line \in Nat, NEW len \in LineLengths,
         avail(b) > len
  PROVE  /\ FixedBufferAppend(b, line, len) \in Buffers
         /\ FixedBufferAppend(b, line, len).used < kLargeBuffer
  BY BufferAssumption DEF Buffers, avail, FixedBufferAppend

\* Every line fits an empty buffer.
LEMMA EmptyHasRoom ==
  ASSUME NEW len \in LineLengths
  PROVE  avail(EmptyBuffer) > len
  BY BufferAssumption DEF avail, EmptyBuffer

LEMMA AppendStep ==
  ASSUME IInv, NEW len \in LineLengths, Append_(len)
  PROVE  IInv'
  <1> DEFINE line == appended + 1
  <1>1. /\ line \in Nat /\ appended' \in 0..LineLimit
        /\ UNCHANGED <<running_, newBuffer1, newBuffer2, buffersToWrite, owner>>
    BY LineLimitAssumption DEF Append_, back, IInv, TypeOK
  <1>2. CASE avail(current_buffer_) > len
    <2>1. /\ current_buffer_' = FixedBufferAppend(current_buffer_, line, len)
          /\ UNCHANGED <<next_buffer_, buffers_, pc>>
      BY <1>2, BufferAssumption DEF Append_, IInv, TypeOK, Buffers, avail
    <2>2. /\ FixedBufferAppend(current_buffer_, line, len) \in Buffers
          /\ FixedBufferAppend(current_buffer_, line, len).used < kLargeBuffer
      BY <1>1, <1>2, AppendFits DEF IInv, TypeOK
    <2> QED
      BY <1>1, <2>1, <2>2
         DEF IInv, TypeOK, LoopAssertions, RefillPossible, NextBufferInReserve,
             BuffersFit, Circulation
  <1>3. CASE avail(current_buffer_) <= len
    <2> DEFINE fresh == IF next_buffer_ # NoBuffer THEN next_buffer_ ELSE EmptyBuffer
    <2>1. fresh = EmptyBuffer
      BY DEF IInv, NextBufferInReserve
    <2>2. /\ buffers_' = Append(buffers_, current_buffer_)
          /\ current_buffer_' = FixedBufferAppend(fresh, line, len)
          /\ next_buffer_' = NoBuffer
          /\ pc' = IF pc = "waiting" THEN "woken" ELSE pc
      BY <1>3, BufferAssumption DEF Append_, NotifyBackend, IInv, TypeOK, Buffers, avail
    <2>3. /\ FixedBufferAppend(fresh, line, len) \in Buffers
          /\ FixedBufferAppend(fresh, line, len).used < kLargeBuffer
      BY <1>1, <2>1, EmptyIsBuffer, EmptyHasRoom, AppendFits
    <2>4. /\ buffers_' \in Seq(Buffers)
          /\ buffers_' # <<>>
          /\ \A i \in DOMAIN buffers_' : buffers_'[i].used < kLargeBuffer
      BY <2>2 DEF IInv, TypeOK, BuffersFit
    <2> HIDE DEF fresh, line
    <2>5. TypeOK' /\ BuffersFit'
      BY <1>1, <2>2, <2>3, <2>4 DEF IInv, TypeOK, BuffersFit, Locations
    <2>6. LoopAssertions' /\ RefillPossible' /\ NextBufferInReserve' /\ Circulation'
      BY <1>1, <2>2, <2>4
         DEF IInv, LoopAssertions, RefillPossible, NextBufferInReserve, Circulation
    <2> QED BY <2>5, <2>6 DEF IInv
  <1> QED BY <1>2, <1>3, BufferAssumption DEF IInv, TypeOK, Buffers, avail

\* The exchange, with or without a wait before it.
LEMMA ExchangeStep ==
  ASSUME IInv, Exchange, pc \in {"collect", "woken"},
         UNCHANGED <<running_, owner, appended>>
  PROVE  IInv'
  <1>1. newBuffer1 = EmptyBuffer /\ newBuffer2 = EmptyBuffer
    BY DEF IInv, LoopAssertions
  <1>2. /\ buffersToWrite' = Append(buffers_, current_buffer_)
        /\ buffers_' = <<>>
        /\ current_buffer_' = EmptyBuffer
        /\ newBuffer1' = NoBuffer
        /\ pc' = "write"
    BY <1>1 DEF Exchange
  <1>3. /\ buffersToWrite' \in Seq(Buffers)
        /\ Len(buffersToWrite') = Len(buffers_) + 1
        /\ Len(buffers_) \in Nat
        /\ \A i \in DOMAIN buffersToWrite' : buffersToWrite'[i].used < kLargeBuffer
    BY <1>2 DEF IInv, TypeOK, BuffersFit
  <1>4. /\ next_buffer_' = EmptyBuffer
        /\ newBuffer2' \in {NoBuffer, EmptyBuffer}
        /\ newBuffer2' = NoBuffer => Len(buffers_) >= 1
    BY <1>1, EmptyIsBuffer DEF Exchange, IInv, NextBufferInReserve, TypeOK
  <1>5. EmptyBuffer.used < kLargeBuffer
    BY BufferAssumption DEF EmptyBuffer
  <1>6. TypeOK' /\ BuffersFit'
    BY <1>2, <1>3, <1>4, <1>5, EmptyIsBuffer DEF IInv, TypeOK, BuffersFit, Locations
  <1>7. LoopAssertions' /\ RefillPossible' /\ NextBufferInReserve' /\ Circulation'
    BY <1>2, <1>3, <1>4, EmptyIsBuffer
       DEF IInv, LoopAssertions, RefillPossible, NextBufferInReserve, Circulation
  <1> QED BY <1>6, <1>7 DEF IInv

\* After a drop two buffers are left; without one, all that were collected.
LEMMA WriteStep ==
  ASSUME IInv, BackendWrite
  PROVE  IInv'
  <1> DEFINE overload == Len(buffersToWrite) > DropThreshold
             kept == IF overload THEN SubSeq(buffersToWrite, 1, 2) ELSE buffersToWrite
  <1>1. /\ pc = "write" /\ pc' = "recycle"
        /\ buffersToWrite' = kept
        /\ UNCHANGED <<running_, current_buffer_, next_buffer_, buffers_, appended,
                       newBuffer1, newBuffer2, owner>>
    BY DEF BackendWrite, Goto, front
  <1>2. /\ buffersToWrite \in Seq(Buffers)
        /\ Len(buffersToWrite) \in Nat /\ Len(buffersToWrite) >= 1
    BY <1>1 DEF IInv, LoopAssertions, TypeOK
  <1>3. /\ kept \in Seq(Buffers)
        /\ Len(kept) \in Nat
        /\ Len(kept) = 2 \/ Len(kept) = Len(buffersToWrite)
        /\ \A i \in DOMAIN kept : kept[i].used < kLargeBuffer
    <2>1. CASE overload
      <3>1. kept = SubSeq(buffersToWrite, 1, 2) /\ Len(buffersToWrite) > 2
        BY <1>2, <2>1, ThresholdAssumption
      <3>2. /\ kept \in Seq(Buffers) /\ Len(kept) = 2
            /\ \A i \in 1..2 : kept[i] = buffersToWrite[i]
        BY <1>2, <3>1, PrefixOf
      <3> HIDE DEF kept
      <3> QED BY <1>2, <2>1, <3>1, <3>2 DEF IInv, BuffersFit
    <2>2. CASE ~overload
      BY <1>2, <2>2 DEF IInv, BuffersFit
    <2> QED BY <2>1, <2>2
  <1>4. RefillPossible'
    <2>1. newBuffer1 = NoBuffer /\ (newBuffer2 = NoBuffer => Len(buffersToWrite) >= 2)
      BY <1>1 DEF IInv, Circulation
    <2>2. Len(kept) >= 1 /\ (newBuffer2 = NoBuffer => Len(kept) >= 2)
      <3> HIDE DEF kept, overload
      <3> QED BY <1>2, <1>3, <2>1
    <2>3. /\ Len(buffersToWrite') \in Nat /\ Len(buffersToWrite') >= 1
          /\ newBuffer2' = NoBuffer => Len(buffersToWrite') >= 2
      <3> HIDE DEF kept, overload
      <3> QED BY <1>1, <1>3, <2>2
    <2> QED BY <2>3 DEF RefillPossible
  <1>5. TypeOK' /\ BuffersFit'
    <2> HIDE DEF kept, overload
    <2> QED BY <1>1, <1>3 DEF IInv, TypeOK, BuffersFit, Locations
  <1>6. LoopAssertions' /\ NextBufferInReserve' /\ Circulation'
    BY <1>1 DEF IInv, LoopAssertions, NextBufferInReserve, Circulation
  <1> QED BY <1>4, <1>5, <1>6 DEF IInv

\* The refill finds a buffer for each spare that was given away.
LEMMA RecycleStep ==
  ASSUME IInv, BackendRecycle
  PROVE  IInv'
  <1> DEFINE two == SubSeq(buffersToWrite, 1,
                           IF Len(buffersToWrite) > 2 THEN 2 ELSE Len(buffersToWrite))
             rest == IF newBuffer1 = NoBuffer THEN Front(two) ELSE two
  <1>1. /\ pc = "recycle" /\ pc' = "check"
        /\ newBuffer1' = IF newBuffer1 = NoBuffer THEN Refill(two) ELSE newBuffer1
        /\ newBuffer2' = IF newBuffer2 = NoBuffer THEN Refill(rest) ELSE newBuffer2
        /\ buffersToWrite' = <<>>
        /\ UNCHANGED <<running_, current_buffer_, next_buffer_, buffers_, appended, owner>>
    BY DEF BackendRecycle, Goto, front
  <1>2. /\ newBuffer1 = NoBuffer
        /\ newBuffer2 \in {NoBuffer, EmptyBuffer}
        /\ buffersToWrite \in Seq(Buffers)
        /\ Len(buffersToWrite) \in Nat
        /\ Len(buffersToWrite) >= 1
        /\ newBuffer2 = NoBuffer => Len(buffersToWrite) >= 2
    BY <1>1 DEF IInv, Circulation, RefillPossible, TypeOK
  <1>3. /\ two \in Seq(Buffers) /\ Len(two) \in Nat /\ Len(two) >= 1
        /\ newBuffer2 = NoBuffer => Len(two) = 2
    <2> DEFINE n == IF Len(buffersToWrite) > 2 THEN 2 ELSE Len(buffersToWrite)
    <2>1. /\ n \in 0..Len(buffersToWrite) /\ n >= 1
          /\ newBuffer2 = NoBuffer => n = 2
      <3> HIDE DEF two, rest
      <3>1. CASE Len(buffersToWrite) > 2
        <4>1. n = 2 BY <3>1
        <4> QED BY <1>2, <3>1, <4>1
      <3>2. CASE ~(Len(buffersToWrite) > 2)
        <4>1. n = Len(buffersToWrite) BY <3>2
        <4> HIDE DEF n
        <4> QED BY <1>2, <3>2, <4>1
      <3> QED BY <3>1, <3>2
    <2>2. two = SubSeq(buffersToWrite, 1, n)
      OBVIOUS
    <2> HIDE DEF n, two
    <2> QED BY <1>2, <2>1, <2>2, PrefixOf
  <1>4. newBuffer1' = EmptyBuffer
    <2> HIDE DEF two
    <2> QED BY <1>1, <1>2, <1>3 DEF Refill
  <1>5. newBuffer2' = EmptyBuffer
    <2>1. CASE newBuffer2 = NoBuffer
      <3>1. rest = Front(two)
        BY <1>2
      <3>2. Front(two) # <<>>
        <4> HIDE DEF two
        <4>1. Len(two) = 2
          BY <1>3, <2>1
        <4>2. Front(two) = SubSeq(two, 1, 1)
          BY <4>1 DEF Front
        <4>3. Len(Front(two)) = 1
          BY <1>3, <4>1, <4>2, PrefixOf
        <4> QED BY <4>3
      <3> QED
        <4> HIDE DEF rest, two
        <4> QED BY <1>1, <2>1, <3>1, <3>2 DEF Refill
    <2>2. CASE newBuffer2 = EmptyBuffer
      BY <1>1, <2>2, EmptyIsBuffer
    <2> QED BY <1>2, <2>1, <2>2
  <1> HIDE DEF two, rest
  <1>6. TypeOK' /\ BuffersFit'
    BY <1>1, <1>4, <1>5, EmptyIsBuffer DEF IInv, TypeOK, BuffersFit, Locations
  <1>7. LoopAssertions' /\ RefillPossible' /\ NextBufferInReserve' /\ Circulation'
    BY <1>1, <1>4, <1>5
       DEF IInv, LoopAssertions, RefillPossible, NextBufferInReserve, Circulation
  <1> QED BY <1>6, <1>7 DEF IInv

LEMMA StepIInv == IInv /\ [Next]_vars => IInv'
  <1> SUFFICES ASSUME IInv, [Next]_vars PROVE IInv'
    OBVIOUS
  <1>1. ASSUME NEW len \in LineLengths, Append_(len) PROVE IInv'
    BY <1>1, AppendStep
  <1> USE EmptyIsBuffer
  <1> USE DEF IInv, TypeOK, LoopAssertions, RefillPossible, NextBufferInReserve,
              BuffersFit, Circulation, Locations, OwnerLocations, front, back
  <1>2. CASE BackendEnter    BY <1>2 DEF BackendEnter, Goto
  <1>3. CASE BackendCheck    BY <1>3 DEF BackendCheck
  <1>4. CASE BackendCollect
    <2>1. CASE /\ buffers_ = <<>> /\ pc' = "waiting"
               /\ UNCHANGED <<front, newBuffer1, newBuffer2, buffersToWrite>>
      BY <1>4, <2>1 DEF BackendCollect
    <2>2. CASE Exchange /\ UNCHANGED appended
      BY <1>4, <2>2, ExchangeStep DEF BackendCollect
    <2> QED BY <1>4, <2>1, <2>2 DEF BackendCollect
  <1>5. CASE BackendTimeout  BY <1>5 DEF BackendTimeout, Goto
  <1>6. CASE BackendResume   BY <1>6, ExchangeStep DEF BackendResume
  <1>7. CASE BackendWrite    BY <1>7, WriteStep
  <1>8. CASE BackendRecycle  BY <1>8, RecycleStep
  <1>9. CASE Start           BY <1>9 DEF Start
  <1>10. CASE Stop           BY <1>10 DEF Stop
  <1>11. CASE StopNotify     BY <1>11 DEF StopNotify, NotifyBackend
  <1>12. CASE StopJoin       BY <1>12 DEF StopJoin
  <1>13. CASE UNCHANGED vars BY <1>13 DEF vars
  <1> QED
    BY <1>1, <1>2, <1>3, <1>4, <1>5, <1>6, <1>7, <1>8, <1>9, <1>10, <1>11, <1>12, <1>13
       DEF Next, Backend

LEMMA SpecIInv == Spec => []IInv
  BY InitIInv, StepIInv, PTL DEF Spec

------------------------------------------------------------------------------
\* Type correctness; in particular current_buffer_ is never null.
THEOREM TypeCorrect == Spec => []TypeOK
  <1>1. IInv => TypeOK BY DEF IInv
  <1> QED BY <1>1, SpecIInv, PTL

\* What thread_func() asserts round the loop and at the refill holds
\* (AsyncLogging.cc:61-126).
THEOREM AssertionsNeverFail == Spec => []AssertionsHold
  <1>1. IInv => AssertionsHold BY DEF IInv, AssertionsHold
  <1> QED BY <1>1, SpecIInv, PTL

\* The reserve is taken only together with a full buffer, and is empty.
THEOREM ReserveIsSound == Spec => []NextBufferInReserve
  <1>1. IInv => NextBufferInReserve BY DEF IInv
  <1> QED BY <1>1, SpecIInv, PTL

\* No line is ever appended to a buffer that has no room for it.
THEOREM LinesAlwaysFit == Spec => []BuffersFit
  <1>1. IInv => BuffersFit BY DEF IInv
  <1> QED BY <1>1, SpecIInv, PTL

------------------------------------------------------------------------------
(* A sequence without the elements of a set.                                  *)

\* Without, by recursion over the sequence.
LEMMA WithoutEmpty == ASSUME NEW D PROVE Without(<<>>, D) = <<>>
  <1>1. [i \in DOMAIN <<>> |-> IF <<>>[i] \in D THEN <<>> ELSE <<<<>>[i]>>] = <<>>
    OBVIOUS
  <1> QED BY <1>1, FlattenEmpty DEF Without

LEMMA WithoutAppend ==
  ASSUME NEW D, NEW s \in Seq(Nat), NEW x \in Nat
  PROVE  Without(Append(s, x), D)
           = IF x \in D THEN Without(s, D) ELSE Append(Without(s, D), x)
  <1> DEFINE cut(q) == [i \in DOMAIN q |-> IF q[i] \in D THEN <<>> ELSE <<q[i]>>]
             t == Append(s, x)
             e == IF x \in D THEN <<>> ELSE <<x>>
  <1>1. /\ t \in Seq(Nat) /\ DOMAIN t = 1..Len(s)+1 /\ DOMAIN s = 1..Len(s)
        /\ Len(s) \in Nat
        /\ \A i \in 1..Len(s) : t[i] = s[i]
        /\ t[Len(s)+1] = x
    BY AppendProperties, LenProperties
  <1>2. e \in Seq(Nat)
    OBVIOUS
  <1>3. cut(s) \in Seq(Seq(Nat)) /\ Len(cut(s)) = Len(s)
    <2>1. \A i \in 1..Len(s) : s[i] \in Nat
      BY ElementOfSeq
    <2>2. cut(s) \in [1..Len(s) -> Seq(Nat)]
      BY <1>1, <2>1
    <2> QED BY <1>1, <2>2
  <1>4. cut(t) = Append(cut(s), e)
    <2>1. \A i \in 1..Len(s)+1 : t[i] \in Nat
      BY <1>1, ElementOfSeq
    <2>2. cut(t) \in [1..Len(s)+1 -> Seq(Nat)]
      BY <1>1, <2>1
    <2>3. Append(cut(s), e) \in [1..Len(s)+1 -> Seq(Nat)]
      <3> DEFINE a == Append(cut(s), e)
      <3>1. a \in Seq(Seq(Nat)) /\ Len(a) = Len(s) + 1
        <4> HIDE DEF cut, e
        <4> QED BY <1>2, <1>3, AppendProperties
      <3> HIDE DEF cut, e, a
      <3>2. a \in [1..Len(s)+1 -> Seq(Nat)]
        BY <3>1, LenProperties
      <3> QED BY <3>2 DEF a
    <2>4. ASSUME NEW i \in 1..Len(s)+1 PROVE cut(t)[i] = Append(cut(s), e)[i]
      <3>1. CASE i = Len(s) + 1
        <4>1. cut(t)[i] = e
          BY <1>1, <3>1
        <4>2. Append(cut(s), e)[i] = e
          <5> HIDE DEF cut, e
          <5> QED BY <1>2, <1>3, <3>1, AppendProperties
        <4> QED BY <4>1, <4>2
      <3>2. CASE i # Len(s) + 1
        <4>1. i \in 1..Len(s) BY <1>1, <3>2
        <4>2. cut(t)[i] = cut(s)[i]
          BY <1>1, <4>1
        <4>3. Append(cut(s), e)[i] = cut(s)[i]
          <5> HIDE DEF cut, e
          <5> QED BY <1>2, <1>3, <4>1, AppendProperties
        <4> QED BY <4>2, <4>3
      <3> QED BY <3>1, <3>2
    <2> HIDE DEF cut, e, t
    <2> QED BY <2>2, <2>3, <2>4
  <1>5. /\ Without(t, D) = FlattenSeq(cut(t))
        /\ Without(s, D) = FlattenSeq(cut(s))
    BY DEF Without
  <1>6. FlattenSeq(cut(s)) \in Seq(Nat)
    <2> HIDE DEF cut
    <2> QED BY <1>3, FlattenType
  <1>7. FlattenSeq(cut(t)) = FlattenSeq(cut(s)) \o e
    <2> HIDE DEF cut, e
    <2> QED BY <1>2, <1>3, <1>4, FlattenAppend
  <1>8. CASE x \in D
    <2>1. e = <<>> BY <1>8
    <2> HIDE DEF cut, e
    <2> QED BY <1>5, <1>6, <1>7, <1>8, <2>1, ConcatEmptySeq
  <1>9. CASE x \notin D
    <2>1. e = <<x>> BY <1>9
    <2> HIDE DEF cut, e
    <2> QED BY <1>5, <1>6, <1>7, <1>9, <2>1, AppendIsConcat
  <1> QED BY <1>8, <1>9

\* What is left of a sequence whose other elements increase.
LEMMA WithoutIncreasing ==
  ASSUME NEW D, NEW s \in Seq(Nat), Increasing(s, D)
  PROVE  /\ Without(s, D) \in Seq(Nat)
         /\ Sorted(Without(s, D))
         /\ ToSet(Without(s, D)) = ToSet(s) \ D
  <1> DEFINE W(q) == /\ Without(q, D) \in Seq(Nat)
                     /\ Increasing(q, D) => Sorted(Without(q, D))
                     /\ ToSet(Without(q, D)) = ToSet(q) \ D
             X == {q \in Seq(Nat) : W(q)}
  <1>1. <<>> \in X
    <2>1. ToSet(<<>>) = {} BY DEF ToSet
    <2>2. Sorted(<<>>) BY DEF Sorted
    <2> QED BY <2>1, <2>2, WithoutEmpty, EmptySeq
  <1>2. ASSUME NEW q \in Seq(Nat), NEW x \in Nat, q \in X PROVE Append(q, x) \in X
    <2> DEFINE p == Append(q, x)
               w == Without(q, D)
    <2>1. /\ p \in Seq(Nat) /\ Len(p) = Len(q) + 1 /\ Len(q) \in Nat
          /\ \A i \in 1..Len(q) : p[i] = q[i] /\ q[i] \in Nat
          /\ p[Len(q) + 1] = x
      BY AppendProperties, LenProperties, ElementOfSeq
    <2>2. w \in Seq(Nat) /\ ToSet(w) = ToSet(q) \ D /\ (Increasing(q, D) => Sorted(w))
      BY <1>2
    <2>3. Without(p, D) = IF x \in D THEN w ELSE Append(w, x)
      BY WithoutAppend
    <2>4. ToSet(p) = ToSet(q) \cup {x}
      BY MembersAppend
    <2>5. Increasing(p, D) => Increasing(q, D)
      <3> DEFINE m == Len(q)
                 n == Len(p)
      <3>1. /\ m \in Nat /\ n = m + 1 /\ 1..m \subseteq 1..n
            /\ \A i \in 1..m : p[i] = q[i]
        BY <2>1
      <3> HIDE DEF p, m, n
      <3> SUFFICES ASSUME \A i, j \in 1..n : i < j /\ p[i] \notin D /\ p[j] \notin D => p[i] < p[j],
                          NEW i \in 1..m, NEW j \in 1..m, i < j, q[i] \notin D, q[j] \notin D
                   PROVE  q[i] < q[j]
        BY DEF Increasing, m, n
      <3>2. i \in 1..n /\ j \in 1..n /\ p[i] = q[i] /\ p[j] = q[j]
        BY ONLY <3>1, i \in 1..m, j \in 1..m
      <3> QED BY <3>2
    <2>6. CASE x \in D
      <3> HIDE DEF p, w
      <3>1. p \in Seq(Nat) /\ W(p)
        BY <2>1, <2>2, <2>3, <2>4, <2>5, <2>6
      <3> QED BY <3>1 DEF p
    <2>7. CASE x \notin D
      <3>0. Without(p, D) = Append(w, x)
        BY <2>3, <2>7
      <3>1. /\ Append(w, x) \in Seq(Nat) /\ Len(Append(w, x)) = Len(w) + 1 /\ Len(w) \in Nat
            /\ \A i \in 1..Len(w) : Append(w, x)[i] = w[i] /\ w[i] \in Nat
            /\ Append(w, x)[Len(w) + 1] = x
        BY <2>2, AppendProperties, LenProperties, ElementOfSeq
      <3>2. ToSet(Append(w, x)) = ToSet(w) \cup {x}
        BY <2>2, MembersAppend
      <3>3. ASSUME Increasing(p, D) PROVE Sorted(Append(w, x))
        <4>1. Sorted(w)
          BY <2>2, <2>5, <3>3
        <4>2. ASSUME NEW i \in 1..Len(w) PROVE w[i] < x
          <5>1. w[i] \in ToSet(q) \ D
            <6>1. w[i] \in ToSet(w)
              BY <2>2, MembersOf
            <6> QED BY <2>2, <6>1
          <5>2. PICK j \in 1..Len(q) : q[j] = w[i]
            BY <5>1, MembersOf
          <5> HIDE DEF p, w
          <5> QED BY <2>1, <2>7, <3>3, <5>1, <5>2 DEF Increasing
        <4> DEFINE a == Append(w, x)
        <4> HIDE DEF a, w
        <4> SUFFICES ASSUME NEW i \in 1..Len(w)+1, NEW j \in 1..Len(w)+1, i < j PROVE a[i] < a[j]
          BY <3>1 DEF Sorted, a
        <4>3. CASE j = Len(w) + 1
          BY <3>1, <4>2, <4>3 DEF a
        <4>4. CASE j # Len(w) + 1
          <5>1. i \in 1..Len(w) /\ j \in 1..Len(w)
            <6> DEFINE m == Len(w)
            <6>1. m \in Nat /\ i \in 1..m+1 /\ j \in 1..m+1 /\ j # m+1 /\ i < j
              BY <3>1, <4>4
            <6> HIDE DEF m
            <6>2. i \in 1..m /\ j \in 1..m
              BY <6>1
            <6> QED BY <6>2 DEF m
          <5>2. a[i] = w[i] /\ a[j] = w[j]
            BY <3>1, <5>1 DEF a
          <5> QED BY <4>1, <5>1, <5>2 DEF Sorted
        <4> QED BY <4>3, <4>4
      <3>4. p \in Seq(Nat) /\ W(p)
        <4> HIDE DEF p, w
        <4> QED BY <2>1, <2>2, <2>4, <2>7, <3>0, <3>1, <3>2, <3>3
      <3> QED BY <3>4
    <2> QED BY <2>6, <2>7
  <1> HIDE DEF X
  <1>3. Seq(Nat) \subseteq X
    BY <1>1, <1>2, SeqInduction
  <1> QED BY <1>3 DEF X

------------------------------------------------------------------------------
(* The lines of a sequence of buffers.                                        *)

\* LinesOf, by recursion over the buffers: every buffer adds its lines.
LEMMA LinesSequence ==
  ASSUME NEW bs \in Seq(Buffers)
  PROVE  /\ [i \in DOMAIN bs |-> bs[i].lines] \in Seq(Seq(Nat))
         /\ Len([i \in DOMAIN bs |-> bs[i].lines]) = Len(bs)
  <1>1. DOMAIN bs = 1..Len(bs) /\ Len(bs) \in Nat
    BY LenProperties
  <1>2. \A i \in 1..Len(bs) : bs[i].lines \in Seq(Nat)
    <2>1. \A i \in 1..Len(bs) : bs[i] \in Buffers BY ElementOfSeq
    <2> QED BY <2>1 DEF Buffers
  <1>3. [i \in DOMAIN bs |-> bs[i].lines] \in [1..Len(bs) -> Seq(Nat)]
    BY <1>1, <1>2
  <1> QED BY <1>1, <1>3

LEMMA LinesType == ASSUME NEW bs \in Seq(Buffers) PROVE LinesOf(bs) \in Seq(Nat)
  BY LinesSequence, FlattenType DEF LinesOf

LEMMA LinesEmpty == LinesOf(<<>>) = <<>>
  <1>1. [i \in DOMAIN <<>> |-> <<>>[i].lines] = <<>>
    OBVIOUS
  <1> QED BY <1>1, FlattenEmpty DEF LinesOf

LEMMA LinesConcat ==
  ASSUME NEW bs \in Seq(Buffers), NEW cs \in Seq(Buffers)
  PROVE  LinesOf(bs \o cs) = LinesOf(bs) \o LinesOf(cs)
  <1> DEFINE L(q) == [i \in DOMAIN q |-> q[i].lines]
             m == Len(bs)
             n == Len(cs)
  <1>1. /\ bs \o cs \in Seq(Buffers) /\ Len(bs \o cs) = m + n
        /\ m \in Nat /\ n \in Nat
        /\ \A i \in 1..m+n : (bs \o cs)[i] = IF i <= m THEN bs[i] ELSE cs[i - m]
        /\ DOMAIN (bs \o cs) = 1..m+n /\ DOMAIN bs = 1..m /\ DOMAIN cs = 1..n
    BY ConcatProperties, LenProperties
  <1>2. /\ L(bs) \in Seq(Seq(Nat)) /\ Len(L(bs)) = m
        /\ L(cs) \in Seq(Seq(Nat)) /\ Len(L(cs)) = n
        /\ L(bs \o cs) \in Seq(Seq(Nat)) /\ Len(L(bs \o cs)) = m + n
    BY <1>1, LinesSequence
  <1>3. ASSUME NEW i \in 1..m+n PROVE L(bs \o cs)[i] = IF i <= m THEN L(bs)[i] ELSE L(cs)[i - m]
    <2>1. L(bs \o cs)[i] = (bs \o cs)[i].lines
      BY <1>1
    <2>2. CASE i <= m
      <3>1. i \in 1..m BY <1>1, <2>2
      <3>2. L(bs)[i] = bs[i].lines BY <1>1, <3>1
      <3> HIDE DEF L
      <3> QED BY <1>1, <2>1, <2>2, <3>2
    <2>3. CASE ~(i <= m)
      <3>1. i - m \in 1..n BY <1>1, <2>3
      <3>2. L(cs)[i - m] = cs[i - m].lines BY <1>1, <3>1
      <3> HIDE DEF L
      <3> QED BY <1>1, <2>1, <2>3, <3>2
    <2> QED BY <2>2, <2>3
  <1>4. /\ LinesOf(bs) = FlattenSeq(L(bs)) /\ LinesOf(cs) = FlattenSeq(L(cs))
        /\ LinesOf(bs \o cs) = FlattenSeq(L(bs \o cs))
    BY DEF LinesOf
  <1> HIDE DEF L, m, n
  <1>5. L(bs \o cs) = L(bs) \o L(cs)
    <2>1. /\ L(bs) \o L(cs) \in Seq(Seq(Nat)) /\ Len(L(bs) \o L(cs)) = m + n
          /\ \A i \in 1..m+n : (L(bs) \o L(cs))[i] = IF i <= m THEN L(bs)[i] ELSE L(cs)[i - m]
      BY <1>2, ConcatProperties
    <2>2. L(bs \o cs) \in Seq(Seq(Nat)) /\ Len(L(bs \o cs)) = m + n
      BY <1>2
    <2> DEFINE p == L(bs \o cs)
               q == L(bs) \o L(cs)
    <2> HIDE DEF p, q
    <2>3. p \in Seq(Seq(Nat)) /\ q \in Seq(Seq(Nat)) /\ Len(p) = Len(q) /\ Len(p) = m + n
      BY <2>1, <2>2 DEF p, q
    <2>4. \A i \in 1..m+n : p[i] = q[i]
      BY <1>3, <2>1 DEF p, q
    <2> QED BY <2>3, <2>4, SeqEqual DEF p, q
  <1>6. FlattenSeq(L(bs) \o L(cs)) = FlattenSeq(L(bs)) \o FlattenSeq(L(cs))
    <2> DEFINE p == L(bs)
               q == L(cs)
    <2>1. p \in Seq(Seq(Nat)) /\ q \in Seq(Seq(Nat)) BY <1>2
    <2> HIDE DEF p, q
    <2>2. FlattenSeq(p \o q) = FlattenSeq(p) \o FlattenSeq(q)
      BY <2>1, FlattenConcat
    <2> QED BY <2>2 DEF p, q
  <1> QED BY <1>4, <1>5, <1>6

LEMMA LinesOne ==
  ASSUME NEW b \in Buffers
  PROVE  LinesOf(<<b>>) = b.lines
  <1>1. [i \in DOMAIN <<b>> |-> <<b>>[i].lines] = <<b.lines>>
    OBVIOUS
  <1>2. b.lines \in Seq(Nat)
    BY DEF Buffers
  <1>3. <<b.lines>> = Append(<<>>, b.lines)
    OBVIOUS
  <1>4. FlattenSeq(<<b.lines>>) = <<>> \o b.lines
    BY <1>2, <1>3, EmptySeq, FlattenAppend, FlattenEmpty
  <1> QED BY <1>1, <1>2, <1>4, ConcatEmptySeq DEF LinesOf

LEMMA LinesAppend ==
  ASSUME NEW bs \in Seq(Buffers), NEW b \in Buffers
  PROVE  LinesOf(Append(bs, b)) = LinesOf(bs) \o b.lines
  <1>1. Append(bs, b) = bs \o <<b>> /\ <<b>> \in Seq(Buffers)
    BY AppendIsConcat
  <1> QED BY <1>1, LinesConcat, LinesOne

\* A drop cuts the lines in two.
LEMMA LinesSplit ==
  ASSUME NEW bs \in Seq(Buffers), Len(bs) >= 2
  PROVE  /\ SubSeq(bs, 1, 2) \in Seq(Buffers)
         /\ SubSeq(bs, 3, Len(bs)) \in Seq(Buffers)
         /\ LinesOf(bs) = LinesOf(SubSeq(bs, 1, 2)) \o LinesOf(SubSeq(bs, 3, Len(bs)))
  <1> DEFINE n == Len(bs)
  <1>1. n \in Nat /\ n >= 2 /\ (\A i \in 1..n : bs[i] \in Buffers)
    BY ElementOfSeq, LenProperties
  <1>2. SubSeq(bs, 1, 2) \o SubSeq(bs, 3, n) = SubSeq(bs, 1, n)
    <2>1. 1 \in 1..Len(bs)+1 /\ 2 \in (1-1)..Len(bs) /\ Len(bs) \in 2..Len(bs)
      BY <1>1
    <2>2. SubSeq(bs, 1, 2) \o SubSeq(bs, 2 + 1, n) = SubSeq(bs, 1, n)
      BY <2>1, ConcatAdjacentSubSeq
    <2>3. 2 + 1 = 3 OBVIOUS
    <2> QED BY <2>2, <2>3
  <1>3. SubSeq(bs, 1, n) = bs
    BY SubSeqFull
  <1> HIDE DEF n
  <1>4. SubSeq(bs, 1, 2) \in Seq(Buffers)
    BY <1>1, SubSeqProperties
  <1>5. SubSeq(bs, 3, n) \in Seq(Buffers)
    <2>1. \A i \in 3..n : bs[i] \in Buffers BY <1>1
    <2>2. 3 \in Int /\ n \in Int BY <1>1
    <2> QED BY <2>1, <2>2, SubSeqProperties
  <1>6. LinesOf(SubSeq(bs, 1, 2) \o SubSeq(bs, 3, n))
          = LinesOf(SubSeq(bs, 1, 2)) \o LinesOf(SubSeq(bs, 3, n))
    BY <1>4, <1>5, LinesConcat
  <1>7. SubSeq(bs, 1, 2) \o SubSeq(bs, 3, n) = bs
    BY <1>2, <1>3
  <1> QED BY <1>4, <1>5, <1>6, <1>7 DEF n

------------------------------------------------------------------------------
(* The stream of lines.                                                       *)

\* The lines of the buffers collected by the backend and not written yet.
Collected == IF pc = "write" THEN LinesOf(buffersToWrite) ELSE <<>>

\* Pending in its three parts.
LEMMA PendingType ==
  ASSUME TypeOK
  PROVE  /\ Collected \in Seq(Nat) /\ LinesOf(buffers_) \in Seq(Nat)
         /\ current_buffer_.lines \in Seq(Nat)
         /\ Pending = Collected \o LinesOf(buffers_) \o current_buffer_.lines
         /\ Pending \in Seq(Nat)
  <1>1. Collected \in Seq(Nat)
    BY LinesType, EmptySeq DEF Collected, TypeOK
  <1>2. LinesOf(buffers_) \in Seq(Nat) /\ current_buffer_.lines \in Seq(Nat)
    BY LinesType DEF TypeOK, Buffers
  <1>3. Pending = Collected \o LinesOf(buffers_) \o current_buffer_.lines
    BY DEF Pending, Collected
  <1> QED BY <1>1, <1>2, <1>3, ConcatProperties

\* The backend is between an exchange and the flush that follows it.
Working == pc \in {"write", "recycle"}

\* The number of lines that are not in a buffer any more.
Base == appended - Len(Pending)

\* The lines that come first after a drop.
Resumptions == {line \in 2..(appended + 1) : line - 1 \in dropped /\ line \notin dropped}

\* Every line is in a buffer, in the file or dropped: the newest ones, one after the
\* other, in the buffers, the older ones in their order in the file.  A drop was
\* announced wherever the lines resume after one.  What is written but not on disk
\* is what the backend is working on.
Stream ==
  /\ Base \in Nat
  /\ Run(Pending, Base)
  /\ output \in Seq(Nat)
  /\ Increasing(output, {Notice})
  /\ dropped \subseteq 1..Base
  /\ ToSet(output) \ {Notice} = (1..Base) \ dropped
  /\ Cardinality(Resumptions) <= Cardinality(Notices)
  /\ onDisk \in 0..Len(output)
  /\ ~Working => onDisk = Len(output)

\* Finite sets of numbers.
LEMMA ResumptionsFinite ==
  ASSUME appended \in Nat
  PROVE  IsFiniteSet(Resumptions) /\ Cardinality(Resumptions) \in Nat
  <1>1. IsFiniteSet(2..(appended + 1))
    BY FS_Interval
  <1>2. Resumptions \subseteq 2..(appended + 1)
    BY DEF Resumptions
  <1> QED BY <1>1, <1>2, FS_Subset, FS_CardinalityType

LEMMA NoticesFinite ==
  ASSUME output \in Seq(Nat)
  PROVE  IsFiniteSet(Notices) /\ Cardinality(Notices) \in Nat
  <1>1. DOMAIN output = 1..Len(output) /\ Len(output) \in Nat
    BY LenProperties
  <1>2. IsFiniteSet(1..Len(output))
    BY <1>1, FS_Interval
  <1>3. Notices \subseteq 1..Len(output)
    BY <1>1 DEF Notices
  <1> QED BY <1>2, <1>3, FS_Subset, FS_CardinalityType

\* Nothing was appended yet.
LEMMA InitStream == Init => Stream
  <1> SUFFICES ASSUME Init PROVE Stream
    OBVIOUS
  <1>1. Pending = <<>>
    <2>1. Pending = (<<>> \o LinesOf(<<>>)) \o <<>>
      BY DEF Init, Pending, EmptyBuffer
    <2>2. (<<>> \o <<>>) \o <<>> = <<>>
      OBVIOUS
    <2> QED BY <2>1, <2>2, LinesEmpty
  <1>2. Base = 0
    <2>1. appended = 0 /\ Len(<<>>) = 0 BY EmptySeq DEF Init
    <2>2. Base = 0 - 0 BY <1>1, <2>1 DEF Base
    <2> QED BY <2>2
  <1>3. Run(Pending, Base) /\ Increasing(output, {Notice})
    BY <1>1 DEF Run, Increasing, Init
  <1>4. ToSet(output) = {} /\ dropped = {} /\ output = <<>> /\ onDisk = 0
    BY DEF Init, ToSet
  <1>5. Resumptions = {} /\ Notices = {}
    BY <1>4 DEF Resumptions, Notices
  <1>6. (1..Base) \ dropped = {}
    BY <1>2
  <1>7. output \in Seq(Nat) /\ onDisk \in 0..Len(output) /\ onDisk = Len(output)
    BY <1>4, EmptySeq
  <1>8. Cardinality({}) = 0
    BY FS_EmptySet
  <1> QED BY <1>2, <1>3, <1>4, <1>5, <1>6, <1>7, <1>8 DEF Stream

\* What each action does to the stream of lines.
LEMMA AppendStream ==
  ASSUME IInv, NEW len \in LineLengths, Append_(len)
  PROVE  /\ appended' = appended + 1
         /\ Pending' = Append(Pending, appended + 1)
         /\ UNCHANGED <<output, onDisk, dropped>>
         /\ Working' <=> Working
  <1> DEFINE line == appended + 1
             B == Collected
             F == LinesOf(buffers_)
             C == current_buffer_.lines
  <1>1. /\ line \in Nat /\ appended' = line
        /\ UNCHANGED <<buffersToWrite, output, onDisk, dropped>>
    BY LineLimitAssumption DEF Append_, back, IInv, TypeOK
  <1>2. /\ B \in Seq(Nat) /\ F \in Seq(Nat) /\ C \in Seq(Nat) /\ Pending = B \o F \o C
    BY PendingType DEF IInv
  <1>3. IInv'
    BY AppendStep
  <1>4. Pending' = Collected' \o LinesOf(buffers_') \o current_buffer_'.lines
    BY <1>3 DEF Pending, Collected
  <1>5. CASE avail(current_buffer_) > len
    <2>1. /\ current_buffer_' = FixedBufferAppend(current_buffer_, line, len)
          /\ UNCHANGED <<next_buffer_, buffers_, pc>>
      BY <1>5, BufferAssumption DEF Append_, IInv, TypeOK, Buffers, avail
    <2>2. current_buffer_'.lines = Append(C, line)
      BY <1>5, <2>1 DEF FixedBufferAppend
    <2>3. Collected' = B
      BY <1>1, <2>1 DEF Collected
    <2>4. Pending' = (B \o F) \o Append(C, line)
      BY <1>4, <2>1, <2>2, <2>3
    <2>5. (B \o F) \o Append(C, line) = Append((B \o F) \o C, line)
      <3> HIDE DEF B, F, C, line
      <3> QED BY <1>1, <1>2, ConcatProperties
    <2> QED BY <1>1, <1>2, <2>1, <2>4, <2>5 DEF Working
  <1>6. CASE avail(current_buffer_) <= len
    <2> DEFINE fresh == IF next_buffer_ # NoBuffer THEN next_buffer_ ELSE EmptyBuffer
    <2>1. fresh = EmptyBuffer
      BY DEF IInv, NextBufferInReserve
    <2>2. /\ buffers_' = Append(buffers_, current_buffer_)
          /\ current_buffer_' = FixedBufferAppend(fresh, line, len)
          /\ pc' = IF pc = "waiting" THEN "woken" ELSE pc
      BY <1>6, BufferAssumption DEF Append_, NotifyBackend, IInv, TypeOK, Buffers, avail
    <2>3. current_buffer_'.lines = <<line>>
      <3>1. current_buffer_' = FixedBufferAppend(EmptyBuffer, line, len)
        BY <2>1, <2>2
      <3>2. FixedBufferAppend(EmptyBuffer, line, len).lines = Append(<<>>, line)
        BY EmptyHasRoom DEF FixedBufferAppend, EmptyBuffer
      <3> QED BY <3>1, <3>2
    <2>4. Collected' = B
      BY <1>1, <2>2 DEF Collected
    <2>5. LinesOf(buffers_') = F \o C
      BY <2>2, LinesAppend DEF IInv, TypeOK
    <2>6. Pending' = (B \o (F \o C)) \o <<line>>
      BY <1>4, <2>3, <2>4, <2>5
    <2>7. (B \o (F \o C)) \o <<line>> = Append((B \o F) \o C, line)
      <3> HIDE DEF B, F, C, line
      <3>1. B \o (F \o C) = (B \o F) \o C
        <4>1. B \in Seq(Nat) /\ F \in Seq(Nat) /\ C \in Seq(Nat) BY <1>2
        <4> QED BY ONLY <4>1, ConcatAssociative
      <3>2. (B \o F) \o C \in Seq(Nat)
        BY <1>2, ConcatProperties
      <3> QED BY <1>1, <3>1, <3>2, AppendIsConcat
    <2>8. Working' <=> Working
      BY <2>2 DEF Working
    <2> QED BY <1>1, <1>2, <2>6, <2>7, <2>8
  <1> QED BY <1>5, <1>6, BufferAssumption DEF IInv, TypeOK, Buffers, avail

\* The exchange moves lines, and keeps their order.
LEMMA ExchangeStream ==
  ASSUME IInv, Exchange, pc \in {"collect", "woken"}
  PROVE  Pending' = Pending
  <1> DEFINE F == LinesOf(buffers_)
             C == current_buffer_.lines
  <1>1. /\ buffersToWrite' = Append(buffers_, current_buffer_)
        /\ buffers_' = <<>> /\ pc' = "write"
        /\ current_buffer_' = EmptyBuffer
    BY DEF Exchange, IInv, LoopAssertions
  <1>2. /\ F \in Seq(Nat) /\ C \in Seq(Nat)
        /\ Pending = (<<>> \o F) \o C
    BY PendingType DEF IInv, Pending
  <1>3. Pending' = ((F \o C) \o <<>>) \o <<>>
    <2>1. LinesOf(buffersToWrite') = F \o C
      BY <1>1, LinesAppend DEF IInv, TypeOK
    <2>2. LinesOf(buffers_') = <<>>
      BY <1>1, LinesEmpty
    <2>3. current_buffer_'.lines = <<>>
      BY <1>1 DEF EmptyBuffer
    <2> QED BY <1>1, <2>1, <2>2, <2>3 DEF Pending
  <1> HIDE DEF F, C
  <1>4. F \o C \in Seq(Nat)
    BY <1>2, ConcatProperties
  <1> QED BY <1>2, <1>3, <1>4, ConcatEmptySeq

\* A write takes lines from the front of the stream: it writes the first of them and,
\* with a notice before, drops the others.
LEMMA WriteStream ==
  ASSUME IInv, BackendWrite
  PROVE  \E K, E \in Seq(Nat) :
           /\ Pending = K \o (E \o Pending')
           /\ Pending' \in Seq(Nat)
           /\ dropped' = dropped \cup ToSet(E)
           /\ \/ output' = output \o K /\ E = <<>>
              \/ output' = output \o <<Notice>> \o K
           /\ onDisk' \in onDisk..Len(output')
           /\ UNCHANGED appended
  <1> DEFINE overload == Len(buffersToWrite) > DropThreshold
             kept == IF overload THEN SubSeq(buffersToWrite, 1, 2) ELSE buffersToWrite
             erased == IF overload THEN SubSeq(buffersToWrite, 3, Len(buffersToWrite)) ELSE <<>>
             K == LinesOf(kept)
             E == LinesOf(erased)
             R == LinesOf(buffers_) \o current_buffer_.lines
  <1>1. /\ pc = "write" /\ pc' = "recycle"
        /\ output' = output \o (IF overload THEN <<Notice>> ELSE <<>>) \o LinesOf(kept)
        /\ onDisk' \in onDisk..Len(output')
        /\ dropped' = dropped \cup ToSet(LinesOf(erased))
        /\ UNCHANGED <<current_buffer_, buffers_, appended>>
    BY DEF BackendWrite, Goto, front
  <1>2. /\ buffersToWrite \in Seq(Buffers) /\ Len(buffersToWrite) \in Nat
        /\ LinesOf(buffers_) \in Seq(Nat) /\ current_buffer_.lines \in Seq(Nat)
        /\ Pending = LinesOf(buffersToWrite) \o LinesOf(buffers_) \o current_buffer_.lines
    <2>1. /\ LinesOf(buffers_) \in Seq(Nat) /\ current_buffer_.lines \in Seq(Nat)
          /\ Pending = Collected \o LinesOf(buffers_) \o current_buffer_.lines
      BY PendingType DEF IInv
    <2>2. Collected = LinesOf(buffersToWrite)
      BY <1>1 DEF Collected
    <2>3. buffersToWrite \in Seq(Buffers)
      BY DEF IInv, TypeOK
    <2> QED BY <2>1, <2>2, <2>3, LenProperties
  <1>3. R \in Seq(Nat)
    BY <1>2, ConcatProperties
  <1>4. Pending' = R
    <2>1. Pending' = <<>> \o LinesOf(buffers_) \o current_buffer_.lines
      BY <1>1 DEF Pending
    <2> QED BY <1>2, <2>1, ConcatEmptySeq
  <1>5. /\ kept \in Seq(Buffers) /\ erased \in Seq(Buffers)
        /\ LinesOf(buffersToWrite) = K \o E
        /\ ~overload => E = <<>>
    <2>1. CASE overload
      <3>1. Len(buffersToWrite) >= 2
        BY <1>2, <2>1, ThresholdAssumption
      <3> QED BY <1>2, <2>1, <3>1, LinesSplit
    <2>2. CASE ~overload
      <3>1. E = <<>> BY <2>2, LinesEmpty
      <3>2. kept = buffersToWrite /\ erased = <<>> BY <2>2
      <3>3. LinesOf(buffersToWrite) \o <<>> = LinesOf(buffersToWrite)
        BY <1>2, LinesType, ConcatEmptySeq
      <3> HIDE DEF kept, erased, overload
      <3> QED BY <1>2, <2>2, <3>1, <3>2, <3>3, EmptySeq
    <2> QED BY <2>1, <2>2
  <1> HIDE DEF kept, erased
  <1>6. K \in Seq(Nat) /\ E \in Seq(Nat)
    BY <1>5, LinesType
  <1>7. Pending = K \o (E \o R)
    <2> HIDE DEF K, E
    <2>1. Pending = (K \o E) \o LinesOf(buffers_) \o current_buffer_.lines
      BY <1>2, <1>5
    <2> DEFINE F == LinesOf(buffers_)
               C == current_buffer_.lines
    <2>2. F \in Seq(Nat) /\ C \in Seq(Nat)
      BY <1>2
    <2>3. Pending = ((K \o E) \o F) \o C /\ R = F \o C
      BY <2>1
    <2> HIDE DEF F, C, R
    <2>4. K \o E \in Seq(Nat)
      BY <1>6, ConcatProperties
    <2>5. ((K \o E) \o F) \o C = (K \o E) \o R
      <3> DEFINE KE == K \o E
      <3>1. KE \in Seq(Nat) BY <2>4
      <3> HIDE DEF KE
      <3>2. (KE \o F) \o C = KE \o (F \o C)
        BY <2>2, <3>1, ConcatAssociative
      <3> QED BY <2>3, <3>2 DEF KE
    <2>6. (K \o E) \o R = K \o (E \o R)
      BY <1>3, <1>6, ConcatAssociative
    <2> QED BY <2>3, <2>5, <2>6
  <1>8. \/ output' = output \o K /\ E = <<>>
        \/ output' = output \o <<Notice>> \o K
    <2>1. CASE overload
      BY <1>1, <2>1
    <2>2. CASE ~overload
      <3>1. output' = (output \o <<>>) \o K
        BY <1>1, <2>2
      <3> QED BY <1>5, <2>2, <3>1
    <2> QED BY <2>1, <2>2
  <1> HIDE DEF K, E, R
  <1>9. dropped' = dropped \cup ToSet(E)
    BY <1>1 DEF E
  <1> QED BY <1>1, <1>3, <1>4, <1>6, <1>7, <1>8, <1>9

\* A new line: the stream gets longer at its end.
LEMMA StreamAppended ==
  ASSUME IInv, Stream, appended' = appended + 1,
         Pending' = Append(Pending, appended + 1),
         UNCHANGED <<output, onDisk, dropped>>, Working' <=> Working
  PROVE  Stream'
  <1> DEFINE p == Pending
             n == Len(p)
  <1>1. p \in Seq(Nat) /\ n \in Nat /\ appended \in Nat /\ appended = Base + n /\ Base \in Nat
    <2>1. p \in Seq(Nat) /\ n \in Nat
      BY PendingType, LenProperties DEF IInv
    <2>2. appended \in Nat
      BY LineLimitAssumption DEF IInv, TypeOK
    <2>3. Base \in Nat /\ Base = appended - n
      BY DEF Stream, Base
    <2> HIDE DEF p, n
    <2> QED BY <2>1, <2>2, <2>3
  <1>2. appended + 1 = Base + n + 1
    BY <1>1
  <1>3. Run(Append(p, Base + n + 1), Base) /\ Len(Append(p, Base + n + 1)) = n + 1
    BY <1>1, RunAppend DEF Stream
  <1>4. Run(Pending', Base) /\ Len(Pending') = n + 1
    BY <1>2, <1>3
  <1>5. Base' = Base
    <2> HIDE DEF p, n
    <2>1. Base' = (appended + 1) - (n + 1) BY <1>4 DEF Base
    <2> QED BY <1>1, <2>1
  <1>6. Resumptions' = Resumptions
    <2>1. dropped \subseteq 1..appended
      <3> HIDE DEF p, n
      <3> QED BY <1>1 DEF Stream
    <2>2. ASSUME NEW line \in 2..((appended + 1) + 1), line - 1 \in dropped
          PROVE  line \in 2..(appended + 1)
      BY <1>1, <2>1, <2>2
    <2>3. \A line \in 2..(appended + 1) : line \in 2..((appended + 1) + 1)
      BY <1>1
    <2>4. Resumptions' = {line \in 2..((appended + 1) + 1) :
                            line - 1 \in dropped /\ line \notin dropped}
      BY DEF Resumptions
    <2> QED BY <2>2, <2>3, <2>4 DEF Resumptions
  <1>7. Notices' = Notices
    BY DEF Notices
  <1>8. Run(Pending, Base)' BY <1>4, <1>5 DEF Run
  <1>9. Increasing(output, {Notice})' BY DEF Stream, Increasing
  <1> HIDE DEF p, n
  <1> QED BY <1>5, <1>6, <1>7, <1>8, <1>9 DEF Stream

\* A notice is one more element; it says nothing about the order.
LEMMA NoticeAdded ==
  ASSUME NEW s \in Seq(Nat), Increasing(s, {Notice})
  PROVE  /\ s \o <<Notice>> \in Seq(Nat)
         /\ Increasing(s \o <<Notice>>, {Notice})
         /\ ToSet(s \o <<Notice>>) = ToSet(s) \cup {Notice}
         /\ Len(s \o <<Notice>>) = Len(s) + 1
         /\ \A i \in 1..Len(s) : (s \o <<Notice>>)[i] = s[i]
         /\ (s \o <<Notice>>)[Len(s) + 1] = Notice
  <1> DEFINE a == s \o <<Notice>>
  <1>1. Notice \in Nat BY DEF Notice
  <1>2. a = Append(s, Notice)
    BY <1>1, AppendIsConcat
  <1>3. /\ a \in Seq(Nat) /\ Len(a) = Len(s) + 1 /\ Len(s) \in Nat
        /\ \A i \in 1..Len(s) : a[i] = s[i]
        /\ a[Len(s) + 1] = Notice
    BY <1>1, <1>2, AppendProperties, LenProperties
  <1>4. ToSet(a) = ToSet(s) \cup {Notice}
    <2> HIDE DEF a
    <2>1. ToSet(Append(s, Notice)) = ToSet(s) \cup {Notice}
      BY <1>1, MembersAppend
    <2> QED BY <1>2, <2>1
  <1> HIDE DEF a
  <1>5. Increasing(a, {Notice})
    <2> SUFFICES ASSUME NEW i \in 1..Len(s)+1, NEW j \in 1..Len(s)+1, i < j,
                        a[i] # Notice, a[j] # Notice
                 PROVE  a[i] < a[j]
      BY <1>3 DEF Increasing
    <2>1. i \in 1..Len(s) /\ j \in 1..Len(s)
      <3> DEFINE m == Len(s)
      <3>1. m \in Nat /\ i # m + 1 /\ j # m + 1 /\ i \in 1..m+1 /\ j \in 1..m+1 BY <1>3
      <3> HIDE DEF m
      <3>2. i \in 1..m /\ j \in 1..m BY <3>1
      <3> QED BY <3>2 DEF m
    <2>2. a[i] = s[i] /\ a[j] = s[j] BY <1>3, <2>1
    <2> QED BY <2>1, <2>2 DEF Increasing
  <1> QED BY <1>3, <1>4, <1>5 DEF a

\* A write, with or without a drop.
LEMMA StreamWritten ==
  ASSUME IInv, Stream, Working',
         NEW K \in Seq(Nat), NEW E \in Seq(Nat),
         Pending = K \o (E \o Pending'),
         Pending' \in Seq(Nat),
         dropped' = dropped \cup ToSet(E),
         \/ output' = output \o K /\ E = <<>>
         \/ output' = output \o <<Notice>> \o K,
         onDisk' \in onDisk..Len(output'),
         UNCHANGED appended
  PROVE  Stream'
  <1> DEFINE R == Pending'
             b == Base
             k == Len(K)
             e == Len(E)
             r == Len(R)
  <1>1. b \in Nat /\ Run(Pending, b) /\ appended \in Nat /\ appended = b + Len(Pending)
    <2>1. Len(Pending) \in Nat
      BY PendingType, LenProperties DEF IInv
    <2>2. appended \in Nat
      BY LineLimitAssumption DEF IInv, TypeOK
    <2> QED BY <2>1, <2>2 DEF Stream, Base
  <1>2. /\ Run(K, b) /\ Run(E, b + k) /\ Run(R, b + k + e)
        /\ k \in Nat /\ e \in Nat /\ r \in Nat
        /\ Len(Pending) = k + (e + r)
    <2> DEFINE q == E \o R
    <2>1. q \in Seq(Nat) /\ Pending = K \o q
      BY ConcatProperties
    <2> HIDE DEF q, R, b
    <2>2. Run(K, b) /\ Run(q, b + k) /\ k \in Nat /\ Len(q) \in Nat /\ Len(Pending) = k + Len(q)
      BY <1>1, <2>1, RunConcat
    <2>3. b + k \in Nat
      BY <1>1, <2>2
    <2>4. R \in Seq(Nat) /\ Run(E \o R, b + k)
      BY <2>2 DEF q, R
    <2>5. Run(E, b + k) /\ Run(R, b + k + e) /\ e \in Nat /\ r \in Nat /\ Len(q) = e + r
      BY <2>3, <2>4, RunConcat DEF q
    <2> QED BY <2>2, <2>5
  <1>3. Base' = b + k + e
    <2>1. Base' = appended - r
      BY DEF Base
    <2>2. /\ b \in Nat /\ k \in Nat /\ e \in Nat /\ r \in Nat
          /\ appended = b + (k + (e + r))
      BY <1>1, <1>2
    <2> HIDE DEF b, k, e, r, R
    <2> QED BY ONLY <2>1, <2>2
  <1>4. /\ ToSet(K) = (b + 1)..(b + k)
        /\ ToSet(E) = (b + k + 1)..(b + k + e)
    <2>1. b + k \in Nat
      BY <1>1, <1>2
    <2> HIDE DEF b
    <2> QED BY <1>1, <1>2, <2>1, RunMembers
  <1>5. /\ output \in Seq(Nat) /\ Increasing(output, {Notice})
        /\ dropped \subseteq 1..b
        /\ ToSet(output) \ {Notice} = (1..b) \ dropped
    BY DEF Stream
  <1> DEFINE Before(o) ==
               /\ output' = o \o K
               /\ Increasing(o, {Notice})
               /\ ToSet(o) \ {Notice} = ToSet(output) \ {Notice}
               /\ Len(o) \in Nat /\ Len(output) \in Nat /\ Len(output) <= Len(o)
               /\ \A i \in 1..Len(output) : o[i] = output[i]
               /\ E = <<>> \/ (Len(o) = Len(output) + 1 /\ o[Len(o)] = Notice)
  <1>6a. \E o \in Seq(Nat) : Before(o)
    <2>1. CASE output' = output \o K /\ E = <<>>
      <3>1. Len(output) \in Nat /\ Len(output) <= Len(output)
        BY <1>5, LenProperties
      <3>2. output \in Seq(Nat) /\ Before(output)
        BY <1>5, <2>1, <3>1
      <3> HIDE DEF Before
      <3> QED BY ONLY <3>2
    <2>2. CASE output' = output \o <<Notice>> \o K
      <3> DEFINE w == output \o <<Notice>>
      <3>1. /\ w \in Seq(Nat) /\ Increasing(w, {Notice}) /\ ToSet(w) = ToSet(output) \cup {Notice}
            /\ Len(w) = Len(output) + 1
            /\ \A i \in 1..Len(output) : w[i] = output[i]
            /\ w[Len(output) + 1] = Notice
        BY <1>5, NoticeAdded
      <3>2. Len(output) \in Nat BY <1>5, LenProperties
      <3>3. output' = w \o K BY <2>2
      <3> HIDE DEF w
      <3>4. w \in Seq(Nat) /\ Before(w)
        BY ONLY <3>1, <3>2, <3>3
      <3> HIDE DEF Before
      <3> QED BY ONLY <3>4
    <2> QED BY <2>1, <2>2
  <1>6. PICK o \in Seq(Nat) : Before(o)
    BY <1>6a
  <1> HIDE DEF b, e, r
  <1>7. /\ output' \in Seq(Nat) /\ Len(output') = Len(o) + k
        /\ \A i \in 1..Len(o) : output'[i] = o[i]
    <2>1. /\ o \o K \in Seq(Nat) /\ Len(o \o K) = Len(o) + Len(K)
          /\ \A i \in 1..Len(o) + Len(K) : (o \o K)[i] = IF i <= Len(o) THEN o[i] ELSE K[i - Len(o)]
      BY ConcatProperties
    <2> QED BY <1>2, <1>6, <2>1
  <1>8. Increasing(output', {Notice})
    <2>1. Increasing(K, {Notice})
      BY <1>1, <1>2, RunIncreasing
    <2>2. \A x \in ToSet(o) : x \in {Notice} \/ x <= b
      BY <1>1, <1>5, <1>6
    <2>3. \A x \in ToSet(K) : x \in {Notice} \/ x > b
      BY <1>1, <1>2, <1>4
    <2> QED BY <1>1, <1>6, <2>1, <2>2, <2>3, IncreasingConcat
  <1>9. dropped' \subseteq 1..(b + k + e)
    <2> SUFFICES ASSUME NEW x \in dropped' PROVE x \in 1..(b + k + e)
      OBVIOUS
    <2>1. x \in 1..b \/ x \in (b + k + 1)..(b + k + e)
      BY <1>4, <1>5
    <2>2. b \in Nat /\ k \in Nat /\ e \in Nat
      BY <1>1, <1>2
    <2> HIDE DEF k
    <2> QED BY ONLY <2>1, <2>2
  <1>10. ToSet(output') \ {Notice} = (1..(b + k + e)) \ dropped'
    <2>1. ToSet(output') = ToSet(o) \cup ToSet(K)
      BY <1>6, MembersConcat
    <2>2. b \in Nat /\ k \in Nat /\ e \in Nat
      BY <1>1, <1>2
    <2> HIDE DEF k
    <2>3. Notice \notin (b + 1)..(b + k)
      BY ONLY <2>2 DEF Notice
    <2>4. ToSet(output') \ {Notice} = ((1..b) \ dropped) \cup ((b + 1)..(b + k))
      BY ONLY <1>4, <1>5, <1>6, <2>1, <2>3
    <2>5. \A x : x \in ((1..b) \ dropped) \cup ((b + 1)..(b + k))
                   <=> x \in (1..(b + k + e)) \ (dropped \cup ((b + k + 1)..(b + k + e)))
      BY ONLY <1>5, <2>2
    <2>6. dropped' = dropped \cup ((b + k + 1)..(b + k + e))
      BY <1>4
    <2> QED BY ONLY <2>4, <2>5, <2>6
  <1>11. Cardinality(Resumptions') <= Cardinality(Notices')
    <2>1. IsFiniteSet(Resumptions) /\ Cardinality(Resumptions) \in Nat
      BY <1>1, ResumptionsFinite
    <2>2. IsFiniteSet(Notices) /\ Cardinality(Notices) \in Nat
      BY <1>5, NoticesFinite
    <2>3. IsFiniteSet(Notices')
      <3>1. DOMAIN output' = 1..Len(output') /\ Len(output') \in Nat
        BY <1>7, LenProperties
      <3> DEFINE n == Len(output')
      <3>2. IsFiniteSet(1..Len(output'))
        <4>1. n \in Nat BY <3>1
        <4> HIDE DEF n
        <4>2. IsFiniteSet(1..n) BY ONLY <4>1, FS_Interval
        <4> QED BY <4>2 DEF n
      <3>3. Notices' \subseteq 1..Len(output') BY <3>1 DEF Notices
      <3> QED BY <3>2, <3>3, FS_Subset
    <2>4. Cardinality(Resumptions) <= Cardinality(Notices)
      BY DEF Stream
    <2>5. Notices \subseteq Notices'
      <3>1. DOMAIN output = 1..Len(output) /\ DOMAIN output' = 1..Len(output')
        BY <1>5, <1>7, LenProperties
      <3> SUFFICES ASSUME NEW i \in Notices PROVE i \in Notices'
        OBVIOUS
      <3>2. i \in 1..Len(output) /\ output[i] = Notice
        BY <3>1 DEF Notices
      <3>3. i \in 1..Len(o) /\ i \in 1..Len(output')
        <4> DEFINE m == Len(output)
                   n == Len(o)
        <4>1. i \in 1..m /\ m \in Nat /\ n \in Nat /\ m <= n /\ k \in Nat
          BY <1>2, <1>6, <3>2
        <4>2. Len(output') = n + k
          BY <1>7
        <4> HIDE DEF m, n, k
        <4>3. i \in 1..n /\ i \in 1..(n + k)
          BY ONLY <4>1
        <4> QED BY ONLY <4>2, <4>3 DEF n
      <3>4. output'[i] = Notice
        BY <1>6, <1>7, <3>2, <3>3
      <3> QED BY <3>1, <3>3, <3>4 DEF Notices
    <2>6. Cardinality(Notices) <= Cardinality(Notices') /\ Cardinality(Notices') \in Nat
      BY <2>3, <2>5, FS_Subset, FS_CardinalityType
    <2>7. CASE E = <<>>
      <3>1. ToSet(E) = {}
        BY <2>7 DEF ToSet
      <3>2. Resumptions' = Resumptions
        BY <3>1 DEF Resumptions
      <3> QED BY <2>1, <2>2, <2>4, <2>6, <3>2
    <2>8. CASE Len(o) = Len(output) + 1 /\ o[Len(o)] = Notice
      <3> DEFINE x == Len(output) + 1
                 y == b + k + e + 1
      <3>1. x \notin Notices
        <4>1. DOMAIN output = 1..Len(output) /\ Len(output) \in Nat BY <1>5, LenProperties
        <4> QED BY <4>1 DEF Notices
      <3>2. x \in Notices'
        <4>1. DOMAIN output' = 1..Len(output') BY <1>7, LenProperties
        <4>2. x \in 1..Len(o) /\ x \in 1..Len(output') BY <1>2, <1>6, <1>7, <2>8
        <4>3. output'[x] = Notice BY <1>7, <2>8, <4>2
        <4> QED BY <4>1, <4>2, <4>3 DEF Notices
      <3> HIDE DEF x
      <3>3. Cardinality(Notices \cup {x}) = Cardinality(Notices) + 1
        BY <2>2, <3>1, FS_AddElement
      <3>4. Notices \cup {x} \subseteq Notices'
        BY <2>5, <3>2
      <3>5. Cardinality(Notices) + 1 <= Cardinality(Notices')
        BY <2>3, <3>3, <3>4, FS_Subset
      <3>6. Resumptions' \subseteq Resumptions \cup {y}
        <4> SUFFICES ASSUME NEW line \in 2..(appended + 1),
                            line - 1 \in dropped', line \notin dropped'
                     PROVE  line \in Resumptions \/ line = y
          BY DEF Resumptions
        <4>1. line \notin dropped BY DEF Resumptions
        <4>2. CASE line - 1 \in dropped
          BY <4>1, <4>2 DEF Resumptions
        <4>3. CASE line - 1 \notin dropped
          <5>1. line - 1 \in (b + k + 1)..(b + k + e) /\ line \notin (b + k + 1)..(b + k + e)
            BY <1>4, <4>3
          <5>2. b \in Nat /\ k \in Nat /\ e \in Nat /\ line \in Int
            BY <1>1, <1>2
          <5>3. line = y
            <6> HIDE DEF b, k, e
            <6> QED BY ONLY <5>1, <5>2 DEF y
          <5> QED BY <5>3
        <4> QED BY <4>2, <4>3
      <3> HIDE DEF y
      <3>7. IsFiniteSet(Resumptions \cup {y})
            /\ Cardinality(Resumptions \cup {y}) <= Cardinality(Resumptions) + 1
            /\ Cardinality(Resumptions \cup {y}) \in Nat
        <4>1. /\ IsFiniteSet(Resumptions \cup {y})
              /\ Cardinality(Resumptions \cup {y})
                   = IF y \in Resumptions THEN Cardinality(Resumptions)
                     ELSE Cardinality(Resumptions) + 1
          BY <2>1, FS_AddElement
        <4> DEFINE c == Cardinality(Resumptions)
                   d == Cardinality(Resumptions \cup {y})
        <4>2. d = IF y \in Resumptions THEN c ELSE c + 1
          BY <4>1
        <4>3. c \in Nat BY <2>1
        <4> HIDE DEF c, d
        <4>4. d <= c + 1 /\ d \in Nat BY ONLY <4>2, <4>3
        <4> QED BY <4>1, <4>4 DEF c, d
      <3>8. Cardinality(Resumptions') <= Cardinality(Resumptions \cup {y})
            /\ Cardinality(Resumptions') \in Nat
        BY <3>6, <3>7, FS_Subset, FS_CardinalityType
      <3> QED BY <2>1, <2>2, <2>4, <2>6, <3>5, <3>7, <3>8
    <2> QED BY <1>6, <2>7, <2>8
  <1>12. onDisk' \in 0..Len(output')
    <2>1. onDisk \in Nat
      <3>1. Len(output) \in Nat BY <1>5, LenProperties
      <3> QED BY <3>1 DEF Stream
    <2>2. Len(output') \in Nat BY <1>7, LenProperties
    <2> QED BY <2>1, <2>2
  <1>13. Run(Pending, Base)'
    BY <1>2, <1>3
  <1>14. Base' \in Nat
    BY <1>1, <1>2, <1>3
  <1> HIDE DEF k, R
  <1> QED BY <1>3, <1>7, <1>8, <1>9, <1>10, <1>11, <1>12, <1>13, <1>14 DEF Stream, Increasing

\* A step that leaves the stream alone, or flushes the file.
LEMMA StreamKept ==
  ASSUME Stream, UNCHANGED <<appended, Pending, output, dropped>>,
         onDisk' \in {onDisk, Len(output)}, ~Working' => ~Working \/ onDisk' = Len(output)
  PROVE  Stream'
  <1>1. Len(output) \in Nat
    BY LenProperties DEF Stream
  <1>2. onDisk' \in 0..Len(output')
    BY <1>1 DEF Stream
  <1>3. ~Working' => onDisk' = Len(output')
    BY DEF Stream
  <1>4. Base' = Base
    BY DEF Base
  <1>5. Run(Pending, Base)' /\ Base' \in Nat
    BY <1>4 DEF Stream, Run
  <1>6. Resumptions' = Resumptions /\ Notices' = Notices
    BY DEF Resumptions, Notices
  <1>7. Increasing(output, {Notice})'
    BY DEF Stream, Increasing
  <1>8. /\ output' \in Seq(Nat) /\ dropped' \subseteq 1..Base'
        /\ ToSet(output') \ {Notice} = (1..Base') \ dropped'
    BY <1>4 DEF Stream
  <1>9. Cardinality(Resumptions') <= Cardinality(Notices')
    BY <1>6 DEF Stream
  <1> QED BY <1>2, <1>3, <1>5, <1>7, <1>8, <1>9 DEF Stream

\* Pending depends on the buffers, and on whether the backend has collected some.
LEMMA PendingKept ==
  ASSUME UNCHANGED front, pc # "write", pc' # "write"
  PROVE  UNCHANGED <<appended, Pending>>
  BY DEF front, Pending

\* No step breaks the stream.
LEMMA StepStream == IInv /\ Stream /\ [Next]_vars => Stream'
  <1> SUFFICES ASSUME IInv, Stream, [Next]_vars PROVE Stream'
    OBVIOUS
  <1>1. ASSUME NEW len \in LineLengths, Append_(len) PROVE Stream'
    BY <1>1, AppendStream, StreamAppended
  <1>2. ASSUME UNCHANGED <<front, output, onDisk, dropped>>,
               pc \notin {"write", "recycle"}, pc' \notin {"write", "recycle"}
        PROVE  Stream'
    <2>1. UNCHANGED <<appended, Pending>>
      BY <1>2, PendingKept
    <2> QED BY <1>2, <2>1, StreamKept DEF Working
  <1>3. ASSUME Exchange, pc \in {"collect", "woken"},
               UNCHANGED <<output, onDisk, dropped, appended>>
        PROVE  Stream'
    <2>1. Pending' = Pending
      BY <1>3, ExchangeStream
    <2>2. Working'
      BY <1>3 DEF Exchange, Working
    <2> QED BY <1>3, <2>1, <2>2, StreamKept
  <1>4. ASSUME UNCHANGED <<front, buffersToWrite, output, onDisk, dropped, pc>>
        PROVE  Stream'
    <2>1. UNCHANGED <<appended, Pending>>
      BY <1>4 DEF front, Pending
    <2> QED BY <1>4, <2>1, StreamKept DEF Working
  <1>5. CASE BackendEnter
    BY <1>2, <1>5 DEF BackendEnter, Goto
  <1>6. CASE BackendCheck
    BY <1>2, <1>6 DEF BackendCheck, back
  <1>7. CASE BackendCollect
    <2>1. CASE pc' = "waiting" /\ UNCHANGED front
      BY <1>2, <1>7, <2>1 DEF BackendCollect
    <2>2. CASE Exchange /\ UNCHANGED appended
      BY <1>3, <1>7, <2>2 DEF BackendCollect
    <2> QED BY <1>7, <2>1, <2>2 DEF BackendCollect
  <1>8. CASE BackendTimeout
    BY <1>2, <1>8 DEF BackendTimeout, Goto, back
  <1>9. CASE BackendResume
    BY <1>3, <1>9 DEF BackendResume
  <1>10. CASE BackendWrite
    <2>1. Working'
      BY <1>10 DEF BackendWrite, Goto, Working
    <2> QED BY <1>10, <2>1, WriteStream, StreamWritten
  <1>11. CASE BackendRecycle
    <2>1. /\ pc = "recycle" /\ pc' = "check" /\ onDisk' = Len(output)
          /\ UNCHANGED <<front, output, dropped>>
      BY <1>11 DEF BackendRecycle, Goto
    <2>2. UNCHANGED <<appended, Pending>>
      BY <2>1, PendingKept
    <2> QED BY <2>1, <2>2, StreamKept
  <1>12. CASE Start
    <2>1. pc = "absent" /\ pc' \in {"entry", "absent"}
      BY <1>12 DEF Start, IInv, Circulation
    <2> QED BY <1>2, <1>12, <2>1 DEF Start, back
  <1>13. CASE Stop
    BY <1>4, <1>13 DEF Stop, back
  <1>14. CASE StopNotify
    <2>1. CASE pc = "waiting"
      BY <1>2, <1>14, <2>1 DEF StopNotify, NotifyBackend, back
    <2>2. CASE pc # "waiting"
      BY <1>4, <1>14, <2>2 DEF StopNotify, NotifyBackend, back
    <2> QED BY <2>1, <2>2
  <1>15. CASE StopJoin
    BY <1>4, <1>15 DEF StopJoin, back
  <1>16. CASE UNCHANGED vars
    BY <1>4, <1>16 DEF vars, back
  <1> QED
    BY <1>1, <1>5, <1>6, <1>7, <1>8, <1>9, <1>10, <1>11, <1>12, <1>13, <1>14, <1>15, <1>16
       DEF Next, Backend

LEMMA SpecStream == Spec => [](IInv /\ Stream)
  <1>1. Init => IInv /\ Stream
    BY InitIInv, InitStream
  <1>2. IInv /\ Stream /\ [Next]_vars => (IInv /\ Stream)'
    BY StepIInv, StepStream
  <1> QED BY <1>1, <1>2, PTL DEF Spec

------------------------------------------------------------------------------
\* What is in the file, as a sequence of lines.
LEMMA WrittenIs ==
  ASSUME Stream
  PROVE  /\ Written \in Seq(Nat) /\ Sorted(Written)
         /\ ToSet(Written) = (1..Base) \ dropped
  BY WithoutIncreasing DEF Stream, Written

\* Two increasing sequences of the same lines are the same.
LEMMA StreamIsComplete == IInv /\ Stream => NothingLost
  <1> SUFFICES ASSUME IInv, Stream PROVE NothingLost
    OBVIOUS
  <1> DEFINE W == Written
             P == Pending
             b == Base
             n == appended
             numbers == [i \in 1..n |-> i]
             T == Without(numbers, dropped)
  <1>1. /\ b \in Nat /\ n \in Nat /\ P \in Seq(Nat) /\ Run(P, b) /\ n = b + Len(P) /\ Len(P) \in Nat
        /\ dropped \subseteq 1..b
    <2>1. P \in Seq(Nat) /\ Len(P) \in Nat
      BY PendingType, LenProperties DEF IInv
    <2>2. n \in Nat
      BY LineLimitAssumption DEF IInv, TypeOK
    <2> QED BY <2>1, <2>2 DEF Stream, Base
  <1>2. W \in Seq(Nat) /\ Sorted(W) /\ ToSet(W) = (1..b) \ dropped
    BY WrittenIs
  <1>3. ToSet(P) = (b + 1)..n
    <2> HIDE DEF P, b, n
    <2> QED BY <1>1, RunMembers
  <1>4. /\ numbers \in Seq(Nat) /\ Sorted(numbers) /\ Increasing(numbers, dropped)
        /\ ToSet(numbers) = 1..n
    <2> HIDE DEF n
    <2>1. numbers \in Seq(Nat) /\ Len(numbers) = n /\ (\A i \in 1..n : numbers[i] = i)
      BY <1>1
    <2> HIDE DEF numbers
    <2>2. Run(numbers, 0)
      BY <1>1, <2>1 DEF Run
    <2>3. ToSet(numbers) = (0 + 1)..(0 + n)
      BY <2>1, <2>2, RunMembers
    <2>4. (0 + 1)..(0 + n) = 1..n
      BY <1>1
    <2> QED BY <2>1, <2>2, <2>3, <2>4, RunIncreasing
  <1> HIDE DEF numbers
  <1>5. T \in Seq(Nat) /\ Sorted(T) /\ ToSet(T) = (1..n) \ dropped
    BY <1>4, WithoutIncreasing
  <1> HIDE DEF W, P, b, n, T
  <1>6. W \o P \in Seq(Nat)
    BY <1>1, <1>2, ConcatProperties
  <1>7. Sorted(W \o P)
    <2>1. Increasing(W, {}) /\ Increasing(P, {})
      BY <1>1, <1>2, RunIncreasing DEF Sorted, Increasing
    <2>2. (\A x \in ToSet(W) : x \in {} \/ x <= b) /\ (\A x \in ToSet(P) : x \in {} \/ x > b)
      BY <1>1, <1>2, <1>3
    <2>3. Increasing(W \o P, {})
      BY <1>1, <1>2, <2>1, <2>2, IncreasingConcat
    <2> QED BY <2>3 DEF Sorted, Increasing
  <1>8. ToSet(W \o P) = (1..n) \ dropped
    <2>1. ToSet(W \o P) = ToSet(W) \cup ToSet(P)
      BY <1>1, <1>2, MembersConcat
    <2>2. ((1..b) \ dropped) \cup ((b + 1)..n) = (1..n) \ dropped
      BY <1>1
    <2> QED BY <1>2, <1>3, <2>1, <2>2
  <1>9. W \o P = T
    BY <1>5, <1>6, <1>7, <1>8, IncreasingUnique
  <1> QED BY <1>9 DEF NothingLost, W, P, T, numbers, n

\* The lines in the file that come first after a drop.
Resumed == {line \in Resumptions : line <= Base}

\* Every gap in the file is where the lines resume after a drop, and there is a notice
\* for each.
GapsFew == /\ Cardinality(Gaps) <= Cardinality(Resumed)
           /\ Cardinality(Gaps) <= Cardinality(Notices)
           /\ Cardinality(Gaps) \in Nat

LEMMA GapsAreResumed == IInv /\ Stream => GapsFew
  <1> SUFFICES ASSUME IInv, Stream PROVE GapsFew
    OBVIOUS
  <1> DEFINE W == Written
             b == Base
  <1>1. W \in Seq(Nat) /\ Sorted(W) /\ ToSet(W) = (1..b) \ dropped /\ Len(W) \in Nat
    BY WrittenIs, LenProperties
  <1>2. b \in Nat /\ appended \in Nat /\ b <= appended
    <2>1. Len(Pending) \in Nat
      BY PendingType, LenProperties DEF IInv
    <2>2. appended \in Nat
      BY LineLimitAssumption DEF IInv, TypeOK
    <2> QED BY <2>1, <2>2 DEF Stream, Base
  <1> DEFINE line == [i \in Gaps |-> W[i]]
  <1>3. ASSUME NEW i \in Gaps PROVE i \in 1..Len(W) /\ W[i] \in Resumed
    <2>1. i \in 2..Len(W) /\ W[i] # W[i - 1] + 1
      BY DEF Gaps
    <2> HIDE DEF W, b
    <2>2. i \in 1..Len(W) /\ i - 1 \in 1..Len(W) /\ i - 1 < i
      BY <1>1, <2>1
    <2>3. W[i - 1] < W[i] /\ W[i] \in ToSet(W) /\ W[i - 1] \in ToSet(W)
      BY <1>1, <2>2, MembersOf DEF Sorted
    <2>4. W[i] \in 1..b /\ W[i] \notin dropped /\ W[i - 1] \in 1..b
      BY <1>1, <2>3
    <2>5. W[i] - 1 \in 1..b /\ W[i - 1] < W[i] - 1
      BY <1>2, <2>1, <2>3, <2>4
    <2>6. W[i] - 1 \in dropped
      <3> SUFFICES ASSUME W[i] - 1 \notin dropped PROVE FALSE
        OBVIOUS
      <3>1. W[i] - 1 \in ToSet(W)
        BY <1>1, <2>5
      <3>2. PICK j \in 1..Len(W) : W[j] = W[i] - 1
        BY <1>1, <3>1, MembersOf
      <3>3. j < i
        <4> SUFFICES ASSUME i <= j PROVE FALSE
          BY <1>1, <2>2
        <4>1. CASE i = j
          BY <2>4, <3>2, <4>1
        <4>2. CASE i # j
          <5>1. i < j BY <2>2, <4>2
          <5>2. W[i] < W[j] BY <1>1, <2>2, <5>1 DEF Sorted
          <5> QED BY <2>4, <3>2, <5>2
        <4> QED BY <4>1, <4>2
      <3>4. CASE j = i - 1
        BY <2>4, <2>5, <3>2, <3>4
      <3>5. CASE j # i - 1
        <4>1. j < i - 1 BY <2>2, <3>3, <3>5
        <4>2. W[j] < W[i - 1] BY <1>1, <2>2, <4>1 DEF Sorted
        <4> QED BY <2>4, <2>5, <3>2, <4>2
      <3> QED BY <3>4, <3>5
    <2>7. W[i] \in 2..(appended + 1)
      BY <1>2, <2>4, <2>5
    <2>8. W[i] <= b
      BY <1>2, <2>4
    <2> QED BY <2>2, <2>4, <2>6, <2>7, <2>8 DEF Resumptions, Resumed, b
  <1>4. line \in Injection(Gaps, Resumed)
    <2>1. line \in [Gaps -> Resumed]
      BY <1>3
    <2>2. ASSUME NEW i \in Gaps, NEW j \in Gaps, line[i] = line[j] PROVE i = j
      <3>1. W[i] = W[j] /\ i \in 1..Len(W) /\ j \in 1..Len(W)
        BY <1>3, <2>2
      <3>2. W[i] \in Nat /\ W[j] \in Nat
        BY <1>1, <3>1, ElementOfSeq
      <3> HIDE DEF W
      <3>3. ~(i < j) /\ ~(j < i)
        BY <1>1, <3>1, <3>2 DEF Sorted
      <3> QED BY <1>1, <3>1, <3>3
    <2> HIDE DEF line
    <2> QED BY <2>1, <2>2 DEF Injection, IsInjective
  <1>5. IsFiniteSet(Resumptions) /\ Cardinality(Resumptions) \in Nat
    BY <1>2, ResumptionsFinite
  <1> HIDE DEF line
  <1>6. /\ IsFiniteSet(Resumed) /\ Cardinality(Resumed) \in Nat
        /\ Cardinality(Resumed) <= Cardinality(Resumptions)
    <2>1. Resumed \subseteq Resumptions
      BY DEF Resumed
    <2> QED BY <1>5, <2>1, FS_Subset, FS_CardinalityType
  <1>7. IsFiniteSet(Gaps) /\ Cardinality(Gaps) <= Cardinality(Resumed)
    BY <1>4, <1>6, FS_Injection
  <1>8. Cardinality(Gaps) \in Nat
    BY <1>7, FS_CardinalityType
  <1>9. Cardinality(Notices) \in Nat
    BY NoticesFinite DEF Stream
  <1>10. Cardinality(Resumptions) <= Cardinality(Notices)
    BY DEF Stream
  <1>11. Cardinality(Gaps) <= Cardinality(Notices)
    BY <1>5, <1>6, <1>7, <1>8, <1>9, <1>10
  <1> QED BY <1>7, <1>8, <1>11 DEF GapsFew

\* A write brings no line into the file that comes first after a drop of its own round.
ResumedFew == /\ Cardinality(Resumed') <= Cardinality(Notices)
              /\ Cardinality(Resumed') \in Nat
              /\ Cardinality(Notices) \in Nat

LEMMA ResumedWereAnnounced ==
  ASSUME IInv, Stream, BackendWrite
  PROVE  ResumedFew
  <1> DEFINE R == Pending'
             b == Base
  <1>1. PICK K \in Seq(Nat), E \in Seq(Nat) :
          /\ Pending = K \o (E \o R)
          /\ R \in Seq(Nat)
          /\ dropped' = dropped \cup ToSet(E)
          /\ UNCHANGED appended
    BY WriteStream
  <1> DEFINE k == Len(K)
             e == Len(E)
  <1>2. /\ b \in Nat /\ Run(Pending, b) /\ appended \in Nat
        /\ appended = b + Len(Pending) /\ dropped \subseteq 1..b
    <2>1. Len(Pending) \in Nat
      BY PendingType, LenProperties DEF IInv
    <2>2. appended \in Nat
      BY LineLimitAssumption DEF IInv, TypeOK
    <2> QED BY <2>1, <2>2 DEF Stream, Base
  <1>3. /\ Run(E, b + k) /\ k \in Nat /\ e \in Nat /\ Len(R) \in Nat
        /\ Len(Pending) = k + (e + Len(R))
    <2> DEFINE q == E \o R
    <2>1. q \in Seq(Nat) /\ Pending = K \o q
      BY <1>1, ConcatProperties
    <2> HIDE DEF q, R, b
    <2>2. Run(q, b + k) /\ k \in Nat /\ Len(q) \in Nat /\ Len(Pending) = k + Len(q)
      BY <1>2, <2>1, RunConcat
    <2>3. b + k \in Nat
      BY <1>2, <2>2
    <2>4. R \in Seq(Nat) /\ Run(E \o R, b + k)
      BY <1>1, <2>2 DEF q
    <2>5. Run(E, b + k) /\ e \in Nat /\ Len(R) \in Nat /\ Len(q) = e + Len(R)
      BY <2>3, <2>4, RunConcat DEF q
    <2> QED BY <2>2, <2>5
  <1>4. Base' = b + k + e
    <2> DEFINE r == Len(R)
    <2>1. Base' = appended - r
      BY <1>1 DEF Base
    <2>2. b \in Nat /\ k \in Nat /\ e \in Nat /\ r \in Nat /\ appended = b + (k + (e + r))
      BY <1>2, <1>3
    <2> HIDE DEF b, k, e, r, R
    <2> QED BY ONLY <2>1, <2>2
  <1>5. ToSet(E) = (b + k + 1)..(b + k + e)
    <2>1. b + k \in Nat
      BY <1>2, <1>3
    <2> HIDE DEF b
    <2> QED BY <1>3, <2>1, RunMembers
  <1>6. Resumed' \subseteq Resumptions
    <2> SUFFICES ASSUME NEW line \in 2..(appended + 1), line <= Base',
                        line - 1 \in dropped', line \notin dropped'
                 PROVE  line \in Resumptions
      BY <1>1 DEF Resumed, Resumptions
    <2>1. line \notin dropped
      BY <1>1
    <2>2. line - 1 \in dropped
      <3> SUFFICES ASSUME line - 1 \notin dropped PROVE FALSE
        OBVIOUS
      <3>1. line - 1 \in (b + k + 1)..(b + k + e) /\ line \notin (b + k + 1)..(b + k + e)
        BY <1>1, <1>5
      <3>2. /\ b \in Nat /\ k \in Nat /\ e \in Nat /\ line \in Int
            /\ line <= b + k + e
        BY <1>2, <1>3, <1>4
      <3> HIDE DEF b, k, e
      <3> QED BY ONLY <3>1, <3>2
    <2> QED BY <2>1, <2>2 DEF Resumptions
  <1>7. IsFiniteSet(Resumptions) /\ Cardinality(Resumptions) \in Nat
    BY <1>2, ResumptionsFinite
  <1>8. Cardinality(Resumed') \in Nat /\ Cardinality(Resumed') <= Cardinality(Resumptions)
    BY <1>6, <1>7, FS_Subset, FS_CardinalityType
  <1>9. Cardinality(Notices) \in Nat /\ Cardinality(Resumptions) <= Cardinality(Notices)
    BY NoticesFinite DEF Stream
  <1> QED BY <1>7, <1>8, <1>9 DEF ResumedFew

\* What a crash loses was appended after everything that is safe.
LEMMA NewestAreLost == IInv /\ Stream => CrashLosesTheNewest
  <1> SUFFICES ASSUME IInv, Stream PROVE CrashLosesTheNewest
    OBVIOUS
  <1> DEFINE b == Base
             d == onDisk
             s == SubSeq(output, 1, d)
  <1>1. /\ output \in Seq(Nat) /\ Len(output) \in Nat /\ d \in 0..Len(output) /\ d \in Nat
        /\ b \in Nat /\ appended \in Nat /\ appended = b + Len(Pending) /\ Len(Pending) \in Nat
        /\ Pending \in Seq(Nat) /\ Run(Pending, b)
        /\ dropped \subseteq 1..b
        /\ ToSet(output) \ {Notice} = (1..b) \ dropped
    <2>1. Pending \in Seq(Nat) /\ Len(Pending) \in Nat
      BY PendingType, LenProperties DEF IInv
    <2>2. appended \in Nat
      BY LineLimitAssumption DEF IInv, TypeOK
    <2>3. output \in Seq(Nat) /\ Len(output) \in Nat /\ d \in 0..Len(output)
      BY LenProperties DEF Stream
    <2>4. d \in Nat
      BY <2>3
    <2> QED BY <2>1, <2>2, <2>3, <2>4 DEF Stream, Base
  <1>2. s \in Seq(Nat) /\ Len(s) = d /\ \A i \in 1..d : s[i] = output[i]
    <2> HIDE DEF d
    <2> QED BY <1>1, PrefixOf
  <1>3. ASSUME NEW line \in Lost, NEW other \in Safe PROVE other < line
    <2> HIDE DEF s
    <2>1. line \in 1..appended /\ line \notin Safe /\ line \notin dropped
      BY DEF Lost
    <2>2. other \in ToSet(s) /\ other # Notice
      BY DEF Safe, s
    <2>3. PICK j \in 1..d : output[j] = other
      BY <1>2, <2>2, MembersOf
    <2>4. j \in 1..Len(output) /\ other \in 1..b
      <3>1. j \in 1..Len(output) BY <1>1
      <3>2. other \in ToSet(output) BY <1>1, <2>3, <3>1, MembersOf
      <3> QED BY <1>1, <2>2, <3>1, <3>2
    <2>5. CASE line \in 1..b
      <3>1. line \in ToSet(output) /\ line # Notice
        BY <1>1, <2>1, <2>5 DEF Notice
      <3>2. PICK i \in 1..Len(output) : output[i] = line
        BY <1>1, <3>1, MembersOf
      <3>3. ~(i <= d)
        <4> SUFFICES ASSUME i <= d PROVE FALSE OBVIOUS
        <4>1. i \in 1..d /\ s[i] = line
          BY <1>1, <1>2, <3>2
        <4>2. line \in ToSet(s)
          BY <1>2, <4>1, MembersOf
        <4> QED BY <2>1, <3>1, <4>2 DEF Safe, s
      <3>4. j < i
        BY <1>1, <3>3
      <3> QED BY <2>2, <2>3, <2>4, <3>1, <3>2, <3>4 DEF Stream, Increasing
    <2>6. CASE line \notin 1..b
      BY <1>1, <2>1, <2>4, <2>6
    <2> QED BY <2>5, <2>6
  <1>4. ASSUME pc \notin {"write", "recycle"}
        PROVE  Lost \subseteq ToSet(LinesOf(Append(buffers_, current_buffer_)))
    <2>1. d = Len(output)
      BY <1>4 DEF Stream, Working
    <2>2. s = output
      BY <1>1, <2>1, SubSeqFull
    <2>3. Safe = (1..b) \ dropped
      BY <1>1, <2>2 DEF Safe
    <2>4. Pending = LinesOf(Append(buffers_, current_buffer_))
      <3>1. LinesOf(buffers_) \in Seq(Nat) /\ current_buffer_.lines \in Seq(Nat)
        BY PendingType DEF IInv
      <3>2. Pending = (<<>> \o LinesOf(buffers_)) \o current_buffer_.lines
        BY <1>4 DEF Pending
      <3>3. <<>> \o LinesOf(buffers_) = LinesOf(buffers_)
        BY <3>1, ConcatEmptySeq
      <3> QED BY <3>2, <3>3, LinesAppend DEF IInv, TypeOK
    <2>5. ToSet(Pending) = (b + 1)..appended
      <3> HIDE DEF b
      <3> QED BY <1>1, RunMembers
    <2>6. Lost \subseteq (b + 1)..appended
      BY <1>1, <2>3 DEF Lost
    <2> QED BY <2>4, <2>5, <2>6
  <1> QED BY <1>3, <1>4 DEF CrashLosesTheNewest

\* Every line that was appended is in the file, in its place, or still in a buffer, or
\* was dropped by the overload branch (AsyncLogging.cc:93-102); none is written twice.
THEOREM NoLineLost == Spec => []NothingLost
  BY StreamIsComplete, SpecStream, PTL

\* Wherever the file has a gap, a notice was in it before (AsyncLogging.cc:93-102).
THEOREM GapsAreAnnounced == Spec => GapsAnnounced
  <1>1. IInv /\ Stream => GapsFew
    BY GapsAreResumed
  <1>2. IInv /\ Stream /\ [Next]_vars => ResumedFew \/ UNCHANGED output
    <2>1. [Next]_vars => BackendWrite \/ UNCHANGED output
      BY DEF Next, Append_, Backend, BackendEnter, BackendCheck, BackendCollect,
             BackendTimeout, BackendResume, Exchange, BackendRecycle, Start, Stop,
             StopNotify, StopJoin, NotifyBackend, Goto, back, vars
    <2> QED BY <2>1, ResumedWereAnnounced
  <1>3. ASSUME GapsFew, GapsFew', ResumedFew \/ UNCHANGED output
        PROVE  Cardinality(Gaps') <= Cardinality(Notices)
    <2>1. CASE ResumedFew
      BY <1>3, <2>1 DEF GapsFew, ResumedFew
    <2>2. CASE UNCHANGED output
      <3>1. Gaps' = Gaps
        BY <2>2 DEF Gaps, Written
      <3> QED BY <1>3, <3>1 DEF GapsFew
    <2> QED BY <1>3, <2>1, <2>2
  <1>4. GapsFew /\ GapsFew' /\ (ResumedFew \/ UNCHANGED output)
          => [Cardinality(Gaps') <= Cardinality(Notices)]_vars
    BY <1>3
  <1> QED BY <1>1, <1>2, <1>4, SpecStream, PTL DEF Spec, GapsAnnounced

\* A crash loses only lines newer than all that are safe, and outside the backend's
\* work only what no exchange has collected yet (AsyncLogging.cc:133).
THEOREM OnlyTheNewestAreLost == Spec => []CrashLosesTheNewest
  BY NewestAreLost, SpecStream, PTL
==============================================================================
