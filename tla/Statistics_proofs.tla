---------------------------- MODULE Statistics_proofs ----------------------------
(***************************************************************************)
(* Facts about the operators of Statistics, for sequences of any length.   *)
(*                                                                         *)
(* The induction theorems of the library take an operator for the          *)
(* predicate.  Here the predicate is a set: SetInduction follows from the  *)
(* well-foundedness of the order on the naturals, and the other induction  *)
(* lemmas follow from it.                                                  *)
(***************************************************************************)
EXTENDS Statistics, FiniteSetTheorems, WellFoundedInduction, TLAPS

\* Induction over the naturals, with a set for the predicate.
LEMMA SetInduction ==
  ASSUME NEW S, 0 \in S, \A n \in Nat : n \in S => n + 1 \in S
  PROVE  Nat \subseteq S
<1> DEFINE T == Nat \ S
           R == {p \in Nat \X Nat : p[1] < p[2]}
<1>1. R = OpToRel(<, Nat)
  BY DEF OpToRel
<1>2. IsWellFoundedOn(R, Nat)
  BY <1>1, NatLessThanWellFounded
<1> SUFFICES ASSUME T # {} PROVE FALSE
  OBVIOUS
<1>3. \A x, y \in Nat : y < x => <<y, x>> \in R
  OBVIOUS
<1>4. T \subseteq Nat
  OBVIOUS
<1>5. \A x \in Nat : x \notin T => x \in S
  OBVIOUS
<1>6. \A x \in T : x \notin S
  OBVIOUS
<1> HIDE DEF R, T
<1>7. PICK x \in T : \A y \in T : ~(<<y, x>> \in R)
  BY <1>2, <1>4, WFMin, Zenon
<1>8. x # 0
  BY <1>6, <1>7
<1>9. x \in Nat /\ x - 1 \in Nat /\ x - 1 < x
  BY <1>4, <1>7, <1>8
<1>10. x - 1 \notin T
  BY <1>3, <1>7, <1>9
<1>11. x \in S
  BY <1>5, <1>9, <1>10
<1> QED BY <1>6, <1>7, <1>11

\* A set of naturals has a least element.
LEMMA LeastNatural ==
  ASSUME NEW S, S \subseteq Nat, S # {}
  PROVE  \E x \in S : \A y \in S : x <= y
<1> DEFINE R == {p \in Nat \X Nat : p[1] < p[2]}
<1>1. R = OpToRel(<, Nat)
  BY DEF OpToRel
<1>2. IsWellFoundedOn(R, Nat)
  BY <1>1, NatLessThanWellFounded
<1>3. \A x, y \in Nat : y < x => <<y, x>> \in R
  OBVIOUS
<1> HIDE DEF R
<1>4. PICK x \in S : \A y \in S : ~(<<y, x>> \in R)
  BY <1>2, WFMin, Zenon
<1>5. \A y \in S : y \in Nat /\ x \in Nat /\ ~(y < x)
  BY <1>3, <1>4
<1> QED BY <1>5

\* Induction over an initial segment.
LEMMA SegmentInduction ==
  ASSUME NEW N \in Nat, NEW Q, 0 \in Q, \A i \in 1..N : i - 1 \in Q => i \in Q
  PROVE  0..N \subseteq Q
<1> DEFINE S == {n \in Nat : n <= N => n \in Q}
<1>1. 0 \in S
  OBVIOUS
<1>2. \A n \in Nat : n \in S => n + 1 \in S
  <2> SUFFICES ASSUME NEW n \in Nat, n \in S, n + 1 <= N PROVE n + 1 \in Q
    OBVIOUS
  <2>1. n + 1 \in 1..N /\ (n + 1) - 1 = n /\ n \in Q
    OBVIOUS
  <2> QED BY <2>1
<1>3. Nat \subseteq S
  BY <1>1, <1>2, SetInduction
<1> QED BY <1>3

\* Induction over sequences, from the left.
LEMMA SequenceInduction ==
  ASSUME NEW T, NEW S, << >> \in S,
         \A x \in Seq(T), a \in T : x \in S => Append(x, a) \in S
  PROVE  Seq(T) \subseteq S
<1> SUFFICES ASSUME NEW s \in Seq(T) PROVE s \in S
  OBVIOUS
<1> DEFINE N == Len(s)
           First(i) == [j \in 1..i |-> s[j]]
           Q == {i \in Nat : First(i) \in S}
<1>1. N \in Nat /\ \A i \in 1..N : s[i] \in T
  OBVIOUS
<1>2. \A i \in 0..N : First(i) \in Seq(T)
  BY <1>1
<1>3. \A i \in 1..N : First(i) = Append(First(i - 1), s[i])
  <2> SUFFICES ASSUME NEW i \in 1..N PROVE First(i) = Append(First(i - 1), s[i])
    OBVIOUS
  <2>1. i - 1 \in 0..N /\ First(i - 1) \in Seq(T) /\ Len(First(i - 1)) = i - 1
    BY <1>1, <1>2
  <2>2. First(i) \in Seq(T) /\ Len(First(i)) = i
    BY <1>1, <1>2
  <2> QED BY <1>1, <2>1, <2>2
<1>4. First(0) = << >> /\ First(N) = s
  OBVIOUS
<1> HIDE DEF First, N
<1>5. 0 \in Q
  BY <1>4
<1>6. \A i \in 1..N : i - 1 \in Q => i \in Q
  <2> SUFFICES ASSUME NEW i \in 1..N, First(i - 1) \in S PROVE First(i) \in S
    BY <1>1
  <2>1. i - 1 \in 0..N
    BY <1>1
  <2> QED BY <1>1, <1>2, <1>3, <2>1
<1>7. 0..N \subseteq Q
  <2> HIDE DEF Q
  <2> QED BY <1>1, <1>5, <1>6, SegmentInduction
<1> QED BY <1>1, <1>4, <1>7

\* f starts with a and goes on by step, up to n.
Iterates(f, a, step, n) ==
  \A i \in 0..n : f[i] = IF i = 0 THEN a ELSE step[<<i, f[i - 1]>>]

\* A function can be defined by recursion over an initial segment.
LEMMA IterationExists ==
  ASSUME NEW N \in Nat, NEW T, NEW a \in T, NEW step \in [(1..N) \X T -> T]
  PROVE  \E f \in [0..N -> T] : Iterates(f, a, step, N)
<1> DEFINE Reached(n) == \E f \in [0..n -> T] : Iterates(f, a, step, n)
           S == {n \in Nat : Reached(n)}
<1>1. Reached(0)
  <2> DEFINE f == [i \in 0..0 |-> a]
  <2> f \in [0..0 -> T] /\ Iterates(f, a, step, 0)
    BY DEF Iterates
  <2> QED OBVIOUS
<1>2. ASSUME NEW n \in Nat, Reached(n), n + 1 <= N
      PROVE  Reached(n + 1)
  <2>1. PICK f \in [0..n -> T] : Iterates(f, a, step, n)
    BY <1>2
  <2> DEFINE g == [i \in 0..(n + 1) |-> IF i = n + 1 THEN step[<<i, f[n]>>] ELSE f[i]]
  <2>2. f[n] \in T /\ n + 1 \in 1..N
    BY <1>2
  <2>3. step[<<n + 1, f[n]>>] \in T
    BY <2>2
  <2>4. g \in [0..(n + 1) -> T]
    BY <2>3
  <2>5. Iterates(g, a, step, n + 1)
    <3> SUFFICES ASSUME NEW i \in 0..(n + 1)
                 PROVE  g[i] = IF i = 0 THEN a ELSE step[<<i, g[i - 1]>>]
      BY DEF Iterates
    <3>1. CASE i = n + 1
      <4>1. i # 0 /\ i - 1 = n /\ n \in 0..(n + 1) /\ n # n + 1
        BY <3>1
      <4>2. g[n] = f[n] /\ g[i] = step[<<i, f[n]>>]
        BY <3>1, <4>1
      <4> QED BY <4>1, <4>2
    <3>2. CASE i # n + 1
      <4>1. i \in 0..n /\ (i # 0 => i - 1 \in 0..n)
        BY <3>2
      <4>2. g[i] = f[i] /\ (i # 0 => g[i - 1] = f[i - 1])
        BY <4>1
      <4> QED BY <2>1, <4>1, <4>2 DEF Iterates
    <3> QED BY <3>1, <3>2
  <2> QED BY <2>4, <2>5
<1> HIDE DEF Reached
<1>3. 0..N \subseteq S
  <2>1. 0 \in S
    BY <1>1
  <2>2. \A i \in 1..N : i - 1 \in S => i \in S
    <3> SUFFICES ASSUME NEW i \in 1..N, i - 1 \in S PROVE i \in S
      OBVIOUS
    <3>1. i - 1 \in Nat /\ (i - 1) + 1 = i /\ (i - 1) + 1 <= N /\ i \in Nat
      OBVIOUS
    <3>2. Reached(i)
      BY <1>2, <3>1
    <3> QED BY <3>1, <3>2
  <2> HIDE DEF S
  <2> QED BY <2>1, <2>2, SegmentInduction
<1> QED BY <1>3 DEF Reached
-----------------------------------------------------------------------------
(* Arithmetic.                                                             *)

\* A rounded quotient is at most half a divisor away.
LEMMA RoundIsNear ==
  ASSUME NEW a \in Int, NEW b \in Nat, b > 0
  PROVE  Round(a, b) \in Int /\ 2 * Abs(Round(a, b) * b - a) <= b
<1> DEFINE q == a \div b
           r == a % b
<1>1. q \in Int /\ r \in Int /\ 0 <= r /\ r < b /\ a = b * q + r
  OBVIOUS
<1>2. Round(a, b) = IF 2 * r < b \/ (2 * r = b /\ q % 2 = 0) THEN q ELSE q + 1
  BY DEF Round
<1> HIDE DEF q, r
<1>3. CASE Round(a, b) = q /\ 2 * r <= b
  <2>1. q * b - a = -r
    BY <1>1
  <2> QED BY <1>1, <1>3, <2>1 DEF Abs
<1>4. CASE Round(a, b) = q + 1 /\ 2 * r >= b
  <2>1. (q + 1) * b - a = b - r
    BY <1>1
  <2> QED BY <1>1, <1>4, <2>1 DEF Abs
<1>5. \/ Round(a, b) = q /\ 2 * r <= b
      \/ Round(a, b) = q + 1 /\ 2 * r >= b
  BY <1>1, <1>2
<1> QED BY <1>3, <1>4, <1>5

\* A rounded share of a number is at most that number, and is zero only if it
\* is less than half a unit.
LEMMA ShareRounds ==
  ASSUME NEW e \in Nat, NEW t \in Nat, t > 0, e <= t, NEW M \in Nat
  PROVE  /\ Round(e * M, t) \in 0..M
         /\ e = 0 => Round(e * M, t) = 0
<1> DEFINE y == e * M
           R == Round(y, t)
           x == R * t
<1>1. y \in Int
  OBVIOUS
<1>2. R \in Int /\ 2 * Abs(x - y) <= t
  <2> HIDE DEF y
  <2> QED BY <1>1, RoundIsNear
<1> HIDE DEF R
<1>3. x \in Int
  BY <1>2
<1>4. 0 <= y /\ y <= t * M /\ t * M \in Int
  OBVIOUS
<1>5. R >= M + 1 => x >= t * M + t
  <2> SUFFICES ASSUME R >= M + 1 PROVE x >= t * M + t
    OBVIOUS
  <2>1. PICK d \in Nat : R = M + 1 + d
    <3>1. R - (M + 1) \in Nat /\ R = M + 1 + (R - (M + 1))
      BY <1>2
    <3> QED BY <3>1
  <2>2. x = t * M + t + d * t /\ d * t >= 0
    BY <2>1
  <2> QED BY <1>3, <1>4, <2>2
<1>6. R < 0 => x <= -t
  <2> SUFFICES ASSUME R < 0 PROVE x <= -t
    OBVIOUS
  <2>1. PICK d \in Nat : R = -1 - d
    <3>1. -1 - R \in Nat /\ R = -1 - (-1 - R)
      BY <1>2
    <3> QED BY <3>1
  <2>2. x = -t - d * t /\ d * t >= 0
    BY <2>1
  <2> QED BY <1>3, <2>2
<1>7. R > 0 => x >= t
  <2> SUFFICES ASSUME R > 0 PROVE x >= t
    OBVIOUS
  <2>1. PICK d \in Nat : R = 1 + d
    <3>1. R - 1 \in Nat /\ R = 1 + (R - 1)
      BY <1>2
    <3> QED BY <3>1
  <2>2. x = t + d * t /\ d * t >= 0
    BY <2>1
  <2> QED BY <1>3, <2>2
<1>8. e = 0 => y = 0
  OBVIOUS
<1> DEFINE z == t * M
<1> HIDE DEF x, y, z
<1>9. /\ R \in Int /\ x \in Int /\ y \in Int /\ z \in Int /\ t \in Nat /\ t > 0
      /\ 2 * Abs(x - y) <= t /\ 0 <= y /\ y <= z
      /\ R >= M + 1 => x >= z + t
      /\ R < 0 => x <= -t
      /\ R > 0 => x >= t
  BY <1>1, <1>2, <1>3, <1>4, <1>5, <1>6, <1>7 DEF z
<1>10. 2 * (x - y) <= t /\ 2 * (y - x) <= t
  BY <1>9 DEF Abs
<1>11. ~(R >= M + 1) /\ ~(R < 0) /\ (y = 0 => ~(R > 0))
  BY <1>9, <1>10
<1> QED BY <1>8, <1>9, <1>11 DEF R, y
-----------------------------------------------------------------------------
(* Totals.                                                                 *)

\* The totals of the initial segments of a sequence.
SumsOf(values) ==
  LET upTo[i \in 0..Len(values)] == IF i = 0 THEN 0 ELSE upTo[i - 1] + values[i]
  IN  upTo

\* The partial sums that Total computes.
LEMMA SumsByStep ==
  ASSUME NEW s \in Seq(Int)
  PROVE  /\ SumsOf(s) \in [0..Len(s) -> Int]
         /\ \A i \in 0..Len(s) : SumsOf(s)[i] = IF i = 0 THEN 0 ELSE SumsOf(s)[i - 1] + s[i]
<1> DEFINE step == [p \in (1..Len(s)) \X Int |-> p[2] + s[p[1]]]
<1>1. Len(s) \in Nat /\ \A i \in 1..Len(s) : s[i] \in Int
  OBVIOUS
<1>2. step \in [(1..Len(s)) \X Int -> Int]
  BY <1>1
<1>3. \A i \in 1..Len(s), x \in Int : step[<<i, x>>] = x + s[i]
  BY <1>1
<1> HIDE DEF step
<1>4. PICK f \in [0..Len(s) -> Int] : Iterates(f, 0, step, Len(s))
  <2>1. 0 \in Int
    OBVIOUS
  <2> QED BY <1>1, <1>2, <2>1, IterationExists
<1>5. ASSUME NEW i \in 0..Len(s) PROVE f[i] = IF i = 0 THEN 0 ELSE f[i - 1] + s[i]
  <2>1. CASE i = 0
    BY <1>4, <2>1 DEF Iterates
  <2>2. CASE i # 0
    <3>1. i \in 1..Len(s) /\ i - 1 \in 0..Len(s)
      BY <2>2, <1>1
    <3> QED BY <1>3, <1>4, <2>2, <3>1 DEF Iterates
  <2> QED BY <2>1, <2>2
<1> DEFINE P(h) == h = [i \in 0..Len(s) |-> IF i = 0 THEN 0 ELSE h[i - 1] + s[i]]
           h == SumsOf(s)
<1>6. P(f)
  BY <1>5
<1>7. h = CHOOSE g : P(g)
  BY DEF SumsOf
<1> HIDE DEF h
<1>8. P(h)
  BY <1>6, <1>7
<1>9. \A i \in 0..Len(s) : h[i] = f[i]
  <2> DEFINE Q == {i \in Nat : h[i] = f[i]}
  <2>1. 0 \in Q /\ \A i \in 1..Len(s) : i - 1 \in Q => i \in Q
    BY <1>1, <1>6, <1>8
  <2>2. 0..Len(s) \subseteq Q
    <3> HIDE DEF Q
    <3> QED BY <1>1, <2>1, SegmentInduction
  <2> QED BY <2>2
<1>10. h = f
  BY <1>8, <1>9
<1> QED BY <1>5, <1>10 DEF h

\* A total of integers is an integer.
LEMMA TotalType ==
  ASSUME NEW s \in Seq(Int)
  PROVE  Total(s) \in Int
<1>1. Total(s) = SumsOf(s)[Len(s)] /\ Len(s) \in 0..Len(s)
  BY DEF Total, SumsOf
<1> QED BY <1>1, SumsByStep

\* Nothing adds up to zero.
LEMMA TotalOfNothing == Total(<< >>) = 0
<1>1. << >> \in Seq(Int) /\ Len(<< >>) = 0 /\ 0 \in 0..0
  OBVIOUS
<1>2. SumsOf(<< >>)[0] = 0
  BY <1>1, SumsByStep
<1> QED BY <1>1, <1>2 DEF Total, SumsOf

\* One more term is added.
LEMMA TotalOfAppend ==
  ASSUME NEW s \in Seq(Int), NEW a \in Int
  PROVE  Total(Append(s, a)) = Total(s) + a
<1> DEFINE N == Len(s)
           t == Append(s, a)
           f == SumsOf(s)
           g == SumsOf(t)
           Q == {i \in Nat : f[i] = g[i]}
<1>1. N \in Nat /\ t \in Seq(Int) /\ Len(t) = N + 1 /\ t[N + 1] = a /\ \A i \in 1..N : t[i] = s[i]
  OBVIOUS
<1>2. Total(s) = f[N] /\ Total(t) = g[Len(t)]
  BY DEF Total, SumsOf
<1> HIDE DEF t
<1>3. \A i \in 0..N : f[i] = IF i = 0 THEN 0 ELSE f[i - 1] + s[i]
  BY SumsByStep
<1>4. \A i \in 0..(N + 1) : g[i] = IF i = 0 THEN 0 ELSE g[i - 1] + t[i]
  BY <1>1, SumsByStep
<1> HIDE DEF f, g, N
<1>5. 0 \in Q
  BY <1>1, <1>3, <1>4
<1>6. \A i \in 1..N : i - 1 \in Q => i \in Q
  <2> SUFFICES ASSUME NEW i \in 1..N, i - 1 \in Q PROVE f[i] = g[i]
    <3>1. \A i \in 1..N : i \in Nat
      BY <1>1
    <3> QED BY <3>1
  <2>0. f[i - 1] = g[i - 1]
    OBVIOUS
  <2>1. i \in 0..N /\ i \in 0..(N + 1) /\ i # 0
    BY <1>1
  <2> QED BY <1>1, <1>3, <1>4, <2>0, <2>1
<1>7. 0..N \subseteq Q
  <2> HIDE DEF Q
  <2> QED BY <1>1, <1>5, <1>6, SegmentInduction
<1>8. f[N] = g[N]
  BY <1>1, <1>7
<1>9. N + 1 \in 0..(N + 1) /\ N + 1 # 0 /\ (N + 1) - 1 = N
  BY <1>1
<1>10. g[N + 1] = g[N] + a
  BY <1>1, <1>4, <1>9
<1> QED BY <1>1, <1>2, <1>8, <1>10 DEF t
-----------------------------------------------------------------------------
(* The elements of a sequence that are in a set.                           *)

\* What is kept of the initial segments of a sequence.
KeptOf(s, set) ==
  LET upTo[i \in 0..Len(s)] ==
        IF i = 0 THEN << >>
        ELSE IF s[i] \in set THEN Append(upTo[i - 1], s[i]) ELSE upTo[i - 1]
  IN  upTo

Keeps(f, s, set) ==
  /\ f[0] = << >>
  /\ \A i \in 1..Len(s) : f[i] = IF s[i] \in set THEN Append(f[i - 1], s[i]) ELSE f[i - 1]

\* What Only has kept after each element.
LEMMA KeptByStep ==
  ASSUME NEW T, NEW s \in Seq(T), NEW set
  PROVE  /\ KeptOf(s, set) \in [0..Len(s) -> Seq(T \cap set)]
         /\ Keeps(KeptOf(s, set), s, set)
<1> DEFINE A == Seq(T \cap set)
           Next(i, x) == IF s[i] \in set THEN Append(x, s[i]) ELSE x
           step == [p \in (1..Len(s)) \X A |-> Next(p[1], p[2])]
<1>1. Len(s) \in Nat /\ \A i \in 1..Len(s) : s[i] \in T
  OBVIOUS
<1>2. \A i \in 1..Len(s), x \in A : Next(i, x) \in A
  BY <1>1
<1>3. << >> \in A
  OBVIOUS
<1> HIDE DEF Next, A
<1>4. /\ step \in [(1..Len(s)) \X A -> A]
      /\ \A i \in 1..Len(s), x \in A : step[<<i, x>>] = Next(i, x)
  BY <1>2
<1> HIDE DEF step
<1>5. PICK f \in [0..Len(s) -> A] : Iterates(f, << >>, step, Len(s))
  BY <1>1, <1>3, <1>4, IterationExists
<1>6. \A i \in 0..Len(s) : f[i] = IF i = 0 THEN << >> ELSE Next(i, f[i - 1])
  <2> SUFFICES ASSUME NEW i \in 0..Len(s)
               PROVE  f[i] = IF i = 0 THEN << >> ELSE Next(i, f[i - 1])
    OBVIOUS
  <2>1. CASE i = 0
    BY <1>5, <2>1 DEF Iterates
  <2>2. CASE i # 0
    <3>1. i \in 1..Len(s) /\ i - 1 \in 0..Len(s)
      BY <2>2, <1>1
    <3>2. f[i - 1] \in A
      BY <1>5, <3>1
    <3> QED BY <1>4, <1>5, <2>2, <3>1, <3>2 DEF Iterates
  <2> QED BY <2>1, <2>2
<1> DEFINE P(h) == h = [i \in 0..Len(s) |-> IF i = 0 THEN << >> ELSE Next(i, h[i - 1])]
           h == KeptOf(s, set)
<1>7. P(f)
  BY <1>6
<1>8. h = CHOOSE g : P(g)
  BY DEF KeptOf, Next
<1> HIDE DEF h
<1>9. P(h)
  BY <1>7, <1>8
<1>10. \A i \in 0..Len(s) : h[i] = f[i]
  <2> DEFINE Q == {i \in Nat : h[i] = f[i]}
  <2>1. 0 \in Q /\ \A i \in 1..Len(s) : i - 1 \in Q => i \in Q
    BY <1>1, <1>7, <1>9
  <2>2. 0..Len(s) \subseteq Q
    <3> HIDE DEF Q
    <3> QED BY <1>1, <2>1, SegmentInduction
  <2> QED BY <2>2
<1>11. h = f
  BY <1>9, <1>10
<1>12. \A i \in 1..Len(s) : i \in 0..Len(s) /\ i # 0
  BY <1>1
<1>13. KeptOf(s, set) = f
  BY <1>11 DEF h
<1>14. f[0] = << >>
  BY <1>1, <1>6
<1>15. \A i \in 1..Len(s) : f[i] = IF s[i] \in set THEN Append(f[i - 1], s[i]) ELSE f[i - 1]
  BY <1>6, <1>12 DEF Next
<1>16. Keeps(f, s, set)
  BY <1>14, <1>15 DEF Keeps
<1> QED BY <1>5, <1>13, <1>16 DEF A

\* What is kept is of the sequence, is in the set, and is not longer.
LEMMA OnlyType ==
  ASSUME NEW T, NEW s \in Seq(T), NEW set
  PROVE  Only(s, set) \in Seq(T \cap set) /\ Only(s, set) \in Seq(T)
<1>1. Only(s, set) = KeptOf(s, set)[Len(s)]
  BY DEF Only, KeptOf
<1>2. Len(s) \in 0..Len(s)
  OBVIOUS
<1>3. Only(s, set) \in Seq(T \cap set)
  BY <1>1, <1>2, KeptByStep
<1>4. \A t \in Seq(T \cap set) : t \in Seq(T)
  OBVIOUS
<1> QED BY <1>3, <1>4

\* Of nothing nothing is kept.
LEMMA OnlyOfNothing ==
  ASSUME NEW set
  PROVE  Only(<< >>, set) = << >>
<1>1. << >> \in Seq({}) /\ Len(<< >>) = 0
  OBVIOUS
<1>2. KeptOf(<< >>, set) \in [0..Len(<< >>) -> Seq({} \cap set)]
  BY <1>1, KeptByStep
<1>3. KeptOf(<< >>, set)[0] = << >>
  <2> Keeps(KeptOf(<< >>, set), << >>, set)
    BY <1>1, <1>2, KeptByStep
  <2> QED BY DEF Keeps
<1> QED BY <1>1, <1>3 DEF Only, KeptOf

\* One more element is kept if it is in the set.
LEMMA OnlyOfAppend ==
  ASSUME NEW T, NEW s \in Seq(T), NEW a \in T, NEW set
  PROVE  Only(Append(s, a), set) =
           IF a \in set THEN Append(Only(s, set), a) ELSE Only(s, set)
<1> DEFINE N == Len(s)
           t == Append(s, a)
           f == KeptOf(s, set)
           g == KeptOf(t, set)
           Q == {i \in Nat : f[i] = g[i]}
<1>1. N \in Nat /\ t \in Seq(T) /\ Len(t) = N + 1 /\ t[N + 1] = a /\ \A i \in 1..N : t[i] = s[i]
  OBVIOUS
<1>2. Only(s, set) = f[N] /\ Only(t, set) = g[Len(t)]
  BY DEF Only, KeptOf
<1> HIDE DEF t, f, g
<1>3. /\ f[0] = << >>
      /\ \A i \in 1..N : f[i] = IF s[i] \in set THEN Append(f[i - 1], s[i]) ELSE f[i - 1]
  <2> Keeps(f, s, set)
    BY KeptByStep DEF f
  <2> QED BY DEF Keeps, N
<1>4. /\ g[0] = << >>
      /\ \A i \in 1..(N + 1) :
           g[i] = IF t[i] \in set THEN Append(g[i - 1], t[i]) ELSE g[i - 1]
  <2>1. t \in Seq(T) /\ Len(t) = N + 1
    BY <1>1
  <2> HIDE DEF N
  <2>2. Keeps(g, t, set)
    BY <2>1, KeptByStep DEF g
  <2> QED BY <2>1, <2>2 DEF Keeps
<1> HIDE DEF N
<1>5. 0 \in Q
  BY <1>3, <1>4
<1>6. \A i \in 1..N : i - 1 \in Q => i \in Q
  <2> SUFFICES ASSUME NEW i \in 1..N, i - 1 \in Q PROVE f[i] = g[i]
    <3>1. \A i \in 1..N : i \in Nat
      BY <1>1
    <3> QED BY <3>1
  <2>0. f[i - 1] = g[i - 1]
    OBVIOUS
  <2>1. i \in 1..(N + 1) /\ t[i] = s[i]
    BY <1>1
  <2> QED BY <1>3, <1>4, <2>0, <2>1
<1>7. 0..N \subseteq Q
  <2> HIDE DEF Q
  <2> QED BY <1>1, <1>5, <1>6, SegmentInduction
<1>8. f[N] = g[N]
  BY <1>1, <1>7
<1>9. N + 1 \in 1..(N + 1) /\ (N + 1) - 1 = N
  BY <1>1
<1>10. g[N + 1] = IF a \in set THEN Append(g[N], a) ELSE g[N]
  BY <1>1, <1>4, <1>9
<1> QED BY <1>1, <1>2, <1>8, <1>10 DEF t

\* Two sequences agree everywhere, in the sense of a relation.
InStep(x, y, R) == Len(x) = Len(y) /\ \A k \in 1..Len(x) : <<x[k], y[k]>> \in R

\* Two sequences whose elements are kept at the same places, and agree there,
\* keep sequences of equal length that agree everywhere.
LEMMA OnlyInStep ==
  ASSUME NEW T, NEW s \in Seq(T), NEW A, NEW U, NEW t \in Seq(U), NEW B, NEW R,
         Len(s) = Len(t),
         \A i \in 1..Len(s) : s[i] \in A <=> t[i] \in B,
         \A i \in 1..Len(s) : s[i] \in A => <<s[i], t[i]>> \in R
  PROVE  InStep(Only(s, A), Only(t, B), R)
<1> DEFINE f == KeptOf(s, A)
           g == KeptOf(t, B)
           N == Len(s)
           Same(x, y) == Len(x) = Len(y) /\ \A k \in 1..Len(x) : <<x[k], y[k]>> \in R
           Q == {i \in Nat : Same(f[i], g[i])}
<1>1. N \in Nat
  OBVIOUS
<1>2. /\ f \in [0..N -> Seq(T)] /\ f[0] = << >>
      /\ \A i \in 1..N : f[i] = IF s[i] \in A THEN Append(f[i - 1], s[i]) ELSE f[i - 1]
  <2>1. \A x \in Seq(T \cap A) : x \in Seq(T)
    OBVIOUS
  <2> HIDE DEF f
  <2>2. f \in [0..N -> Seq(T \cap A)]
    BY KeptByStep DEF f
  <2>3. Keeps(f, s, A)
    BY KeptByStep DEF f
  <2> QED BY <2>1, <2>2, <2>3 DEF Keeps
<1>3. /\ g \in [0..N -> Seq(U)] /\ g[0] = << >>
      /\ \A i \in 1..N : g[i] = IF t[i] \in B THEN Append(g[i - 1], t[i]) ELSE g[i - 1]
  <2>1. \A x \in Seq(U \cap B) : x \in Seq(U)
    OBVIOUS
  <2> HIDE DEF g
  <2>2. g \in [0..N -> Seq(U \cap B)]
    BY KeptByStep DEF g
  <2>3. Keeps(g, t, B)
    BY KeptByStep DEF g
  <2> QED BY <2>1, <2>2, <2>3 DEF Keeps
<1>4. \A i \in 1..N : /\ i - 1 \in 0..N /\ i \in 0..N /\ s[i] \in T /\ t[i] \in U
                      /\ s[i] \in A <=> t[i] \in B
                      /\ s[i] \in A => <<s[i], t[i]>> \in R
  BY <1>1
<1>5. Only(s, A) = f[N] /\ Only(t, B) = g[N]
  BY DEF Only, KeptOf
<1>6. \A x \in Seq(T), y \in Seq(U), a \in T, b \in U :
         Same(x, y) /\ <<a, b>> \in R => Same(Append(x, a), Append(y, b))
  <2> SUFFICES ASSUME NEW x \in Seq(T), NEW y \in Seq(U), NEW a \in T, NEW b \in U,
                      Same(x, y), <<a, b>> \in R,
                      NEW k \in 1..(Len(x) + 1)
               PROVE  /\ Len(Append(x, a)) = Len(x) + 1
                      /\ Len(Append(y, b)) = Len(x) + 1
                      /\ <<Append(x, a)[k], Append(y, b)[k]>> \in R
    <3>1. \A x \in Seq(T), a \in T : Len(Append(x, a)) = Len(x) + 1
      OBVIOUS
    <3>2. \A y \in Seq(U), b \in U : Len(Append(y, b)) = Len(y) + 1
      OBVIOUS
    <3> QED BY <3>1, <3>2
  <2>1. CASE k = Len(x) + 1
    <3>1. Append(x, a)[k] = a /\ Append(y, b)[k] = b
      BY <2>1
    <3> QED BY <3>1
  <2>2. CASE k # Len(x) + 1
    <3>1. k \in 1..Len(x) /\ Len(x) = Len(y)
      BY <2>2
    <3>2. Append(x, a)[k] = x[k] /\ Append(y, b)[k] = y[k]
      BY <3>1
    <3>3. <<x[k], y[k]>> \in R
      BY <3>1
    <3> QED BY <3>1, <3>2, <3>3
  <2> QED BY <2>1, <2>2
<1>7. Same(<< >>, << >>)
  OBVIOUS
<1> HIDE DEF f, g, N, Same
<1>8. 0 \in Q
  BY <1>2, <1>3, <1>7
<1>9. \A i \in 1..N : i - 1 \in Q => i \in Q
  <2> SUFFICES ASSUME NEW i \in 1..N, Same(f[i - 1], g[i - 1]) PROVE Same(f[i], g[i])
    BY <1>1
  <2>1. f[i - 1] \in Seq(T) /\ g[i - 1] \in Seq(U)
    BY <1>2, <1>3, <1>4
  <2>2. CASE s[i] \in A
    BY <1>2, <1>3, <1>4, <1>6, <2>1, <2>2
  <2>3. CASE s[i] \notin A
    BY <1>2, <1>3, <1>4, <2>3
  <2> QED BY <2>2, <2>3
<1>10. 0..N \subseteq Q
  <2> HIDE DEF Q
  <2> QED BY <1>1, <1>8, <1>9, SegmentInduction
<1>11. Same(f[N], g[N])
  BY <1>1, <1>10
<1> QED BY <1>5, <1>11 DEF Same, InStep

\* The elements of a longer sequence.
LEMMA RangeOfAppend ==
  ASSUME NEW T, NEW s \in Seq(T), NEW a \in T
  PROVE  Range(Append(s, a)) = Range(s) \cup {a}
<1> DEFINE t == Append(s, a)
           N == Len(s)
<1>1. /\ N \in Nat /\ DOMAIN s = 1..N /\ DOMAIN t = 1..(N + 1)
      /\ t[N + 1] = a /\ \A i \in 1..N : t[i] = s[i]
  OBVIOUS
<1> HIDE DEF t, N
<1>2. ASSUME NEW x \in Range(t) PROVE x \in Range(s) \cup {a}
  <2>1. PICK i \in 1..(N + 1) : x = t[i]
    BY <1>1, <1>2 DEF Range
  <2> QED BY <1>1, <2>1 DEF Range
<1>3. ASSUME NEW x \in Range(s) PROVE x \in Range(t)
  <2>1. PICK i \in 1..N : x = s[i]
    BY <1>1, <1>3 DEF Range
  <2>2. i \in 1..(N + 1) /\ x = t[i]
    BY <1>1, <2>1
  <2> QED BY <1>1, <2>2 DEF Range
<1>4. a \in Range(t)
  <2>1. N + 1 \in 1..(N + 1)
    BY <1>1
  <2> QED BY <1>1, <2>1 DEF Range
<1>5. Range(t) = Range(s) \cup {a}
  BY <1>2, <1>3, <1>4
<1> QED BY <1>5 DEF t

\* What is kept is what is of the sequence and in the set.
LEMMA OnlyRange ==
  ASSUME NEW T, NEW s \in Seq(T), NEW set
  PROVE  Range(Only(s, set)) = Range(s) \cap set
<1> DEFINE S == {x \in Seq(T) : Range(Only(x, set)) = Range(x) \cap set}
<1>1. << >> \in S
  <2>1. Range(<< >>) = {} /\ << >> \in Seq(T)
    BY DEF Range
  <2> QED BY <2>1, OnlyOfNothing
<1>2. ASSUME NEW x \in Seq(T), NEW a \in T, x \in S PROVE Append(x, a) \in S
  <2>1. Only(x, set) \in Seq(T)
    BY OnlyType
  <2>2. Range(Append(x, a)) = Range(x) \cup {a}
    BY RangeOfAppend
  <2>3. Range(Append(Only(x, set), a)) = Range(Only(x, set)) \cup {a}
    BY <2>1, RangeOfAppend
  <2>4. Only(Append(x, a), set) = IF a \in set THEN Append(Only(x, set), a) ELSE Only(x, set)
    BY OnlyOfAppend
  <2>5. Range(Only(x, set)) = Range(x) \cap set
    BY <1>2
  <2>6. Append(x, a) \in Seq(T)
    OBVIOUS
  <2>7. Range(Only(Append(x, a), set)) = Range(Append(x, a)) \cap set
    <3>1. CASE a \in set
      BY <2>2, <2>3, <2>4, <2>5, <3>1
    <3>2. CASE a \notin set
      BY <2>2, <2>4, <2>5, <3>2
    <3> QED BY <3>1, <3>2
  <2> QED BY <2>6, <2>7
<1> HIDE DEF S
<1>3. Seq(T) \subseteq S
  BY <1>1, <1>2, SequenceInduction
<1> QED BY <1>3 DEF S

\* What holds of every two elements in their order holds of those that are kept.
LEMMA OnlyOrdered ==
  ASSUME NEW T, NEW s \in Seq(T), NEW set, NEW R,
         \A i, j \in 1..Len(s) : i < j => <<s[i], s[j]>> \in R
  PROVE  \A i, j \in 1..Len(Only(s, set)) : i < j => <<Only(s, set)[i], Only(s, set)[j]>> \in R
<1> DEFINE Ordered(x) == \A i, j \in 1..Len(x) : i < j => <<x[i], x[j]>> \in R
           S == {x \in Seq(T) : Ordered(x) => Ordered(Only(x, set))}
<1>1. << >> \in S
  <2>1. << >> \in Seq(T) /\ Len(<< >>) = 0
    OBVIOUS
  <2> QED BY <2>1, OnlyOfNothing
<1>2. ASSUME NEW x \in Seq(T), NEW a \in T
      PROVE  Ordered(Append(x, a)) <=> Ordered(x) /\ \A e \in Range(x) : <<e, a>> \in R
  <2> DEFINE t == Append(x, a)
             N == Len(x)
  <2>1. /\ N \in Nat /\ DOMAIN x = 1..N /\ Len(t) = N + 1
        /\ t[N + 1] = a /\ \A i \in 1..N : t[i] = x[i]
    OBVIOUS
  <2> HIDE DEF t
  <2>2. ASSUME Ordered(t) PROVE Ordered(x) /\ \A e \in Range(x) : <<e, a>> \in R
    <3>1. Ordered(x)
      BY <2>1, <2>2
    <3>2. ASSUME NEW e \in Range(x) PROVE <<e, a>> \in R
      <4>1. PICK i \in 1..N : e = x[i]
        BY <2>1, <3>2 DEF Range
      <4> QED BY <2>1, <2>2, <4>1
    <3> QED BY <3>1, <3>2
  <2>3. ASSUME Ordered(x), \A e \in Range(x) : <<e, a>> \in R PROVE Ordered(t)
    <3> SUFFICES ASSUME NEW i \in 1..(N + 1), NEW j \in 1..(N + 1), i < j
                 PROVE  <<t[i], t[j]>> \in R
      BY <2>1
    <3>1. i \in 1..N /\ t[i] = x[i] /\ x[i] \in Range(x)
      BY <2>1 DEF Range
    <3>2. CASE j = N + 1
      BY <2>1, <2>3, <3>1, <3>2
    <3>3. CASE j # N + 1
      <4>1. j \in 1..N /\ t[j] = x[j]
        BY <2>1, <3>3
      <4> QED BY <2>3, <3>1, <4>1
    <3> QED BY <3>2, <3>3
  <2> QED BY <2>2, <2>3 DEF t
<1> HIDE DEF Ordered
<1>3. ASSUME NEW x \in Seq(T), NEW a \in T, x \in S PROVE Append(x, a) \in S
  <2> SUFFICES ASSUME Ordered(Append(x, a)) PROVE Ordered(Only(Append(x, a), set))
    OBVIOUS
  <2>1. Only(x, set) \in Seq(T) /\ Range(Only(x, set)) \subseteq Range(x)
    BY OnlyType, OnlyRange
  <2>2. Ordered(x) /\ \A e \in Range(x) : <<e, a>> \in R
    BY <1>2
  <2>3. Ordered(Only(x, set))
    BY <1>3, <2>2
  <2>4. Ordered(Append(Only(x, set), a))
    BY <1>2, <2>1, <2>2, <2>3
  <2> QED BY <2>3, <2>4, OnlyOfAppend
<1> HIDE DEF S
<1>4. Seq(T) \subseteq S
  BY <1>1, <1>3, SequenceInduction
<1> QED BY <1>4 DEF S, Ordered

\* Keeping twice is keeping what is in both sets.
LEMMA OnlyTwice ==
  ASSUME NEW T, NEW s \in Seq(T), NEW A, NEW B
  PROVE  Only(Only(s, A), B) = Only(s, A \cap B)
<1> DEFINE S == {x \in Seq(T) : Only(Only(x, A), B) = Only(x, A \cap B)}
<1>1. << >> \in S
  <2>1. << >> \in Seq(T)
    OBVIOUS
  <2> QED BY <2>1, OnlyOfNothing
<1>2. ASSUME NEW x \in Seq(T), NEW a \in T, x \in S PROVE Append(x, a) \in S
  <2> DEFINE C == A \cap B
  <2>0. a \in C <=> a \in A /\ a \in B
    OBVIOUS
  <2>1. Only(x, A) \in Seq(T)
    BY OnlyType
  <2>7. Append(x, a) \in Seq(T)
    OBVIOUS
  <2>2. Only(Only(x, A), B) = Only(x, A \cap B)
    BY <1>2
  <2>3. Only(Append(Only(x, A), a), B) =
          IF a \in B THEN Append(Only(Only(x, A), B), a) ELSE Only(Only(x, A), B)
    BY <2>1, OnlyOfAppend
  <2>4. Only(Append(x, a), A) = IF a \in A THEN Append(Only(x, A), a) ELSE Only(x, A)
    BY OnlyOfAppend
  <2>5. Only(Append(x, a), C) = IF a \in C THEN Append(Only(x, C), a) ELSE Only(x, C)
    <3> HIDE DEF C
    <3> QED BY OnlyOfAppend
  <2>6. Only(Only(Append(x, a), A), B) = Only(Append(x, a), C)
    <3>1. Only(Only(x, A), B) = Only(x, C)
      BY <2>2
    <3> HIDE DEF C
    <3>2. CASE a \in A
      BY <2>0, <2>3, <2>4, <2>5, <3>1, <3>2
    <3>3. CASE a \notin A
      BY <2>0, <2>4, <2>5, <3>1, <3>3
    <3> QED BY <3>2, <3>3
  <2> QED BY <2>6, <2>7
<1> HIDE DEF S
<1>3. Seq(T) \subseteq S
  BY <1>1, <1>2, SequenceInduction
<1> QED BY <1>3 DEF S

\* Elements that are kept at the same places are equally many.
LEMMA OnlyAsMany ==
  ASSUME NEW T, NEW s \in Seq(T), NEW A, NEW U, NEW t \in Seq(U), NEW B, Len(s) = Len(t),
         \A i \in 1..Len(s) : s[i] \in A <=> t[i] \in B
  PROVE  Len(Only(s, A)) = Len(Only(t, B))
<1> DEFINE R == T \X U
<1>1. \A i \in 1..Len(s) : s[i] \in A => <<s[i], t[i]>> \in R
  OBVIOUS
<1> HIDE DEF R
<1>2. InStep(Only(s, A), Only(t, B), R)
  BY <1>1, OnlyInStep
<1> QED BY <1>2 DEF InStep

\* If they are equal there, the same is kept.
LEMMA OnlySame ==
  ASSUME NEW T, NEW s \in Seq(T), NEW A, NEW U, NEW t \in Seq(U), NEW B, Len(s) = Len(t),
         \A i \in 1..Len(s) : s[i] \in A <=> t[i] \in B,
         \A i \in 1..Len(s) : s[i] \in A => s[i] = t[i]
  PROVE  Only(s, A) = Only(t, B)
<1> DEFINE R == {p \in T \X U : p[1] = p[2]}
           x == Only(s, A)
           y == Only(t, B)
<1>1. \A i \in 1..Len(s) : s[i] \in A => <<s[i], t[i]>> \in R
  OBVIOUS
<1>2. \A a, b : <<a, b>> \in R => a = b
  OBVIOUS
<1> HIDE DEF R
<1>3. Len(x) = Len(y) /\ \A k \in 1..Len(x) : <<x[k], y[k]>> \in R
  <2>1. InStep(x, y, R)
    BY <1>1, OnlyInStep
  <2> QED BY <2>1 DEF InStep
<1>4. x \in Seq(T) /\ y \in Seq(U)
  <2>1. x \in Seq(T)
    BY OnlyType
  <2>2. y \in Seq(U)
    BY OnlyType
  <2> QED BY <2>1, <2>2
<1> HIDE DEF x, y
<1>5. x = y
  <2>1. \A k \in 1..Len(x) : x[k] = y[k]
    BY <1>2, <1>3
  <2>2. x = [k \in 1..Len(x) |-> x[k]] /\ y = [k \in 1..Len(y) |-> y[k]]
    BY <1>4
  <2> QED BY <1>3, <2>1, <2>2
<1> QED BY <1>5 DEF x, y

\* If they agree on a field there, the columns are equal.
LEMMA OnlySameColumn ==
  ASSUME NEW T, NEW s \in Seq(T), NEW A, NEW U, NEW t \in Seq(U), NEW B, NEW field,
         Len(s) = Len(t),
         \A i \in 1..Len(s) : s[i] \in A <=> t[i] \in B,
         \A i \in 1..Len(s) : s[i] \in A => s[i][field] = t[i][field]
  PROVE  Column(Only(s, A), field) = Column(Only(t, B), field)
<1> DEFINE R == {p \in T \X U : p[1][field] = p[2][field]}
           x == Only(s, A)
           y == Only(t, B)
<1>1. \A i \in 1..Len(s) : s[i] \in A => <<s[i], t[i]>> \in R
  OBVIOUS
<1>2. \A a, b : <<a, b>> \in R => a[field] = b[field]
  OBVIOUS
<1> HIDE DEF R
<1>3. Len(x) = Len(y) /\ \A k \in 1..Len(x) : <<x[k], y[k]>> \in R
  <2>1. InStep(x, y, R)
    BY <1>1, OnlyInStep
  <2> QED BY <2>1 DEF InStep
<1>4. DOMAIN x = 1..Len(x) /\ DOMAIN y = 1..Len(y)
  <2>1. x \in Seq(T)
    BY OnlyType
  <2>2. y \in Seq(U)
    BY OnlyType
  <2> HIDE DEF x, y
  <2> QED BY <2>1, <2>2
<1> HIDE DEF x, y
<1>5. Column(x, field) = Column(y, field)
  BY <1>2, <1>3, <1>4 DEF Column
<1> QED BY <1>5 DEF x, y
-----------------------------------------------------------------------------
(* Order.                                                                  *)

\* What increases at every step increases.
LEMMA StepsIncrease ==
  ASSUME NEW N \in Nat, NEW f \in [1..N -> Int], \A i \in 2..N : f[i - 1] < f[i]
  PROVE  \A i, k \in 1..N : i < k => f[i] < f[k]
<1> SUFFICES ASSUME NEW i \in 1..N PROVE \A k \in 1..N : i < k => f[i] < f[k]
  OBVIOUS
<1> DEFINE Q == {k \in Nat : i < k => f[i] < f[k]}
<1>1. 0 \in Q
  OBVIOUS
<1>2. \A k \in 1..N : k - 1 \in Q => k \in Q
  <2> SUFFICES ASSUME NEW k \in 1..N, k - 1 \in Q, i < k PROVE f[i] < f[k]
    OBVIOUS
  <2>1. k \in 2..N /\ k - 1 \in 1..N /\ f[k] \in Int /\ f[k - 1] \in Int /\ f[i] \in Int
    OBVIOUS
  <2>2. f[k - 1] < f[k]
    BY <2>1
  <2>3. f[i] <= f[k - 1]
    <3>1. CASE i < k - 1
      BY <2>1, <3>1
    <3>2. CASE i = k - 1
      BY <2>1, <3>2
    <3> QED BY <2>1, <3>1, <3>2
  <2> QED BY <2>1, <2>2, <2>3
<1>3. 0..N \subseteq Q
  <2> HIDE DEF Q
  <2> QED BY <1>1, <1>2, SegmentInduction
<1>4. \A k \in 1..N : k \in 0..N
  OBVIOUS
<1> QED BY <1>3, <1>4

\* A finite choice of elements of a sequence has a highest one.
LEMMA Highest ==
  ASSUME NEW s \in Seq(Int), NEW B, B \subseteq 1..Len(s), B # {}
  PROVE  \E j \in B : \A l \in B : s[l] <= s[j]
<1> DEFINE N == Len(s)
           Top(j, m) == j \in B /\ j <= m /\ \A l \in B : l <= m => s[l] <= s[j]
           Some(m) == \E j \in B : j <= m
           Q == {m \in Nat : Some(m) => \E j \in B : Top(j, m)}
<1>1. N \in Nat /\ \A j \in B : j \in Nat /\ 1 <= j /\ j <= N /\ s[j] \in Int
  <2>1. \A j \in 1..N : s[j] \in Int /\ j \in Nat /\ 1 <= j /\ j <= N
    OBVIOUS
  <2> QED BY <2>1
<1>2. 0 \in Q
  <2>1. ~Some(0)
    BY <1>1
  <2> QED BY <2>1
<1> HIDE DEF N
<1>3. ASSUME NEW m \in 1..N, m - 1 \in Q PROVE m \in Q
  <2>0. m \in Nat /\ m - 1 \in Nat
    BY <1>1
  <2> SUFFICES ASSUME Some(m) PROVE \E j \in B : Top(j, m)
    BY <2>0
  <2>1. \A l \in B : l <= m <=> l <= m - 1 \/ l = m
    BY <1>1, <2>0
  <2>2. CASE m \notin B
    <3>1. \A l \in B : l <= m <=> l <= m - 1
      BY <2>1, <2>2
    <3>2. PICK j \in B : Top(j, m - 1)
      BY <1>3, <3>1
    <3>3. Top(j, m)
      BY <3>1, <3>2
    <3> QED BY <3>3
  <2>3. CASE m \in B /\ ~Some(m - 1)
    <3>1. \A l \in B : l <= m <=> l = m
      BY <2>1, <2>3
    <3>2. Top(m, m)
      BY <1>1, <2>0, <2>3, <3>1
    <3> QED BY <2>3, <3>2
  <2>4. CASE m \in B /\ Some(m - 1)
    <3>1. PICK j \in B : Top(j, m - 1)
      BY <1>3, <2>4
    <3>2. s[j] \in Int /\ s[m] \in Int /\ m <= m
      BY <1>1, <2>0, <2>4
    <3>3. CASE s[j] <= s[m]
      <4>1. \A l \in B : l <= m => s[l] <= s[m]
        BY <1>1, <2>1, <3>1, <3>2, <3>3
      <4>2. Top(m, m)
        BY <2>4, <3>2, <4>1
      <4> QED BY <2>4, <4>2
    <3>4. CASE ~(s[j] <= s[m])
      <4>1. \A l \in B : l <= m => s[l] <= s[j]
        BY <1>1, <2>1, <3>1, <3>2, <3>4
      <4>2. Top(j, m)
        BY <2>1, <3>1, <4>1
      <4> QED BY <4>2
    <3> QED BY <3>3, <3>4
  <2> QED BY <2>2, <2>3, <2>4
<1>4. 0..N \subseteq Q
  <2> HIDE DEF Q
  <2> QED BY <1>1, <1>2, <1>3, SegmentInduction
<1>5. N \in Q
  <2>1. N \in 0..N
    BY <1>1
  <2> HIDE DEF Q
  <2> QED BY <1>4, <2>1
<1>6. Some(N)
  BY <1>1
<1>7. PICK j \in B : Top(j, N)
  BY <1>5, <1>6
<1> QED BY <1>1, <1>7

\* Choices of places are counted.
LEMMA PlacesCounted ==
  ASSUME NEW n \in Nat
  PROVE  /\ \A A : A \subseteq 1..n => Cardinality(A) \in Nat /\ Cardinality(A) <= n
         /\ Cardinality(1..n) = n /\ Cardinality({}) = 0
         /\ \A A, B : A \subseteq B /\ B \subseteq 1..n => Cardinality(A) <= Cardinality(B)
<1>1. IsFiniteSet(1..n) /\ Cardinality(1..n) = n
  <2>1. 1 \in Int /\ n \in Int /\ n - 1 + 1 = n
    OBVIOUS
  <2>2. /\ IsFiniteSet(1..n)
        /\ Cardinality(1..n) = IF 1 > n THEN 0 ELSE n - 1 + 1
    BY <2>1, FS_Interval
  <2> QED BY <2>2
<1>2. \A A : A \subseteq 1..n => IsFiniteSet(A) /\ Cardinality(A) \in Nat /\ Cardinality(A) <= n
  BY <1>1, FS_Subset, FS_CardinalityType
<1>3. \A A, B : A \subseteq B /\ B \subseteq 1..n => Cardinality(A) <= Cardinality(B)
  BY <1>2, FS_Subset
<1> QED BY <1>1, <1>2, <1>3, FS_EmptySet

\* Every place of the ascending order is taken by one of the values.
LEMMA AscendingType ==
  ASSUME NEW s \in Seq(Int)
  PROVE  /\ Ascending(s) \in Seq(Int) /\ Len(Ascending(s)) = Len(s)
         /\ \A k \in 1..Len(s) : Ascending(s)[k] \in Range(s)
<1> DEFINE N == Len(s)
           LowPlaces(x) == {i \in DOMAIN s : s[i] < x}
           Places(x) == {i \in DOMAIN s : s[i] <= x}
           Below(x) == Cardinality(LowPlaces(x))
           UpTo(x) == Cardinality(Places(x))
           Fits(k, x) == Below(x) < k /\ k <= UpTo(x)
<1>1. N \in Nat /\ DOMAIN s = 1..N /\ \A i \in 1..N : s[i] \in Int
  OBVIOUS
<1>2. Ascending(s) = [k \in DOMAIN s |-> CHOOSE x \in Range(s) : Fits(k, x)]
  BY DEF Ascending
<1>3. \A x : LowPlaces(x) \subseteq 1..N /\ Places(x) \subseteq 1..N
  BY <1>1
<1>4. \A x : Below(x) \in Nat /\ UpTo(x) \in Nat
  <2> HIDE DEF LowPlaces, Places, N
  <2> QED BY <1>1, <1>3, PlacesCounted
<1>5. ASSUME NEW k \in 1..N PROVE \E x \in Range(s) : Fits(k, x)
  <2> DEFINE S == {i \in 1..N : k <= UpTo(s[i])}
             neg == [i \in 1..N |-> -s[i]]
  <2>1. S # {}
    <3>1. 1..N # {} /\ 1..N \subseteq 1..Len(s)
      BY <1>1
    <3>2. PICK j \in 1..N : \A l \in 1..N : s[l] <= s[j]
      BY <3>1, Highest
    <3>3. Places(s[j]) = 1..N
      BY <1>1, <3>2
    <3>4. UpTo(s[j]) = N
      <4> HIDE DEF Places, N
      <4> QED BY <1>1, <3>3, PlacesCounted
    <3>5. k <= N
      BY <1>1
    <3> QED BY <3>2, <3>4, <3>5
  <2>2. PICK i \in S : \A l \in S : s[i] <= s[l]
    <3>1. neg \in Seq(Int) /\ Len(neg) = N
      BY <1>1
    <3>2. S \subseteq 1..Len(neg)
      BY <3>1
    <3>4. \A l \in S : neg[l] = -s[l] /\ s[l] \in Int
      BY <1>1
    <3> HIDE DEF S, neg
    <3>3. PICK i \in S : \A l \in S : neg[l] <= neg[i]
      BY <2>1, <3>1, <3>2, Highest
    <3>5. \A l \in S : s[i] <= s[l]
      BY <3>3, <3>4
    <3> QED BY <3>5
  <2>3. i \in 1..N /\ k <= UpTo(s[i]) /\ s[i] \in Range(s) /\ s[i] \in Int
    BY <1>1, <2>2 DEF Range
  <2>4. Below(s[i]) < k
    <3> SUFFICES ASSUME ~(Below(s[i]) < k) PROVE FALSE
      OBVIOUS
    <3> DEFINE B == LowPlaces(s[i])
    <3>1. k <= Below(s[i]) /\ 1 <= k
      <4>1. Below(s[i]) \in Nat
        BY <1>4, Zenon
      <4>2. k \in Nat /\ 1 <= k
        BY <1>1
      <4> HIDE DEF Below
      <4> QED BY <4>1, <4>2
    <3>2. B # {}
      <4> HIDE DEF LowPlaces, N
      <4> QED BY <1>1, <3>1, PlacesCounted
    <3>3. PICK j \in B : \A l \in B : s[l] <= s[j]
      <4>1. B \subseteq 1..Len(s)
        BY <1>3
      <4> HIDE DEF B
      <4> QED BY <3>2, <4>1, Highest
    <3>4. j \in 1..N /\ s[j] \in Int /\ s[j] < s[i]
      BY <1>1, <3>3
    <3>5. Places(s[j]) = B
      BY <1>1, <2>3, <3>3, <3>4
    <3>6. j \in S
      BY <3>1, <3>4, <3>5
    <3>7. s[i] <= s[j]
      BY <2>2, <3>6
    <3> QED BY <2>3, <3>4, <3>7
  <2> QED BY <2>3, <2>4
<1> HIDE DEF Fits, N
<1>6. \A k \in 1..N : (CHOOSE x \in Range(s) : Fits(k, x)) \in Range(s)
  BY <1>5
<1>7. \A k \in 1..N : Ascending(s)[k] \in Range(s)
  BY <1>1, <1>2, <1>6
<1>8. \A x \in Range(s) : x \in Int
  BY <1>1 DEF Range
<1>9. DOMAIN Ascending(s) = 1..N /\ Ascending(s) = [k \in 1..N |-> Ascending(s)[k]]
  BY <1>1, <1>2
<1>10. Ascending(s) \in Seq(Int) /\ Len(Ascending(s)) = N
  <2> DEFINE t == Ascending(s)
  <2>1. \A k \in 1..N : t[k] \in Int
    BY <1>7, <1>8
  <2>2. t = [k \in 1..N |-> t[k]]
    BY <1>9
  <2> HIDE DEF t
  <2>3. N \in Nat
    BY <1>1
  <2>4. t \in [1..N -> Int]
    BY <2>1, <2>2
  <2>5. t \in Seq(Int)
    BY <2>3, <2>4
  <2>6. Len(t) = N
    BY <2>2, <2>3, <2>5
  <2> QED BY <2>5, <2>6 DEF t
<1> QED BY <1>7, <1>10 DEF N

\* The median of integers is half an integer.
LEMMA TwiceMedianType ==
  ASSUME NEW s \in Seq(Int), s # << >>
  PROVE  TwiceMedian(s) \in Int
<1> DEFINE t == Ascending(s)
           n == Len(s)
<1>1. t \in Seq(Int) /\ Len(t) = n /\ n \in Nat /\ n >= 1
  BY AscendingType
<1>2. TwiceMedian(s) = t[(n + 1) \div 2] + t[n \div 2 + 1]
  BY DEF TwiceMedian
<1> HIDE DEF t, n
<1>3. (n + 1) \div 2 \in 1..n /\ n \div 2 + 1 \in 1..n
  BY <1>1
<1>4. t[(n + 1) \div 2] \in Int /\ t[n \div 2 + 1] \in Int
  BY <1>1, <1>3
<1> QED BY <1>2, <1>4

\* The median lies where all values do.
LEMMA TwiceMedianBetween ==
  ASSUME NEW s \in Seq(Int), s # << >>, NEW low \in Int, NEW high \in Int,
         \A i \in 1..Len(s) : low <= s[i] /\ s[i] <= high
  PROVE  2 * low <= TwiceMedian(s) /\ TwiceMedian(s) <= 2 * high
<1> DEFINE t == Ascending(s)
           n == Len(s)
<1>1. t \in Seq(Int) /\ Len(t) = n /\ n \in Nat /\ n >= 1 /\ \A k \in 1..n : t[k] \in Range(s)
  BY AscendingType
<1>2. TwiceMedian(s) = t[(n + 1) \div 2] + t[n \div 2 + 1]
  BY DEF TwiceMedian
<1>3. \A x \in Range(s) : x \in Int /\ low <= x /\ x <= high
  BY DEF Range
<1> HIDE DEF t, n
<1>4. (n + 1) \div 2 \in 1..n /\ n \div 2 + 1 \in 1..n
  BY <1>1
<1>5. /\ t[(n + 1) \div 2] \in Range(s)
      /\ t[n \div 2 + 1] \in Range(s)
  BY <1>1, <1>4
<1> QED BY <1>2, <1>3, <1>5
-----------------------------------------------------------------------------
(* Totals of what a function makes of a sequence's elements.               *)

Measure(s, v) == Total([i \in DOMAIN s |-> v[s[i]]])

\* Nothing measures zero.
LEMMA MeasureOfNothing ==
  ASSUME NEW v
  PROVE  Measure(<< >>, v) = 0
<1>1. [i \in DOMAIN << >> |-> v[<< >>[i]]] = << >>
  OBVIOUS
<1> QED BY <1>1, TotalOfNothing DEF Measure

\* One more element adds its measure.
LEMMA MeasureOfAppend ==
  ASSUME NEW T, NEW v \in [T -> Int], NEW s \in Seq(T), NEW a \in T
  PROVE  /\ Measure(s, v) \in Int
         /\ Measure(Append(s, a), v) = Measure(s, v) + v[a]
<1> DEFINE t == Append(s, a)
           x == [i \in DOMAIN s |-> v[s[i]]]
           y == [i \in DOMAIN t |-> v[t[i]]]
<1>1. /\ Len(s) \in Nat /\ DOMAIN s = 1..Len(s) /\ \A i \in 1..Len(s) : s[i] \in T
      /\ DOMAIN t = 1..(Len(s) + 1) /\ t[Len(s) + 1] = a /\ \A i \in 1..Len(s) : t[i] = s[i]
  OBVIOUS
<1>2. x \in Seq(Int) /\ Len(x) = Len(s) /\ v[a] \in Int
  BY <1>1
<1> HIDE DEF t
<1>3. y = Append(x, v[a])
  <2> DEFINE z == Append(x, v[a])
  <2>1. /\ DOMAIN z = 1..(Len(s) + 1) /\ z[Len(s) + 1] = v[a]
        /\ \A i \in 1..Len(s) : z[i] = x[i]
        /\ z = [i \in DOMAIN z |-> z[i]]
    BY <1>1, <1>2
  <2>2. \A i \in 1..(Len(s) + 1) : z[i] = v[t[i]]
    BY <1>1, <2>1
  <2> HIDE DEF z
  <2>3. y = z
    BY <1>1, <2>1, <2>2
  <2> QED BY <2>3 DEF z
<1> HIDE DEF x, y
<1>4. Total(x) \in Int /\ Total(Append(x, v[a])) = Total(x) + v[a]
  BY <1>2, TotalType, TotalOfAppend
<1> QED BY <1>3, <1>4 DEF Measure, x, y, t

\* What is kept of a sequence measures no more than all of it.
LEMMA MeasureOfOnly ==
  ASSUME NEW T, NEW v \in [T -> Nat], NEW s \in Seq(T), NEW A
  PROVE  /\ Measure(Only(s, A), v) \in Nat /\ Measure(s, v) \in Nat
         /\ Measure(Only(s, A), v) <= Measure(s, v)
<1> DEFINE Fine(x) == /\ Measure(Only(x, A), v) \in Nat /\ Measure(x, v) \in Nat
                      /\ Measure(Only(x, A), v) <= Measure(x, v)
           S == {x \in Seq(T) : Fine(x)}
<1>0. v \in [T -> Int]
  OBVIOUS
<1>1. << >> \in S
  <2>1. << >> \in Seq(T)
    OBVIOUS
  <2> QED BY <2>1, OnlyOfNothing, MeasureOfNothing
<1>2. ASSUME NEW x \in Seq(T), NEW a \in T, x \in S PROVE Append(x, a) \in S
  <2>1. Append(x, a) \in Seq(T) /\ v[a] \in Nat
    OBVIOUS
  <2>2. Only(x, A) \in Seq(T)
    BY OnlyType
  <2>3. Measure(Append(x, a), v) = Measure(x, v) + v[a]
    BY <1>0, MeasureOfAppend
  <2>4. Measure(Append(Only(x, A), a), v) = Measure(Only(x, A), v) + v[a]
    BY <1>0, <2>2, MeasureOfAppend
  <2>5. Only(Append(x, a), A) = IF a \in A THEN Append(Only(x, A), a) ELSE Only(x, A)
    BY OnlyOfAppend
  <2>6. Fine(x)
    BY <1>2
  <2>7. Fine(Append(x, a))
    <3>1. CASE a \in A
      BY <2>1, <2>3, <2>4, <2>5, <2>6, <3>1
    <3>2. CASE a \notin A
      BY <2>1, <2>3, <2>5, <2>6, <3>2
    <3> QED BY <3>1, <3>2
  <2> HIDE DEF Fine
  <2> QED BY <2>1, <2>7
<1>3. Seq(T) \subseteq S
  <2> HIDE DEF S
  <2> QED BY <1>1, <1>2, SequenceInduction
<1> QED BY <1>3

\* A total grows with its terms.
LEMMA TotalGrows ==
  ASSUME NEW s \in Seq(Int), NEW t \in Seq(Int), Len(s) = Len(t),
         \A i \in 1..Len(s) : s[i] <= t[i]
  PROVE  Total(s) <= Total(t)
<1> DEFINE f == SumsOf(s)
           g == SumsOf(t)
           N == Len(s)
           Q == {i \in Nat : f[i] <= g[i]}
<1>1. N \in Nat /\ \A i \in 1..N : s[i] \in Int /\ t[i] \in Int
  OBVIOUS
<1>2. /\ f \in [0..N -> Int] /\ g \in [0..N -> Int]
      /\ \A i \in 0..N : f[i] = IF i = 0 THEN 0 ELSE f[i - 1] + s[i]
      /\ \A i \in 0..N : g[i] = IF i = 0 THEN 0 ELSE g[i - 1] + t[i]
  BY SumsByStep
<1>3. \A i \in 1..N : s[i] <= t[i]
  OBVIOUS
<1>4. Total(s) = f[N] /\ Total(t) = g[N]
  BY DEF Total, SumsOf
<1> HIDE DEF f, g, N
<1>5. 0 \in Q
  BY <1>1, <1>2
<1>6. ASSUME NEW i \in 1..N, i - 1 \in Q PROVE i \in Q
  <2>1. i \in 0..N /\ i - 1 \in 0..N /\ i # 0 /\ i \in Nat
    BY <1>1
  <2>2. f[i - 1] \in Int /\ g[i - 1] \in Int /\ s[i] \in Int /\ t[i] \in Int
    BY <1>1, <1>2, <2>1
  <2>3. f[i] = f[i - 1] + s[i] /\ g[i] = g[i - 1] + t[i] /\ s[i] <= t[i] /\ f[i - 1] <= g[i - 1]
    BY <1>2, <1>3, <1>6, <2>1
  <2> QED BY <2>1, <2>2, <2>3
<1>7. 0..N \subseteq Q
  <2> HIDE DEF Q
  <2> QED BY <1>1, <1>5, <1>6, SegmentInduction
<1>8. N \in 0..N
  BY <1>1
<1> QED BY <1>4, <1>7, <1>8

\* A total of natural numbers is one, and is positive if one of them is.
LEMMA TotalOfNaturals ==
  ASSUME NEW s \in Seq(Nat)
  PROVE  /\ Total(s) \in Nat
         /\ \A i \in 1..Len(s) : s[i] <= Total(s)
<1> DEFINE f == SumsOf(s)
           N == Len(s)
           Q == {i \in Nat : i <= N => f[i] \in Nat /\ \A k \in 1..i : s[k] <= f[i]}
<1>0. s \in Seq(Int)
  OBVIOUS
<1>1. N \in Nat /\ \A i \in 1..N : s[i] \in Nat
  OBVIOUS
<1>2. \A i \in 0..N : f[i] = IF i = 0 THEN 0 ELSE f[i - 1] + s[i]
  BY <1>0, SumsByStep
<1>4. Total(s) = f[N]
  BY DEF Total, SumsOf
<1> HIDE DEF f, N
<1>5. 0 \in Q
  BY <1>1, <1>2
<1>6. ASSUME NEW i \in 1..N, i - 1 \in Q PROVE i \in Q
  <2>1. i \in 0..N /\ i - 1 \in 0..N /\ i # 0 /\ i \in Nat
    BY <1>1
  <2>2. f[i - 1] \in Nat /\ \A k \in 1..(i - 1) : s[k] <= f[i - 1]
    BY <1>1, <1>6, <2>1
  <2>3. f[i] = f[i - 1] + s[i] /\ s[i] \in Nat
    BY <1>1, <1>2, <2>1
  <2>4. \A k \in 1..i : s[k] <= f[i]
    <3> SUFFICES ASSUME NEW k \in 1..i PROVE s[k] <= f[i]
      OBVIOUS
    <3>1. CASE k = i
      BY <2>2, <2>3, <3>1
    <3>2. CASE k # i
      <4>1. k \in 1..(i - 1) /\ k \in 1..N
        BY <1>1, <2>1, <3>2
      <4> QED BY <1>1, <2>2, <2>3, <4>1
    <3> QED BY <3>1, <3>2
  <2> QED BY <2>1, <2>2, <2>3, <2>4
<1>7. 0..N \subseteq Q
  <2> HIDE DEF Q
  <2> QED BY <1>1, <1>5, <1>6, SegmentInduction
<1>8. N \in 0..N
  BY <1>1
<1> QED BY <1>1, <1>4, <1>7, <1>8 DEF N

\* A total of positive numbers is positive.
LEMMA PositiveTotal ==
  ASSUME NEW n \in Nat \ {0}, NEW s \in [1..n -> Nat \ {0}]
  PROVE  Total(s) \in Nat \ {0}
<1>1. s \in Seq(Nat) /\ Len(s) = n /\ 1 \in 1..Len(s) /\ s[1] \in Nat \ {0}
  OBVIOUS
<1>2. Total(s) \in Nat /\ s[1] <= Total(s)
  BY <1>1, TotalOfNaturals
<1> QED BY <1>1, <1>2

\* Terms bounded by terms have a bounded total.
LEMMA BoundedTotal ==
  ASSUME NEW n \in Nat, NEW s \in [1..n -> Nat], NEW t \in [1..n -> Nat],
         \A i \in 1..n : s[i] <= t[i]
  PROVE  Total(s) \in Nat /\ Total(s) <= Total(t)
<1>1. s \in Seq(Nat) /\ t \in Seq(Nat) /\ Len(s) = n /\ Len(t) = n
  OBVIOUS
<1>2. s \in Seq(Int) /\ t \in Seq(Int)
  OBVIOUS
<1>3. Total(s) \in Nat
  BY <1>1, TotalOfNaturals
<1>4. Total(s) <= Total(t)
  BY <1>1, <1>2, TotalGrows
<1> QED BY <1>3, <1>4

\* Equal terms add up to their multiple.
LEMMA TotalOfEquals ==
  ASSUME NEW n \in Nat, NEW c \in Int, NEW s \in [1..n -> Int], \A i \in 1..n : s[i] = c
  PROVE  Total(s) = n * c
<1> DEFINE f == SumsOf(s)
           P(i) == i * c
           Q == {i \in Nat : f[i] = P(i)}
<1>1. s \in Seq(Int) /\ Len(s) = n
  OBVIOUS
<1>2. f \in [0..n -> Int] /\ \A i \in 0..n : f[i] = IF i = 0 THEN 0 ELSE f[i - 1] + s[i]
  BY <1>1, SumsByStep
<1>3. Total(s) = f[n]
  BY <1>1 DEF Total, SumsOf
<1>4. \A i \in Nat : P(i) \in Int /\ P(i + 1) = P(i) + c
  OBVIOUS
<1>5. P(0) = 0
  OBVIOUS
<1> HIDE DEF f, P
<1>6. 0 \in Q
  BY <1>2, <1>5
<1>7. ASSUME NEW i \in 1..n, i - 1 \in Q PROVE i \in Q
  <2>1. i \in 0..n /\ i # 0 /\ i \in Nat /\ i - 1 \in Nat /\ (i - 1) + 1 = i
    OBVIOUS
  <2>2. f[i] = f[i - 1] + c /\ f[i - 1] = P(i - 1)
    BY <1>2, <1>7, <2>1
  <2>3. P((i - 1) + 1) = P(i - 1) + c
    BY <1>4, <2>1
  <2>4. f[i] = P(i)
    BY <2>1, <2>2, <2>3
  <2> QED BY <2>1, <2>4
<1>8. 0..n \subseteq Q
  <2> HIDE DEF Q
  <2> QED BY <1>6, <1>7, SegmentInduction
<1>9. n \in 0..n
  OBVIOUS
<1> QED BY <1>3, <1>8, <1>9 DEF P

\* Multiples of the odd numbers around zero add up to nothing: the first k of
\* them to k * (k - n) times c.
LEMMA TotalOfOdds ==
  ASSUME NEW n \in Nat, NEW c \in Int, NEW s \in [1..n -> Int],
         \A i \in 1..n : s[i] = (2 * i - n - 1) * c
  PROVE  Total(s) = 0
<1> DEFINE f == SumsOf(s)
           P(i) == (i * (i - n)) * c
           Q == {i \in Nat : f[i] = P(i)}
<1>1. s \in Seq(Int) /\ Len(s) = n
  OBVIOUS
<1>2. f \in [0..n -> Int] /\ \A i \in 0..n : f[i] = IF i = 0 THEN 0 ELSE f[i - 1] + s[i]
  BY <1>1, SumsByStep
<1>3. Total(s) = f[n]
  BY <1>1 DEF Total, SumsOf
<1>4. ASSUME NEW i \in Nat PROVE P(i) + (2 * (i + 1) - n - 1) * c = P(i + 1)
  <2> DEFINE x == i * (i - n)
             y == 2 * (i + 1) - n - 1
             z == (i + 1) * (i + 1 - n)
  <2>1. x + y = z /\ x \in Int /\ y \in Int /\ z \in Int
    OBVIOUS
  <2> HIDE DEF x, y, z
  <2>2. x * c + y * c = z * c
    <3>1. (x + y) * c = x * c + y * c
      BY <2>1
    <3> QED BY <2>1, <3>1
  <2> QED BY <2>2 DEF x, y, z
<1>5. P(0) = 0 /\ P(n) = 0
  <2>1. 0 * (0 - n) = 0 /\ n * (n - n) = 0
    OBVIOUS
  <2> QED BY <2>1
<1> HIDE DEF f, P
<1>6. 0 \in Q
  BY <1>2, <1>5
<1>7. ASSUME NEW i \in 1..n, i - 1 \in Q PROVE i \in Q
  <2>1. i \in 0..n /\ i # 0 /\ i \in Nat /\ i - 1 \in Nat /\ (i - 1) + 1 = i
    OBVIOUS
  <2>2. f[i] = f[i - 1] + (2 * i - n - 1) * c /\ f[i - 1] = P(i - 1)
    BY <1>2, <1>7, <2>1
  <2>3. P(i - 1) + (2 * ((i - 1) + 1) - n - 1) * c = P((i - 1) + 1)
    BY <1>4, <2>1
  <2>4. f[i] = P(i)
    BY <2>1, <2>2, <2>3
  <2> QED BY <2>1, <2>4
<1>8. 0..n \subseteq Q
  <2> HIDE DEF Q
  <2> QED BY <1>6, <1>7, SegmentInduction
<1>9. n \in 0..n
  OBVIOUS
<1> QED BY <1>3, <1>5, <1>8, <1>9
-----------------------------------------------------------------------------
(* Greatest integers.                                                     *)

\* A set of integers with an upper bound has a greatest element.
LEMMA GreatestInteger ==
  ASSUME NEW S, S \subseteq Int, S # {}, NEW b \in Int, \A x \in S : x <= b
  PROVE  \E x \in S : \A y \in S : y <= x
<1> DEFINE D == {b - x : x \in S}
<1>1. D \subseteq Nat /\ D # {}
  <2>1. \A x \in S : x \in Int /\ b - x \in Int /\ b - x >= 0
    OBVIOUS
  <2>2. \A x \in S : b - x \in Nat
    BY <2>1
  <2>3. D \subseteq Nat
    BY <2>2
  <2> QED BY <2>3
<1>2. PICK d \in D : \A e \in D : d <= e
  <2> HIDE DEF D
  <2> QED BY <1>1, LeastNatural
<1>3. PICK x \in S : d = b - x
  BY <1>2
<1>4. \A y \in S : b - y \in D /\ y \in Int /\ x \in Int
  OBVIOUS
<1>5. \A y \in S : b - x <= b - y
  <2> HIDE DEF D
  <2> QED BY <1>2, <1>3, <1>4
<1> QED BY <1>4, <1>5

\* Of the members of a set some have the greatest value, if the values are bounded.
LEMMA GreatestValue ==
  ASSUME NEW S, S # {}, NEW v \in [S -> Int], NEW b \in Int, \A x \in S : v[x] <= b
  PROVE  \E x \in S : \A y \in S : v[y] <= v[x]
<1> DEFINE V == {v[x] : x \in S}
<1>1. V \subseteq Int /\ V # {} /\ \A n \in V : n <= b
  OBVIOUS
<1>2. PICK n \in V : \A k \in V : k <= n
  <2> HIDE DEF V
  <2> QED BY <1>1, GreatestInteger
<1> QED BY <1>2
===============================================================================
