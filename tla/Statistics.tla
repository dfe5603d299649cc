------------------------------ MODULE Statistics ------------------------------
(***************************************************************************)
(* The parts of Python's arithmetic and of its statistics module that the  *)
(* gate, the calibration and the scoring core use, over integers.  A value *)
(* that may be a half or a fraction is returned multiplied by the factor   *)
(* its name says.                                                          *)
(***************************************************************************)
EXTENDS Integers, Sequences, SequencesExt, FiniteSets

Abs(x) == IF x < 0 THEN -x ELSE x
AtMost(x, y) == IF x < y THEN x ELSE y
AtLeast(x, y) == IF x > y THEN x ELSE y

\* a / b rounded up, for b > 0
Ceiling(a, b) == (a + b - 1) \div b

\* round(a / b) for b > 0: to the nearest, a tie to the even one
Round(a, b) ==
  LET q == a \div b
      r == 2 * (a % b)
  IN  IF r < b \/ (r = b /\ q % 2 = 0) THEN q ELSE q + 1

Total(values) ==
  LET upTo[i \in 0..Len(values)] == IF i = 0 THEN 0 ELSE upTo[i - 1] + values[i]
  IN  upTo[Len(values)]

\* the elements of a sequence that are in a set, in their order
Only(s, set) ==
  LET upTo[i \in 0..Len(s)] ==
        IF i = 0 THEN << >>
        ELSE IF s[i] \in set THEN Append(upTo[i - 1], s[i]) ELSE upTo[i - 1]
  IN  upTo[Len(s)]

\* the values in ascending order: in place k, the value that fewer than k are
\* below and k or more do not exceed
Ascending(values) ==
  LET Below(x) == Cardinality({i \in DOMAIN values : values[i] < x})
      UpTo(x) == Cardinality({i \in DOMAIN values : values[i] <= x})
  IN  [k \in DOMAIN values |-> CHOOSE x \in Range(values) : Below(x) < k /\ k <= UpTo(x)]

\* twice statistics.median, which averages the two middle values
TwiceMedian(values) ==
  LET ordered == Ascending(values)
      n == Len(values)
  IN  ordered[(n + 1) \div 2] + ordered[n \div 2 + 1]

\* a field of every record of a sequence
Column(records, field) == [i \in DOMAIN records |-> records[i][field]]
===============================================================================
