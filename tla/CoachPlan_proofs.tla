---------------------------- MODULE CoachPlan_proofs ----------------------------
(***************************************************************************)
(* Invariance proofs about CoachPlan, for any scores, policies, providers  *)
(* and replies, and any number of requests, answers and restarts.          *)
(***************************************************************************)
EXTENDS CoachPlan, FunctionTheorems, FiniteSetTheorems, TLAPS

Policies == {d.policy : d \in Deployments}
-----------------------------------------------------------------------------
(* The order of corrections is strict and total, so each has its rank.     *)

Keys == Int \X Int \X Int \X Int \X Int

\* The last numbers of a key are decisive only when those before agree.
LEMMA PrecedesUnfolded ==
  ASSUME NEW s \in Keys, NEW t \in Keys
  PROVE  Precedes(s, t) <=>
           \/ s[1] < t[1]
           \/ s[1] = t[1] /\ s[2] < t[2]
           \/ s[1] = t[1] /\ s[2] = t[2] /\ s[3] < t[3]
           \/ s[1] = t[1] /\ s[2] = t[2] /\ s[3] = t[3] /\ s[4] < t[4]
           \/ s[1] = t[1] /\ s[2] = t[2] /\ s[3] = t[3] /\ s[4] = t[4] /\ s[5] < t[5]
<1> DEFINE Decides(i) == s[i] < t[i] /\ \A j \in 1..(i - 1) : s[j] = t[j]
<1>1. Precedes(s, t) <=> \E i \in 1..5 : Decides(i)
  BY DEF Precedes, Keys
<1>2. /\ Decides(1) <=> s[1] < t[1]
      /\ Decides(2) <=> s[1] = t[1] /\ s[2] < t[2]
      /\ Decides(3) <=> s[1] = t[1] /\ s[2] = t[2] /\ s[3] < t[3]
      /\ Decides(4) <=> s[1] = t[1] /\ s[2] = t[2] /\ s[3] = t[3] /\ s[4] < t[4]
      /\ Decides(5) <=> s[1] = t[1] /\ s[2] = t[2] /\ s[3] = t[3] /\ s[4] = t[4] /\ s[5] < t[5]
  OBVIOUS
<1> HIDE DEF Decides
<1>3. (\E i \in 1..5 : Decides(i)) <=>
        Decides(1) \/ Decides(2) \/ Decides(3) \/ Decides(4) \/ Decides(5)
  OBVIOUS
<1> QED
  BY <1>1, <1>2, <1>3

LEMMA PoliciesAreValid ==
  ASSUME NEW policy \in Policies
  PROVE  ValidPolicy(policy)
  BY CoachPolicyAssumption DEF Policies

\* Every type has its position in the priority of a policy.
LEMMA PositionType ==
  ASSUME NEW policy \in Policies, NEW type \in CorrectionTypes
  PROVE  Position(type, policy) \in Int
<1> DEFINE priority == policy.correction_priority
<1>1. priority \in Seq(CorrectionTypes) /\ type \in Range(priority)
  BY PoliciesAreValid DEF ValidPolicy
<1> HIDE DEF priority
<1>2. \E i \in DOMAIN priority : priority[i] = type
  BY <1>1 DEF Range
<1>3. DOMAIN priority \subseteq Int
  BY <1>1
<1> QED
  BY <1>2, <1>3 DEF Position, priority

\* Before(c, d): correction c comes before d in the order of the service.
Before(c, d, policy) == Precedes(Key(c, policy), Key(d, policy))

LEMMA KeyParts ==
  ASSUME NEW policy \in Policies, NEW score \in Scores, NEW c \in score.corrections
  PROVE  /\ c.severity \in Int /\ c.confidence * c.reference_confidence \in Int
         /\ Position(c.type, policy) \in Int /\ c.start \in Int /\ c.id \in Int
<1>1. /\ c.type \in CorrectionTypes /\ c.severity \in Int /\ c.start \in Int /\ c.id \in Int
      /\ c.confidence \in Int /\ c.reference_confidence \in Int
  BY ScoreAssumption
<1>2. \A x, y \in Int : x * y \in Int
  OBVIOUS
<1>3. c.confidence * c.reference_confidence \in Int
  BY <1>1, <1>2
<1> QED
  BY <1>1, <1>3, PositionType

LEMMA BeforeUnfolded ==
  ASSUME NEW policy \in Policies, NEW score \in Scores,
         NEW c \in score.corrections, NEW d \in score.corrections
  PROVE  LET c2 == c.confidence * c.reference_confidence
             d2 == d.confidence * d.reference_confidence
             c3 == Position(c.type, policy)
             d3 == Position(d.type, policy)
         IN  Before(c, d, policy) <=>
               \/ d.severity < c.severity
               \/ c.severity = d.severity /\ d2 < c2
               \/ c.severity = d.severity /\ c2 = d2 /\ c3 < d3
               \/ c.severity = d.severity /\ c2 = d2 /\ c3 = d3 /\ c.start < d.start
               \/ c.severity = d.severity /\ c2 = d2 /\ c3 = d3 /\ c.start = d.start /\ c.id < d.id
<1> DEFINE s == Key(c, policy)
           t == Key(d, policy)
           p(x) == x.confidence * x.reference_confidence
<1>1. \A x \in {c, d} : /\ x.severity \in Int /\ p(x) \in Int /\ Position(x.type, policy) \in Int
                        /\ x.start \in Int /\ x.id \in Int
  BY KeyParts
<1> HIDE DEF p
<1>2. \A x \in {c, d} : Key(x, policy) = <<-x.severity, -p(x), Position(x.type, policy), x.start, x.id>>
  BY DEF Key, p
<1>3. s \in Keys /\ t \in Keys
  BY <1>1, <1>2 DEF Keys
<1>4. /\ s[1] = -c.severity /\ s[2] = -p(c) /\ s[3] = Position(c.type, policy)
      /\ s[4] = c.start /\ s[5] = c.id
      /\ t[1] = -d.severity /\ t[2] = -p(d) /\ t[3] = Position(d.type, policy)
      /\ t[4] = d.start /\ t[5] = d.id
  BY <1>2
<1> HIDE DEF s, t
<1>5. Before(c, d, policy) <=>
        \/ d.severity < c.severity
        \/ c.severity = d.severity /\ p(d) < p(c)
        \/ c.severity = d.severity /\ p(c) = p(d) /\ s[3] < t[3]
        \/ c.severity = d.severity /\ p(c) = p(d) /\ s[3] = t[3] /\ c.start < d.start
        \/ c.severity = d.severity /\ p(c) = p(d) /\ s[3] = t[3] /\ c.start = d.start /\ c.id < d.id
  <2>1. Before(c, d, policy) <=> Precedes(s, t)
    BY DEF Before, s, t
  <2> QED
    BY <1>1, <1>3, <1>4, <2>1, PrecedesUnfolded
<1> QED
  BY <1>4, <1>5 DEF p

\* The corrections of a score are strictly and totally ordered.
LEMMA BeforeIsStrict ==
  ASSUME NEW policy \in Policies, NEW score \in Scores, NEW c \in score.corrections
  PROVE  ~Before(c, c, policy)
  BY KeyParts, BeforeUnfolded

LEMMA BeforeIsTotal ==
  ASSUME NEW policy \in Policies, NEW score \in Scores,
         NEW c \in score.corrections, NEW d \in score.corrections, c # d
  PROVE  Before(c, d, policy) \/ Before(d, c, policy)
<1>1. c.id # d.id
  BY ScoreAssumption
<1> QED
  BY <1>1, KeyParts, BeforeUnfolded

LEMMA BeforeIsTransitive ==
  ASSUME NEW policy \in Policies, NEW score \in Scores,
         NEW c \in score.corrections, NEW d \in score.corrections, NEW e \in score.corrections,
         Before(c, d, policy), Before(d, e, policy)
  PROVE  Before(c, e, policy)
<1> DEFINE p(x) == x.confidence * x.reference_confidence
           t(x) == Position(x.type, policy)
<1>1. \A x \in {c, d, e} : /\ x.severity \in Int /\ p(x) \in Int /\ t(x) \in Int
                           /\ x.start \in Int /\ x.id \in Int
  BY KeyParts
<1> DEFINE Unfolded(x, y) ==
      \/ y.severity < x.severity
      \/ x.severity = y.severity /\ p(y) < p(x)
      \/ x.severity = y.severity /\ p(x) = p(y) /\ t(x) < t(y)
      \/ x.severity = y.severity /\ p(x) = p(y) /\ t(x) = t(y) /\ x.start < y.start
      \/ x.severity = y.severity /\ p(x) = p(y) /\ t(x) = t(y) /\ x.start = y.start /\ x.id < y.id
<1>2. \A x, y \in score.corrections : Before(x, y, policy) <=> Unfolded(x, y)
  BY BeforeUnfolded
<1>3. Unfolded(c, d) /\ Unfolded(d, e)
  BY <1>2
<1> HIDE DEF p, t
<1>4. Unfolded(c, e)
  BY <1>1, <1>3
<1> QED
  BY <1>2, <1>4

\* Between any two corrections, the later has more ahead of it.
LEMMA AheadGrows ==
  ASSUME NEW policy \in Policies, NEW score \in Scores,
         NEW c \in score.corrections, NEW d \in score.corrections, Before(c, d, policy)
  PROVE  Cardinality(Ahead(c, score, policy)) < Cardinality(Ahead(d, score, policy))
<1> DEFINE A == Ahead(c, score, policy)
           B == Ahead(d, score, policy)
<1>1. A \subseteq B
  BY BeforeIsTransitive DEF Ahead, Before
<1>2. c \in B /\ c \notin A
  BY BeforeIsStrict DEF Ahead, Before
<1>3. IsFiniteSet(B)
  BY ScoreAssumption, FS_Subset DEF Ahead
<1> HIDE DEF A, B
<1>4. /\ IsFiniteSet(A) /\ Cardinality(A) <= Cardinality(B)
      /\ Cardinality(A) = Cardinality(B) => A = B
  BY <1>1, <1>3, FS_Subset
<1>5. Cardinality(A) \in Nat /\ Cardinality(B) \in Nat
  BY <1>3, <1>4, FS_CardinalityType
<1>6. Cardinality(A) < Cardinality(B)
  BY <1>2, <1>4, <1>5
<1> QED
  BY <1>6 DEF A, B

\* Exactly one correction has k others ahead of it.
LEMMA RanksAreTaken ==
  ASSUME NEW policy \in Policies, NEW score \in Scores,
         NEW k \in 0..(Cardinality(score.corrections) - 1)
  PROVE  \E c \in score.corrections : Cardinality(Ahead(c, score, policy)) = k
<1> DEFINE C == score.corrections
           n == Cardinality(C)
           rank == [c \in C |-> Cardinality(Ahead(c, score, policy))]
<1>1. IsFiniteSet(C) /\ n \in Nat
  BY ScoreAssumption, FS_CardinalityType
<1>2. \A c \in C : rank[c] \in 0..(n - 1)
  <2> SUFFICES ASSUME NEW c \in C
               PROVE  Cardinality(Ahead(c, score, policy)) \in 0..(n - 1)
    OBVIOUS
  <2> DEFINE A == Ahead(c, score, policy)
  <2>1. A \subseteq C /\ c \notin A
    BY BeforeIsStrict DEF Ahead, Before
  <2> HIDE DEF A, C, n
  <2>2. /\ IsFiniteSet(A) /\ Cardinality(A) <= Cardinality(C)
        /\ Cardinality(A) = Cardinality(C) => C = A
    BY <1>1, <2>1, FS_Subset
  <2>3. Cardinality(A) \in Nat
    BY <2>2, FS_CardinalityType
  <2>4. Cardinality(A) \in 0..(n - 1)
    BY <1>1, <2>1, <2>2, <2>3 DEF n
  <2> QED
    BY <2>4 DEF A
<1>3. \A c, d \in C : rank[c] = rank[d] => c = d
  <2> SUFFICES ASSUME NEW c \in C, NEW d \in C, rank[c] = rank[d], c # d
               PROVE  FALSE
    OBVIOUS
  <2>1. Before(c, d, policy) \/ Before(d, c, policy)
    BY BeforeIsTotal
  <2>2. rank[c] \in Int /\ rank[d] \in Int
    BY <1>2
  <2>3. rank[c] < rank[d] \/ rank[d] < rank[c]
    BY <2>1, AheadGrows
  <2> QED
    BY <2>2, <2>3
<1>4. rank \in Injection(C, 0..(n - 1))
  <2>1. rank \in [C -> 0..(n - 1)]
    BY <1>2
  <2>2. IsInjective(rank)
    BY <1>3 DEF IsInjective
  <2> HIDE DEF rank
  <2> QED
    BY <2>1, <2>2 DEF Injection
<1>5. IsFiniteSet(0..(n - 1)) /\ Cardinality(0..(n - 1)) = n
  BY <1>1, FS_Interval
<1> HIDE DEF rank
<1>6. rank \in Surjection(C, 0..(n - 1))
  BY <1>4, <1>5, FS_Injection
<1>7. \E c \in C : rank[c] = k
  BY <1>6 DEF Surjection
<1> QED
  BY <1>7 DEF rank
-----------------------------------------------------------------------------
(* What the service works from: facts and drafts.                          *)

LEMMA PolicyParts ==
  ASSUME NEW policy \in Policies
  PROVE  /\ policy.max_actions \in 1..8 /\ policy.loop_repetitions \in 1..8
         /\ policy.slow_speed \in 50..100 /\ policy.reference_tone_duration_ms \in 100..5000
         /\ policy.reference_tone_min_hz \in 55..1100
         /\ policy.reference_tone_max_hz \in 55..1100
  BY PoliciesAreValid DEF ValidPolicy

\* A tone that a policy allows is in the range of the contract.
LEMMA ToneIsSafe ==
  ASSUME NEW policy \in Policies, NEW score \in Scores, NEW c \in score.corrections,
         ToneFact(c.reference, policy)
  PROVE  c.reference.unit = "hertz" /\ c.reference.value \in 55..1100
<1> DEFINE low == policy.reference_tone_min_hz
           high == policy.reference_tone_max_hz
           value == c.reference.value
<1>1. low <= value /\ value <= high
  BY DEF ToneFact
<1>2. low \in 55..1100 /\ high \in 55..1100
  BY PolicyParts
<1>3. value \in Int
  BY ScoreAssumption
<1>4. c.reference.unit = "hertz"
  BY DEF ToneFact
<1> HIDE DEF low, high, value
<1>5. value \in 55..1100
  BY <1>1, <1>2, <1>3
<1> QED
  BY <1>4, <1>5 DEF value

\* Prioritized lists the first corrections, at most max_actions, each once.
LEMMA FactsAreFirst ==
  ASSUME NEW policy \in Policies, NEW score \in Scores
  PROVE  LET facts == Facts(score, policy) IN
         /\ facts \in Seq(score.corrections) /\ Len(facts) <= policy.max_actions
         /\ \A i \in DOMAIN facts : Cardinality(Ahead(facts[i], score, policy)) = i - 1
         /\ \A i, j \in DOMAIN facts : facts[i] = facts[j] => i = j
         /\ facts = << >> <=> score.corrections = {}
<1> DEFINE C == score.corrections
           count == Cardinality(C)
           n == IF count < policy.max_actions THEN count ELSE policy.max_actions
           facts == Prioritized(score, policy)
<1>1. IsFiniteSet(C) /\ count \in Nat /\ (count = 0 <=> C = {})
  BY ScoreAssumption, FS_CardinalityType, FS_EmptySet
<1>2. policy.max_actions \in 1..8
  BY PolicyParts
<1>3. n \in Nat /\ n <= policy.max_actions /\ n <= count /\ (n = 0 <=> C = {})
  BY <1>1, <1>2
<1>4. \A i \in 1..n : /\ facts[i] \in C
                      /\ Cardinality(Ahead(facts[i], score, policy)) = i - 1
  <2> SUFFICES ASSUME NEW i \in 1..n
               PROVE  /\ facts[i] \in C
                      /\ Cardinality(Ahead(facts[i], score, policy)) = i - 1
    OBVIOUS
  <2>1. i - 1 \in 0..(count - 1)
    BY <1>1, <1>3
  <2>2. \E c \in C : Cardinality(Ahead(c, score, policy)) = i - 1
    BY <2>1, RanksAreTaken
  <2>3. facts[i] = CHOOSE c \in C : Cardinality(Ahead(c, score, policy)) = i - 1
    BY DEF Prioritized
  <2> QED
    BY <2>2, <2>3
<1>5. DOMAIN facts = 1..n
  BY DEF Prioritized
<1>6. facts = [i \in 1..n |-> facts[i]]
  BY DEF Prioritized
<1> HIDE DEF n, facts, C
<1>7. facts \in Seq(C) /\ Len(facts) = n
  BY <1>3, <1>4, <1>5, <1>6
<1>8. \A i, j \in 1..n : facts[i] = facts[j] => i = j
  BY <1>3, <1>4
<1>9. facts = << >> <=> C = {}
  BY <1>3, <1>7
<1>10. CASE score.reason = "none"
  BY <1>10, <1>3, <1>4, <1>5, <1>7, <1>8, <1>9 DEF Facts, facts, C
<1>11. CASE score.reason # "none"
  <2>1. Facts(score, policy) = << >> /\ score.corrections = {}
    BY <1>11, ScoreAssumption DEF Facts
  <2> QED
    BY <2>1, <1>2
<1> QED
  BY <1>10, <1>11

IsDraft(draft) == Len(draft) \in Nat /\ DOMAIN draft = 1..Len(draft)

\* The gateway hands on a draft, or the empty one.
LEMMA ParsedType ==
  ASSUME NEW reply \in Replies
  PROVE  IsDraft(Parsed(reply))
<1> DEFINE texts == {i \in DOMAIN reply.parts : reply.parts[i].kind = "output_text"}
           i == CHOOSE i \in texts : TRUE
<1>1. CASE Cardinality(texts) = 1 /\ Parsed(reply) = reply.parts[i].draft
  <2>1. texts # {}
    <3> HIDE DEF texts
    <3> QED
      BY <1>1, FS_EmptySet
  <2>2. i \in DOMAIN reply.parts
    BY <2>1
  <2> HIDE DEF i
  <2>3. Parsed(reply) \in Seq(Range(Parsed(reply)))
    BY <1>1, <2>2, ReplyAssumption
  <2> QED
    BY <2>3 DEF IsDraft
<1>2. CASE Parsed(reply) = << >>
  BY <1>2 DEF IsDraft
<1> QED
  BY <1>1, <1>2 DEF Parsed

LEMMA RulesDraftType ==
  ASSUME NEW policy \in Policies, NEW score \in Scores
  PROVE  IsDraft(RulesDraft(Facts(score, policy), policy))
<1> DEFINE facts == Facts(score, policy)
           draft == RulesDraft(facts, policy)
<1>1. facts \in Seq(score.corrections)
  BY FactsAreFirst
<1> HIDE DEF facts
<1>2. CASE facts = << >>
  <2>1. draft = TextOnly
    BY <1>2 DEF RulesDraft
  <2>2. IsDraft(TextOnly)
    BY DEF TextOnly, IsDraft
  <2> QED
    BY <2>1, <2>2 DEF facts
<1>3. CASE facts # << >>
  <2>1. /\ DOMAIN facts = 1..Len(facts) /\ Len(facts) \in Nat
        /\ draft = [i \in DOMAIN facts |-> [type |-> Exercise(facts[i], policy), alias |-> i,
                                            extra |-> FALSE]]
    BY <1>1, <1>3 DEF RulesDraft
  <2> HIDE DEF draft
  <2>2. IsDraft(draft)
    BY <2>1 DEF IsDraft
  <2> QED
    BY <2>2 DEF draft, facts
<1>4. IsDraft(draft)
  BY <1>2, <1>3 DEF facts
<1> QED
  BY <1>4 DEF facts

\* A plan is made of a whole draft that passed every check.
LEMMA PlanOfDraft ==
  ASSUME NEW provider, NEW draft, IsDraft(draft), NEW score, NEW policy, NEW locale,
         RunProvider(provider, draft, score, policy, locale) # << >>
  PROVE  /\ WellFormed(draft) /\ ValidPlan(draft, Facts(score, policy), policy)
         /\ RunProvider(provider, draft, score, policy, locale) =
              [i \in 1..Len(draft) |->
                 Action(i, draft, Facts(score, policy), provider, score, policy, locale)]
<1>1. DOMAIN draft = 1..Len(draft)
  BY DEF IsDraft
<1> QED
  BY <1>1 DEF RunProvider
-----------------------------------------------------------------------------
(* The rules always have a plan.                                           *)

\* A draft of the rules passes the checks of drafts and of plans.
LEMMA RulesDraftIsValid ==
  ASSUME NEW policy \in Policies, NEW score \in Scores
  PROVE  LET facts == Facts(score, policy)
             draft == RulesDraft(facts, policy)
         IN  WellFormed(draft) /\ ValidPlan(draft, facts, policy)
<1> DEFINE facts == Facts(score, policy)
           draft == RulesDraft(facts, policy)
<1>1. /\ facts \in Seq(score.corrections) /\ Len(facts) <= policy.max_actions
      /\ policy.max_actions \in 1..8
  BY FactsAreFirst, PolicyParts
<1> HIDE DEF facts
<1>2. CASE facts = << >>
  <2>1. draft = TextOnly
    BY <1>2 DEF RulesDraft
  <2>2. Len(TextOnly) = 1 /\ DOMAIN TextOnly = {1}
        /\ TextOnly[1] = [type |-> "text", alias |-> 0, extra |-> FALSE]
    BY DEF TextOnly
  <2>3. WellFormed(TextOnly)
    BY <2>2 DEF WellFormed, Exercises
  <2>4. ValidPlan(TextOnly, facts, policy)
    BY <1>1, <1>2, <2>2 DEF ValidPlan
  <2> QED
    BY <2>1, <2>3, <2>4 DEF facts
<1>3. CASE facts # << >>
  <2>0. Len(facts) \in 1..8 /\ DOMAIN facts = 1..Len(facts)
    <3>1. Len(facts) \in Nat /\ DOMAIN facts = 1..Len(facts)
      BY <1>1
    <3>2. Len(facts) # 0
      BY <1>1, <1>3
    <3> QED
      BY <1>1, <3>1, <3>2, SMTT(30)
  <2>1. draft = [i \in 1..Len(facts) |-> [type |-> Exercise(facts[i], policy), alias |-> i,
                                          extra |-> FALSE]]
    BY <1>3, <2>0 DEF RulesDraft
  <2> HIDE DEF draft
  <2>2. Len(draft) = Len(facts) /\ DOMAIN draft = 1..Len(facts)
    BY <2>0, <2>1
  <2>3. \A i \in 1..Len(facts) : /\ draft[i].type = Exercise(facts[i], policy)
                                 /\ draft[i].alias = i /\ draft[i].extra = FALSE
    BY <2>1
  <2>4. \A c : /\ Exercise(c, policy) \in {"loop", "slow", "reference_tone"}
              /\ Exercise(c, policy) = "reference_tone" => ToneFact(c.reference, policy)
    <3> TAKE c
    <3> QED
      BY DEF Exercise
  <2>6. WellFormed(draft)
    <3>0. \A i \in DOMAIN draft : ~draft[i].extra
      BY <2>2, <2>3, Zenon
    <3>1. \A i \in DOMAIN draft : draft[i].type \in Exercises /\ draft[i].alias # 0
      <4>1. \A i \in DOMAIN draft : draft[i].type \in Exercises
        <5> SUFFICES ASSUME NEW i \in DOMAIN draft
                     PROVE  draft[i].type \in Exercises
          OBVIOUS
        <5>1. draft[i].type = Exercise(facts[i], policy)
          BY <2>2, <2>3
        <5>2. Exercise(facts[i], policy) \in {"loop", "slow", "reference_tone"}
          BY DEF Exercise
        <5> QED
          BY <5>1, <5>2 DEF Exercises
      <4>2. \A i \in DOMAIN draft : draft[i].alias # 0
        BY <2>0, <2>2, <2>3
      <4> QED
        BY <4>1, <4>2
    <3>2. \A i, j \in DOMAIN draft : i # j => draft[i].alias # draft[j].alias
      BY <2>2, <2>3
    <3>3. \A i, j \in DOMAIN draft : i # j =>
            /\ <<draft[i].type, draft[i].alias>> # <<draft[j].type, draft[j].alias>>
            /\ draft[i].alias = draft[j].alias => draft[i].alias = 0
      BY <3>2
    <3> QED
      BY <2>0, <2>2, <3>0, <3>1, <3>3 DEF WellFormed
  <2>7. ValidPlan(draft, facts, policy)
    BY <1>1, <1>3, <2>0, <2>2, <2>3, <2>4 DEF ValidPlan
  <2> QED
    BY <2>6, <2>7 DEF facts, draft
<1> QED
  BY <1>2, <1>3

\* Any action of a valid plan meets the contract of actions.
LEMMA ActionIsValid ==
  ASSUME NEW policy \in Policies, NEW score \in Scores, NEW provider, NEW locale,
         NEW draft, IsDraft(draft), WellFormed(draft), ValidPlan(draft, Facts(score, policy), policy),
         NEW i \in DOMAIN draft
  PROVE  ValidAction(Action(i, draft, Facts(score, policy), provider, score, policy, locale))
<1> DEFINE facts == Facts(score, policy)
           type == draft[i].type
           action == Action(i, draft, facts, provider, score, policy, locale)
<1>1. facts \in Seq(score.corrections)
  BY FactsAreFirst
<1> HIDE DEF facts
<1>2. CASE type = "text"
  <2>1. action.type = "text"
    BY <1>2 DEF Action
  <2> HIDE DEF action
  <2>2. ValidAction(action)
    BY <2>1 DEF ValidAction
  <2> QED
    BY <2>2 DEF action, facts
<1>3. CASE type # "text"
  <2> DEFINE c == facts[draft[i].alias]
  <2>1. draft[i].alias # 0
    BY <1>3 DEF WellFormed
  <2>2. facts # << >>
    <3>1. facts = << >> => draft = TextOnly
      BY DEF ValidPlan, facts
    <3>2. DOMAIN TextOnly = {1} /\ TextOnly[1].type = "text"
      BY DEF TextOnly
    <3> QED
      BY <1>3, <3>1, <3>2
  <2>3. /\ draft[i].alias \in DOMAIN facts
        /\ type = "reference_tone" => ToneFact(c.reference, policy)
    BY <2>2 DEF ValidPlan, facts
  <2>4. c \in score.corrections
    BY <1>1, <2>3
  <2>5. c.start \in Nat /\ c.end \in Nat /\ c.start < c.end /\ c.reference.value \in Int
    BY <2>4, ScoreAssumption
  <2> HIDE DEF c
  <2>6. action.type = type /\ action.arguments = Arguments(type, c, policy)
    BY <2>1 DEF Action, c
  <2> HIDE DEF action, type
  <2>7. ValidAction(action)
    <3>1. CASE type = "loop"
      <4>1. action.arguments = <<c.start, c.end, policy.loop_repetitions>>
        BY <2>6, <3>1 DEF Arguments
      <4> QED
        BY <2>5, <2>6, <3>1, <4>1, PolicyParts DEF ValidAction
    <3>2. CASE type = "slow"
      <4>1. action.arguments = <<c.start, c.end, policy.slow_speed>>
        BY <2>6, <3>2 DEF Arguments
      <4> QED
        BY <2>5, <2>6, <3>2, <4>1, PolicyParts DEF ValidAction
    <3>3. CASE type = "reference_tone"
      <4>1. action.arguments = <<c.reference.value, policy.reference_tone_duration_ms>>
        BY <2>6, <3>3 DEF Arguments
      <4>2. ToneFact(c.reference, policy)
        BY <2>3, <3>3 DEF type
      <4>3. c.reference.value \in 55..1100
        BY <2>4, <4>2, ToneIsSafe
      <4> QED
        BY <2>6, <3>3, <4>1, <4>3, PolicyParts DEF ValidAction
    <3>4. CASE type \notin {"loop", "slow", "reference_tone"}
      BY <2>6, <3>4 DEF ValidAction
    <3> QED
      BY <3>1, <3>2, <3>3, <3>4
  <2> QED
    BY <2>7 DEF action, facts
<1> QED
  BY <1>2, <1>3

LEMMA RulesAnswer ==
  ASSUME NEW policy \in Policies, NEW score \in Scores, NEW locale
  PROVE  RulesPlan(score, policy, locale) # << >>
<1> DEFINE facts == Facts(score, policy)
           draft == RulesDraft(facts, policy)
           actions == [i \in DOMAIN draft |->
                         Action(i, draft, facts, Rules, score, policy, locale)]
<1>1. IsDraft(draft) /\ WellFormed(draft) /\ ValidPlan(draft, facts, policy)
  BY RulesDraftType, RulesDraftIsValid
<1>2. Rules \in ProviderNames
  BY CoachPolicyAssumption
<1>3. \A i \in DOMAIN draft : ValidAction(Action(i, draft, facts, Rules, score, policy, locale))
  BY <1>1, ActionIsValid
<1>4. \A i \in DOMAIN actions : ValidAction(actions[i])
  BY <1>3
<1>5. RulesPlan(score, policy, locale) = actions
  BY <1>1, <1>2, <1>4 DEF RulesPlan, RunProvider
<1> HIDE DEF draft
<1>6. DOMAIN actions = 1..Len(draft) /\ Len(draft) \in 1..8
  BY <1>1 DEF IsDraft, WellFormed
<1>7. 1 \in DOMAIN actions
  BY <1>6
<1> HIDE DEF actions
<1>8. actions # << >>
  BY <1>7
<1> QED
  BY <1>5, <1>8
-----------------------------------------------------------------------------
(* The inductive invariant.                                                *)

Configured(policy, primary) ==
  \E d \in Deployments : d.policy = policy /\ d.primary = primary

\* Whether the provider is asked about a score.
Asked(score, policy, primary) == primary # "none" /\ Facts(score, policy) # << >>

\* A request that waits for the provider was right to ask it.
RequestsInv ==
  /\ deployment \in Deployments
  /\ \A r \in Requests : request[r].pc = "asking" =>
       /\ request[r].score \in Scores
       /\ Policy \in Approved
       /\ Asked(request[r].score, Policy, deployment.primary)

\* Where the actions of an answer come from: nowhere, without an approved
\* policy; the provider's draft, if it was asked and all of it is valid;
\* else the rules.
Sound(a) ==
  /\ a.score \in Scores
  /\ Configured(a.policy, a.primary)
  /\ IsDraft(a.draft)
  /\ LET own == RunProvider(a.primary, a.draft, a.score, a.policy, a.locale)
         asked == Asked(a.score, a.policy, a.primary)
     IN  \/ a.policy \notin Approved /\ a.actions = << >>
         \/ /\ a.policy \in Approved /\ asked /\ own # << >>
            /\ a.provider = a.primary /\ ~a.used_fallback /\ a.actions = own
         \/ /\ a.policy \in Approved /\ a.provider = Rules
            /\ IF asked THEN a.used_fallback ELSE ~a.used_fallback
            /\ a.actions = RulesPlan(a.score, a.policy, a.locale)

AnswersInv == \A a \in answers : Sound(a)

IInv == RequestsInv /\ AnswersInv

LEMMA InitIInv == Init => IInv
  BY DEF Init, Idle, IInv, RequestsInv, AnswersInv

LEMMA CoachIInv ==
  ASSUME IInv, NEW r \in Requests, NEW score \in Scores, NEW locale \in Locales,
         Coach(r, score, locale)
  PROVE  IInv'
<1>1. deployment' = deployment /\ deployment \in Deployments
  BY DEF IInv, RequestsInv, Coach
<1>2. Configured(Policy, deployment.primary)
  BY <1>1 DEF Configured, Policy
<1>3. IsDraft(<< >>)
  BY DEF IsDraft
<1>4. CASE Policy \notin Approved
  <2>1. Answer(score, locale, Rules, << >>, FALSE, << >>) /\ request' = request
    BY <1>4 DEF Coach
  <2> DEFINE a == [score |-> score, locale |-> locale, policy |-> Policy, provider |-> Rules,
                   primary |-> deployment.primary, draft |-> << >>, used_fallback |-> FALSE,
                   actions |-> << >>]
  <2>2. answers' = answers \cup {a}
    BY <2>1 DEF Answer
  <2>3. Sound(a)
    BY <1>2, <1>3, <1>4 DEF Sound
  <2>4. AnswersInv'
    BY <2>2, <2>3 DEF IInv, AnswersInv
  <2>5. RequestsInv'
    BY <1>1, <2>1 DEF IInv, RequestsInv, Policy
  <2> QED
    BY <2>4, <2>5 DEF IInv
<1>5. CASE Policy \in Approved /\ Asked(score, Policy, deployment.primary)
  <2>1. /\ request' = [request EXCEPT ![r] = [pc |-> "asking", score |-> score,
                                              locale |-> locale]]
        /\ answers' = answers
    BY <1>5 DEF Coach, Asked
  <2>2. AnswersInv'
    BY <2>1 DEF IInv, AnswersInv
  <2>3. RequestsInv'
    BY <1>1, <1>5, <2>1 DEF IInv, RequestsInv, Policy
  <2> QED
    BY <2>2, <2>3 DEF IInv
<1>6. CASE Policy \in Approved /\ ~Asked(score, Policy, deployment.primary)
  <2>1. /\ Answer(score, locale, Rules, << >>, FALSE, RulesPlan(score, Policy, locale))
        /\ request' = request
    BY <1>6 DEF Coach, Asked
  <2> DEFINE a == [score |-> score, locale |-> locale, policy |-> Policy, provider |-> Rules,
                   primary |-> deployment.primary, draft |-> << >>, used_fallback |-> FALSE,
                   actions |-> RulesPlan(score, Policy, locale)]
  <2>2. answers' = answers \cup {a}
    BY <2>1 DEF Answer
  <2>3. Sound(a)
    BY <1>2, <1>3, <1>6 DEF Sound
  <2>4. AnswersInv'
    BY <2>2, <2>3 DEF IInv, AnswersInv
  <2>5. RequestsInv'
    BY <1>1, <2>1 DEF IInv, RequestsInv, Policy
  <2> QED
    BY <2>4, <2>5 DEF IInv
<1> QED
  BY <1>4, <1>5, <1>6

LEMMA ProviderRepliesIInv ==
  ASSUME IInv, NEW r \in Requests, NEW reply \in Replies, ProviderReplies(r, reply)
  PROVE  IInv'
<1> DEFINE score == request[r].score
           locale == request[r].locale
           draft == Parsed(reply)
           own == RunProvider(deployment.primary, draft, score, Policy, locale)
<1>1. deployment' = deployment /\ deployment \in Deployments
  BY DEF IInv, RequestsInv, ProviderReplies
<1>2. Configured(Policy, deployment.primary)
  BY <1>1 DEF Configured, Policy
<1>3. /\ score \in Scores /\ Policy \in Approved
      /\ Asked(score, Policy, deployment.primary)
  BY DEF IInv, RequestsInv, ProviderReplies
<1>4. IsDraft(draft)
  BY ParsedType
<1>5. RequestsInv'
  BY <1>1 DEF IInv, RequestsInv, ProviderReplies, Policy, Idle
<1>6. CASE own # << >>
  <2> DEFINE a == [score |-> score, locale |-> locale, policy |-> Policy,
                   provider |-> deployment.primary, primary |-> deployment.primary,
                   draft |-> draft, used_fallback |-> FALSE, actions |-> own]
  <2>1. answers' = answers \cup {a}
    BY <1>6 DEF ProviderReplies, Answer
  <2>2. Sound(a)
    BY <1>2, <1>3, <1>4, <1>6 DEF Sound
  <2> QED
    BY <1>5, <2>1, <2>2 DEF IInv, AnswersInv
<1>7. CASE own = << >>
  <2> DEFINE a == [score |-> score, locale |-> locale, policy |-> Policy,
                   provider |-> Rules, primary |-> deployment.primary,
                   draft |-> draft, used_fallback |-> TRUE,
                   actions |-> RulesPlan(score, Policy, locale)]
  <2>1. answers' = answers \cup {a}
    BY <1>7 DEF ProviderReplies, Answer
  <2>2. Sound(a)
    BY <1>2, <1>3, <1>4 DEF Sound
  <2> QED
    BY <1>5, <2>1, <2>2 DEF IInv, AnswersInv
<1> QED
  BY <1>6, <1>7

LEMMA RestartIInv ==
  ASSUME IInv, Restart
  PROVE  IInv'
<1>1. RequestsInv'
  BY DEF Restart, RequestsInv, Idle
<1>2. AnswersInv'
  BY DEF Restart, IInv, AnswersInv
<1> QED
  BY <1>1, <1>2 DEF IInv

THEOREM AnswersAreSound == Spec => []IInv
<1>1. IInv /\ [Next]_vars => IInv'
  <2> SUFFICES ASSUME IInv, [Next]_vars
               PROVE  IInv'
    OBVIOUS
  <2>1. CASE \E r \in Requests, score \in Scores, locale \in Locales : Coach(r, score, locale)
    BY <2>1, CoachIInv
  <2>2. CASE \E r \in Requests, reply \in Replies : ProviderReplies(r, reply)
    BY <2>2, ProviderRepliesIInv
  <2>3. CASE Restart
    BY <2>3, RestartIInv
  <2>4. CASE UNCHANGED vars
    BY <2>4 DEF vars, IInv, RequestsInv, AnswersInv, Policy
  <2> QED
    BY <2>1, <2>2, <2>3, <2>4 DEF Next
<1> QED
  BY InitIInv, <1>1, PTL DEF Spec
-----------------------------------------------------------------------------
(* What the invariant says of the answers.                                 *)

\* The action that an answer has for entry i of a draft.
Planned(a, draft, i) ==
  Action(i, draft, Facts(a.score, a.policy), a.provider, a.score, a.policy, a.locale)

MadeFrom(a, draft) ==
  /\ IsDraft(draft) /\ WellFormed(draft)
  /\ ValidPlan(draft, Facts(a.score, a.policy), a.policy)
  /\ a.actions = [i \in 1..Len(draft) |-> Planned(a, draft, i)]

\* Every plan is made of one valid draft, whose entries are its actions.
LEMMA PlanHasDraft ==
  ASSUME NEW a, Sound(a), a.actions # << >>
  PROVE  \E draft : MadeFrom(a, draft)
<1> DEFINE facts == Facts(a.score, a.policy)
           Made(draft) == RunProvider(a.provider, draft, a.score, a.policy, a.locale)
<1>1. ASSUME NEW draft, IsDraft(draft), a.actions = Made(draft)
      PROVE  MadeFrom(a, draft)
  BY <1>1, PlanOfDraft DEF MadeFrom, Planned
<1>2. \E draft : IsDraft(draft) /\ a.actions = Made(draft)
  <2>1. CASE a.actions = RunProvider(a.primary, a.draft, a.score, a.policy, a.locale)
             /\ a.provider = a.primary
    BY <2>1 DEF Sound
  <2>2. CASE a.actions = RulesPlan(a.score, a.policy, a.locale) /\ a.provider = Rules
    <3>1. a.policy \in Policies /\ a.score \in Scores
      BY DEF Sound, Configured, Policies
    <3>2. IsDraft(RulesDraft(facts, a.policy))
      BY <3>1, RulesDraftType
    <3> QED
      BY <2>2, <3>2 DEF RulesPlan
  <2> QED
    BY <2>1, <2>2 DEF Sound
<1> QED
  BY <1>1, <1>2

\* One action of a plan, by its entry in the draft.
LEMMA PlannedAction ==
  ASSUME NEW a, NEW draft, a.score \in Scores, a.policy \in Policies, MadeFrom(a, draft),
         NEW i \in 1..Len(draft)
  PROVE  LET facts == Facts(a.score, a.policy)
             c == facts[draft[i].alias]
             action == Planned(a, draft, i)
         IN  /\ action.type = "reference_tone" =>
                  facts # << >> /\ ToneFact(c.reference, a.policy)
             /\ \/ facts = << >> /\ action.sources = {}
                \/ /\ facts # << >> /\ draft[i].alias \in DOMAIN facts /\ draft[i].alias # 0
                   /\ action.sources = {c}
                   /\ action.arguments = Arguments(action.type, c, a.policy)
<1> DEFINE facts == Facts(a.score, a.policy)
           c == facts[draft[i].alias]
           action == Planned(a, draft, i)
<1>1. i \in DOMAIN draft
  BY DEF MadeFrom, IsDraft
<1>2. action.type = draft[i].type
  BY DEF Action, Planned
<1>3. CASE facts = << >>
  <2>1. draft = TextOnly
    BY <1>3 DEF ValidPlan, MadeFrom
  <2>2. draft[i].alias = 0 /\ draft[i].type = "text"
    BY <1>1, <2>1 DEF TextOnly
  <2>3. action.sources = {}
    BY <2>2 DEF Action, Planned
  <2> QED
    BY <1>2, <1>3, <2>2, <2>3
<1>4. CASE facts # << >>
  <2>1. /\ draft[i].alias \in DOMAIN facts
        /\ draft[i].type = "reference_tone" => ToneFact(c.reference, a.policy)
    BY <1>1, <1>4 DEF ValidPlan, MadeFrom
  <2>2. facts \in Seq(a.score.corrections)
    BY FactsAreFirst
  <2>3. draft[i].alias # 0
    BY <2>1, <2>2
  <2>4. action.sources = {c} /\ action.arguments = Arguments(draft[i].type, c, a.policy)
    BY <2>3 DEF Action, Planned
  <2> QED
    BY <1>2, <1>4, <2>1, <2>3, <2>4
<1> QED
  BY <1>3, <1>4

\* The corrections that matter more than one are ahead of it.
LEMMA OutrankingIsAhead ==
  ASSUME NEW policy \in Policies, NEW score \in Scores, NEW c \in score.corrections
  PROVE  /\ Cardinality(Outranking(c, score)) \in Nat
         /\ Cardinality(Outranking(c, score)) <= Cardinality(Ahead(c, score, policy))
<1>1. Outranking(c, score) \subseteq Ahead(c, score, policy)
  <2> SUFFICES ASSUME NEW d \in score.corrections, d \in Outranking(c, score)
               PROVE  Before(d, c, policy)
    BY DEF Outranking, Ahead, Before
  <2>1. /\ c.severity \in Int /\ d.severity \in Int
        /\ c.confidence * c.reference_confidence \in Int
        /\ d.confidence * d.reference_confidence \in Int
    BY KeyParts
  <2>2. \/ d.severity > c.severity
        \/ /\ d.severity = c.severity
           /\ d.confidence * d.reference_confidence > c.confidence * c.reference_confidence
    BY DEF Outranking
  <2> DEFINE p == c.confidence * c.reference_confidence
             q == d.confidence * d.reference_confidence
  <2>3. c.severity < d.severity \/ (d.severity = c.severity /\ p < q) => Before(d, c, policy)
    BY BeforeUnfolded
  <2> HIDE DEF p, q
  <2>4. c.severity < d.severity \/ (d.severity = c.severity /\ p < q)
    BY <2>1, <2>2 DEF p, q
  <2> QED
    BY <2>3, <2>4
<1>2. IsFiniteSet(Ahead(c, score, policy))
  BY ScoreAssumption, FS_Subset DEF Ahead
<1> QED
  BY <1>1, <1>2, FS_Subset, FS_CardinalityType

Grounded(a, action) ==
  /\ (action.sources = {}) <=> (a.score.corrections = {})
  /\ \A c \in action.sources :
       /\ c \in a.score.corrections
       /\ Cardinality(Outranking(c, a.score)) < a.policy.max_actions
       /\ action.type \in {"loop", "slow"} =>
            action.arguments[1] = c.start /\ action.arguments[2] = c.end
       /\ action.type = "reference_tone" =>
            /\ c.reference.unit = "hertz" /\ action.arguments[1] = c.reference.value
            /\ action.arguments[1] \in 55..1100

LEMMA SoundIsGrounded ==
  ASSUME NEW a, Sound(a)
  PROVE  /\ \A action \in Elements(a) : Grounded(a, action)
         /\ \A x, y \in Elements(a) : x.sources \cap y.sources # {} => x = y
<1>1. a.policy \in Policies /\ a.score \in Scores
  BY DEF Sound, Configured, Policies
<1>2. CASE a.actions = << >>
  BY <1>2 DEF Elements
<1>3. CASE a.actions # << >>
  <2>1. PICK draft : MadeFrom(a, draft)
    BY <1>3, PlanHasDraft
  <2> DEFINE facts == Facts(a.score, a.policy)
             Made(i) == Planned(a, draft, i)
             Fact(i) == facts[draft[i].alias]
  <2>2. /\ facts \in Seq(a.score.corrections) /\ Len(facts) <= a.policy.max_actions
        /\ \A i \in DOMAIN facts : Cardinality(Ahead(facts[i], a.score, a.policy)) = i - 1
        /\ \A i, j \in DOMAIN facts : facts[i] = facts[j] => i = j
        /\ facts = << >> <=> a.score.corrections = {}
    BY <1>1, FactsAreFirst
  <2>3. \A i \in 1..Len(draft) :
          /\ Made(i).type = "reference_tone" =>
               facts # << >> /\ ToneFact(Fact(i).reference, a.policy)
          /\ \/ facts = << >> /\ Made(i).sources = {}
             \/ /\ facts # << >> /\ draft[i].alias \in DOMAIN facts /\ draft[i].alias # 0
                /\ Made(i).sources = {Fact(i)}
                /\ Made(i).arguments = Arguments(Made(i).type, Fact(i), a.policy)
    BY <1>1, <2>1, PlannedAction
  <2>4. Elements(a) = {Made(i) : i \in 1..Len(draft)}
    BY <2>1 DEF Elements, MadeFrom
  <2> HIDE DEF Made, facts
  <2>5. ASSUME NEW i \in 1..Len(draft), NEW c \in Made(i).sources
        PROVE  /\ c \in a.score.corrections
               /\ Cardinality(Outranking(c, a.score)) < a.policy.max_actions
               /\ Made(i).type \in {"loop", "slow"} =>
                    Made(i).arguments[1] = c.start /\ Made(i).arguments[2] = c.end
               /\ Made(i).type = "reference_tone" =>
                    /\ c.reference.unit = "hertz" /\ Made(i).arguments[1] = c.reference.value
                    /\ Made(i).arguments[1] \in 55..1100
    <3>1. /\ draft[i].alias \in DOMAIN facts /\ c = Fact(i)
          /\ Made(i).arguments = Arguments(Made(i).type, c, a.policy)
          /\ Made(i).type = "reference_tone" => ToneFact(c.reference, a.policy)
      BY <2>3, <2>5
    <3> DEFINE k == draft[i].alias
    <3>2. k \in 1..Len(facts) /\ Len(facts) \in Nat
      BY <2>2, <3>1
    <3> HIDE DEF k
    <3>3. c \in a.score.corrections /\ Cardinality(Ahead(c, a.score, a.policy)) = k - 1
      BY <2>2, <3>1, <3>2 DEF k
    <3>4. Cardinality(Outranking(c, a.score)) < a.policy.max_actions
      <4>1. a.policy.max_actions \in Int
        BY <1>1, PolicyParts
      <4>2. /\ Cardinality(Outranking(c, a.score)) \in Nat
            /\ Cardinality(Outranking(c, a.score)) <= k - 1
        BY <1>1, <3>3, OutrankingIsAhead
      <4> QED
        BY <2>2, <3>2, <4>1, <4>2
    <3>5. ASSUME Made(i).type \in {"loop", "slow"}
          PROVE  Made(i).arguments[1] = c.start /\ Made(i).arguments[2] = c.end
      BY <3>1, <3>5 DEF Arguments
    <3>6. ASSUME Made(i).type = "reference_tone"
          PROVE  /\ c.reference.unit = "hertz" /\ Made(i).arguments[1] = c.reference.value
                 /\ Made(i).arguments[1] \in 55..1100
      <4>1. ToneFact(c.reference, a.policy)
        BY <3>1, <3>6
      <4>2. Made(i).arguments[1] = c.reference.value
        BY <3>1, <3>6 DEF Arguments
      <4>3. c.reference.unit = "hertz" /\ c.reference.value \in 55..1100
        <5>1. a.policy \in Policies /\ a.score \in Scores /\ c \in a.score.corrections
          BY <1>1, <3>3
        <5> QED
          BY <4>1, <5>1, ToneIsSafe
      <4> QED
        BY <4>2, <4>3, Zenon
    <3> QED
      BY <3>3, <3>4, <3>5, <3>6
  <2>6. ASSUME NEW i \in 1..Len(draft), NEW j \in 1..Len(draft),
               Made(i).sources \cap Made(j).sources # {}
        PROVE  i = j
    <3>1. /\ draft[i].alias \in DOMAIN facts /\ draft[i].alias # 0
          /\ draft[j].alias \in DOMAIN facts /\ Fact(i) = Fact(j)
      BY <2>3, <2>6
    <3>2. draft[i].alias = draft[j].alias
      BY <2>2, <3>1
    <3>3. i \in DOMAIN draft /\ j \in DOMAIN draft
      BY <2>1 DEF MadeFrom, IsDraft
    <3> QED
      BY <2>1, <3>1, <3>2, <3>3 DEF MadeFrom, WellFormed
  <2>7. \A i \in 1..Len(draft) : (Made(i).sources = {}) <=> (a.score.corrections = {})
    BY <2>2, <2>3
  <2>8. \A i \in 1..Len(draft) : Grounded(a, Made(i))
    BY <2>5, <2>7 DEF Grounded
  <2> QED
    BY <2>4, <2>6, <2>8
<1> QED
  BY <1>2, <1>3

\* An identifier holds all that a planned action is made of, but for the
\* sources, of which it has the identifiers.
LEMMA PlannedFields ==
  ASSUME NEW a, NEW draft, NEW i
  PROVE  LET x == Planned(a, draft, i) IN
         /\ x = [action_id |-> x.action_id, score |-> a.score, sources |-> x.sources,
                 type |-> x.type, arguments |-> x.arguments,
                 message |-> Message(a.score, x.sources, x.type, a.locale), locale |-> a.locale,
                 provider |-> a.provider, coach_version |-> a.policy.coach_version]
         /\ x.action_id = ActionId(a.score, a.policy, a.provider, a.locale, x.type, x.sources,
                                   x.arguments, i)
  BY DEF Planned, Action

\* Identifiers determine their actions.
LEMMA IdentityOfSound ==
  ASSUME NEW a, Sound(a), NEW b, Sound(b), NEW x \in Elements(a), NEW y \in Elements(b),
         x.action_id = y.action_id
  PROVE  x = y
<1>1. a.score \in Scores
  BY DEF Sound
<1>2. PICK d, i : x = Planned(a, d, i)
  <2>1. PICK d : MadeFrom(a, d)
    BY PlanHasDraft DEF Elements
  <2> QED
    BY <2>1 DEF MadeFrom, Elements
<1>3. PICK e, j : y = Planned(b, e, j)
  <2>1. PICK e : MadeFrom(b, e)
    BY PlanHasDraft DEF Elements
  <2> QED
    BY <2>1 DEF MadeFrom, Elements
<1>4. /\ x = [action_id |-> x.action_id, score |-> a.score, sources |-> x.sources,
              type |-> x.type, arguments |-> x.arguments,
              message |-> Message(a.score, x.sources, x.type, a.locale), locale |-> a.locale,
              provider |-> a.provider, coach_version |-> a.policy.coach_version]
      /\ x.action_id = ActionId(a.score, a.policy, a.provider, a.locale, x.type, x.sources,
                                x.arguments, i)
  BY <1>2, PlannedFields
<1>5. /\ y = [action_id |-> y.action_id, score |-> b.score, sources |-> y.sources,
              type |-> y.type, arguments |-> y.arguments,
              message |-> Message(b.score, y.sources, y.type, b.locale), locale |-> b.locale,
              provider |-> b.provider, coach_version |-> b.policy.coach_version]
      /\ y.action_id = ActionId(b.score, b.policy, b.provider, b.locale, y.type, y.sources,
                                y.arguments, j)
  BY <1>3, PlannedFields
<1>6. /\ a.score = b.score /\ a.policy = b.policy /\ a.provider = b.provider
      /\ a.locale = b.locale /\ x.type = y.type /\ x.arguments = y.arguments
      /\ {c.id : c \in x.sources} = {c.id : c \in y.sources}
  BY <1>4, <1>5 DEF ActionId
<1>7. /\ x.sources \subseteq a.score.corrections
      /\ y.sources \subseteq a.score.corrections
  BY <1>6, SoundIsGrounded DEF Grounded
<1>8. x.sources = y.sources
  <2>1. \A c, k \in a.score.corrections : c.id = k.id => c = k
    BY <1>1, ScoreAssumption
  <2>2. ASSUME NEW c \in x.sources PROVE c \in y.sources
    <3>1. \E k \in y.sources : k.id = c.id
      BY <1>6
    <3> QED
      BY <1>7, <2>1, <3>1
  <2>3. ASSUME NEW c \in y.sources PROVE c \in x.sources
    <3>1. \E k \in x.sources : k.id = c.id
      BY <1>6
    <3> QED
      BY <1>7, <2>1, <3>1
  <2> QED
    BY <2>2, <2>3
<1> QED
  BY <1>4, <1>5, <1>6, <1>8

\* PlansAreGrounded: whatever provider, draft or policy a plan comes from, its
\* exercises are about the corrections of its score that matter most, once each.
THEOREM PlansStayGrounded == Spec => []PlansAreGrounded
<1>1. IInv => PlansAreGrounded
  <2> SUFFICES ASSUME IInv, NEW a \in answers
               PROVE  Sound(a)
    BY SoundIsGrounded DEF PlansAreGrounded, Grounded
  <2> QED
    BY DEF IInv, AnswersInv
<1> QED
  BY <1>1, AnswersAreSound, PTL

\* CoachIsAvailable: for every score and every approved policy the rules make
\* a plan, so no reply of a provider leaves a request without an answer.
THEOREM CoachStaysAvailable == Spec => []CoachIsAvailable
<1>1. IInv => CoachIsAvailable
  <2> SUFFICES ASSUME IInv, NEW a \in answers, a.policy \in Approved
               PROVE  a.actions # << >>
    BY DEF CoachIsAvailable
  <2>1. Sound(a) /\ a.policy \in Policies /\ a.score \in Scores
    BY DEF IInv, AnswersInv, Sound, Configured, Policies
  <2> QED
    BY <2>1, RulesAnswer DEF Sound
<1> QED
  BY <1>1, AnswersAreSound, PTL

\* DraftCountsAsAWhole: an answer is the whole draft of the provider or what
\* the rules say of the score, for any draft.
THEOREM DraftsCountAsAWhole == Spec => []DraftCountsAsAWhole
<1>1. IInv => DraftCountsAsAWhole
  <2> SUFFICES ASSUME IInv, NEW a \in answers, a.actions # << >>
               PROVE  LET asked == a.primary # "none" /\ a.score.corrections # {} IN
                      /\ a.used_fallback => asked
                      /\ IF asked /\ ~a.used_fallback
                         THEN /\ a.provider = a.primary /\ Len(a.actions) = Len(a.draft)
                              /\ \A i \in DOMAIN a.actions : a.actions[i].type = a.draft[i].type
                         ELSE /\ a.provider = Rules
                              /\ a.actions = RulesPlan(a.score, a.policy, a.locale)
    BY DEF DraftCountsAsAWhole
  <2>1. Sound(a) /\ a.policy \in Policies /\ a.score \in Scores
    BY DEF IInv, AnswersInv, Sound, Configured, Policies
  <2> DEFINE asked == a.primary # "none" /\ a.score.corrections # {}
             facts == Facts(a.score, a.policy)
             own == RunProvider(a.primary, a.draft, a.score, a.policy, a.locale)
  <2>2. Asked(a.score, a.policy, a.primary) <=> asked
    BY <2>1, FactsAreFirst DEF Asked
  <2>3. CASE own # << >> /\ asked /\ a.provider = a.primary /\ ~a.used_fallback
             /\ a.actions = own
    <3>1. a.actions = [i \in 1..Len(a.draft) |->
                         Action(i, a.draft, facts, a.primary, a.score, a.policy, a.locale)]
      BY <2>1, <2>3, PlanOfDraft DEF Sound
    <3>2. Len(a.draft) \in Nat
      BY <2>1 DEF Sound, IsDraft
    <3>3. Len(a.actions) = Len(a.draft)
      BY <3>1, <3>2
    <3>4. \A i \in DOMAIN a.actions : a.actions[i].type = a.draft[i].type
      <4> SUFFICES ASSUME NEW i \in 1..Len(a.draft)
                   PROVE  a.actions[i].type = a.draft[i].type
        BY <3>1
      <4>1. a.actions[i] = Action(i, a.draft, facts, a.primary, a.score, a.policy, a.locale)
        BY <3>1
      <4> QED
        BY <4>1 DEF Action
    <3> QED
      BY <2>3, <3>3, <3>4
  <2>4. CASE /\ a.provider = Rules /\ a.actions = RulesPlan(a.score, a.policy, a.locale)
             /\ IF asked THEN a.used_fallback ELSE ~a.used_fallback
    BY <2>4
  <2> QED
    BY <2>1, <2>2, <2>3, <2>4 DEF Sound
<1> QED
  BY <1>1, AnswersAreSound, PTL

\* ActionIdentityIsContent: an identifier names one action in all answers, of
\* any providers and policies the service was ever started with.
THEOREM IdentityNamesOneAction == Spec => []ActionIdentityIsContent
<1>1. IInv => ActionIdentityIsContent
  BY IdentityOfSound DEF IInv, AnswersInv, ActionIdentityIsContent
<1> QED
  BY <1>1, AnswersAreSound, PTL
=============================================================================
