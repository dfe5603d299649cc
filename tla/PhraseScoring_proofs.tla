--------------------------- MODULE PhraseScoring_proofs ---------------------------
(***************************************************************************)
(* Facts about the scoring core, for any manifest, features and requested  *)
(* regions: regions are judged one by one, leaked frames do not count, and *)
(* corrections and metrics have the form the contracts ask for.            *)
(***************************************************************************)
EXTENDS PhraseScoring, Statistics_proofs

\* regions and frames come in sequences
IsSequence(s) == s \in Seq(Range(s))

\* The frames of UserFeaturesV1.
UserFeatureFrame ==
  [at : Nat, voiced : BOOLEAN, f0 : Int, conf : 0..100, energy : Energy, leak : 0..100]

\* A sequence of whatever is one of its own elements.
LEMMA SequenceRange ==
  ASSUME NEW T, NEW s \in Seq(T)
  PROVE  IsSequence(s)
BY DEF IsSequence, Range

-----------------------------------------------------------------------------
(* Corrections belong to the region they were observed in.                 *)

\* An observation is of the region it was made for.
LEMMA ObservedRegion ==
  ASSUME NEW g, NEW m, NEW f
  PROVE  Observation(g, m, f).region = g
BY DEF Observation, Judged

\* A correction names its observation's region.
LEMMA CorrectedRegion ==
  ASSUME NEW o, NEW f, NEW c \in Corrections(o, f)
  PROVE  c.region = o.region.id
BY DEF Corrections, Correction

-----------------------------------------------------------------------------
(* The ways through score_phrase.                                          *)

\* The sums that score_phrase compares, and what it makes of observations.
TotalLength(regions) == Total([i \in DOMAIN regions |-> Length(regions[i])])
TotalCovered(regions, f) == Total([i \in DOMAIN regions |-> CoveredSamples(regions[i], f)])

CorrectionsIn(observations, f) ==
  UNION {Corrections(observations[i], f) : i \in DOMAIN observations}

Assessed(observations) ==
  Only(observations, {o \in Range(observations) : o.verdict \in {"missed", "resolved"}})

IsAbstention(result) == \E reason : result = Abstained(reason)

\* The statuses of scores without metrics.
LEMMA Statuses ==
  /\ Failed.status = "failed"
  /\ \A reason : Abstained(reason).status = "abstained"
BY DEF Failed, Abstained

\* What a verdict on some observations can be.
IsVerdict(result, observations, m, f, covered, total) ==
  LET assessed == Assessed(observations)
  IN  \/ /\ result = Failed
         /\ CorrectionsIn(observations, f) # {} /\ ReferenceArtifact(m) \notin m.kinds
      \/ IsAbstention(result) /\ assessed = << >>
      \/ /\ result.status = "scored" /\ assessed # << >>
         /\ result.coverage = <<Total([i \in DOMAIN assessed |-> Length(assessed[i].region)]), total>>
         /\ result.metrics = Metrics(observations, covered, total)
         /\ result.corrections = CorrectionsIn(observations, f)

\* A verdict is a failure, an abstention or a score.
LEMMA VerdictCases ==
  ASSUME NEW observations, NEW m, NEW f, NEW covered, NEW total
  PROVE  IsVerdict(Verdict(observations, m, f, covered, total), observations, m, f, covered, total)
<1> DEFINE Missing == CorrectionsIn(observations, f) # {} /\ ReferenceArtifact(m) \notin m.kinds
           assessed == Assessed(observations)
           With(verdicts) == Only(observations, {o \in Range(observations) : o.verdict \in verdicts})
           Blocked == Len(With({"blocked"})) = Len(observations)
           Reason == IF Blocked THEN "input.accompaniment_leakage"
                     ELSE "input.insufficient_pitch_confidence"
           Result == [status |-> "scored", reason |-> "none",
                      coverage |-> <<Total([i \in DOMAIN assessed |->
                                              Length(assessed[i].region)]), total>>,
                      metrics |-> Metrics(observations, covered, total),
                      corrections |-> CorrectionsIn(observations, f)]
           result == Verdict(observations, m, f, covered, total)
<1>1. result = IF Missing THEN Failed
               ELSE IF assessed = << >> THEN Abstained(Reason) ELSE Result
  BY Zenon DEF Verdict, CorrectionsIn, Assessed
<1>2. /\ Result.status = "scored"
      /\ Result.coverage = <<Total([i \in DOMAIN assessed |-> Length(assessed[i].region)]), total>>
      /\ Result.metrics = Metrics(observations, covered, total)
      /\ Result.corrections = CorrectionsIn(observations, f)
  OBVIOUS
<1> HIDE DEF Reason, Result, result
<1> QED BY <1>1, <1>2 DEF IsAbstention, IsVerdict, result

\* What the score of a phrase is.
LEMMA ScoreCases ==
  ASSUME NEW m, NEW f, NEW at, NEW ids
  PROVE  LET result == ScorePhrase(m, f, at, ids)
             regions == Requested(m, ids)
         IN  \/ result = Failed /\ ~InputsAgree(m, f, at)
             \/ /\ result = Failed /\ m.gate = "accepted"
                /\ ids = {} \/ ~(ids \subseteq {m.regions[i].id : i \in DOMAIN m.regions})
             \/ IsAbstention(result)
             \/ /\ regions # << >> /\ m.gate = "accepted"
                /\ result = Verdict(Observations(regions, m, f), m, f,
                                    TotalCovered(regions, f), TotalLength(regions))
<1> DEFINE regions == Requested(m, ids)
           relevant == FramesForRegions(regions, f)
           Agree == InputsAgree(m, f, at)
           Odd == ids = {} \/ ~(ids \subseteq {m.regions[i].id : i \in DOMAIN m.regions})
           Short == ~Reaches(TotalCovered(regions, f), TotalLength(regions),
                             ScoringPolicy.min_timeline_coverage)
           Noisy == /\ relevant # << >>
                    /\ TwiceMedian(Column(relevant, "leak"))
                         > 2 * ScoringPolicy.max_leakage_confidence
           result == ScorePhrase(m, f, at, ids)
           judged == Verdict(Observations(regions, m, f), m, f,
                             TotalCovered(regions, f), TotalLength(regions))
<1>1. result =
        IF ~Agree THEN Failed
        ELSE IF m.gate # "accepted" THEN Abstained("reference." \o m.gate)
        ELSE IF Odd THEN Failed
        ELSE IF regions = << >> THEN Abstained("reference.no_high_confidence_regions")
        ELSE IF Short THEN Abstained("input.incomplete_phrase")
        ELSE IF Noisy THEN Abstained("input.accompaniment_leakage")
        ELSE judged
  BY Zenon DEF ScorePhrase, TotalCovered, TotalLength
<1> HIDE DEF result, judged, regions, Agree, Short, Noisy
<1> QED BY <1>1, Zenon DEF IsAbstention, result, judged, regions, Agree

\* A score's corrections are those of the observations of its regions.
LEMMA ScoredCorrections ==
  ASSUME NEW m, NEW f, NEW at, NEW ids, ScorePhrase(m, f, at, ids).status = "scored"
  PROVE  ScorePhrase(m, f, at, ids).corrections = CorrectionsIn(Observations(Requested(m, ids), m, f), f)
<1> DEFINE result == ScorePhrase(m, f, at, ids)
           regions == Requested(m, ids)
           covered == TotalCovered(regions, f)
           total == TotalLength(regions)
           observations == Observations(regions, m, f)
           judged == Verdict(observations, m, f, covered, total)
<1>1. result # Failed /\ ~IsAbstention(result)
  BY Statuses DEF IsAbstention
<1>2. result = judged
  <2> HIDE DEF result, judged
  <2> QED BY <1>1, ScoreCases DEF result, judged
<1>3. judged # Failed /\ ~IsAbstention(judged)
  BY <1>1, <1>2
<1>4. judged.corrections = CorrectionsIn(observations, f)
  <2>1. IsVerdict(judged, observations, m, f, covered, total)
    BY VerdictCases
  <2> HIDE DEF observations, covered, total, judged
  <2> QED BY <1>3, <2>1 DEF IsVerdict
<1> QED BY <1>2, <1>4

\* The requested regions are those of the manifest that can be scored.
LEMMA RequestedRegions ==
  ASSUME NEW m, NEW ids, IsSequence(m.regions)
  PROVE  /\ Requested(m, ids) \in Seq(Range(m.regions))
         /\ Range(Requested(m, ids)) = {g \in Range(m.regions) : g.id \in ids /\ Scorable(g)}
<1> DEFINE T == Range(m.regions)
           A == {g \in T : g.id \in ids /\ Scorable(g)}
<1>1. m.regions \in Seq(T)
  BY DEF IsSequence
<1>2. Requested(m, ids) = Only(m.regions, A)
  BY DEF Requested
<1>3. Range(Only(m.regions, A)) = T \cap A
  <2> HIDE DEF A, T
  <2> QED BY <1>1, OnlyRange DEF T
<1>4. Only(m.regions, A) \in Seq(T)
  <2> HIDE DEF A, T
  <2> QED BY <1>1, OnlyType
<1> QED BY <1>2, <1>3, <1>4

\* They are the corrections of each region that was asked for.
LEMMA CorrectionsByRegion ==
  ASSUME NEW m, NEW f, NEW ids, IsSequence(m.regions)
  PROVE  CorrectionsIn(Observations(Requested(m, ids), m, f), f) =
           UNION {Corrections(Observation(g, m, f), f) :
                    g \in {g \in Range(m.regions) : g.id \in ids /\ Scorable(g)}}
<1> DEFINE regions == Requested(m, ids)
           C(g) == Corrections(Observation(g, m, f), f)
<1>1. CorrectionsIn(Observations(regions, m, f), f) = UNION {C(regions[i]) : i \in DOMAIN regions}
  BY DEF CorrectionsIn, Observations
<1>2. Range(regions) = {g \in Range(m.regions) : g.id \in ids /\ Scorable(g)}
  BY RequestedRegions
<1> HIDE DEF C, regions
<1>3. UNION {C(regions[i]) : i \in DOMAIN regions} = UNION {C(g) : g \in Range(regions)}
  BY DEF Range
<1> QED BY <1>1, <1>2, <1>3 DEF C, regions

\* A region's corrections are the same in every score that asks for it.
LEMMA RegionsJudgedAlike ==
  ASSUME NEW m, NEW f, NEW at, NEW ids, NEW id \in ids, IsSequence(m.regions),
         ScorePhrase(m, f, at, ids).status = "scored",
         ScorePhrase(m, f, at, {id}).status = "scored"
  PROVE  ScorePhrase(m, f, at, {id}).corrections =
           {c \in ScorePhrase(m, f, at, ids).corrections : c.region = id}
<1> DEFINE C(g) == Corrections(Observation(g, m, f), f)
           All == UNION {C(g) : g \in {g \in Range(m.regions) : g.id \in ids /\ Scorable(g)}}
           One == UNION {C(g) : g \in {g \in Range(m.regions) : g.id \in {id} /\ Scorable(g)}}
<1>1. ScorePhrase(m, f, at, ids).corrections = All
  BY ScoredCorrections, CorrectionsByRegion
<1>2. ScorePhrase(m, f, at, {id}).corrections = One
  BY ScoredCorrections, CorrectionsByRegion
<1>3. \A g : \A c \in C(g) : c.region = g.id
  BY CorrectedRegion, ObservedRegion
<1> HIDE DEF C
<1>4. One = {c \in All : c.region = id}
  BY <1>3
<1> QED BY <1>1, <1>2, <1>4

-----------------------------------------------------------------------------
(* Features that differ only in what leaked frames seem to contain.        *)

\* Features with the same frames, but for what those with too much leakage contain.
SameButLeaked(f, h) ==
  /\ IsSequence(f.frames) /\ IsSequence(h.frames) /\ f.frames # << >>
  /\ h.tenant = f.tenant /\ h.rate = f.rate /\ h.hop = f.hop
  /\ h.calibration = f.calibration /\ h.version = f.version /\ h.produced = f.produced
  /\ Len(h.frames) = Len(f.frames)
  /\ \A i \in 1..Len(f.frames) :
       /\ h.frames[i].at = f.frames[i].at /\ h.frames[i].leak = f.frames[i].leak
       /\ Clean(f.frames[i]) => h.frames[i] = f.frames[i]

\* What two such features have in common.
LEMMA SameFrames ==
  ASSUME NEW f, NEW h, SameButLeaked(f, h)
  PROVE  /\ f.frames \in Seq(Range(f.frames)) /\ h.frames \in Seq(Range(h.frames))
         /\ Len(f.frames) = Len(h.frames) /\ Len(f.frames) \in Nat \ {0}
         /\ h.rate = f.rate /\ h.hop = f.hop
         /\ \A i \in 1..Len(f.frames) :
              /\ f.frames[i] \in Range(f.frames) /\ h.frames[i] \in Range(h.frames)
              /\ h.frames[i].at = f.frames[i].at /\ h.frames[i].leak = f.frames[i].leak
              /\ Clean(h.frames[i]) <=> Clean(f.frames[i])
              /\ Clean(f.frames[i]) => h.frames[i] = f.frames[i]
BY DEF SameButLeaked, IsSequence, Range, Clean

\* They agree with the same manifests,
LEMMA SameAgreement ==
  ASSUME NEW f, NEW h, SameButLeaked(f, h), NEW m, NEW at
  PROVE  InputsAgree(m, f, at) <=> InputsAgree(m, h, at)
BY DEF SameButLeaked, InputsAgree

\* cover as much of every region,
LEMMA SameCoverage ==
  ASSUME NEW f, NEW h, SameButLeaked(f, h), NEW regions
  PROVE  TotalCovered(regions, f) = TotalCovered(regions, h)
<1>1. /\ Last(f.frames).at = Last(h.frames).at /\ Head(f.frames).at = Head(h.frames).at
      /\ f.hop = h.hop
  BY SameFrames DEF Last
<1>2. \A g : CoveredSamples(g, f) = CoveredSamples(g, h)
  BY <1>1 DEF CoveredSamples
<1> QED BY <1>2 DEF TotalCovered

\* have the same leakage near the regions,
LEMMA SameRelevant ==
  ASSUME NEW f, NEW h, SameButLeaked(f, h), NEW regions
  PROVE  /\ FramesForRegions(regions, f) = << >> <=> FramesForRegions(regions, h) = << >>
         /\ Column(FramesForRegions(regions, f), "leak") = Column(FramesForRegions(regions, h), "leak")
<1> DEFINE s == f.frames
           t == h.frames
           A == {x \in Range(s) : \E i \in DOMAIN regions : Inside(regions[i], x.at)}
           B == {x \in Range(t) : \E i \in DOMAIN regions : Inside(regions[i], x.at)}
<1>1. /\ s \in Seq(Range(s)) /\ t \in Seq(Range(t)) /\ Len(s) = Len(t)
      /\ \A i \in 1..Len(s) : s[i] \in A <=> t[i] \in B
      /\ \A i \in 1..Len(s) : s[i] \in A => s[i].leak = t[i].leak
  BY SameFrames
<1>2. FramesForRegions(regions, f) = Only(s, A) /\ FramesForRegions(regions, h) = Only(t, B)
  BY DEF FramesForRegions
<1> HIDE DEF s, t, A, B
<1>3. Len(Only(s, A)) = Len(Only(t, B))
  BY <1>1, OnlyAsMany
<1>4. Column(Only(s, A), "leak") = Column(Only(t, B), "leak")
  BY <1>1, OnlySameColumn
<1>5. Only(s, A) \in Seq(Range(s))
  BY <1>1, OnlyType
<1>6. Only(t, B) \in Seq(Range(t))
  BY <1>1, OnlyType
<1>7. Only(s, A) = << >> <=> Only(t, B) = << >>
  BY <1>3, <1>5, <1>6
<1> QED BY <1>2, <1>4, <1>7

\* The run that timing goes by is made of clean frames.
LEMMA SameTiming ==
  ASSUME NEW f, NEW h, SameButLeaked(f, h), NEW g, NEW m
  PROVE  TimingFrames(g, m, f) = TimingFrames(g, m, h)
<1> DEFINE s == f.frames
           t == h.frames
           Sung(x) == Confident(x) /\ Clean(x)
                      /\ Abs(x.f0 - g.target) <= ScoringPolicy.timing_pitch_window_cents
           A == {x \in Range(s) : InSearchWindow(g, m, f, x) /\ Sung(x)}
           B == {x \in Range(t) : InSearchWindow(g, m, h, x) /\ Sung(x)}
<1>0. f.rate = h.rate /\ f.hop = h.hop
  BY SameFrames
<1>1. \A x : InSearchWindow(g, m, f, x) <=> InSearchWindow(g, m, h, x)
  BY <1>0 DEF InSearchWindow, Samples
<1>2. /\ s \in Seq(Range(s)) /\ t \in Seq(Range(t)) /\ Len(s) = Len(t)
      /\ \A i \in 1..Len(s) : /\ s[i] \in Range(s) /\ t[i] \in Range(t)
                              /\ Clean(t[i]) <=> Clean(s[i])
                              /\ Clean(s[i]) => t[i] = s[i]
  BY SameFrames
<1>3. Candidates(g, m, f) = Only(s, A) /\ Candidates(g, m, h) = Only(t, B)
  BY DEF Candidates
<1>4. \A x : Sung(x) => Clean(x)
  OBVIOUS
<1> HIDE DEF Sung, s, t
<1>5. /\ \A i \in 1..Len(s) : s[i] \in A <=> t[i] \in B
      /\ \A i \in 1..Len(s) : s[i] \in A => s[i] = t[i]
  BY <1>1, <1>2, <1>4
<1>6. Only(s, A) = Only(t, B)
  <2> HIDE DEF A, B
  <2> QED BY <1>2, <1>5, OnlySame
<1>7. Candidates(g, m, f) = Candidates(g, m, h)
  BY <1>3, <1>6
<1>8. \A c : Runs(c, f) = Runs(c, h)
  BY <1>0 DEF Runs, Samples
<1>9. \A run, c : Rank(run, c, g, f) = Rank(run, c, g, h)
  BY <1>0 DEF Rank
<1>10. \A runs, c : BestRun(runs, c, g, f) = BestRun(runs, c, g, h)
  BY <1>9 DEF BestRun
<1> QED BY <1>7, <1>8, <1>10 DEF TimingFrames

\* The clean frames of a region.
CleanOf(own) == Only(own, {x \in Range(own) : Clean(x)})

\* the same clean frames in every region
LEMMA SameOwn ==
  ASSUME NEW f, NEW h, SameButLeaked(f, h), NEW g
  PROVE  /\ Len(FramesOf(g, f)) = Len(FramesOf(g, h))
         /\ CleanOf(FramesOf(g, f)) = CleanOf(FramesOf(g, h))
<1> DEFINE s == f.frames
           t == h.frames
           A == {x \in Range(s) : Inside(g, x.at)}
           B == {x \in Range(t) : Inside(g, x.at)}
           C == {x \in Range(Only(s, A)) : Clean(x)}
           D == {x \in Range(Only(t, B)) : Clean(x)}
<1>1. /\ s \in Seq(Range(s)) /\ t \in Seq(Range(t)) /\ Len(s) = Len(t)
      /\ \A i \in 1..Len(s) : /\ s[i] \in Range(s) /\ t[i] \in Range(t)
                              /\ t[i].at = s[i].at
                              /\ Clean(t[i]) <=> Clean(s[i])
                              /\ Clean(s[i]) => t[i] = s[i]
  BY SameFrames
<1>2. FramesOf(g, f) = Only(s, A) /\ FramesOf(g, h) = Only(t, B)
  BY DEF FramesOf
<1>3. \A i \in 1..Len(s) : s[i] \in A <=> t[i] \in B
  BY <1>1
<1> HIDE DEF s, t
<1>4. Range(Only(s, A)) = A /\ Range(Only(t, B)) = B
  <2>1. A \subseteq Range(s) /\ B \subseteq Range(t)
    OBVIOUS
  <2> HIDE DEF A, B
  <2>2. Range(Only(s, A)) = Range(s) \cap A
    BY <1>1, OnlyRange
  <2>3. Range(Only(t, B)) = Range(t) \cap B
    BY <1>1, OnlyRange
  <2> QED BY <2>1, <2>2, <2>3
<1>5. A \cap C = C /\ B \cap D = D
  BY <1>4
<1>6. /\ \A i \in 1..Len(s) : s[i] \in C <=> t[i] \in D
      /\ \A i \in 1..Len(s) : s[i] \in C => s[i] = t[i]
  BY <1>1, <1>3, <1>4
<1> HIDE DEF A, B
<1>7. CleanOf(FramesOf(g, f)) = Only(Only(s, A), C) /\ CleanOf(FramesOf(g, h)) = Only(Only(t, B), D)
  BY <1>2 DEF CleanOf
<1> HIDE DEF C, D
<1>8. Only(Only(s, A), C) = Only(s, A \cap C)
  BY <1>1, OnlyTwice
<1>9. Only(Only(t, B), D) = Only(t, B \cap D)
  BY <1>1, OnlyTwice
<1>10. Only(s, C) = Only(t, D)
  BY <1>1, <1>6, OnlySame
<1>11. Len(Only(s, A)) = Len(Only(t, B))
  BY <1>1, <1>3, OnlyAsMany
<1> QED BY <1>2, <1>5, <1>7, <1>8, <1>9, <1>10, <1>11

\* and judge a tone alike:
LEMMA SameTone ==
  ASSUME NEW f, NEW h, SameButLeaked(f, h), NEW g, NEW frames
  PROVE  ToneOf(g, frames, f) = ToneOf(g, frames, h)
<1>1. f.rate = h.rate /\ f.hop = h.hop
  BY SameFrames
<1>2. \A residuals : Vibrato(frames, residuals, f) <=> Vibrato(frames, residuals, h)
  BY <1>1 DEF Vibrato
<1> QED BY <1>1, <1>2 DEF ToneOf

\* so a region is observed alike
LEMMA SameObservation ==
  ASSUME NEW f, NEW h, SameButLeaked(f, h), NEW g, NEW m
  PROVE  Observation(g, m, f) = Observation(g, m, h)
<1> DEFINE timing == TimingFrames(g, m, f)
           own == FramesOf(g, f)
           other == FramesOf(g, h)
<1>1. timing = TimingFrames(g, m, h)
  BY SameTiming
<1>2. Len(own) = Len(other) /\ CleanOf(own) = CleanOf(other)
  BY SameOwn
<1>3. ExpectedFrames(g, f) = ExpectedFrames(g, h)
  <2>1. f.hop = h.hop
    BY SameFrames
  <2> QED BY <2>1 DEF ExpectedFrames
<1>4. \A frames : ToneOf(g, frames, f) = ToneOf(g, frames, h)
  BY SameTone
<1> HIDE DEF timing, own, other
<1>5. Judged(g, own, timing, f) = Judged(g, other, timing, h)
  BY <1>2, <1>3, <1>4 DEF Judged, CleanOf
<1> QED BY <1>1, <1>5 DEF Observation, timing, own, other

\* and corrected alike.
LEMMA SameCorrections ==
  ASSUME NEW f, NEW h, SameButLeaked(f, h), NEW o
  PROVE  Corrections(o, f) = Corrections(o, h)
<1>1. f.rate = h.rate /\ f.hop = h.hop
  BY SameFrames
<1>2. TimingTypes(o, f) = TimingTypes(o, h)
  BY <1>1 DEF TimingTypes, Beyond
<1> QED BY <1>1, <1>2 DEF Corrections

\* What leaked frames seem to contain changes nothing about a score.
LEMMA SameScore ==
  ASSUME NEW f, NEW h, SameButLeaked(f, h), NEW m, NEW at, NEW ids
  PROVE  ScorePhrase(m, f, at, ids) = ScorePhrase(m, h, at, ids)
<1> DEFINE regions == Requested(m, ids)
           covered == TotalCovered(regions, f)
           total == TotalLength(regions)
           observations == Observations(regions, m, f)
<1>1. covered = TotalCovered(regions, h)
  BY SameCoverage
<1>2. observations = Observations(regions, m, h)
  BY SameObservation DEF Observations
<1>3. \A o : Corrections(o, f) = Corrections(o, h)
  BY SameCorrections
<1>4. Verdict(observations, m, f, covered, total) = Verdict(observations, m, h, covered, total)
  <2> HIDE DEF observations, covered, total
  <2> QED BY <1>3 DEF Verdict
<1>5. InputsAgree(m, f, at) <=> InputsAgree(m, h, at)
  BY SameAgreement
<1>6. /\ FramesForRegions(regions, f) = << >> <=> FramesForRegions(regions, h) = << >>
      /\ Column(FramesForRegions(regions, f), "leak") = Column(FramesForRegions(regions, h), "leak")
  BY SameRelevant
<1> QED BY <1>1, <1>2, <1>4, <1>5, <1>6 DEF ScorePhrase, TotalCovered, TotalLength
-----------------------------------------------------------------------------
(* The run that timing goes by exists: runs have a strict order.          *)

\* The ranks of runs.
Four == Int \X Int \X Int \X Int

\* Members of a set with different, bounded ranks have a best one.
LEMMA BestExists ==
  ASSUME NEW S, S # {}, NEW r \in [S -> Four],
         NEW b \in Int, \A x \in S : r[x][1] <= b /\ r[x][2] <= b /\ r[x][3] <= b /\ r[x][4] <= b,
         \A x, y \in S : x # y => r[x][4] # r[y][4]
  PROVE  \E x \in S : \A y \in S \ {x} : Better(r[x], r[y])
<1>0. \A x \in S : r[x][1] \in Int /\ r[x][2] \in Int /\ r[x][3] \in Int /\ r[x][4] \in Int
  BY DEF Four
<1> DEFINE v1 == [x \in S |-> r[x][1]]
<1>1. PICK x1 \in S : \A y \in S : v1[y] <= v1[x1]
  <2>1. v1 \in [S -> Int] /\ \A x \in S : v1[x] <= b
    BY <1>0
  <2> HIDE DEF v1
  <2> QED BY <2>1, GreatestValue
<1> DEFINE S2 == {x \in S : r[x][1] = r[x1][1]}
           v2 == [x \in S2 |-> r[x][2]]
<1>2. PICK x2 \in S2 : \A y \in S2 : v2[y] <= v2[x2]
  <2>1. v2 \in [S2 -> Int] /\ S2 # {} /\ \A x \in S2 : v2[x] <= b
    BY <1>0
  <2> HIDE DEF v2, S2
  <2> QED BY <2>1, GreatestValue
<1> DEFINE S3 == {x \in S2 : r[x][2] = r[x2][2]}
           v3 == [x \in S3 |-> r[x][3]]
<1>3. PICK x3 \in S3 : \A y \in S3 : v3[y] <= v3[x3]
  <2>1. v3 \in [S3 -> Int] /\ S3 # {} /\ \A x \in S3 : v3[x] <= b
    BY <1>0
  <2> HIDE DEF v3, S3
  <2> QED BY <2>1, GreatestValue
<1> DEFINE S4 == {x \in S3 : r[x][3] = r[x3][3]}
           v4 == [x \in S4 |-> r[x][4]]
<1>4. PICK x4 \in S4 : \A y \in S4 : v4[y] <= v4[x4]
  <2>1. v4 \in [S4 -> Int] /\ S4 # {} /\ \A x \in S4 : v4[x] <= b
    BY <1>0
  <2> HIDE DEF v4, S4
  <2> QED BY <2>1, GreatestValue
<1>5. /\ x4 \in S /\ r[x4][1] = r[x1][1] /\ r[x4][2] = r[x2][2] /\ r[x4][3] = r[x3][3]
  OBVIOUS
<1>6. ASSUME NEW y \in S, y # x4
      PROVE  \/ r[x4][1] > r[y][1]
             \/ r[x4][1] = r[y][1] /\ r[x4][2] > r[y][2]
             \/ r[x4][1] = r[y][1] /\ r[x4][2] = r[y][2] /\ r[x4][3] > r[y][3]
             \/ /\ r[x4][1] = r[y][1] /\ r[x4][2] = r[y][2] /\ r[x4][3] = r[y][3]
                /\ r[x4][4] > r[y][4]
  <2>1. r[y][1] <= r[x4][1]
    BY <1>1, <1>5
  <2>2. r[y][1] = r[x4][1] => r[y][2] <= r[x4][2]
    BY <1>2, <1>5
  <2>3. r[y][1] = r[x4][1] /\ r[y][2] = r[x4][2] => r[y][3] <= r[x4][3]
    BY <1>3, <1>5
  <2>4. r[y][1] = r[x4][1] /\ r[y][2] = r[x4][2] /\ r[y][3] = r[x4][3] => r[y][4] <= r[x4][4]
    BY <1>4, <1>5
  <2>5. r[x4][4] # r[y][4]
    BY <1>5, <1>6
  <2> HIDE DEF v1, v2, v3, v4, S2, S3, S4
  <2> QED BY <1>0, <1>5, <2>1, <2>2, <2>3, <2>4, <2>5
<1>7. \A p, q \in Four :
        \/ p[1] > q[1]
        \/ p[1] = q[1] /\ p[2] > q[2]
        \/ p[1] = q[1] /\ p[2] = q[2] /\ p[3] > q[3]
        \/ p[1] = q[1] /\ p[2] = q[2] /\ p[3] = q[3] /\ p[4] > q[4]
        => Better(p, q)
  <2> SUFFICES ASSUME NEW p \in Four, NEW q \in Four,
                      \/ p[1] > q[1]
                      \/ p[1] = q[1] /\ p[2] > q[2]
                      \/ p[1] = q[1] /\ p[2] = q[2] /\ p[3] > q[3]
                      \/ p[1] = q[1] /\ p[2] = q[2] /\ p[3] = q[3] /\ p[4] > q[4]
               PROVE  \E i \in DOMAIN p : p[i] > q[i] /\ \A j \in 1..(i - 1) : p[j] = q[j]
    BY DEF Better
  <2>0. 1 \in DOMAIN p /\ 2 \in DOMAIN p /\ 3 \in DOMAIN p /\ 4 \in DOMAIN p
    BY DEF Four
  <2>1. CASE p[1] > q[1]
    BY <2>0, <2>1
  <2>2. CASE p[1] = q[1] /\ p[2] > q[2]
    BY <2>0, <2>2
  <2>3. CASE p[1] = q[1] /\ p[2] = q[2] /\ p[3] > q[3]
    BY <2>0, <2>3
  <2>4. CASE p[1] = q[1] /\ p[2] = q[2] /\ p[3] = q[3] /\ p[4] > q[4]
    BY <2>0, <2>4
  <2> QED BY <2>1, <2>2, <2>3, <2>4
<1>8. \A y \in S \ {x4} : Better(r[x4], r[y])
  <2> HIDE DEF v1, v2, v3, v4, S2, S3, S4
  <2>1. \A y \in S : r[y] \in Four
    OBVIOUS
  <2> QED BY <1>5, <1>6, <1>7, <2>1
<1> QED BY <1>5, <1>8

\* Frames in the order of time.
Rising(s) ==
  s \in Seq(UserFeatureFrame) /\ \A i, k \in 1..Len(s) : i < k => s[i].at < s[k].at

\* Frames lie at natural numbers,
LEMMA FrameTimes == \A x \in UserFeatureFrame : x.at \in Nat
BY DEF UserFeatureFrame

\* those of a sequence too,
LEMMA RisingTimes ==
  ASSUME NEW s, Rising(s)
  PROVE  Len(s) \in Nat /\ \A i \in 1..Len(s) : s[i] \in UserFeatureFrame /\ s[i].at \in Nat
<1>1. s \in Seq(UserFeatureFrame)
  BY DEF Rising
<1> QED BY <1>1, FrameTimes

\* and its first is not after its last.
LEMMA RisingEnds ==
  ASSUME NEW s, Rising(s), s # << >>
  PROVE  /\ Len(s) \in Nat \ {0}
         /\ Head(s).at \in Nat /\ Last(s).at \in Nat /\ Head(s).at <= Last(s).at
<1>1. s \in Seq(UserFeatureFrame) /\ Len(s) \in Nat /\ Len(s) >= 1
  BY DEF Rising
<1>2. Head(s) = s[1] /\ Last(s) = s[Len(s)]
  BY <1>1 DEF Last
<1>3. \A i \in 1..Len(s) : s[i].at \in Nat
  BY RisingTimes
<1>4. 1 \in 1..Len(s) /\ Len(s) \in 1..Len(s)
  BY <1>1
<1>5. 1 < Len(s) => s[1].at < s[Len(s)].at
  BY <1>4 DEF Rising
<1> QED BY <1>1, <1>2, <1>3, <1>4, <1>5

\* Some frames of a sequence are in its order,
LEMMA OnlyRising ==
  ASSUME NEW s, Rising(s), NEW A
  PROVE  Rising(Only(s, A))
<1> DEFINE F == UserFeatureFrame
           R == {p \in F \X F : p[1].at < p[2].at}
<1>1. s \in Seq(F)
  BY DEF Rising
<1>2. \A i, k \in 1..Len(s) : i < k => <<s[i], s[k]>> \in R
  <2>1. \A i \in 1..Len(s) : s[i] \in F
    BY <1>1
  <2> QED BY <2>1 DEF Rising
<1>3. \A x, y : <<x, y>> \in R => x.at < y.at
  OBVIOUS
<1> HIDE DEF R, F
<1>4. Only(s, A) \in Seq(F)
  BY <1>1, OnlyType
<1>5. \A i, k \in 1..Len(Only(s, A)) : i < k => <<Only(s, A)[i], Only(s, A)[k]>> \in R
  BY <1>1, <1>2, OnlyOrdered
<1> QED BY <1>3, <1>4, <1>5 DEF Rising, F

\* and so are those of a run.
LEMMA RunRising ==
  ASSUME NEW s, Rising(s), NEW run \in (1..Len(s)) \X (1..Len(s)), run[1] <= run[2]
  PROVE  Rising(RunOf(s, run)) /\ RunOf(s, run) # << >>
<1> DEFINE from == run[1]
           to == run[2]
           t == RunOf(s, run)
<1>1. s \in Seq(UserFeatureFrame) /\ Len(s) \in Nat
  BY DEF Rising
<1>2. from \in 1..Len(s) /\ to \in 1..Len(s) /\ from <= to
  OBVIOUS
<1>3. t = SubSeq(s, from, to)
  BY DEF RunOf
<1> HIDE DEF from, to, t
<1>4. /\ t \in Seq(UserFeatureFrame) /\ Len(t) = to - from + 1
      /\ \A i \in 1..(to - from + 1) : t[i] = s[from + i - 1]
  BY <1>1, <1>2, <1>3
<1>5. ASSUME NEW i \in 1..Len(t), NEW k \in 1..Len(t), i < k PROVE t[i].at < t[k].at
  <2>1. from + i - 1 \in 1..Len(s) /\ from + k - 1 \in 1..Len(s) /\ from + i - 1 < from + k - 1
    BY <1>1, <1>2, <1>4, <1>5
  <2>2. s[from + i - 1].at < s[from + k - 1].at
    BY <2>1 DEF Rising
  <2> QED BY <1>4, <2>2
<1>6. t # << >>
  BY <1>2, <1>4
<1> QED BY <1>4, <1>5, <1>6 DEF Rising, t

\* The first candidate begins a run, and a run is known by where it begins.
LEMMA RunsBegin ==
  ASSUME NEW s, Rising(s), s # << >>, NEW f
  PROVE  /\ Runs(s, f) # {}
         /\ \A run \in Runs(s, f) : /\ run \in (1..Len(s)) \X (1..Len(s))
                                    /\ run[1] <= run[2]
         /\ \A a, b \in Runs(s, f) : a[1] = b[1] => a = b
<1> DEFINE n == Len(s)
           gap == Samples(ScoringPolicy.timing_max_gap_ms, f)
           Joined(i) == s[i + 1].at - s[i].at <= gap
           Maximal(run) == /\ run[1] <= run[2]
                           /\ \A i \in run[1]..(run[2] - 1) : Joined(i)
                           /\ run[1] > 1 => ~Joined(run[1] - 1)
                           /\ run[2] < n => ~Joined(run[2])
<1>1. n \in Nat /\ n >= 1
  BY DEF Rising
<1>2. Runs(s, f) = {run \in (1..n) \X (1..n) : Maximal(run)}
  BY DEF Runs
<1> HIDE DEF Joined, n
<1>3. \E e \in 1..n : Maximal(<<1, e>>)
  <2> DEFINE Ends == {i \in 1..n : i = n \/ ~Joined(i)}
  <2>1. Ends \subseteq Nat /\ n \in Ends
    BY <1>1
  <2>2. PICK e \in Ends : \A i \in Ends : e <= i
    <3> HIDE DEF Ends
    <3> QED BY <2>1, LeastNatural
  <2>3. e \in 1..n /\ (e < n => ~Joined(e))
    BY <1>1
  <2>4. \A i \in 1..(e - 1) : i \in 1..n /\ i < e
    BY <1>1, <2>3
  <2>5. \A i \in 1..(e - 1) : Joined(i)
    BY <2>2, <2>3, <2>4
  <2> HIDE DEF Ends
  <2>6. Maximal(<<1, e>>)
    BY <1>1, <2>3, <2>5
  <2> QED BY <2>3, <2>6
<1>4. Runs(s, f) # {}
  <2>1. PICK e \in 1..n : Maximal(<<1, e>>)
    BY <1>3
  <2> HIDE DEF Maximal
  <2>2. <<1, e>> \in (1..n) \X (1..n)
    BY <1>1
  <2> QED BY <1>2, <2>1, <2>2
<1>5. ASSUME NEW a \in Runs(s, f), NEW b \in Runs(s, f), a[1] = b[1]
      PROVE  ~(a[2] < b[2])
  <2>1. /\ a[1] \in 1..n /\ a[2] \in 1..n /\ b[2] \in 1..n /\ a[1] <= a[2]
        /\ a[2] < n => ~Joined(a[2])
        /\ \A i \in b[1]..(b[2] - 1) : Joined(i)
    BY <1>2
  <2>2. a[2] < b[2] => a[2] \in b[1]..(b[2] - 1) /\ a[2] < n
    BY <1>1, <1>5, <2>1
  <2> QED BY <2>1, <2>2
<1>6. ASSUME NEW a \in Runs(s, f), NEW b \in Runs(s, f), a[1] = b[1] PROVE a = b
  <2>1. ~(a[2] < b[2]) /\ ~(b[2] < a[2])
    BY <1>5, <1>6
  <2>2. a \in (1..n) \X (1..n) /\ b \in (1..n) \X (1..n)
    BY <1>2
  <2>3. a[2] \in Int /\ b[2] \in Int /\ a = <<a[1], a[2]>> /\ b = <<b[1], b[2]>>
    BY <1>1, <2>2
  <2>4. a[2] = b[2]
    BY <2>1, <2>3
  <2> QED BY <1>6, <2>3, <2>4
<1> QED BY <1>2, <1>4, <1>6 DEF n

\* There is a best run.
LEMMA BestRunExists ==
  ASSUME NEW s, Rising(s), s # << >>, NEW g, g.start \in Int, g.end \in Int,
         NEW f, f.hop \in Int
  PROVE  BestRun(Runs(s, f), s, g, f) \in Runs(s, f)
<1> DEFINE S == Runs(s, f)
           n == Len(s)
           Overlap(run) == Cardinality({i \in run[1]..run[2] : Inside(g, s[i].at)})
           Away(run) == -Abs(s[run[1]].at + s[run[2]].at + f.hop - g.start - g.end)
           r == [run \in S |-> Rank(run, s, g, f)]
<1>1. n \in Nat /\ \A i \in 1..n : s[i].at \in Nat
  BY RisingTimes
<1>2. /\ S # {}
      /\ \A run \in S : run[1] \in 1..n /\ run[2] \in 1..n /\ run[1] <= run[2]
      /\ \A a, b \in S : a[1] = b[1] => a = b
  BY RunsBegin
<1> HIDE DEF S, n
<1>3. ASSUME NEW run \in S PROVE Overlap(run) \in Int /\ Overlap(run) <= n
  <2>1. {i \in run[1]..run[2] : Inside(g, s[i].at)} \subseteq 1..n
    BY <1>1, <1>2
  <2> QED BY <1>1, <2>1, PlacesCounted
<1>4. ASSUME NEW run \in S PROVE Away(run) \in Int /\ Away(run) <= 0
  <2>1. s[run[1]].at \in Nat /\ s[run[2]].at \in Nat
    BY <1>1, <1>2
  <2> QED BY <2>1 DEF Abs
<1>5. \A run \in S : r[run] = <<Overlap(run), run[2] - run[1] + 1, Away(run), -s[run[1]].at>>
  BY DEF Rank
<1> HIDE DEF Overlap, Away
<1>6. ASSUME NEW run \in S
      PROVE  /\ r[run] \in Four
             /\ r[run][1] <= n /\ r[run][2] <= n /\ r[run][3] <= n /\ r[run][4] <= n
             /\ r[run][4] = -s[run[1]].at
  <2>1. r[run] = <<Overlap(run), run[2] - run[1] + 1, Away(run), -s[run[1]].at>>
    BY <1>5
  <2>2. run[1] \in 1..n /\ run[2] \in 1..n /\ s[run[1]].at \in Nat
    BY <1>1, <1>2
  <2>3. run[2] - run[1] + 1 \in Int /\ run[2] - run[1] + 1 <= n
        /\ -s[run[1]].at \in Int /\ -s[run[1]].at <= n
    BY <1>1, <2>2
  <2> HIDE DEF r
  <2> QED BY <1>1, <1>3, <1>4, <2>1, <2>3 DEF Four
<1>7. ASSUME NEW a \in S, NEW b \in S, a # b PROVE r[a][4] # r[b][4]
  <2>1. a[1] # b[1] /\ a[1] \in 1..n /\ b[1] \in 1..n
    BY <1>2, <1>7
  <2>2. s[a[1]].at # s[b[1]].at
    <3>1. a[1] < b[1] => s[a[1]].at < s[b[1]].at
      BY <2>1 DEF Rising, n
    <3>2. b[1] < a[1] => s[b[1]].at < s[a[1]].at
      BY <2>1 DEF Rising, n
    <3>3. a[1] < b[1] \/ b[1] < a[1]
      BY <1>1, <2>1
    <3>4. s[a[1]].at \in Nat /\ s[b[1]].at \in Nat
      BY <1>1, <2>1
    <3> QED BY <3>1, <3>2, <3>3, <3>4
  <2>3. s[a[1]].at \in Nat /\ s[b[1]].at \in Nat
    BY <1>1, <2>1
  <2>4. r[a][4] = -s[a[1]].at /\ r[b][4] = -s[b[1]].at
    BY <1>6
  <2> QED BY <2>2, <2>3, <2>4
<1>8. \E x \in S : \A y \in S \ {x} : Better(r[x], r[y])
  <2>1. r \in [S -> Four]
    <3>1. r = [run \in S |-> r[run]]
      OBVIOUS
    <3> HIDE DEF r
    <3> QED BY <1>6, <3>1
  <2> HIDE DEF r
  <2>2. n \in Int
    BY <1>1
  <2>3. \A x \in S : r[x][1] <= n /\ r[x][2] <= n /\ r[x][3] <= n /\ r[x][4] <= n
    BY <1>6
  <2>4. \A x, y \in S : x # y => r[x][4] # r[y][4]
    BY <1>7
  <2>5. S # {}
    BY <1>2
  <2> QED BY <2>1, <2>2, <2>3, <2>4, <2>5, BestExists
<1>9. \E x \in S : \A y \in S \ {x} : Better(Rank(x, s, g, f), Rank(y, s, g, f))
  BY <1>8
<1> QED BY <1>9 DEF BestRun, S

\* The run that timing goes by.
LEMMA TimingRises ==
  ASSUME NEW g, g.start \in Int, g.end \in Int, NEW m, NEW f, f.hop \in Int, Rising(f.frames)
  PROVE  Rising(TimingFrames(g, m, f))
<1> DEFINE c == Candidates(g, m, f)
           run == BestRun(Runs(c, f), c, g, f)
<1>1. TimingFrames(g, m, f) = IF c = << >> THEN << >> ELSE RunOf(c, run)
  BY DEF TimingFrames
<1>2. Rising(c)
  BY OnlyRising DEF Candidates
<1>3. Rising(<< >>)
  BY DEF Rising
<1> HIDE DEF c
<1>4. CASE c # << >>
  <2>1. run \in Runs(c, f)
    BY <1>2, <1>4, BestRunExists
  <2>2. run \in (1..Len(c)) \X (1..Len(c)) /\ run[1] <= run[2]
    <3> HIDE DEF run
    <3> QED BY <1>2, <1>4, <2>1, RunsBegin
  <2>3. Rising(RunOf(c, run))
    <3> HIDE DEF run
    <3> QED BY <1>2, <2>2, RunRising
  <2> QED BY <1>1, <1>4, <2>3
<1> QED BY <1>1, <1>3, <1>4
-----------------------------------------------------------------------------
(* What is observed of a region, and the corrections it leads to.         *)

\* A region takes at least one frame.
LEMMA ExpectedFramesType ==
  ASSUME NEW g, Length(g) \in Nat \ {0}, NEW f, f.hop \in Nat \ {0}
  PROVE  ExpectedFrames(g, f) \in Nat \ {0}
<1> DEFINE a == Length(g) + f.hop - 1
           b == f.hop
           q == a \div b
           e == q * b
<1>1. a \in Int /\ b \in Int /\ b > 0 /\ a >= b
  OBVIOUS
<1>2. ExpectedFrames(g, f) = q
  BY DEF ExpectedFrames, Ceiling
<1> HIDE DEF a, b
<1>3. q \in Int /\ a % b \in Int /\ a = e + (a % b) /\ a % b < b
  BY <1>1
<1> HIDE DEF q
<1>4. q <= 0 => e <= 0
  BY <1>1, <1>3
<1>5. e \in Int
  BY <1>1, <1>3
<1> HIDE DEF e
<1>6. ~(q <= 0)
  BY <1>1, <1>3, <1>4, <1>5
<1> QED BY <1>2, <1>3, <1>6

\* What an observation says of its region.
LEMMA Judgement ==
  ASSUME NEW g, NEW own, NEW timing, NEW f
  PROVE  LET o == Judged(g, own, timing, f)
             clean == CleanOf(own)
             voiced == Only(clean, {x \in Range(clean) : x.voiced})
             expected == ExpectedFrames(g, f)
             pitch == PitchFrames(voiced, timing, expected)
         IN  /\ o.region = g /\ o.expected = expected /\ o.pitch = pitch /\ o.timing = timing
             /\ o.verdict = "resolved" =>
                  Reaches(Len(pitch), expected, ScoringPolicy.min_pitch_coverage)
BY DEF Judged, CleanOf

\* Both choices of pitch frames are in the order of time.
LEMMA PitchRises ==
  ASSUME NEW voiced, Rising(voiced), NEW timing, Rising(timing), NEW expected
  PROVE  Rising(PitchFrames(voiced, timing, expected))
<1> DEFINE sung == Only(voiced, {x \in Range(voiced) : Confident(x)})
<1>1. Rising(sung)
  BY OnlyRising
<1>2. PitchFrames(voiced, timing, expected) \in {sung, timing}
  BY DEF PitchFrames
<1> QED BY <1>1, <1>2

\* Regions and features as the contracts have them.
Extends(g) == g.start \in Nat /\ g.end \in Nat /\ g.start < g.end

\* UserFeaturesV1, as far as the order of frames goes.
Featured(f) == f.hop \in Nat \ {0} /\ Rising(f.frames) /\ f.frames # << >>

\* Observations are of at least one frame each, in the order of time.
Observed(o) ==
  /\ Extends(o.region) /\ o.expected \in Nat \ {0}
  /\ Rising(o.pitch) /\ Rising(o.timing)
  /\ o.verdict = "resolved" => o.pitch # << >>

\* The core makes such observations.
LEMMA ObservationIsSound ==
  ASSUME NEW g, Extends(g), NEW m, NEW f, Featured(f)
  PROVE  Observed(Observation(g, m, f))
<1> DEFINE o == Observation(g, m, f)
           own == FramesOf(g, f)
           timing == TimingFrames(g, m, f)
           clean == CleanOf(own)
           voiced == Only(clean, {x \in Range(clean) : x.voiced})
           expected == ExpectedFrames(g, f)
           pitch == PitchFrames(voiced, timing, expected)
           least == ScoringPolicy.min_pitch_coverage
<1>1. Length(g) \in Nat \ {0}
  BY DEF Extends, Length
<1>2. f.hop \in Nat \ {0} /\ f.hop \in Int /\ Rising(f.frames) /\ g.start \in Int /\ g.end \in Int
  BY DEF Extends, Featured
<1>3. Rising(own)
  BY <1>2, OnlyRising DEF FramesOf
<1>4. Rising(timing)
  BY <1>2, TimingRises
<1>5. Rising(clean)
  BY <1>3, OnlyRising DEF CleanOf
<1>6. Rising(voiced)
  BY <1>5, OnlyRising
<1>7. Rising(pitch)
  <2> HIDE DEF voiced, timing, expected
  <2> QED BY <1>4, <1>6, PitchRises
<1>8. expected \in Nat \ {0}
  BY <1>1, <1>2, ExpectedFramesType
<1>9. /\ o.region = g /\ o.expected = expected /\ o.pitch = pitch /\ o.timing = timing
      /\ o.verdict = "resolved" => Reaches(Len(pitch), expected, least)
  BY Judgement DEF Observation
<1>10. least \in Int /\ least > 0
  BY ScoringPolicyAssumption DEF UnitFields
<1> HIDE DEF o, own, timing, clean, voiced, expected, pitch, least
<1>11. Reaches(Len(pitch), expected, least) => pitch # << >>
  <2> SUFFICES ASSUME pitch = << >> PROVE ~Reaches(Len(pitch), expected, least)
    OBVIOUS
  <2>1. Len(pitch) = 0
    OBVIOUS
  <2> DEFINE share == least * expected
  <2>2. share \in Int /\ share > 0
    BY <1>8, <1>10
  <2>3. Reaches(Len(pitch), expected, least) <=> 100 * Len(pitch) >= share
    BY DEF Reaches
  <2> HIDE DEF share
  <2> QED BY <2>1, <2>2, <2>3
<1> QED BY <1>4, <1>7, <1>8, <1>9, <1>11 DEF Observed, o

\* The types of corrections by what they are about.
PitchTypes == {"octave_error", "sharp", "flat", "unstable"}
TimingKinds == {"early", "late", "short", "long"}

\* No type is about two things.
LEMMA TypesOfCorrections ==
  /\ \A error : PitchCorrectionType(error) \subseteq PitchTypes
  /\ \A o, f : TimingTypes(o, f) \subseteq TimingKinds
  /\ PitchTypes \cap TimingKinds = {} /\ "missed" \notin PitchTypes \cup TimingKinds
BY DEF PitchCorrectionType, TimingTypes, PitchTypes, TimingKinds

\* A correction about the pitch, about the timing or about a missed region.
IsCorrection(c, o, f) ==
  \/ /\ o.verdict = "missed"
     /\ c = Correction(o.region, "missed", o.region.start, o.region.end)
  \/ /\ o.verdict = "resolved" /\ c.type \in PitchTypes
     /\ c = Correction(o.region, c.type, Head(o.pitch).at, Last(o.pitch).at + f.hop)
  \/ /\ o.verdict = "resolved" /\ c.type \in TimingKinds /\ o.timing # << >>
     /\ c = Correction(o.region, c.type, Head(o.timing).at, Last(o.timing).at + f.hop)

\* Every correction is about one of the three.
LEMMA CorrectionCases ==
  ASSUME NEW o, NEW f, NEW c \in Corrections(o, f)
  PROVE  IsCorrection(c, o, f)
<1> DEFINE g == o.region
           Of(types, frames) ==
             {Correction(g, type, Head(frames).at, Last(frames).at + f.hop) : type \in types}
           pitched == PitchCorrectionType(TwiceMedian(Errors(g, o.pitch)))
           timed == TimingTypes(o, f)
<1>1. \A type, from, to : Correction(g, type, from, to).type = type
  BY DEF Correction
<1>2. CASE o.verdict = "missed"
  BY <1>2 DEF Corrections, IsCorrection
<1>3. CASE o.verdict = "resolved"
  <2>1. \/ c \in Of(pitched, o.pitch)
        \/ o.timing # << >> /\ c \in Of(timed, o.timing)
        \/ c \in Of({"unstable"}, o.pitch)
    BY <1>3 DEF Corrections
  <2>2. pitched \subseteq PitchTypes /\ {"unstable"} \subseteq PitchTypes /\ timed \subseteq TimingKinds
    BY TypesOfCorrections DEF PitchTypes
  <2> HIDE DEF pitched, timed
  <2>3. ASSUME NEW types, NEW frames, c \in Of(types, frames)
        PROVE  /\ c.type \in types
               /\ c = Correction(g, c.type, Head(frames).at, Last(frames).at + f.hop)
    BY <1>1, <2>3
  <2> HIDE DEF Of
  <2> QED BY <1>3, <2>1, <2>2, <2>3 DEF IsCorrection
<1>4. CASE o.verdict \notin {"missed", "resolved"}
  BY <1>4 DEF Corrections
<1> QED BY <1>2, <1>3, <1>4

\* A correction's evidence is a range, and types tell an observation's corrections apart.
LEMMA CorrectionIsSound ==
  ASSUME NEW o, Observed(o), NEW f, f.hop \in Nat \ {0}, NEW c \in Corrections(o, f)
  PROVE  /\ c.region = o.region.id
         /\ 0 <= c.from /\ c.from < c.to /\ c.start < c.end
         /\ \A d \in Corrections(o, f) : d.type = c.type \/ c.type = "missed" => d = c
<1>1. \A g, type, from, to :
         /\ Correction(g, type, from, to).type = type /\ Correction(g, type, from, to).region = g.id
         /\ Correction(g, type, from, to).from = from /\ Correction(g, type, from, to).to = to
         /\ Correction(g, type, from, to).start = g.start /\ Correction(g, type, from, to).end = g.end
  BY DEF Correction
<1>2. IsCorrection(c, o, f) /\ \A d \in Corrections(o, f) : IsCorrection(d, o, f)
  BY CorrectionCases
<1>3. c.region = o.region.id
  BY CorrectedRegion
<1>4. c.start = o.region.start /\ c.end = o.region.end
  BY <1>1, <1>2 DEF IsCorrection
<1>5. o.region.start \in Nat /\ o.region.end \in Nat /\ o.region.start < o.region.end
  BY DEF Observed, Extends
<1>6. 0 <= c.from /\ c.from < c.to
  <2>1. CASE o.verdict = "missed"
    <3>1. c.from = o.region.start /\ c.to = o.region.end
      BY <1>1, <1>2, <2>1 DEF IsCorrection
    <3> QED BY <1>5, <3>1
  <2>2. CASE o.verdict = "resolved"
    <3>1. PICK frames : /\ Rising(frames) /\ frames # << >>
                        /\ c.from = Head(frames).at /\ c.to = Last(frames).at + f.hop
      <4>1. CASE c = Correction(o.region, c.type, Head(o.pitch).at, Last(o.pitch).at + f.hop)
        <5>1. Rising(o.pitch) /\ o.pitch # << >>
          BY <2>2 DEF Observed
        <5> QED BY <1>1, <4>1, <5>1
      <4>2. CASE /\ o.timing # << >>
                 /\ c = Correction(o.region, c.type, Head(o.timing).at, Last(o.timing).at + f.hop)
        <5>1. Rising(o.timing) /\ o.timing # << >>
          BY <4>2 DEF Observed
        <5> QED BY <1>1, <4>2, <5>1
      <4> QED BY <1>2, <2>2, <4>1, <4>2 DEF IsCorrection
    <3>2. Head(frames).at \in Nat /\ Last(frames).at \in Nat /\ Head(frames).at <= Last(frames).at
      BY <3>1, RisingEnds
    <3> QED BY <3>1, <3>2
  <2> QED BY <1>2, <2>1, <2>2 DEF IsCorrection
<1>7. ASSUME NEW d \in Corrections(o, f), d.type = c.type \/ c.type = "missed" PROVE d = c
  <2>1. IsCorrection(c, o, f) /\ IsCorrection(d, o, f)
    BY <1>2
  <2>2. CASE o.verdict = "missed"
    BY <2>1, <2>2 DEF IsCorrection
  <2>3. CASE o.verdict = "resolved"
    BY <1>7, <2>1, <2>3, TypesOfCorrections DEF IsCorrection
  <2> QED BY <2>1, <2>2, <2>3 DEF IsCorrection
<1> QED BY <1>3, <1>4, <1>5, <1>6, <1>7
-----------------------------------------------------------------------------
(* What a score speaks of is a share of the phrase.                       *)

\* A share of something.
IsShare(r) == r[1] \in Nat /\ r[2] \in Nat /\ r[1] <= r[2] /\ r[2] > 0

\* Sequences of regions, with what was observed of each.
IsRegions(regions) ==
  /\ IsSequence(regions) /\ regions # << >>
  /\ \A i \in DOMAIN regions : Extends(regions[i])

\* Regions are not empty.
LEMMA LengthIsPositive ==
  ASSUME NEW g, Extends(g)
  PROVE  Length(g) \in Nat \ {0}
BY DEF Extends, Length

\* There is at least one region.
LEMMA RegionsCounted ==
  ASSUME NEW regions, IsRegions(regions)
  PROVE  Len(regions) \in Nat \ {0} /\ DOMAIN regions = 1..Len(regions)
BY DEF IsRegions, IsSequence

\* They are not empty together,
LEMMA TotalLengthIsPositive ==
  ASSUME NEW regions, IsRegions(regions)
  PROVE  TotalLength(regions) \in Nat \ {0}
<1> DEFINE s == [i \in DOMAIN regions |-> Length(regions[i])]
           n == Len(regions)
<1>1. n \in Nat \ {0} /\ DOMAIN regions = 1..n
  BY RegionsCounted
<1>2. \A i \in 1..n : Length(regions[i]) \in Nat \ {0}
  BY <1>1, LengthIsPositive DEF IsRegions
<1> HIDE DEF n
<1>3. s \in [1..n -> Nat \ {0}]
  BY <1>1, <1>2
<1> HIDE DEF s
<1>4. Total(s) \in Nat \ {0}
  BY <1>1, <1>3, PositiveTotal
<1> QED BY <1>4 DEF TotalLength, s

\* Features cover no more of a region than there is.
LEMMA CoveredIsPart ==
  ASSUME NEW g, Extends(g), NEW f, Featured(f)
  PROVE  CoveredSamples(g, f) \in Nat /\ CoveredSamples(g, f) <= Length(g)
<1>1. Head(f.frames).at \in Nat /\ Last(f.frames).at \in Nat /\ f.hop \in Nat
  BY RisingEnds DEF Featured
<1>2. g.start \in Nat /\ g.end \in Nat /\ g.start < g.end
  BY DEF Extends
<1> QED BY <1>1, <1>2 DEF CoveredSamples, Length, AtLeast, AtMost

\* nor covered by more than they hold.
LEMMA CoverageIsPart ==
  ASSUME NEW regions, IsRegions(regions), NEW f, Featured(f)
  PROVE  IsShare(<<TotalCovered(regions, f), TotalLength(regions)>>)
<1> DEFINE s == [i \in DOMAIN regions |-> CoveredSamples(regions[i], f)]
           t == [i \in DOMAIN regions |-> Length(regions[i])]
           n == Len(regions)
<1>1. n \in Nat \ {0} /\ DOMAIN regions = 1..n
  BY RegionsCounted
<1>2. \A i \in 1..n : /\ CoveredSamples(regions[i], f) \in Nat /\ Length(regions[i]) \in Nat
                      /\ CoveredSamples(regions[i], f) <= Length(regions[i])
  BY <1>1, LengthIsPositive, CoveredIsPart DEF IsRegions
<1> HIDE DEF n
<1>3. s \in [1..n -> Nat] /\ t \in [1..n -> Nat] /\ \A i \in 1..n : s[i] <= t[i]
  BY <1>1, <1>2
<1> HIDE DEF s, t
<1>4. Total(s) \in Nat /\ Total(s) <= Total(t)
  BY <1>1, <1>3, BoundedTotal
<1>5. TotalCovered(regions, f) = Total(s) /\ TotalLength(regions) = Total(t)
  BY DEF TotalCovered, TotalLength, s, t
<1> QED BY <1>4, <1>5, TotalLengthIsPositive DEF IsShare

\* One sound observation is made of each region.
LEMMA ObservationsAreSound ==
  ASSUME NEW regions, IsRegions(regions), NEW m, NEW f, Featured(f)
  PROVE  LET obs == Observations(regions, m, f)
         IN  /\ IsSequence(obs) /\ Len(obs) = Len(regions) /\ DOMAIN obs = 1..Len(regions)
             /\ \A i \in 1..Len(regions) : Observed(obs[i]) /\ obs[i].region = regions[i]
             /\ \A o \in Range(obs) : Observed(o)
<1> DEFINE obs == Observations(regions, m, f)
           n == Len(regions)
<1>1. n \in Nat \ {0} /\ DOMAIN regions = 1..n
  BY RegionsCounted
<1>2. \A i \in 1..n : Extends(regions[i])
  BY <1>1 DEF IsRegions
<1>3. obs = [i \in 1..n |-> Observation(regions[i], m, f)]
  BY <1>1 DEF Observations
<1> HIDE DEF obs, n
<1>4. \A i \in 1..n : obs[i] = Observation(regions[i], m, f)
  BY <1>3
<1>5. \A i \in 1..n : Observed(obs[i]) /\ obs[i].region = regions[i]
  BY <1>2, <1>4, ObservationIsSound, ObservedRegion
<1>6. obs = [i \in 1..n |-> obs[i]] /\ DOMAIN obs = 1..n
  BY <1>3
<1>7. obs \in Seq(Range(obs)) /\ Len(obs) = n
  BY <1>1, <1>6 DEF Range
<1>8. \A o \in Range(obs) : Observed(o)
  BY <1>5, <1>6 DEF Range
<1> QED BY <1>5, <1>6, <1>7, <1>8 DEF IsSequence, obs, n

\* What is assessed is a positive part of the requested regions.
LEMMA AssessedIsPart ==
  ASSUME NEW regions, IsRegions(regions), NEW m, NEW f, Featured(f)
  PROVE  LET obs == Observations(regions, m, f)
             assessed == Assessed(obs)
             length == Total([i \in DOMAIN assessed |-> Length(assessed[i].region)])
         IN  assessed # << >> => /\ IsShare(<<length, TotalLength(regions)>>)
                                 /\ length > 0
<1> DEFINE obs == Observations(regions, m, f)
           n == Len(regions)
           T == Range(obs)
           v == [o \in T |-> Length(o.region)]
           A == {o \in T : o.verdict \in {"missed", "resolved"}}
           assessed == Only(obs, A)
           s == [i \in DOMAIN assessed |-> Length(assessed[i].region)]
<1>1. n \in Nat \ {0} /\ DOMAIN regions = 1..n
  BY RegionsCounted
<1>2. /\ obs \in Seq(T) /\ Len(obs) = n /\ DOMAIN obs = 1..n
      /\ \A i \in 1..n : obs[i].region = regions[i] /\ obs[i] \in T
      /\ \A o \in T : Observed(o)
  <2>1. /\ IsSequence(obs) /\ Len(obs) = n /\ DOMAIN obs = 1..n
        /\ \A i \in 1..n : Observed(obs[i]) /\ obs[i].region = regions[i]
        /\ \A o \in Range(obs) : Observed(o)
    BY ObservationsAreSound
  <2> HIDE DEF obs, n
  <2> QED BY <2>1 DEF IsSequence, Range
<1>3. Assessed(obs) = assessed
  BY DEF Assessed
<1> HIDE DEF obs, n, T, A
<1>4. \A o \in T : Length(o.region) \in Nat \ {0}
  BY <1>2, LengthIsPositive DEF Observed
<1>5. v \in [T -> Nat]
  BY <1>4
<1>6. assessed \in Seq(T) /\ \A i \in DOMAIN assessed : assessed[i] \in T
  <2>1. obs \in Seq(T)
    BY <1>2
  <2>2. assessed \in Seq(T)
    BY <2>1, OnlyType
  <2> HIDE DEF assessed
  <2> QED BY <2>2
<1>7. Measure(obs, v) = TotalLength(regions)
  <2>1. [i \in DOMAIN obs |-> v[obs[i]]] = [i \in DOMAIN regions |-> Length(regions[i])]
    BY <1>1, <1>2
  <2> QED BY <2>1 DEF Measure, TotalLength
<1>8. Measure(assessed, v) = Total(s)
  <2> HIDE DEF assessed
  <2>1. [i \in DOMAIN assessed |-> v[assessed[i]]] = s
    BY <1>6
  <2> HIDE DEF v, s
  <2> QED BY <2>1 DEF Measure
<1>9. Measure(assessed, v) \in Nat /\ Measure(obs, v) \in Nat /\ Measure(assessed, v) <= Measure(obs, v)
  <2> HIDE DEF v
  <2> QED BY <1>2, <1>5, MeasureOfOnly
<1>10. assessed # << >> => Total(s) \in Nat \ {0}
  <2> SUFFICES ASSUME assessed # << >> PROVE Total(s) \in Nat \ {0}
    OBVIOUS
  <2> DEFINE k == Len(assessed)
  <2> HIDE DEF assessed
  <2>1. k \in Nat \ {0} /\ DOMAIN assessed = 1..k
    BY <1>6
  <2> HIDE DEF k
  <2>2. \A i \in 1..k : Length(assessed[i].region) \in Nat \ {0}
    BY <1>4, <1>6, <2>1
  <2>3. s \in [1..k -> Nat \ {0}]
    BY <2>1, <2>2
  <2> HIDE DEF s
  <2> QED BY <2>1, <2>3, PositiveTotal
<1>11. assessed # << >> => IsShare(<<Total(s), TotalLength(regions)>>) /\ Total(s) > 0
  <2> HIDE DEF s, assessed, v
  <2> QED BY <1>7, <1>8, <1>9, <1>10, TotalLengthIsPositive DEF IsShare
<1> HIDE DEF assessed
<1> QED BY <1>3, <1>11 DEF obs

\* Timing runs that reach beyond their regions do not count as more than these hold.
LEMMA PitchedIsPart ==
  ASSUME NEW obs, NEW n \in Nat \ {0}, DOMAIN obs = 1..n,
         \A i \in 1..n : Observed(obs[i])
  PROVE  IsShare(<<Pitched(obs), Total(Column(obs, "expected"))>>)
<1> DEFINE Counted(o) == IF o.verdict = "resolved" THEN AtMost(Len(o.pitch), o.expected) ELSE 0
           s == [i \in DOMAIN obs |-> Counted(obs[i])]
           t == [i \in DOMAIN obs |-> obs[i]["expected"]]
<1>1. \A i \in 1..n : obs[i].expected \in Nat \ {0} /\ Len(obs[i].pitch) \in Nat
  BY RisingTimes DEF Observed
<1>2. \A i \in 1..n : Counted(obs[i]) \in Nat /\ Counted(obs[i]) <= obs[i].expected
  BY <1>1 DEF AtMost
<1>3. Pitched(obs) = Total(s) /\ Column(obs, "expected") = t
  BY DEF Pitched, Column
<1> HIDE DEF Counted
<1>4. s \in [1..n -> Nat] /\ t \in [1..n -> Nat] /\ t \in [1..n -> Nat \ {0}]
      /\ \A i \in 1..n : s[i] <= t[i]
  BY <1>1, <1>2
<1> HIDE DEF s, t
<1>5. Total(s) \in Nat /\ Total(s) <= Total(t)
  BY <1>4, BoundedTotal
<1>6. Total(t) \in Nat \ {0}
  BY <1>4, PositiveTotal
<1> QED BY <1>3, <1>5, <1>6 DEF IsShare

\* What a metric speaks of is a share of the phrase.
LEMMA MetricsAreShares ==
  ASSUME NEW obs, NEW n \in Nat \ {0}, IsSequence(obs), DOMAIN obs = 1..n,
         \A i \in 1..n : Observed(obs[i]),
         NEW covered, NEW total, IsShare(<<covered, total>>)
  PROVE  \A name \in DOMAIN Metrics(obs, covered, total) : IsShare(Metrics(obs, covered, total)[name])
<1> DEFINE T == Range(obs)
           resolved == Only(obs, {o \in Range(obs) : o.verdict = "resolved"})
           timed == Only(resolved, {o \in Range(resolved) : o.timing # << >>})
           long == Only(resolved, {o \in Range(resolved) : o.tone # "short"})
           vibrato == Only(long, {o \in Range(long) : o.tone = "vibrato"})
           steady == Only(long, {o \in Range(long) : o.tone # "vibrato"})
           Share(some, all) == <<AtMost(Len(some), AtLeast(1, Len(all))), AtLeast(1, Len(all))>>
           pitched == <<Pitched(obs), Total(Column(obs, "expected"))>>
           metrics == Metrics(obs, covered, total)
<1>1. \A name \in DOMAIN metrics :
         metrics[name] \in {<<covered, total>>, pitched, Share(timed, resolved),
                            Share(steady, long), Share(vibrato, long)}
  BY DEF Metrics
<1>2. obs \in Seq(T)
  BY DEF IsSequence
<1>3. resolved \in Seq(T)
  BY <1>2, OnlyType
<1> HIDE DEF resolved, T
<1>4. timed \in Seq(T) /\ long \in Seq(T)
  BY <1>3, OnlyType
<1> HIDE DEF timed, long
<1>5. steady \in Seq(T) /\ vibrato \in Seq(T)
  BY <1>4, OnlyType
<1> HIDE DEF steady, vibrato
<1>6. \A some, all \in Seq(T) : IsShare(Share(some, all))
  BY DEF IsShare, AtMost, AtLeast
<1>7. IsShare(pitched)
  BY PitchedIsPart
<1> HIDE DEF Share, pitched, metrics
<1> QED BY <1>1, <1>3, <1>4, <1>5, <1>6, <1>7 DEF metrics
-----------------------------------------------------------------------------
(* One tone of one pitch.                                                  *)

\* Errors that are all the same.
LEMMA SteadyErrors ==
  ASSUME NEW g, NEW frames \in Seq(UserFeatureFrame), frames # << >>, NEW d \in Int,
         \A i \in 1..Len(frames) : frames[i].f0 - g.target = d
  PROVE  /\ Errors(g, frames) \in [1..Len(frames) -> Int]
         /\ \A i \in 1..Len(frames) : Errors(g, frames)[i] = d
         /\ TwiceMedian(Errors(g, frames)) = 2 * d
<1> DEFINE e == Errors(g, frames)
           n == Len(frames)
<1>1. n \in Nat /\ n >= 1
  OBVIOUS
<1>2. e = [i \in 1..n |-> frames[i].f0 - g.target]
  BY DEF Errors
<1>3. \A i \in 1..n : e[i] = d
  BY <1>2
<1>4. e \in [1..n -> Int]
  BY <1>2, <1>3
<1> HIDE DEF e, n
<1>5. e \in Seq(Int) /\ Len(e) = n /\ e # << >>
  BY <1>1, <1>4
<1>6. \A i \in 1..Len(e) : d <= e[i] /\ e[i] <= d
  BY <1>3, <1>5
<1>7. 2 * d <= TwiceMedian(e) /\ TwiceMedian(e) <= 2 * d
  BY <1>5, <1>6, TwiceMedianBetween
<1>8. TwiceMedian(e) \in Int
  BY <1>5, TwiceMedianType
<1> QED BY <1>3, <1>4, <1>7, <1>8 DEF e, n

\* The sum that scales the residuals is a number.
LEMMA SquaresType ==
  ASSUME NEW n \in Nat
  PROVE  Squares(n) \in Int
<1> DEFINE s == [i \in 1..n |-> OddOffset(i, n) * OddOffset(i, n)]
<1>1. \A i \in 1..n : OddOffset(i, n) \in Int
  BY DEF OddOffset
<1>2. \A i \in 1..n : OddOffset(i, n) * OddOffset(i, n) \in Int
  BY <1>1
<1>3. s \in Seq(Int)
  BY <1>2
<1>4. Squares(n) = Total(s)
  BY DEF Squares
<1> HIDE DEF s
<1> QED BY <1>3, <1>4, TotalType

\* Equal errors leave nothing once their line is taken away.
LEMMA NothingRemains ==
  ASSUME NEW n \in Nat, NEW d \in Int, NEW errors \in [1..n -> Int],
         \A i \in 1..n : errors[i] = d
  PROVE  Residuals(errors) = [i \in 1..n |-> 0]
<1> DEFINE odds == [i \in 1..n |-> OddOffset(i, n) * errors[i]]
           slope == Total(odds)
           Left(i) == Squares(n) * (n * errors[i] - Total(errors)) - n * slope * OddOffset(i, n)
<1>1. Len(errors) = n
  OBVIOUS
<1>2. Residuals(errors) = [i \in 1..n |-> Left(i)]
  BY <1>1 DEF Residuals
<1>3. slope = 0
  <2>1. \A i \in 1..n : OddOffset(i, n) * errors[i] = (2 * i - n - 1) * d
    BY DEF OddOffset
  <2>2. odds \in [1..n -> Int] /\ \A i \in 1..n : odds[i] = (2 * i - n - 1) * d
    <3>1. \A i \in 1..n : (2 * i - n - 1) * d \in Int
      OBVIOUS
    <3> QED BY <2>1, <3>1
  <2> HIDE DEF odds
  <2> QED BY <2>2, TotalOfOdds
<1>4. Total(errors) = n * d
  BY TotalOfEquals
<1> HIDE DEF slope
<1>5. ASSUME NEW i \in 1..n PROVE Left(i) = 0
  <2>1. n * errors[i] - Total(errors) = 0
    <3>1. errors[i] = d /\ n * d \in Int
      OBVIOUS
    <3> QED BY <1>4, <3>1
  <2>2. Squares(n) * 0 = 0
    BY SquaresType
  <2>3. OddOffset(i, n) \in Int
    BY DEF OddOffset
  <2>4. n * slope * OddOffset(i, n) = 0
    BY <1>3, <2>3
  <2> QED BY <2>1, <2>2, <2>4
<1> HIDE DEF Left
<1> QED BY <1>2, <1>5

\* Such a tone is not unstable.
LEMMA SteadyTone ==
  ASSUME NEW g, NEW frames \in Seq(UserFeatureFrame), NEW f, NEW d \in Int,
         \A i \in 1..Len(frames) : frames[i].f0 - g.target = d
  PROVE  ToneOf(g, frames, f) # "unstable"
<1> DEFINE n == Len(frames)
           errors == Errors(g, frames)
           residuals == Residuals(errors)
<1>1. n \in Nat
  OBVIOUS
<1>2. errors = [i \in 1..n |-> frames[i].f0 - g.target]
  BY DEF Errors
<1>3. errors \in [1..n -> Int] /\ \A i \in 1..n : errors[i] = d
  BY <1>2
<1> HIDE DEF errors, n
<1>4. residuals = [i \in 1..n |-> 0]
  BY <1>1, <1>3, NothingRemains
<1> HIDE DEF residuals
<1>5. ~Unstable(residuals)
  <2> DEFINE squared == [i \in 1..n |-> residuals[i] * residuals[i]]
             threshold == ScoringPolicy.stability_threshold_cents * n * Squares(n)
  <2>1. Len(residuals) = n
    BY <1>1, <1>4
  <2>2. squared \in [1..n -> Int] /\ \A i \in 1..n : squared[i] = 0
    BY <1>4
  <2>3. Total(squared) = 0
    <3>1. Total(squared) = n * 0
      <4> HIDE DEF squared
      <4> QED BY <1>1, <2>2, TotalOfEquals
    <3> QED BY <1>1, <3>1
  <2>4. threshold \in Int
    <3>1. ScoringPolicy.stability_threshold_cents \in Int
      BY ScoringPolicyAssumption DEF PositiveFields
    <3>2. ScoringPolicy.stability_threshold_cents * n \in Int
      BY <1>1, <3>1
    <3>3. Squares(n) \in Int
      BY <1>1, SquaresType
    <3> QED BY <3>2, <3>3
  <2>5. Unstable(residuals) <=> Total(squared) > n * threshold * threshold
    BY <2>1 DEF Unstable
  <2> HIDE DEF squared, threshold
  <2>6. n * threshold * threshold >= 0 /\ n * threshold * threshold \in Int
    <3>1. threshold * threshold >= 0 /\ threshold * threshold \in Int
      BY <2>4
    <3>2. n * threshold * threshold = n * (threshold * threshold)
      BY <1>1, <2>4
    <3> DEFINE square == threshold * threshold
    <3>3. n * square >= 0 /\ n * square \in Int
      <4> HIDE DEF square
      <4> QED BY <1>1, <3>1 DEF square
    <3> QED BY <3>2, <3>3
  <2> QED BY <2>3, <2>5, <2>6
<1> QED BY <1>5 DEF ToneOf, residuals, errors

\* An error within the window of timing is not one of octaves.
LEMMA NotAnOctave ==
  ASSUME NEW d \in Int, Abs(d) <= ScoringPolicy.timing_pitch_window_cents,
         ScoringPolicy.timing_pitch_window_cents + ScoringPolicy.octave_tolerance_cents < Octave
  PROVE  PitchCorrectionType(2 * d) =
           {type \in {"sharp", "flat"} :
              IF type = "sharp" THEN d >= ScoringPolicy.pitch_tolerance_cents
              ELSE -d >= ScoringPolicy.pitch_tolerance_cents}
<1> DEFINE octave == Round(2 * d, 2 * Octave)
           moved == octave * 2 * Octave
           tolerance == ScoringPolicy.octave_tolerance_cents
           window == ScoringPolicy.timing_pitch_window_cents
           pitch == ScoringPolicy.pitch_tolerance_cents
<1>1. /\ Octave \in Nat \ {0} /\ tolerance \in Nat /\ window \in Nat /\ pitch \in Nat
  BY ScoringPolicyAssumption DEF PositiveFields
<1>2. octave \in Int
  <2>1. 2 * d \in Int /\ 2 * Octave \in Nat /\ 2 * Octave > 0
    BY <1>1
  <2> QED BY <2>1, RoundIsNear
<1>3. window + tolerance < Octave /\ -window <= d /\ d <= window
  <2>1. Abs(d) <= window /\ window + tolerance < Octave
    OBVIOUS
  <2> HIDE DEF window, tolerance
  <2> QED BY <1>1, <2>1 DEF Abs
<1> HIDE DEF octave, tolerance, window, pitch
<1>4. moved \in Int /\ (octave >= 1 => moved >= 2 * Octave) /\ (octave <= -1 => moved <= -(2 * Octave))
  BY <1>1, <1>2
<1> HIDE DEF moved
<1>5. octave # 0 => Abs(2 * d - moved) > 2 * tolerance
  <2>1. octave # 0 => octave >= 1 \/ octave <= -1
    BY <1>2
  <2> QED BY <1>1, <1>3, <1>4, <2>1 DEF Abs
<1>6. PitchCorrectionType(2 * d) =
        IF octave # 0 /\ Abs(2 * d - moved) <= 2 * tolerance THEN {"octave_error"}
        ELSE {type \in {"sharp", "flat"} :
                IF type = "sharp" THEN 2 * d >= 2 * pitch ELSE 2 * d <= -(2 * pitch)}
  BY DEF PitchCorrectionType, octave, moved, tolerance, pitch
<1>7. Abs(2 * d - moved) \in Int
  BY <1>4 DEF Abs
<1>8. ~(octave # 0 /\ Abs(2 * d - moved) <= 2 * tolerance)
  BY <1>1, <1>5, <1>7
<1>9. (2 * d >= 2 * pitch <=> d >= pitch) /\ (2 * d <= -(2 * pitch) <=> -d >= pitch)
  BY <1>1
<1> QED BY <1>6, <1>8, <1>9 DEF pitch
\* Frames that are close enough to be joined make one run.
LEMMA OneRun ==
  ASSUME NEW s, Rising(s), s # << >>, NEW f,
         \A i \in 2..Len(s) :
           s[i].at - s[i - 1].at <= Samples(ScoringPolicy.timing_max_gap_ms, f)
  PROVE  Runs(s, f) = {<<1, Len(s)>>}
<1> DEFINE n == Len(s)
           gap == Samples(ScoringPolicy.timing_max_gap_ms, f)
           Joined(i) == s[i + 1].at - s[i].at <= gap
<1>1. n \in Nat /\ n >= 1
  BY DEF Rising
<1>2. ASSUME NEW i \in 1..(n - 1) PROVE Joined(i)
  <2>1. i + 1 \in 2..n /\ (i + 1) - 1 = i
    BY <1>1
  <2> QED BY <2>1
<1> HIDE DEF n
<1>3. ASSUME NEW run \in Runs(s, f) PROVE run = <<1, n>>
  <2>1. run \in (1..n) \X (1..n) /\ (run[1] > 1 => ~Joined(run[1] - 1)) /\ (run[2] < n => ~Joined(run[2]))
    BY <1>3 DEF Runs, n
  <2> HIDE DEF Joined
  <2>2. run[1] \in 1..n /\ run[2] \in 1..n /\ run = <<run[1], run[2]>>
    BY <2>1
  <2>3. ~(run[1] > 1) /\ ~(run[2] < n)
    <3>1. run[1] > 1 => run[1] - 1 \in 1..(n - 1)
      BY <1>1, <2>2
    <3>2. run[2] < n => run[2] \in 1..(n - 1)
      BY <1>1, <2>2
    <3> QED BY <1>2, <2>1, <3>1, <3>2
  <2>4. run[1] = 1 /\ run[2] = n
    BY <1>1, <2>2, <2>3
  <2> QED BY <2>2, <2>4
<1>4. Runs(s, f) # {}
  BY RunsBegin
<1> QED BY <1>3, <1>4 DEF n

\* Then timing goes by all of them.
LEMMA TimingIsWhole ==
  ASSUME NEW g, g.start \in Int, g.end \in Int, NEW m, NEW f, f.hop \in Int,
         NEW s, s = Candidates(g, m, f), Rising(s), s # << >>,
         \A i \in 2..Len(s) :
           s[i].at - s[i - 1].at <= Samples(ScoringPolicy.timing_max_gap_ms, f)
  PROVE  TimingFrames(g, m, f) = s
<1> DEFINE best == BestRun(Runs(s, f), s, g, f)
<1>1. TimingFrames(g, m, f) = RunOf(s, best)
  BY DEF TimingFrames
<1>2. best \in Runs(s, f)
  BY BestRunExists
<1> HIDE DEF best
<1>3. best = <<1, Len(s)>>
  BY <1>2, OneRun
<1>4. RunOf(s, best) = SubSeq(s, 1, Len(s))
  BY <1>3 DEF RunOf
<1>5. s \in Seq(UserFeatureFrame)
  BY DEF Rising
<1>6. SubSeq(s, 1, Len(s)) = s
  BY <1>5
<1> QED BY <1>1, <1>4, <1>6

\* What one clean tone near a region is: see IsPerformanceOf.
IsTone(tone, g, m, f) ==
  /\ tone = Only(f.frames, {x \in Range(f.frames) : x.voiced}) /\ tone # << >>
  /\ \A i \in DOMAIN tone : /\ Confident(tone[i]) /\ tone[i].f0 = Head(tone).f0
                            /\ InSearchWindow(g, m, f, tone[i])
  /\ \A i \in 2..Len(tone) : tone[i].at - tone[i - 1].at = f.hop
  /\ \A i \in DOMAIN f.frames : Clean(f.frames[i])
  /\ Abs(Head(tone).f0 - g.target) <= ScoringPolicy.timing_pitch_window_cents
  /\ Reaches(Len(tone), ExpectedFrames(g, f), ScoringPolicy.min_pitch_coverage)
  /\ Reaches(Len(FramesOf(g, f)), ExpectedFrames(g, f), ScoringPolicy.min_timeline_coverage)
  /\ f.hop <= Samples(ScoringPolicy.timing_max_gap_ms, f)

\* Its frames have one pitch, and it holds all voiced frames.
LEMMA ToneFrames ==
  ASSUME NEW tone, NEW g, NEW m, NEW f, IsTone(tone, g, m, f), Rising(f.frames)
  PROVE  /\ Rising(tone) /\ Head(tone).f0 \in Int
         /\ Range(tone) = {x \in Range(f.frames) : x.voiced}
         /\ \A x \in Range(f.frames) : Clean(x)
         /\ \A x \in Range(f.frames) : x.voiced =>
              /\ x.f0 = Head(tone).f0 /\ Confident(x) /\ InSearchWindow(g, m, f, x)
<1> DEFINE A == {x \in Range(f.frames) : x.voiced}
<1>1. f.frames \in Seq(UserFeatureFrame)
  BY DEF Rising
<1>2. tone = Only(f.frames, A) /\ tone # << >> /\ A \subseteq Range(f.frames)
  BY DEF IsTone
<1> HIDE DEF A
<1>3. Rising(tone)
  BY <1>2, OnlyRising
<1>4. Range(tone) = A
  <2>1. Range(tone) = Range(f.frames) \cap A
    BY <1>1, <1>2, OnlyRange
  <2> QED BY <1>2, <2>1
<1>5. Head(tone).f0 \in Int
  <2>1. Head(tone) \in UserFeatureFrame
    BY <1>2, <1>3 DEF Rising
  <2> QED BY <2>1 DEF UserFeatureFrame
<1>6. \A x \in Range(f.frames) : Clean(x)
  BY DEF IsTone, Range
<1>7. ASSUME NEW x \in Range(f.frames), x.voiced
      PROVE  x.f0 = Head(tone).f0 /\ Confident(x) /\ InSearchWindow(g, m, f, x)
  <2>1. x \in Range(tone)
    BY <1>4, <1>7 DEF A
  <2>2. PICK i \in DOMAIN tone : x = tone[i]
    BY <2>1 DEF Range
  <2> QED BY <2>2 DEF IsTone
<1> QED BY <1>3, <1>4, <1>5, <1>6, <1>7 DEF A

\* Timing goes by the whole tone.
LEMMA ToneIsTimed ==
  ASSUME NEW tone, NEW g, Extends(g), NEW m, NEW f, Featured(f), IsTone(tone, g, m, f)
  PROVE  TimingFrames(g, m, f) = tone
<1> DEFINE A == {x \in Range(f.frames) : x.voiced}
           B == {x \in Range(f.frames) :
                   /\ InSearchWindow(g, m, f, x)
                   /\ Confident(x) /\ Clean(x)
                   /\ Abs(x.f0 - g.target) <= ScoringPolicy.timing_pitch_window_cents}
<1>1. Rising(f.frames) /\ f.hop \in Nat /\ f.hop \in Int
  BY DEF Featured
<1>2. A = B
  <2>1. ASSUME NEW x \in A PROVE x \in B
    <3>1. x \in Range(f.frames) /\ x.voiced
      OBVIOUS
    <3>2. /\ Clean(x) /\ x.f0 = Head(tone).f0 /\ Confident(x) /\ InSearchWindow(g, m, f, x)
      BY <1>1, <3>1, ToneFrames
    <3>3. Abs(Head(tone).f0 - g.target) <= ScoringPolicy.timing_pitch_window_cents
      BY DEF IsTone
    <3> QED BY <3>1, <3>2, <3>3
  <2>2. \A x \in B : x \in A
    BY DEF Confident
  <2> QED BY <2>1, <2>2
<1>3. Candidates(g, m, f) = Only(f.frames, B)
  BY DEF Candidates
<1>4. tone = Only(f.frames, A) /\ tone # << >>
  BY DEF IsTone
<1> HIDE DEF A, B
<1>5. tone = Candidates(g, m, f)
  BY <1>2, <1>3, <1>4
<1>6. Rising(tone)
  BY <1>1, ToneFrames
<1>7. ASSUME NEW i \in 2..Len(tone)
      PROVE  tone[i].at - tone[i - 1].at <= Samples(ScoringPolicy.timing_max_gap_ms, f)
  BY <1>7 DEF IsTone
<1>8. g.start \in Int /\ g.end \in Int
  BY DEF Extends
<1> QED BY <1>1, <1>4, <1>5, <1>6, <1>7, <1>8, TimingIsWhole

\* A region whose frames are there and whose tone is heard is resolved.
LEMMA JudgedResolved ==
  ASSUME NEW g, NEW own, NEW timing, NEW f, timing # << >>,
         Reaches(Len(own), ExpectedFrames(g, f), ScoringPolicy.min_timeline_coverage),
         Reaches(Len(timing), ExpectedFrames(g, f), ScoringPolicy.min_pitch_coverage)
  PROVE  LET o == Judged(g, own, timing, f)
         IN  o.verdict = "resolved" /\ o.tone = ToneOf(g, o.pitch, f)
<1> DEFINE o == Judged(g, own, timing, f)
           clean == CleanOf(own)
           voiced == Only(clean, {x \in Range(clean) : x.voiced})
           expected == ExpectedFrames(g, f)
           pitch == PitchFrames(voiced, timing, expected)
           Heard(frames) == Reaches(Len(frames), expected, ScoringPolicy.min_pitch_coverage)
<1>1. Heard(pitch)
  <2> DEFINE sung == Only(voiced, {x \in Range(voiced) : Confident(x)})
  <2>1. pitch = IF Heard(sung) \/ timing = << >> THEN sung ELSE timing
    BY DEF PitchFrames
  <2> HIDE DEF pitch, sung
  <2> QED BY <2>1
<1>2. Heard(pitch) => o.verdict = "resolved" /\ o.tone = ToneOf(g, o.pitch, f)
  BY DEF Judged, CleanOf
<1> QED BY <1>1, <1>2
\* What is observed of a region near a tone: it is timed by the tone, and its
\* pitch is that of frames of the tone.
ObservedBy(o, tone, g, f) ==
  /\ o.region = g /\ o.verdict = "resolved" /\ o.timing = tone
  /\ o.tone = ToneOf(g, o.pitch, f)
  /\ o.pitch \in Seq(UserFeatureFrame) /\ o.pitch # << >>
  /\ \A i \in 1..Len(o.pitch) : o.pitch[i].f0 = Head(tone).f0

\* The core observes so.
LEMMA ToneIsPitched ==
  ASSUME NEW tone, NEW g, Extends(g), NEW m, NEW f, Featured(f), IsTone(tone, g, m, f)
  PROVE  ObservedBy(Observation(g, m, f), tone, g, f)
<1> DEFINE o == Observation(g, m, f)
           own == FramesOf(g, f)
           clean == CleanOf(own)
           voiced == Only(clean, {x \in Range(clean) : x.voiced})
           sung == Only(voiced, {x \in Range(voiced) : Confident(x)})
           expected == ExpectedFrames(g, f)
           V == {x \in Range(f.frames) : x.voiced}
<1>1. f.frames \in Seq(UserFeatureFrame) /\ Rising(f.frames)
  BY DEF Featured, Rising
<1>2. TimingFrames(g, m, f) = tone
  BY ToneIsTimed
<1>3. o = Judged(g, own, tone, f)
  BY <1>2 DEF Observation
<1>4. o.verdict = "resolved" /\ o.tone = ToneOf(g, o.pitch, f)
  <2>1. /\ tone # << >>
        /\ Reaches(Len(own), ExpectedFrames(g, f), ScoringPolicy.min_timeline_coverage)
        /\ Reaches(Len(tone), ExpectedFrames(g, f), ScoringPolicy.min_pitch_coverage)
    BY DEF IsTone
  <2> HIDE DEF own, o
  <2> QED BY <1>3, <2>1, JudgedResolved
<1>5. o.region = g /\ o.timing = tone /\ o.pitch = PitchFrames(voiced, tone, expected)
  BY <1>3, Judgement
<1>6. Observed(o)
  BY ObservationIsSound
<1>7. o.pitch \in Seq(UserFeatureFrame) /\ o.pitch # << >>
  BY <1>4, <1>6 DEF Observed, Rising
<1>8. o.pitch = sung \/ o.pitch = tone
  BY <1>5 DEF PitchFrames
<1>9. Range(tone) = V
  BY <1>1, ToneFrames
<1>10. Range(sung) \subseteq V
  <2>1. own \in Seq(UserFeatureFrame) /\ Range(own) \subseteq Range(f.frames)
    BY <1>1, OnlyType, OnlyRange DEF FramesOf
  <2> HIDE DEF own
  <2>2. clean \in Seq(UserFeatureFrame) /\ Range(clean) \subseteq Range(own)
    BY <2>1, OnlyType, OnlyRange DEF CleanOf
  <2> HIDE DEF clean
  <2>3. voiced \in Seq(UserFeatureFrame) /\ Range(voiced) = Range(clean) \cap {x \in Range(clean) : x.voiced}
    BY <2>2, OnlyType, OnlyRange
  <2> HIDE DEF voiced
  <2>4. Range(sung) \subseteq Range(voiced)
    BY <2>3, OnlyRange
  <2> HIDE DEF sung
  <2> QED BY <2>1, <2>2, <2>3, <2>4
<1>11. \A x \in V : x.f0 = Head(tone).f0
  BY <1>1, ToneFrames
<1> HIDE DEF o, sung, V
<1>12. \A i \in 1..Len(o.pitch) : o.pitch[i].f0 = Head(tone).f0
  <2>1. Range(o.pitch) \subseteq V
    BY <1>8, <1>9, <1>10
  <2>2. \A i \in 1..Len(o.pitch) : o.pitch[i] \in Range(o.pitch)
    BY <1>7 DEF Range
  <2> QED BY <1>11, <2>1, <2>2
<1> QED BY <1>4, <1>5, <1>7, <1>12 DEF o, ObservedBy

\* What a tone between two samples, so far off its pitch, deserves: see Deserved.
TypesDue(from, to, detune, g, f) ==
  LET onset == (from - g.start) * 1000
      delta == (to - from - (g.end - g.start)) * 1000
      late == ScoringPolicy.onset_tolerance_ms * f.rate
      long == ScoringPolicy.duration_tolerance_ms * f.rate
  IN  {type \in {"sharp", "flat", "early", "late", "short", "long"} :
         CASE type = "sharp" -> detune >= ScoringPolicy.pitch_tolerance_cents
           [] type = "flat" -> -detune >= ScoringPolicy.pitch_tolerance_cents
           [] type = "early" -> -onset > late
           [] type = "late" -> onset > late
           [] type = "short" -> -delta > long
           [] type = "long" -> delta > long}

\* A deviation beyond a tolerance is one to either side.
LEMMA BeyondEither ==
  ASSUME NEW x \in Int, NEW bound \in Nat
  PROVE  /\ Abs(x) * 1000 > bound /\ x < 0 <=> -(x * 1000) > bound
         /\ Abs(x) * 1000 > bound /\ ~(x < 0) <=> x * 1000 > bound
<1>1. CASE x < 0
  <2>1. Abs(x) = -x
    BY <1>1 DEF Abs
  <2> QED BY <1>1, <2>1
<1>2. CASE ~(x < 0)
  <2>1. Abs(x) = x
    BY <1>2 DEF Abs
  <2> QED BY <1>2, <2>1
<1> QED BY <1>1, <1>2

\* The corrections of timing are the ones a tone deserves.
LEMMA TimingTypesDue ==
  ASSUME NEW o, NEW tone, o.timing = tone, Rising(tone), tone # << >>,
         NEW g, o.region = g, Extends(g),
         NEW f, f.hop \in Nat, f.rate \in Nat
  PROVE  LET from == Head(tone).at
             to == Last(tone).at + f.hop
             onset == (from - g.start) * 1000
             delta == (to - from - (g.end - g.start)) * 1000
             late == ScoringPolicy.onset_tolerance_ms * f.rate
             long == ScoringPolicy.duration_tolerance_ms * f.rate
         IN  /\ "early" \in TimingTypes(o, f) <=> -onset > late
             /\ "late" \in TimingTypes(o, f) <=> onset > late
             /\ "short" \in TimingTypes(o, f) <=> -delta > long
             /\ "long" \in TimingTypes(o, f) <=> delta > long
<1> DEFINE from == Head(tone).at
           to == Last(tone).at + f.hop
           onset == Head(o.timing).at - o.region.start
           length == Last(o.timing).at + f.hop - Head(o.timing).at
           delta == length - Length(o.region)
           late == ScoringPolicy.onset_tolerance_ms * f.rate
           long == ScoringPolicy.duration_tolerance_ms * f.rate
           OnsetOff == Abs(onset) * 1000 > late
           DeltaOff == Abs(delta) * 1000 > long
<1>1. from \in Nat /\ Last(tone).at \in Nat /\ to \in Nat
  BY RisingEnds
<1>2. g.start \in Nat /\ g.end \in Nat /\ Length(g) = g.end - g.start
  BY DEF Extends, Length
<1>3. late \in Nat /\ long \in Nat
  <2>1. /\ ScoringPolicy.onset_tolerance_ms \in Nat
        /\ ScoringPolicy.duration_tolerance_ms \in Nat
    BY ScoringPolicyAssumption DEF PositiveFields
  <2> QED BY <2>1
<1>4. /\ "early" \in TimingTypes(o, f) <=> OnsetOff /\ onset < 0
      /\ "late" \in TimingTypes(o, f) <=> OnsetOff /\ ~(onset < 0)
      /\ "short" \in TimingTypes(o, f) <=> DeltaOff /\ delta < 0
      /\ "long" \in TimingTypes(o, f) <=> DeltaOff /\ ~(delta < 0)
  <2>1. TimingTypes(o, f) =
          {type \in {"early", "late"} : OnsetOff /\ (type = "early" <=> onset < 0)}
          \cup {type \in {"short", "long"} : DeltaOff /\ (type = "short" <=> delta < 0)}
    BY DEF TimingTypes, Beyond
  <2> HIDE DEF OnsetOff, DeltaOff, onset, delta
  <2> QED BY <2>1
<1>5. /\ onset \in Int /\ delta \in Int
      /\ onset = from - g.start /\ delta = to - from - (g.end - g.start)
  <2>1. onset = from - g.start
    OBVIOUS
  <2>2. delta = to - from - Length(g)
    <3> DEFINE last == Last(tone).at
    <3>1. delta = (last + (f.hop - from)) - Length(g)
      OBVIOUS
    <3>2. to = last + f.hop /\ last \in Nat /\ Length(g) \in Int
      BY <1>1, <1>2
    <3> HIDE DEF last, from, to, delta
    <3> QED BY <1>1, <3>1, <3>2
  <2> HIDE DEF from, to, onset, delta
  <2> QED BY <1>1, <1>2, <2>1, <2>2
<1> HIDE DEF onset, delta, late, long
<1>6. /\ OnsetOff /\ onset < 0 <=> -(onset * 1000) > late
      /\ OnsetOff /\ ~(onset < 0) <=> onset * 1000 > late
  BY <1>3, <1>5, BeyondEither
<1>7. /\ DeltaOff /\ delta < 0 <=> -(delta * 1000) > long
      /\ DeltaOff /\ ~(delta < 0) <=> delta * 1000 > long
  BY <1>3, <1>5, BeyondEither
<1> HIDE DEF from, to, OnsetOff, DeltaOff
<1> QED BY <1>4, <1>5, <1>6, <1>7 DEF late, long, from, to
\* A resolved region is corrected in its pitch, in its timing and for an unstable tone.
LEMMA ResolvedTypes ==
  ASSUME NEW o, o.verdict = "resolved", o.timing # << >>, o.tone # "unstable", NEW f
  PROVE  {c.type : c \in Corrections(o, f)} =
           PitchCorrectionType(TwiceMedian(Errors(o.region, o.pitch))) \cup TimingTypes(o, f)
<1> DEFINE g == o.region
           Of(types, frames) ==
             {Correction(g, type, Head(frames).at, Last(frames).at + f.hop) : type \in types}
           pitched == PitchCorrectionType(TwiceMedian(Errors(g, o.pitch)))
           timed == TimingTypes(o, f)
<1>1. Corrections(o, f) = UNION {Of(pitched, o.pitch), Of(timed, o.timing), {}}
  BY DEF Corrections
<1>2. \A type, from, to : Correction(g, type, from, to).type = type
  BY DEF Correction
<1>3. ASSUME NEW types, NEW frames PROVE {c.type : c \in Of(types, frames)} = types
  <2> DEFINE Made(type) == Correction(g, type, Head(frames).at, Last(frames).at + f.hop)
  <2>1. \A type : Made(type).type = type
    BY <1>2
  <2>2. Of(types, frames) = {Made(type) : type \in types}
    OBVIOUS
  <2> HIDE DEF Made, Of
  <2>3. \A x \in {c.type : c \in Of(types, frames)} : x \in types
    BY <2>1, <2>2
  <2>4. ASSUME NEW x \in types PROVE x \in {c.type : c \in Of(types, frames)}
    <3>1. Made(x) \in Of(types, frames) /\ Made(x).type = x
      BY <2>1, <2>2
    <3> QED BY <3>1
  <2> QED BY <2>3, <2>4
<1> HIDE DEF Of, pitched, timed
<1>4. {c.type : c \in Corrections(o, f)} =
        {c.type : c \in Of(pitched, o.pitch)} \cup {c.type : c \in Of(timed, o.timing)}
  BY <1>1
<1> QED BY <1>3, <1>4 DEF pitched, timed

\* The corrections of a region near a tone are those that the tone deserves.
LEMMA ToneIsCorrected ==
  ASSUME NEW tone, NEW g, Extends(g), g.target \in Int, NEW m, NEW f, Featured(f), f.rate \in Nat,
         IsTone(tone, g, m, f),
         ScoringPolicy.timing_pitch_window_cents + ScoringPolicy.octave_tolerance_cents < Octave
  PROVE  {c.type : c \in Corrections(Observation(g, m, f), f)} =
           TypesDue(Head(tone).at, Last(tone).at + f.hop, Head(tone).f0 - g.target, g, f)
<1> DEFINE o == Observation(g, m, f)
           d == Head(tone).f0 - g.target
           pitched == PitchCorrectionType(2 * d)
           timed == TimingTypes(o, f)
           due == TypesDue(Head(tone).at, Last(tone).at + f.hop, d, g, f)
<1>1. Rising(f.frames) /\ f.hop \in Nat
  BY DEF Featured
<1>2. Rising(tone) /\ Head(tone).f0 \in Int /\ d \in Int
  BY <1>1, ToneFrames
<1>3. tone # << >> /\ Abs(d) <= ScoringPolicy.timing_pitch_window_cents
  BY DEF IsTone
<1>4. /\ o.region = g /\ o.verdict = "resolved" /\ o.timing = tone
      /\ o.tone = ToneOf(g, o.pitch, f)
      /\ o.pitch \in Seq(UserFeatureFrame) /\ o.pitch # << >>
      /\ \A i \in 1..Len(o.pitch) : o.pitch[i].f0 = Head(tone).f0
  <2>1. ObservedBy(o, tone, g, f)
    BY ToneIsPitched
  <2> HIDE DEF o
  <2> QED BY <2>1 DEF ObservedBy
<1> DEFINE pitch == o.pitch
<1> HIDE DEF o
<1>5. \A i \in 1..Len(o.pitch) : o.pitch[i].f0 - g.target = d
  BY <1>4
<1> HIDE DEF d
<1>6. TwiceMedian(Errors(g, pitch)) = 2 * d
  <2>1. /\ pitch \in Seq(UserFeatureFrame) /\ pitch # << >>
        /\ \A i \in 1..Len(pitch) : pitch[i].f0 - g.target = d
    BY <1>4, <1>5
  <2> HIDE DEF pitch
  <2> QED BY <1>2, <2>1, SteadyErrors
<1>7. o.tone # "unstable"
  <2>1. ToneOf(g, pitch, f) # "unstable"
    <3> HIDE DEF pitch
    <3> QED BY <1>2, <1>4, <1>5, SteadyTone DEF pitch
  <2> QED BY <1>4, <2>1
<1>8. {c.type : c \in Corrections(o, f)} = pitched \cup timed
  BY <1>3, <1>4, <1>6, <1>7, ResolvedTypes
<1>9. pitched = {type \in {"sharp", "flat"} :
                   IF type = "sharp" THEN d >= ScoringPolicy.pitch_tolerance_cents
                   ELSE -d >= ScoringPolicy.pitch_tolerance_cents}
  BY <1>2, <1>3, NotAnOctave
<1>10. timed \subseteq {"early", "late", "short", "long"}
  BY TypesOfCorrections DEF TimingKinds
<1> DEFINE from == Head(tone).at
           to == Last(tone).at + f.hop
           onset == (from - g.start) * 1000
           delta == (to - from - (g.end - g.start)) * 1000
           late == ScoringPolicy.onset_tolerance_ms * f.rate
           long == ScoringPolicy.duration_tolerance_ms * f.rate
<1>11. /\ "early" \in timed <=> -onset > late
       /\ "late" \in timed <=> onset > late
       /\ "short" \in timed <=> -delta > long
       /\ "long" \in timed <=> delta > long
  BY <1>1, <1>2, <1>3, <1>4, TimingTypesDue
<1>12. due = {type \in {"sharp", "flat", "early", "late", "short", "long"} :
                CASE type = "sharp" -> d >= ScoringPolicy.pitch_tolerance_cents
                  [] type = "flat" -> -d >= ScoringPolicy.pitch_tolerance_cents
                  [] type = "early" -> -onset > late
                  [] type = "late" -> onset > late
                  [] type = "short" -> -delta > long
                  [] type = "long" -> delta > long}
  BY DEF TypesDue
<1> HIDE DEF pitched, timed, due, onset, delta, late, long
<1>13. due = pitched \cup timed
  <2> DEFINE All == {"sharp", "flat", "early", "late", "short", "long"}
  <2>1. due \subseteq All /\ pitched \cup timed \subseteq All
    BY <1>9, <1>10, <1>12
  <2>2. /\ "sharp" \in due <=> d >= ScoringPolicy.pitch_tolerance_cents
        /\ "flat" \in due <=> -d >= ScoringPolicy.pitch_tolerance_cents
        /\ "early" \in due <=> -onset > late
        /\ "late" \in due <=> onset > late
        /\ "short" \in due <=> -delta > long
        /\ "long" \in due <=> delta > long
    BY <1>12
  <2>3. /\ "sharp" \in pitched \cup timed <=> d >= ScoringPolicy.pitch_tolerance_cents
        /\ "flat" \in pitched \cup timed <=> -d >= ScoringPolicy.pitch_tolerance_cents
    BY <1>9, <1>10
  <2>4. \A type \in {"early", "late", "short", "long"} :
          type \in pitched \cup timed <=> type \in timed
    BY <1>9
  <2> QED BY <1>11, <2>1, <2>2, <2>3, <2>4
<1> QED BY <1>8, <1>13 DEF o, d, due

\* The relevant frames lean to the accompaniment.
Noisy(regions, f) ==
  LET relevant == FramesForRegions(regions, f)
  IN  /\ relevant # << >>
      /\ TwiceMedian(Column(relevant, "leak")) > 2 * ScoringPolicy.max_leakage_confidence

\* Clean frames are not taken for accompaniment.
LEMMA CleanIsQuiet ==
  ASSUME NEW f, Rising(f.frames), \A x \in Range(f.frames) : Clean(x), NEW regions
  PROVE  ~Noisy(regions, f)
<1> DEFINE relevant == FramesForRegions(regions, f)
           leaks == Column(relevant, "leak")
           most == ScoringPolicy.max_leakage_confidence
<1>1. f.frames \in Seq(UserFeatureFrame)
  BY DEF Rising
<1>2. relevant \in Seq(UserFeatureFrame) /\ Range(relevant) \subseteq Range(f.frames)
  BY <1>1, OnlyType, OnlyRange DEF FramesForRegions
<1>3. \A x \in UserFeatureFrame : x.leak \in Nat
  BY DEF UserFeatureFrame
<1>4. \A x \in Range(f.frames) : x.leak <= most
  BY DEF Clean
<1>5. most \in Nat
  BY ScoringPolicyAssumption DEF UnitFields
<1> HIDE DEF relevant, most
<1> SUFFICES ASSUME relevant # << >> PROVE ~(TwiceMedian(leaks) > 2 * most)
  BY DEF Noisy, relevant, most
<1>6. \A i \in 1..Len(relevant) : relevant[i].leak \in Nat /\ relevant[i].leak <= most
  <2>1. \A i \in 1..Len(relevant) : relevant[i] \in Range(relevant) /\ relevant[i] \in UserFeatureFrame
    BY <1>2 DEF Range
  <2> QED BY <1>2, <1>3, <1>4, <2>1
<1>7. leaks = [i \in 1..Len(relevant) |-> relevant[i].leak] /\ Len(relevant) \in Nat /\ Len(relevant) >= 1
  BY <1>2 DEF Column
<1>8. leaks \in Seq(Int) /\ leaks # << >> /\ Len(leaks) = Len(relevant)
  BY <1>6, <1>7
<1>9. \A i \in 1..Len(leaks) : 0 <= leaks[i] /\ leaks[i] <= most
  BY <1>6, <1>7, <1>8
<1> HIDE DEF leaks
<1>10. most \in Int /\ 0 \in Int
  BY <1>5
<1>11. TwiceMedian(leaks) <= 2 * most /\ TwiceMedian(leaks) \in Int
  BY <1>8, <1>9, <1>10, TwiceMedianBetween, TwiceMedianType
<1> QED BY <1>10, <1>11

\* Why a phrase of an accepted song is not judged.
LEMMA ScoreReasons ==
  ASSUME NEW m, NEW f, NEW at, NEW ids, m.gate = "accepted",
         ScorePhrase(m, f, at, ids).status # "failed"
  PROVE  LET result == ScorePhrase(m, f, at, ids)
             regions == Requested(m, ids)
         IN  \/ regions = << >>
             \/ result = Abstained("input.incomplete_phrase")
             \/ Noisy(regions, f)
             \/ result = Verdict(Observations(regions, m, f), m, f,
                                 TotalCovered(regions, f), TotalLength(regions))
<1> DEFINE regions == Requested(m, ids)
           Agree == InputsAgree(m, f, at)
           Odd == ids = {} \/ ~(ids \subseteq {m.regions[i].id : i \in DOMAIN m.regions})
           Short == ~Reaches(TotalCovered(regions, f), TotalLength(regions),
                             ScoringPolicy.min_timeline_coverage)
           result == ScorePhrase(m, f, at, ids)
           judged == Verdict(Observations(regions, m, f), m, f,
                             TotalCovered(regions, f), TotalLength(regions))
<1>1. result =
        IF ~Agree THEN Failed
        ELSE IF m.gate # "accepted" THEN Abstained("reference." \o m.gate)
        ELSE IF Odd THEN Failed
        ELSE IF regions = << >> THEN Abstained("reference.no_high_confidence_regions")
        ELSE IF Short THEN Abstained("input.incomplete_phrase")
        ELSE IF Noisy(regions, f) THEN Abstained("input.accompaniment_leakage")
        ELSE judged
  BY Zenon DEF ScorePhrase, TotalCovered, TotalLength, Noisy
<1>2. result # Failed
  BY Statuses
<1> HIDE DEF result, judged, regions, Agree, Short, Odd
<1>3. \/ regions = << >>
      \/ result = Abstained("input.incomplete_phrase")
      \/ Noisy(regions, f)
      \/ result = judged
  BY <1>1, <1>2, Zenon
<1> QED BY <1>3 DEF result, judged, regions
\* A phrase that holds a tone near the one region it was asked for is scored, and
\* its corrections are those of the region.
LEMMA ToneIsScored ==
  ASSUME NEW tone, NEW m, m.gate = "accepted", IsSequence(m.regions),
         \A h, k \in Range(m.regions) : h.id = k.id => h = k,
         NEW g \in Range(m.regions), Extends(g), Scorable(g),
         NEW f, Featured(f), IsTone(tone, g, m, f), NEW at,
         ScorePhrase(m, f, at, {g.id}).status # "failed",
         ScorePhrase(m, f, at, {g.id}).reason # "input.incomplete_phrase"
  PROVE  ScorePhrase(m, f, at, {g.id}).corrections = Corrections(Observation(g, m, f), f)
<1> DEFINE ids == {g.id}
           result == ScorePhrase(m, f, at, ids)
           regions == Requested(m, ids)
           obs == Observations(regions, m, f)
           covered == TotalCovered(regions, f)
           total == TotalLength(regions)
           judged == Verdict(obs, m, f, covered, total)
<1>1. Rising(f.frames)
  BY DEF Featured
<1>2. regions \in Seq(Range(m.regions)) /\ Range(regions) = {g}
  <2>1. /\ regions \in Seq(Range(m.regions))
        /\ Range(regions) = {h \in Range(m.regions) : h.id \in ids /\ Scorable(h)}
    BY RequestedRegions
  <2>2. {h \in Range(m.regions) : h.id \in ids /\ Scorable(h)} = {g}
    OBVIOUS
  <2> HIDE DEF regions
  <2> QED BY <2>1, <2>2
<1>3. result = judged
  <2>1. \/ regions = << >>
        \/ result = Abstained("input.incomplete_phrase")
        \/ Noisy(regions, f)
        \/ result = judged
    BY ScoreReasons
  <2>2. regions # << >>
    <3>1. Range(<< >>) = {}
      BY DEF Range
    <3> HIDE DEF regions
    <3> QED BY <1>2, <3>1
  <2>3. result # Abstained("input.incomplete_phrase")
    <3>1. Abstained("input.incomplete_phrase").reason = "input.incomplete_phrase"
      BY DEF Abstained
    <3> QED BY <3>1
  <2>4. ~Noisy(regions, f)
    <3>1. \A x \in Range(f.frames) : Clean(x)
      BY <1>1, ToneFrames
    <3> HIDE DEF regions
    <3> QED BY <1>1, <3>1, CleanIsQuiet
  <2> HIDE DEF result, regions, judged
  <2> QED BY <2>1, <2>2, <2>3, <2>4
<1>4. Assessed(obs) # << >>
  <2> DEFINE n == Len(regions)
             A == {o \in Range(obs) : o.verdict \in {"missed", "resolved"}}
  <2> HIDE DEF regions
  <2>1. n \in Nat /\ DOMAIN regions = 1..n /\ \A i \in 1..n : regions[i] \in Range(regions)
    BY <1>2 DEF Range
  <2>2. regions # << >>
    <3>1. Range(<< >>) = {}
      BY DEF Range
    <3> QED BY <1>2, <3>1
  <2>3. 1 \in 1..n /\ regions[1] = g
    BY <1>2, <2>1, <2>2
  <2>4. obs = [i \in 1..n |-> Observation(regions[i], m, f)]
    BY <2>1 DEF Observations
  <2> HIDE DEF n, obs
  <2>5. obs \in Seq(Range(obs)) /\ obs[1] = Observation(g, m, f) /\ obs[1] \in Range(obs)
    <3> DEFINE Made(i) == Observation(regions[i], m, f)
    <3>1. obs = [i \in 1..n |-> Made(i)]
      BY <2>4
    <3>2. Made(1) = Observation(g, m, f)
      BY <2>3
    <3> HIDE DEF Made
    <3>3. DOMAIN obs = 1..n /\ obs[1] = Made(1)
      BY <3>1, <2>3
    <3>4. \A i \in 1..n : obs[i] \in Range(obs)
      BY <3>3 DEF Range
    <3>5. obs = [i \in 1..n |-> obs[i]]
      BY <3>1
    <3>6. obs \in Seq(Range(obs))
      <4> DEFINE R == Range(obs)
      <4>1. \A i \in 1..n : obs[i] \in R
        BY <3>4
      <4> HIDE DEF R
      <4>2. obs \in [1..n -> R]
        BY <3>5, <4>1
      <4>3. obs \in Seq(R)
        BY <2>1, <4>2
      <4> QED BY <4>3 DEF R
    <3> QED BY <3>2, <3>3, <3>4, <3>6, <2>3
  <2>6. Observation(g, m, f).verdict = "resolved"
    <3>1. ObservedBy(Observation(g, m, f), tone, g, f)
      BY ToneIsPitched
    <3> QED BY <3>1 DEF ObservedBy
  <2>7. obs[1] \in A
    BY <2>5, <2>6
  <2>8. Assessed(obs) = Only(obs, A)
    BY DEF Assessed
  <2> HIDE DEF A
  <2>9. Range(Only(obs, A)) = Range(obs) \cap A
    BY <2>5, OnlyRange
  <2>10. Range(<< >>) = {}
    BY DEF Range
  <2> QED BY <2>5, <2>7, <2>8, <2>9, <2>10
<1>5. result.corrections = CorrectionsIn(obs, f)
  <2>1. IsVerdict(judged, obs, m, f, covered, total)
    BY VerdictCases
  <2>2. judged # Failed
    BY <1>3, Statuses
  <2> HIDE DEF judged, obs, covered, total, result
  <2> QED BY <1>3, <1>4, <2>1, <2>2 DEF IsVerdict
<1>6. CorrectionsIn(obs, f) = Corrections(Observation(g, m, f), f)
  <2>1. CorrectionsIn(obs, f) =
          UNION {Corrections(Observation(h, m, f), f) :
                   h \in {h \in Range(m.regions) : h.id \in ids /\ Scorable(h)}}
    BY CorrectionsByRegion
  <2>2. {h \in Range(m.regions) : h.id \in ids /\ Scorable(h)} = {g}
    OBVIOUS
  <2> DEFINE Made(h) == Corrections(Observation(h, m, f), f)
  <2>3. CorrectionsIn(obs, f) = UNION {Made(h) : h \in {g}}
    BY <2>1, <2>2
  <2> HIDE DEF Made, obs
  <2>4. UNION {Made(h) : h \in {g}} = Made(g)
    OBVIOUS
  <2> QED BY <2>3, <2>4 DEF Made
<1> QED BY <1>5, <1>6
==================================================================================
