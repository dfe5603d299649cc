----------------------------- MODULE PhraseScoring -----------------------------
(***************************************************************************)
(* The scoring core (scoring-core/core.py): what score_phrase makes of a   *)
(* frozen manifest, the feature frames of one phrase and the regions the   *)
(* phrase was assigned.                                                    *)
(*                                                                         *)
(* Pitches are positions on a logarithmic scale, so that _cents is a       *)
(* difference; confidences and coverages are percentages, those of regions *)
(* (medians) are kept doubled; a ratio is <<numerator, denominator>>.  The *)
(* values of metrics, the severities and the confidences of corrections    *)
(* are left out; identifiers are what they are derived from.               *)
(***************************************************************************)
EXTENDS Statistics, FiniteSets

CONSTANTS ScoringPolicy,  \* config.ScoringPolicy; its lengths are in milliseconds
          Octave,         \* 1200 cents
          LongTone        \* the number of pitch frames of a long tone, 8

UnitFields == {"min_reference_confidence", "min_monophonic_confidence",
               "min_user_f0_confidence", "max_leakage_confidence", "min_timeline_coverage",
               "min_pitch_coverage", "missed_voiced_coverage"}
PositiveFields == {"pitch_tolerance_cents", "octave_tolerance_cents",
                   "timing_pitch_window_cents", "timing_search_window_ms", "timing_max_gap_ms",
                   "onset_tolerance_ms", "duration_tolerance_ms", "stability_min_duration_ms",
                   "stability_threshold_cents", "vibrato_min_duration_ms",
                   "vibrato_min_rate_hz", "vibrato_max_rate_hz",
                   "vibrato_min_depth_cents", "vibrato_max_depth_cents"}

\* dBFS
Energy == -160..12

ASSUME ScoringPolicyAssumption ==
  /\ Octave \in Nat \ {0} /\ LongTone \in Nat \ {0}
  /\ \A name \in UnitFields : ScoringPolicy[name] \in 0..100
  /\ ScoringPolicy.missed_voiced_coverage < ScoringPolicy.min_pitch_coverage
  /\ ScoringPolicy.missed_max_energy_dbfs \in Energy
  /\ \A name \in PositiveFields : ScoringPolicy[name] \in Nat \ {0}
  /\ 2 * ScoringPolicy.octave_tolerance_cents < Octave
  /\ ScoringPolicy.vibrato_min_rate_hz < ScoringPolicy.vibrato_max_rate_hz
  /\ ScoringPolicy.vibrato_min_depth_cents < ScoringPolicy.vibrato_max_depth_cents
-----------------------------------------------------------------------------
(* Frames and regions.                                                     *)

Inside(g, at) == g.start <= at /\ at < g.end
Length(g) == g.end - g.start

\* Faulty variant of Clean: the leakage of frames without a voice is not
\* compared.
CleanIfVoiced(x) == ~x.voiced \/ x.leak <= ScoringPolicy.max_leakage_confidence

Clean(x) == x.leak <= ScoringPolicy.max_leakage_confidence
Confident(x) == x.voiced /\ x.conf >= ScoringPolicy.min_user_f0_confidence

\* milliseconds as whole samples, and samples against a bound in milliseconds
Samples(ms, f) == Round(ms * f.rate, 1000)
Beyond(samples, ms, f) == Abs(samples) * 1000 > ms * f.rate

\* the frames a region should hold: at least one, its end being after its start
ExpectedFrames(g, f) == Ceiling(Length(g), f.hop)

CoveredSamples(g, f) ==
  AtLeast(0, AtMost(g.end, Last(f.frames).at + f.hop) - AtLeast(g.start, Head(f.frames).at))

FramesForRegions(regions, f) ==
  Only(f.frames, {x \in Range(f.frames) : \E i \in DOMAIN regions : Inside(regions[i], x.at)})
-----------------------------------------------------------------------------
(* Timing: the longest contiguous run near the region, in tune with it.    *)

\* the window reaches beyond the region, but not into another one
InSearchWindow(g, m, f, x) ==
  LET window == Samples(ScoringPolicy.timing_search_window_ms, f)
  IN  /\ g.start - window <= x.at /\ x.at < g.end + window
      /\ \/ Inside(g, x.at)
         \/ ~\E i \in DOMAIN m.regions : m.regions[i].id # g.id /\ Inside(m.regions[i], x.at)

Candidates(g, m, f) ==
  Only(f.frames, {x \in Range(f.frames) :
    /\ InSearchWindow(g, m, f, x)
    /\ Confident(x) /\ Clean(x)
    /\ Abs(x.f0 - g.target) <= ScoringPolicy.timing_pitch_window_cents})

\* the maximal runs of candidates without too long a gap, as index intervals
Runs(candidates, f) ==
  LET gap == Samples(ScoringPolicy.timing_max_gap_ms, f)
      n == Len(candidates)
      Joined(i) == candidates[i + 1].at - candidates[i].at <= gap
  IN  {run \in (1..n) \X (1..n) :
         /\ run[1] <= run[2]
         /\ \A i \in run[1]..(run[2] - 1) : Joined(i)
         /\ run[1] > 1 => ~Joined(run[1] - 1)
         /\ run[2] < n => ~Joined(run[2])}

\* overlap, length, closeness of the centres, earliness
Rank(run, candidates, g, f) ==
  << Cardinality({i \in run[1]..run[2] : Inside(g, candidates[i].at)}),
     run[2] - run[1] + 1,
     -Abs(candidates[run[1]].at + candidates[run[2]].at + f.hop - g.start - g.end),
     -candidates[run[1]].at >>

Better(a, b) ==
  \E i \in DOMAIN a : a[i] > b[i] /\ \A j \in 1..(i - 1) : a[j] = b[j]

BestRun(runs, candidates, g, f) ==
  CHOOSE run \in runs :
    \A other \in runs \ {run} :
      Better(Rank(run, candidates, g, f), Rank(other, candidates, g, f))

RunOf(candidates, run) == SubSeq(candidates, run[1], run[2])

TimingFrames(g, m, f) ==
  LET Chosen(candidates) ==
        IF candidates = << >> THEN << >>
        ELSE RunOf(candidates, BestRun(Runs(candidates, f), candidates, g, f))
  IN  Chosen(Candidates(g, m, f))
-----------------------------------------------------------------------------
(* Long tones: what is left of the pitch once its line is taken away.      *)

\* Squares(n) is n * (n^2 - 1) / 3, the sum of the squares of OddOffset
OddOffset(i, n) == 2 * i - n - 1
Squares(n) == Total([i \in 1..n |-> OddOffset(i, n) * OddOffset(i, n)])

\* _linear_detrend, multiplied by Len(errors) * Squares(Len(errors))
Residuals(errors) ==
  LET n == Len(errors)
      slope == Total([i \in 1..n |-> OddOffset(i, n) * errors[i]])
  IN  [i \in 1..n |->
         Squares(n) * (n * errors[i] - Total(errors)) - n * slope * OddOffset(i, n)]

\* the mean of the residuals is zero: pstdev is the root of their mean square
Unstable(residuals) ==
  LET n == Len(residuals)
      threshold == ScoringPolicy.stability_threshold_cents * n * Squares(n)
  IN  Total([i \in 1..n |-> residuals[i] * residuals[i]]) > n * threshold * threshold

\* 100 times the interpolated percentile
HundredPercentile(values, percent) ==
  LET ordered == Ascending(values)
      position == (Len(values) - 1) * percent
      lower == position \div 100 + 1
      weight == position % 100
  IN  IF weight = 0 THEN 100 * ordered[lower]
      ELSE ordered[lower] * (100 - weight) + ordered[lower + 1] * weight

\* the rate of crossings and the depth between percentiles are those of a vibrato
Vibrato(frames, residuals, f) ==
  LET n == Len(residuals)
      above == [i \in 1..n |-> 2 * residuals[i] >= TwiceMedian(residuals)]
      crossings == Cardinality({i \in 2..n : above[i] # above[i - 1]})
      duration == Last(frames).at - Head(frames).at + f.hop
      spread == HundredPercentile(residuals, 95) - HundredPercentile(residuals, 5)
      depthUnit == 200 * n * Squares(n)
  IN  /\ duration * 1000 >= ScoringPolicy.vibrato_min_duration_ms * f.rate
      /\ ScoringPolicy.vibrato_min_rate_hz * 2 * duration <= crossings * f.rate
      /\ crossings * f.rate <= ScoringPolicy.vibrato_max_rate_hz * 2 * duration
      /\ ScoringPolicy.vibrato_min_depth_cents * depthUnit <= spread
      /\ spread <= ScoringPolicy.vibrato_max_depth_cents * depthUnit
-----------------------------------------------------------------------------
(* One region: what was observed of it, and what is wrong with it.         *)

Reaches(count, expected, percent) == 100 * count >= percent * expected

\* Faulty variant of PitchFrames: the timing run never stands in.
PitchFramesOwn(voiced, timing, expected) == Only(voiced, {x \in Range(voiced) : Confident(x)})

\* the timing run stands in for the region's own frames when these are too few
PitchFrames(voiced, timing, expected) ==
  LET sung == Only(voiced, {x \in Range(voiced) : Confident(x)})
  IN  IF \/ Reaches(Len(sung), expected, ScoringPolicy.min_pitch_coverage)
         \/ timing = << >>
      THEN sung ELSE timing

Errors(g, frames) == [i \in DOMAIN frames |-> frames[i].f0 - g.target]

\* what a resolved region's tone is: too short to tell, or one of three
ToneOf(g, frames, f) ==
  LET Kind(residuals) ==
        IF Vibrato(frames, residuals, f) THEN "vibrato"
        ELSE IF Unstable(residuals) THEN "unstable" ELSE "stable"
  IN  IF /\ Length(g) * 1000 >= ScoringPolicy.stability_min_duration_ms * f.rate
         /\ Len(frames) >= LongTone
      THEN Kind(Residuals(Errors(g, frames))) ELSE "short"

\* from the frames of the region and the timing run
Judged(g, own, timing, f) ==
  LET clean == Only(own, {x \in Range(own) : Clean(x)})
      voiced == Only(clean, {x \in Range(clean) : x.voiced})
      expected == ExpectedFrames(g, f)
      Enough(frames) == Reaches(Len(frames), expected, ScoringPolicy.min_timeline_coverage)
      Heard(frames) == Reaches(Len(frames), expected, ScoringPolicy.min_pitch_coverage)
      faint == 100 * Len(voiced) <= ScoringPolicy.missed_voiced_coverage * expected
      quiet == /\ clean # << >>
               /\ TwiceMedian(Column(clean, "energy")) <= 2 * ScoringPolicy.missed_max_energy_dbfs
      Finding(verdict, pitch) ==
        [region |-> g, verdict |-> verdict, expected |-> expected, pitch |-> pitch,
         timing |-> timing,
         tone |-> IF verdict = "resolved" THEN ToneOf(g, pitch, f) ELSE "short"]
      Assess(pitch) ==
        IF ~Enough(own) THEN "incomplete"
        ELSE IF faint /\ timing = << >> /\ quiet /\ Enough(clean) THEN "missed"
        ELSE IF faint /\ ~Heard(timing)
        THEN IF Enough(clean) THEN "unclear" ELSE "blocked"
        ELSE IF Heard(pitch) THEN "resolved" ELSE "unclear"
      Found(pitch) == Finding(Assess(pitch), pitch)
  IN  Found(PitchFrames(voiced, timing, expected))

FramesOf(g, f) == Only(f.frames, {x \in Range(f.frames) : Inside(g, x.at)})
Observation(g, m, f) == Judged(g, FramesOf(g, f), TimingFrames(g, m, f), f)

\* of twice the signed error; no type or one
PitchCorrectionType(error) ==
  LET octave == Round(error, 2 * Octave)
      tolerance == 2 * ScoringPolicy.pitch_tolerance_cents
  IN  IF /\ octave # 0
         /\ Abs(error - octave * 2 * Octave) <= 2 * ScoringPolicy.octave_tolerance_cents
      THEN {"octave_error"}
      ELSE {type \in {"sharp", "flat"} :
              IF type = "sharp" THEN error >= tolerance ELSE error <= -tolerance}

TimingTypes(o, f) ==
  LET onset == Head(o.timing).at - o.region.start
      length == Last(o.timing).at + f.hop - Head(o.timing).at
      delta == length - Length(o.region)
  IN  {type \in {"early", "late"} :
         /\ Beyond(onset, ScoringPolicy.onset_tolerance_ms, f)
         /\ (type = "early") <=> onset < 0}
      \cup
      {type \in {"short", "long"} :
         /\ Beyond(delta, ScoringPolicy.duration_tolerance_ms, f)
         /\ (type = "short") <=> delta < 0}

\* an event's identifier is made from its region and type; from and to delimit
\* the evidence in the user's features
Correction(g, type, from, to) ==
  [region |-> g.id, type |-> type, start |-> g.start, end |-> g.end, from |-> from, to |-> to]

\* score_phrase sorts the events by region and type, which identify them: a set
Corrections(o, f) ==
  LET g == o.region
      Of(types, frames) ==
        {Correction(g, type, Head(frames).at, Last(frames).at + f.hop) : type \in types}
  IN  CASE o.verdict = "missed" -> {Correction(g, "missed", g.start, g.end)}
        [] o.verdict = "resolved" ->
             UNION {Of(PitchCorrectionType(TwiceMedian(Errors(g, o.pitch))), o.pitch),
                    IF o.timing = << >> THEN {} ELSE Of(TimingTypes(o, f), o.timing),
                    IF o.tone = "unstable" THEN Of({"unstable"}, o.pitch) ELSE {}}
        [] OTHER -> {}
-----------------------------------------------------------------------------
(* A phrase.                                                               *)

InputsAgree(m, f, at) ==
  /\ m.tenant = f.tenant /\ m.rate = f.rate
  /\ m.calibration = f.calibration
  /\ m.version = ScoringPolicy.score_version /\ f.version = ScoringPolicy.score_version
  /\ at >= m.produced /\ at >= f.produced

Abstained(reason) ==
  [status |-> "abstained", reason |-> reason, coverage |-> <<0, 1>>,
   metrics |-> << >>, corrections |-> {}]
Failed == [Abstained("none") EXCEPT !.status = "failed"]

\* the manifest's entry that pitch evidence refers to
ReferenceArtifact(m) == IF m.source = "canonical_notes" THEN "notes" ELSE "f0"

\* Faulty variant of Pitched: frames of a timing run that is longer than its
\* region all count.
PitchedUncapped(observations) ==
  Total([i \in DOMAIN observations |->
           IF observations[i].verdict = "resolved" THEN Len(observations[i].pitch) ELSE 0])

Pitched(observations) ==
  Total([i \in DOMAIN observations |->
           IF observations[i].verdict = "resolved"
           THEN AtMost(Len(observations[i].pitch), observations[i].expected) ELSE 0])

\* the metrics of a score: what share of the phrase each one speaks of
Metrics(observations, covered, total) ==
  LET resolved == Only(observations, {o \in Range(observations) : o.verdict = "resolved"})
      timed == Only(resolved, {o \in Range(resolved) : o.timing # << >>})
      long == Only(resolved, {o \in Range(resolved) : o.tone # "short"})
      vibrato == Only(long, {o \in Range(long) : o.tone = "vibrato"})
      steady == Only(long, {o \in Range(long) : o.tone # "vibrato"})
      Share(some, all) ==
        <<AtMost(Len(some), AtLeast(1, Len(all))), AtLeast(1, Len(all))>>
      If(some, names) == IF some = << >> THEN {} ELSE names
      names == {"timeline_coverage", "voiced_coverage"}
               \cup If(resolved, {"pitch_center", "absolute_pitch_error"})
               \cup If(timed, {"onset_offset", "duration_delta"})
               \cup If(steady, {"long_tone_stability"})
               \cup If(vibrato, {"vibrato_rate", "vibrato_depth"})
  IN  [name \in names |->
         CASE name \in {"timeline_coverage", "voiced_coverage"} -> <<covered, total>>
           [] name \in {"pitch_center", "absolute_pitch_error"} ->
                <<Pitched(observations), Total(Column(observations, "expected"))>>
           [] name \in {"onset_offset", "duration_delta"} -> Share(timed, resolved)
           [] name = "long_tone_stability" -> Share(steady, long)
           [] OTHER -> Share(vibrato, long)]

\* Faulty variant of Observations: only the requested regions are masked.
ObservationsAmong(regions, m, f) ==
  [i \in DOMAIN regions |-> Observation(regions[i], [m EXCEPT !.regions = regions], f)]

Observations(regions, m, f) == [i \in DOMAIN regions |-> Observation(regions[i], m, f)]

\* what the assessed regions amount to
Verdict(observations, m, f, covered, total) ==
  LET With(verdicts) == Only(observations, {o \in Range(observations) : o.verdict \in verdicts})
      assessed == With({"missed", "resolved"})
      corrections == UNION {Corrections(observations[i], f) : i \in DOMAIN observations}
  IN  IF corrections # {} /\ ReferenceArtifact(m) \notin m.kinds THEN Failed
      ELSE IF assessed = << >>
      THEN Abstained(IF Len(With({"blocked"})) = Len(observations)
                     THEN "input.accompaniment_leakage"
                     ELSE "input.insufficient_pitch_confidence")
      ELSE [status |-> "scored", reason |-> "none",
            coverage |-> <<Total([i \in DOMAIN assessed |-> Length(assessed[i].region)]), total>>,
            metrics |-> Metrics(observations, covered, total),
            corrections |-> corrections]

Scorable(g) ==
  /\ g.ref >= 2 * ScoringPolicy.min_reference_confidence
  /\ g.mono >= 2 * ScoringPolicy.min_monophonic_confidence
  /\ ~g.ornament

Requested(m, ids) == Only(m.regions, {g \in Range(m.regions) : g.id \in ids /\ Scorable(g)})

\* ids are the requested regions; the caller sends each once
ScorePhrase(m, f, at, ids) ==
  LET regions == Requested(m, ids)
      total == Total([i \in DOMAIN regions |-> Length(regions[i])])
      covered == Total([i \in DOMAIN regions |-> CoveredSamples(regions[i], f)])
      relevant == FramesForRegions(regions, f)
  IN  IF ~InputsAgree(m, f, at) THEN Failed
      ELSE IF m.gate # "accepted" THEN Abstained("reference." \o m.gate)
      ELSE IF ids = {} \/ ~(ids \subseteq {m.regions[i].id : i \in DOMAIN m.regions})
      THEN Failed
      ELSE IF regions = << >> THEN Abstained("reference.no_high_confidence_regions")
      ELSE IF ~Reaches(covered, total, ScoringPolicy.min_timeline_coverage)
      THEN Abstained("input.incomplete_phrase")
      ELSE IF /\ relevant # << >>
              /\ TwiceMedian(Column(relevant, "leak")) > 2 * ScoringPolicy.max_leakage_confidence
      THEN Abstained("input.accompaniment_leakage")
      ELSE Verdict(Observations(regions, m, f), m, f, covered, total)
=============================================================================
