----------------------------- MODULE ReferenceGate -----------------------------
(***************************************************************************)
(* The quality gate of the ingest worker (ingest/pipeline.py) and the      *)
(* manifest it makes: from the stems of the separation model and the pitch *)
(* track of the F0 model to the regions of a song that may be scored, or   *)
(* the reason why it may not be scored at all.                             *)
(*                                                                         *)
(* A region's confidences are medians, kept doubled; its target is on the  *)
(* logarithmic scale of the frames, rounded; its identifier is what the    *)
(* code derives it from.  Coverages are in millionths, as quantize leaves  *)
(* them.                                                                   *)
(***************************************************************************)
EXTENDS Statistics, FiniteSets

CONSTANT IngestPolicy   \* policy.IngestPolicy; thresholds in percent

IngestThresholds == {"min_reference_confidence", "min_monophonic_confidence",
                     "min_region_voiced_coverage", "min_scorable_vocal_coverage",
                     "min_vocal_presence_coverage", "min_separation_confidence",
                     "max_accompaniment_leakage"}

ASSUME IngestPolicyAssumption ==
  /\ \A name \in IngestThresholds : IngestPolicy[name] \in 0..100
  /\ IngestPolicy.min_region_duration_ms \in Nat \ {0}

Millionths == 1000000

\* what ReferenceAnalysis and ReferenceF0V1 accept
ValidAnalysis(a) ==
  LET n == Len(a.candidates)
      frames == a.frames
  IN  /\ \A i \in 2..Len(frames) : frames[i].at - frames[i - 1].at = a.hop
      /\ frames # << >> => Last(frames).at < a.duration
      /\ \A i \in 1..n : a.candidates[i].start < a.candidates[i].end
                         /\ a.candidates[i].end <= a.duration
      /\ \A i \in 2..n : a.candidates[i - 1].end <= a.candidates[i].start

Within(frames, c) == Only(frames, {x \in Range(frames) : c.start <= x.at /\ x.at < c.end})
Voiced(frames) == Only(frames, {x \in Range(frames) : x.voiced})

Usable(c, a) ==
  /\ c.end - c.start >= Ceiling(IngestPolicy.min_region_duration_ms * a.rate, 1000)
  /\ Voiced(Within(a.frames, c)) # << >>

RegionOf(c, a) ==
  LET own == Within(a.frames, c)
  IN  [id |-> <<c.start, c.end, c.ornament>>, start |-> c.start, end |-> c.end,
       ref |-> TwiceMedian(Column(own, "conf")), mono |-> TwiceMedian(Column(own, "mono")),
       ornament |-> c.ornament, target |-> Round(TwiceMedian(Column(Voiced(own), "f0")), 2)]

\* Faulty variant of Eligible: ornaments count towards the coverage.
EligibleWithOrnaments(c, a) ==
  LET own == Within(a.frames, c)
  IN  /\ Usable(c, a)
      /\ RegionOf(c, a).ref >= 2 * IngestPolicy.min_reference_confidence
      /\ RegionOf(c, a).mono >= 2 * IngestPolicy.min_monophonic_confidence
      /\ 100 * Len(Voiced(own)) >= IngestPolicy.min_region_voiced_coverage * Len(own)

Eligible(c, a) ==
  LET own == Within(a.frames, c)
  IN  /\ Usable(c, a)
      /\ RegionOf(c, a).ref >= 2 * IngestPolicy.min_reference_confidence
      /\ RegionOf(c, a).mono >= 2 * IngestPolicy.min_monophonic_confidence
      /\ 100 * Len(Voiced(own)) >= IngestPolicy.min_region_voiced_coverage * Len(own)
      /\ ~c.ornament

Coverage(a) ==
  LET LengthOf(candidates) == Total([i \in DOMAIN candidates |->
                                       candidates[i].end - candidates[i].start])
      eligible == Only(a.candidates, {c \in Range(a.candidates) : Eligible(c, a)})
      total == LengthOf(a.candidates)
  IN  IF total = 0 THEN 0
      ELSE Round(LengthOf(eligible) * Millionths, total)

Blocking(stems, regions, coverage) ==
  {issue \in {"low_confidence", "high_leakage", "no_regions", "insufficient_coverage"} :
     CASE issue = "low_confidence" -> stems.confidence < IngestPolicy.min_separation_confidence
       [] issue = "high_leakage" -> stems.leakage > IngestPolicy.max_accompaniment_leakage
       [] issue = "no_regions" -> regions = << >>
       [] OTHER -> /\ regions # << >>
                   /\ 100 * coverage < IngestPolicy.min_scorable_vocal_coverage * Millionths}

Gate(stems, a) ==
  LET usable == Only(a.candidates, {c \in Range(a.candidates) : Usable(c, a)})
      regions == [i \in DOMAIN usable |-> RegionOf(usable[i], a)]
      coverage == Coverage(a)
      blocking == Blocking(stems, regions, coverage)
      partial == Len(usable) < Len(a.candidates) \/ coverage < Millionths
      Without(status, issues) ==
        [status |-> status, coverage |-> 0, blocking |-> issues, warnings |-> {},
         regions |-> << >>]
  IN  IF stems.presence < IngestPolicy.min_vocal_presence_coverage
      THEN Without("rejected", {"no_vocal"})
      ELSE IF blocking # {} THEN Without("practice_only", blocking)
      ELSE [status |-> "accepted", coverage |-> coverage, blocking |-> {},
            warnings |-> IF partial THEN {"partial_coverage"} ELSE {}, regions |-> regions]

RequiredKinds(source) ==
  CASE source = "canonical_notes" -> {"notes"}
    [] source = "independent_stems" -> {"vocal", "accompaniment", "f0"}
    [] OTHER -> {"vocal", "f0"}

\* what SongManifestV1 accepts
ValidManifest(m) ==
  /\ m.gate # "accepted" => m.regions = << >> /\ m.coverage = 0
  /\ m.gate = "accepted" => /\ m.regions # << >> /\ m.coverage \in 1..Millionths
                            /\ m.blocking = {}
  /\ \A i \in DOMAIN m.regions : m.regions[i].end <= m.duration
  /\ \A i, j \in DOMAIN m.regions : m.regions[i].id = m.regions[j].id => i = j
  /\ RequiredKinds(m.source) \subseteq m.kinds
================================================================================
