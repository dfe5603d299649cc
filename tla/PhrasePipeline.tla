----------------------------- MODULE PhrasePipeline -----------------------------
(***************************************************************************)
(* From a song to a score: the ingest worker's gate freezes a manifest     *)
(* (IngestPipeline.run), then the scoring worker takes a job for one       *)
(* phrase of it through ScoringPipeline.run: models and audio are checked, *)
(* the transport evidence is calibrated, the providers' frames are put on  *)
(* the song's timeline and the scoring core judges them.  Every step may   *)
(* end the run with the error code of the code.                            *)
(*                                                                         *)
(* A job carries the history of playback its reports were made from, which *)
(* no code sees: properties compare the calibration with it.               *)
(***************************************************************************)
EXTENDS PhraseScoring, TransportCalibration, ReferenceGate

CONSTANTS Analyses,   \* what the separation and F0 providers may return for a song
          Manifests,  \* manifests that come from elsewhere: notes or clean stems
          Jobs        \* by the regions they ask for: phrases with their evidence and
                      \* their providers' answers

\* require_approved_policy: both services run with the policy whose fingerprint
\* they know, and the gate's demands on a region are those of the scoring core
ASSUME PoliciesAssumption ==
  /\ IngestPolicy.min_scorable_vocal_coverage > 0
  /\ IngestPolicy.min_reference_confidence >= ScoringPolicy.min_reference_confidence
  /\ IngestPolicy.min_monophonic_confidence >= ScoringPolicy.min_monophonic_confidence
  /\ ScoringPolicy.timing_pitch_window_cents + ScoringPolicy.octave_tolerance_cents < Octave

ReferenceF0Frame ==
  [at : Nat, voiced : BOOLEAN, f0 : Int, conf : 0..100, mono : 0..100]
ReferenceRegionCandidate == [start : Nat, end : Nat, ornament : BOOLEAN]

ASSUME AnalysesAssumption ==
  \A a \in Analyses : /\ a.frames \in Seq(ReferenceF0Frame)
                     /\ a.candidates \in Seq(ReferenceRegionCandidate)

\* ScorableRegion
ValidRegion(g) ==
  g.start \in Nat /\ g.end \in Nat /\ g.start < g.end /\ g.target \in Int

ASSUME ManifestsAssumption ==
  \A m \in Manifests : /\ m.regions \in Seq(Range(m.regions))
                      /\ \A i \in DOMAIN m.regions : ValidRegion(m.regions[i])

\* PhraseAudioV1
ValidPhrase(p) ==
  /\ p.start \in Nat /\ p.end \in Nat /\ p.rate \in Nat \ {0}
  /\ p.start < p.end

PitchFrame == [offset : Nat, voiced : BOOLEAN, f0 : Int, conf : 0..100]
LeakageFrame == [offset : Nat, leak : 0..100]

ASSUME JobsAssumption ==
  \A ids \in DOMAIN Jobs : \A j \in Jobs[ids] :
    /\ j.ids = ids
    /\ ValidPhrase(j.phrase)
    /\ j.transport \in Seq(Event)
    /\ j.pitch.frames \in Seq(PitchFrame) /\ j.leakage.frames \in Seq(LeakageFrame)
    /\ \A i \in DOMAIN j.pitch.frames : j.energy[i] \in Energy
    /\ \A name \in {"from", "drift", "seek", "by"} : j.history[name] \in Int

VARIABLES stage,      \* what was done last
          error,      \* why it failed, "none" if it did not
          analysis,   \* of the song
          manifest,   \* SongManifestV1
          job,        \* ScoringJob
          start,      \* CalibrationResult.reference_start_sample
          features,   \* UserFeaturesV1
          score       \* ScoreV1

vars == <<stage, error, analysis, manifest, job, start, features, score>>

Nothing == [kind |-> "nothing"]

Init ==
  /\ stage = "song" /\ error = "none" /\ start = 0
  /\ analysis = Nothing /\ manifest = Nothing /\ job = Nothing
  /\ features = Nothing /\ score = Nothing

Reach(next) == stage' = next /\ error' = error
Fail(code) == stage' = "failed" /\ error' = code
-----------------------------------------------------------------------------
(* The song.                                                               *)

ManifestOf(a) ==
  LET gate == Gate(a.stems, a)
  IN  [tenant |-> a.tenant, rate |-> a.rate, duration |-> a.duration, calibration |-> a.calibration,
       version |-> a.version, produced |-> a.produced, source |-> "extracted_recording",
       kinds |-> {"source", "vocal", "accompaniment", "f0"}, gate |-> gate.status,
       coverage |-> gate.coverage, blocking |-> gate.blocking, regions |-> gate.regions]

\* run: the providers must keep the song's timeline
Ingest ==
  /\ stage = "song"
  /\ \E a \in Analyses :
       /\ analysis' = a
       /\ \/ /\ ~ValidAnalysis(a) \/ a.duration # a.stems.duration
             /\ Fail("ingest.invalid_analysis")
             /\ UNCHANGED manifest
          \/ /\ ValidAnalysis(a) /\ a.duration = a.stems.duration
             /\ IF ValidManifest(ManifestOf(a))
                THEN /\ manifest' = ManifestOf(a)
                     /\ Reach("published")
                ELSE /\ Fail("ingest.invalid_manifest")
                     /\ UNCHANGED manifest
  /\ UNCHANGED <<job, start, features, score>>

\* a manifest is published that another pipeline has made
Import ==
  /\ stage = "song"
  /\ \E m \in Manifests : ValidManifest(m) /\ manifest' = m
  /\ Reach("published")
  /\ UNCHANGED <<analysis, job, start, features, score>>
-----------------------------------------------------------------------------
(* The phrase.                                                             *)

RegionIds(m) == {m.regions[i].id : i \in DOMAIN m.regions}

\* what ScoringJob accepts
ValidIds(ids, m) ==
  IF m.gate = "accepted" THEN ids # {} /\ ids \subseteq RegionIds(m) ELSE ids = {}
ValidJob(j, m) ==
  j.tenant = m.tenant /\ j.calibration = m.calibration /\ j.phrase.rate = m.rate

Submit ==
  /\ stage = "published"
  /\ \E ids \in DOMAIN Jobs :
       /\ ValidIds(ids, manifest)
       /\ \E j \in Jobs[ids] : ValidJob(j, manifest) /\ job' = j
  /\ Reach("submitted")
  /\ UNCHANGED <<analysis, manifest, start, features, score>>

\* require_approved_policy, both models authorized, decode_phrase_audio
Admit ==
  /\ stage = "submitted"
  /\ CASE ~job.approved -> Fail("policy.unapproved")
       [] job.approved /\ ~job.authorized -> Fail("model.unauthorized")
       [] job.approved /\ job.authorized /\ ~job.intact -> Fail("input.audio_integrity")
       [] OTHER -> Reach("admitted")
  /\ UNCHANGED <<analysis, manifest, job, start, features, score>>

Calibrate ==
  /\ stage = "admitted"
  /\ LET result == CalibratePhrase(job.phrase, job.transport)
     IN  IF result.status = "accepted"
         THEN start' = result.start /\ Reach("calibrated")
         ELSE Fail("input.transport") /\ UNCHANGED start
  /\ UNCHANGED <<analysis, manifest, job, features, score>>

\* what PitchAnalysis and LeakageAnalysis accept
ValidOffsets(a) ==
  /\ a.frames # << >> /\ Head(a.frames).offset = 0
  /\ \A i \in 2..Len(a.frames) : a.frames[i].offset - a.frames[i - 1].offset = a.hop

ValidTimelines(j) ==
  /\ j.pitch.hop = FeaturePolicy.hop_samples /\ j.leakage.hop = FeaturePolicy.hop_samples
  /\ Column(j.pitch.frames, "offset") = Column(j.leakage.frames, "offset")
  /\ \A i \in DOMAIN j.pitch.frames :
       j.pitch.frames[i].offset + FeaturePolicy.hop_samples <= j.phrase.end - j.phrase.start

\* the frames on the song's timeline, up to its end
Mapped(j) ==
  LET frames == [i \in DOMAIN j.pitch.frames |->
                   [at |-> start + j.pitch.frames[i].offset, voiced |-> j.pitch.frames[i].voiced,
                    f0 |-> j.pitch.frames[i].f0, conf |-> j.pitch.frames[i].conf,
                    energy |-> j.energy[i], leak |-> j.leakage.frames[i].leak]]
  IN  Only(frames, {x \in Range(frames) : 0 <= x.at /\ x.at < manifest.duration})

ExtractFeatures ==
  /\ stage = "calibrated"
  /\ \/ /\ ~(ValidOffsets(job.pitch) /\ ValidOffsets(job.leakage) /\ ValidTimelines(job))
        /\ Fail("provider.invalid_output")
        /\ UNCHANGED features
     \/ /\ ValidOffsets(job.pitch) /\ ValidOffsets(job.leakage) /\ ValidTimelines(job)
        /\ IF Mapped(job) = << >>
           THEN Fail("input.outside_reference_timeline") /\ UNCHANGED features
           ELSE /\ features' = [tenant |-> job.tenant, rate |-> job.phrase.rate,
                                hop |-> FeaturePolicy.hop_samples,
                                calibration |-> job.calibration,
                                version |-> FeaturePolicy.score_version,
                                produced |-> job.produced, frames |-> Mapped(job)]
                /\ Reach("extracted")
  /\ UNCHANGED <<analysis, manifest, job, start, score>>

\* the score names the digests of the features and of the evidence it was made of
Score ==
  /\ stage = "extracted"
  /\ LET result == ScorePhrase(manifest, features, job.produced, job.ids)
     IN  IF result.status = "failed"
         THEN Fail("score.invalid_inputs") /\ UNCHANGED score
         ELSE score' = result /\ Reach("scored")
  /\ UNCHANGED <<analysis, manifest, job, start, features>>

\* a run ends with its score or with the code of its error
Next == Ingest \/ Import \/ Submit \/ Admit \/ Calibrate \/ ExtractFeatures \/ Score

Spec == Init /\ [][Next]_vars
-----------------------------------------------------------------------------
(* Properties.                                                             *)

Ratio(r) == 0 <= r[1] /\ r[1] <= r[2] /\ r[2] > 0

\* Every score that the core builds is one the contracts accept: coverages are
\* shares, although timing runs reach beyond their regions, a region is judged
\* in one way per type, evidence is a range, and only an abstention has no
\* coverage.  The core rejects a job only for its versions or its times.
\* (ScoreV1, CorrectionEventV1, EvidencePointer, NumericMetric; _validate_inputs)
ScoreIsWellFormed ==
  /\ stage = "scored" =>
       /\ Ratio(score.coverage)
       /\ score.status = "scored" <=> score.coverage[1] > 0
       /\ \A name \in DOMAIN score.metrics : Ratio(score.metrics[name])
       /\ score.status = "abstained" => score.metrics = << >> /\ score.corrections = {}
       /\ \A c \in score.corrections :
            /\ 0 <= c.from /\ c.from < c.to /\ c.start < c.end
            /\ \A d \in score.corrections : d.region = c.region /\ d.type = c.type => d = c
            /\ \A d \in score.corrections : d.region = c.region /\ c.type = "missed" => d = c
  /\ error = "score.invalid_inputs" => ~InputsAgree(manifest, features, job.produced)

WithFrame(i, x) == [features EXCEPT !.frames[i] = x]

\* What a frame with too much accompaniment in it seems to contain changes
\* nothing about the score.  (ADR 0003; region_frames and low_leakage_frames of
\* score_phrase, _timing_frames)
LeakedFramesDoNotCount ==
  stage = "scored" =>
    \A i \in DOMAIN features.frames :
      LET x == features.frames[i]
          silenced == [x EXCEPT !.voiced = FALSE, !.conf = 0, !.energy = -160]
      IN  x.leak > ScoringPolicy.max_leakage_confidence =>
            ScorePhrase(manifest, WithFrame(i, silenced), job.produced, job.ids) = score

Of(corrections, id) == {c \in corrections : c.region = id}

\* A region is judged alike whether it is scored alone or with others of the
\* phrase: neighbours are masked by the manifest's regions, not by the requested
\* ones.  (ADR 0003; _timing_frames)
RegionsAreIndependent ==
  stage = "scored" /\ score.status = "scored" =>
    \A id \in job.ids :
      LET alone == ScorePhrase(manifest, features, job.produced, {id})
      IN  alone.status = "scored" => alone.corrections = Of(score.corrections, id)

Sung == Only(features.frames, {x \in Range(features.frames) : x.voiced})

\* the phrase, recorded throughout region g in frames that are close enough to be
\* joined, holds one tone, clean and sure, near the region and nowhere else
IsPerformanceOf(g) ==
  LET tone == Sung
  IN  /\ job.ids = {g.id} /\ Scorable(g)
      /\ tone # << >>
      /\ \A i \in DOMAIN tone :
           /\ Confident(tone[i]) /\ tone[i].f0 = Head(tone).f0
           /\ InSearchWindow(g, manifest, features, tone[i])
      /\ \A i \in 2..Len(tone) : tone[i].at - tone[i - 1].at = features.hop
      /\ \A i \in DOMAIN features.frames : Clean(features.frames[i])
      /\ Abs(Head(tone).f0 - g.target) <= ScoringPolicy.timing_pitch_window_cents
      /\ Reaches(Len(tone), ExpectedFrames(g, features), ScoringPolicy.min_pitch_coverage)
      /\ Reaches(Len(FramesOf(g, features)), ExpectedFrames(g, features),
                 ScoringPolicy.min_timeline_coverage)
      /\ features.hop <= Samples(ScoringPolicy.timing_max_gap_ms, features)

\* the corrections a listener would give for it
Deserved(g) ==
  LET tone == Sung
      from == Head(tone).at
      to == Last(tone).at + features.hop
      detune == Head(tone).f0 - g.target
      onset == (from - g.start) * 1000
      delta == (to - from - (g.end - g.start)) * 1000
      late == ScoringPolicy.onset_tolerance_ms * features.rate
      long == ScoringPolicy.duration_tolerance_ms * features.rate
  IN  {type \in {"sharp", "flat", "early", "late", "short", "long"} :
         CASE type = "sharp" -> detune >= ScoringPolicy.pitch_tolerance_cents
           [] type = "flat" -> -detune >= ScoringPolicy.pitch_tolerance_cents
           [] type = "early" -> -onset > late
           [] type = "late" -> onset > late
           [] type = "short" -> -delta > long
           [] type = "long" -> delta > long}

\* One clean tone near a region gets the corrections it deserves, wherever
\* in the search window it lies: a late tone is late, neither missed nor
\* unresolved.  (score_phrase, ADR 0003)
PerformanceIsRecognised ==
  stage = "scored" =>
    \A i \in DOMAIN manifest.regions :
      manifest.gate = "accepted" /\ score.reason # "input.incomplete_phrase"
      /\ IsPerformanceOf(manifest.regions[i]) =>
        {c.type : c \in score.corrections} = Deserved(manifest.regions[i])

\* where playback was at a microphone sample, multiplied by Million + drift
Truth(h, mic) ==
  h.from * (Million + h.drift) + mic * Million
  + IF mic >= h.seek THEN h.by * (Million + h.drift) ELSE 0

\* playback kept the pace the reports of it declare, and they were rounded
Truthful(j) ==
  LET h == j.history
      events == Selected(j.transport)
  IN  \A i \in DOMAIN events :
        /\ events[i].drift = h.drift
        /\ 2 * Abs(events[i].at * (Million + h.drift) - Truth(h, events[i].mic)) <= Million + h.drift

\* If playback kept the pace it declares and was moved at most once, an accepted
\* calibration puts every sample of the phrase where it was played, up to the
\* errors the policy allows and one sample, by which the reports and the start
\* are rounded together.  (calibrate_phrase, ADR 0006)
AlignmentErrorIsBounded ==
  stage \in {"calibrated", "extracted", "scored"} /\ Truthful(job) =>
    LET h == job.history
        pace == Million + h.drift
    IN  \A mic \in job.phrase.start..job.phrase.end :
          Abs((start + mic - job.phrase.start) * pace - Truth(h, mic)) * 1000
            <= (FeaturePolicy.max_anchor_residual_ms * job.phrase.rate + 1000) * pace
               + FeaturePolicy.max_uncompensated_error_ms * job.phrase.rate * Million

\* The gate never builds a manifest the contract refuses once the stems and the
\* pitch track are published, and a song it accepts has a region the scoring
\* core is willing to judge.  (_gate, ADR 0005)
AcceptedSongIsScorable ==
  /\ error # "ingest.invalid_manifest"
  /\ stage = "published" /\ analysis # Nothing /\ manifest.gate = "accepted" =>
       \E i \in DOMAIN manifest.regions : Scorable(manifest.regions[i])
=============================================================================
