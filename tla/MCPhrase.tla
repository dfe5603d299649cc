-------------------------------- MODULE MCPhrase --------------------------------
(***************************************************************************)
(* A small instance: 1000 samples a second, frames of 10 samples, 48 steps *)
(* to the octave (25 cents each) and rates in parts of 100.  The policies  *)
(* keep the proportions of the approved ones at this scale.                *)
(***************************************************************************)
EXTENDS PhrasePipeline

MCOctave == 48
MCLongTone == 4
MCMillion == 100

MCScoringPolicy ==
  [score_version |-> "v1",
   min_reference_confidence |-> 80, min_monophonic_confidence |-> 80,
   min_user_f0_confidence |-> 80, max_leakage_confidence |-> 20,
   min_timeline_coverage |-> 60, min_pitch_coverage |-> 50, missed_voiced_coverage |-> 10,
   missed_max_energy_dbfs |-> -45,
   pitch_tolerance_cents |-> 1, octave_tolerance_cents |-> 4,
   timing_pitch_window_cents |-> 7, timing_search_window_ms |-> 25, timing_max_gap_ms |-> 20,
   onset_tolerance_ms |-> 10, duration_tolerance_ms |-> 15,
   stability_min_duration_ms |-> 40, stability_threshold_cents |-> 1,
   vibrato_min_duration_ms |-> 40, vibrato_min_rate_hz |-> 20, vibrato_max_rate_hz |-> 60,
   vibrato_min_depth_cents |-> 1, vibrato_max_depth_cents |-> 5]

MCFeaturePolicy ==
  [score_version |-> "v1", hop_samples |-> 10,
   max_anchor_distance_ms |-> 40, max_compensable_drift_ppm |-> 1,
   max_uncompensated_error_ms |-> 1, max_anchor_residual_ms |-> 2,
   max_segment_rate_error_ppm |-> 5]

MCIngestPolicy ==
  [min_reference_confidence |-> 80, min_monophonic_confidence |-> 80,
   min_region_voiced_coverage |-> 70, min_scorable_vocal_coverage |-> 35,
   min_vocal_presence_coverage |-> 5, min_separation_confidence |-> 70,
   max_accompaniment_leakage |-> 25, min_region_duration_ms |-> 15]

Pitch == 100
-----------------------------------------------------------------------------
(* Songs.                                                                  *)

\* the identifiers of regions, made like the gate's
a == <<10, 50, FALSE>>
b == <<50, 70, FALSE>>
c == <<25, 48, FALSE>>
d == <<20, 60, FALSE>>

Region(id, from, to, target) ==
  [id |-> id, start |-> from, end |-> to, ref |-> 200, mono |-> 200,
   ornament |-> FALSE, target |-> target]

Notes(regions) ==
  [tenant |-> "t", rate |-> 1000, duration |-> 80, calibration |-> "c", version |-> "v1",
   produced |-> 1, source |-> "canonical_notes", kinds |-> {"notes", "alignment"},
   gate |-> "accepted", coverage |-> Millionths, blocking |-> {}, regions |-> regions]

\* two notes that touch, of different pitch
TwoNotes == <<Region(a, 10, 50, Pitch), Region(b, 50, 70, Pitch + 2)>>

MCManifests ==
  {Notes(TwoNotes), [Notes(<<Region(c, 25, 48, Pitch)>>) EXCEPT !.version = "v0"],
   [Notes(<<Region(c, 25, 48, Pitch)>>) EXCEPT !.source = "independent_stems",
                                              !.kinds = {"vocal", "accompaniment", "f0"}],
   Notes(<<Region(a, 10, 50, Pitch), [Region(b, 50, 70, Pitch) EXCEPT !.ornament = TRUE]>>),
   [Notes(<< >>) EXCEPT !.gate = "practice_only", !.coverage = 0, !.blocking = {"no_regions"}]}

\* reference frames: sure, unsure, with two voices, unvoiced
RefFrame(kind) ==
  [voiced |-> kind # "unvoiced", f0 |-> Pitch,
   conf |-> IF kind = "unsure" THEN 50 ELSE 90, mono |-> IF kind = "choir" THEN 50 ELSE 90]

Candidate(from, to, ornament) == [start |-> from, end |-> to, ornament |-> ornament]

GoodStems == [presence |-> 80, confidence |-> 90, leakage |-> 5, duration |-> 60]

Analysis(stems, kinds, candidates) ==
  [tenant |-> "t", rate |-> 1000, duration |-> 60, calibration |-> "c", version |-> "v1",
   produced |-> 1, hop |-> 10, stems |-> stems, candidates |-> candidates,
   frames |-> [i \in DOMAIN kinds |-> [at |-> 10 * (i - 1)] @@ RefFrame(kinds[i])]]

MCAnalyses ==
  {Analysis(GoodStems, kinds, <<Candidate(0, cut, ornament), Candidate(cut, 60, FALSE)>>) :
     kinds \in [1..4 -> {"sure", "unsure", "unvoiced"}], cut \in {10, 30},
     ornament \in BOOLEAN}
  \cup {Analysis(GoodStems, kinds, <<Candidate(0, 20, FALSE), Candidate(20, 60, FALSE)>>) :
          kinds \in [1..5 -> {"sure", "choir"}]}
  \cup {Analysis([GoodStems EXCEPT !.presence = p, !.confidence = q, !.leakage = l,
                                   !.duration = n],
                 <<"sure", "sure", "sure">>, candidates) :
          p \in {0, 80}, q \in {60, 70}, l \in {25, 30}, n \in {50, 60},
          candidates \in {<< >>, <<Candidate(0, 30, FALSE)>>, <<Candidate(0, 61, FALSE)>>,
                          <<Candidate(0, 30, FALSE), Candidate(20, 60, FALSE)>>,
                          <<Candidate(0, 30, FALSE), Candidate(40, 60, FALSE)>>}}
-----------------------------------------------------------------------------
(* Phrases.                                                                *)

Frame(kind) ==
  CASE kind = "rest"   -> [voiced |-> FALSE, f0 |-> 0, conf |-> 0, energy |-> -60, leak |-> 0]
    [] kind = "noise"  -> [voiced |-> FALSE, f0 |-> 0, conf |-> 0, energy |-> -20, leak |-> 0]
    [] kind = "true"   -> [voiced |-> TRUE, f0 |-> Pitch, conf |-> 95, energy |-> -20, leak |-> 0]
    [] kind = "sharp"  -> [voiced |-> TRUE, f0 |-> Pitch + 3, conf |-> 95, energy |-> -20, leak |-> 0]
    [] kind = "flat"   -> [voiced |-> TRUE, f0 |-> Pitch - 3, conf |-> 95, energy |-> -20, leak |-> 0]
    [] kind = "octave" -> [voiced |-> TRUE, f0 |-> Pitch - 48, conf |-> 95, energy |-> -20, leak |-> 0]
    [] kind = "weak"   -> [voiced |-> TRUE, f0 |-> Pitch, conf |-> 40, energy |-> -20, leak |-> 0]
    [] kind = "leak"   -> [voiced |-> TRUE, f0 |-> Pitch, conf |-> 95, energy |-> -20, leak |-> 90]

\* a report of where playback was at a microphone sample
Report(h, seq, mic) ==
  [seq |-> seq, revision |-> 1, captured |-> mic, rate |-> 1000, mic |-> mic,
   drift |-> h.drift, at |-> Round(Truth(h, mic), Million + h.drift)]

\* a first, wrong report before its revision
Revised(r) == <<[r EXCEPT !.revision = 0, !.at = @ + 2], r>>

Steady == [from |-> 0, drift |-> 0, seek |-> 1000, by |-> 0]

Reports(h, mics) ==
  LET ordered == SetToSortSeq(mics, <)
  IN  [i \in DOMAIN ordered |-> Report(h, i, ordered[i])]

Bracketed == Reports(Steady, {0, 80})

Phrase(kinds, ids, history, transport) ==
  [tenant |-> "t", calibration |-> "c", produced |-> 2, ids |-> ids,
   approved |-> TRUE, authorized |-> TRUE, intact |-> TRUE,
   phrase |-> [start |-> 0, end |-> 10 * Len(kinds), rate |-> 1000],
   history |-> history, transport |-> transport,
   pitch |-> [hop |-> 10, frames |->
                [i \in DOMAIN kinds |-> [offset |-> 10 * (i - 1), voiced |-> Frame(kinds[i]).voiced,
                                         f0 |-> Frame(kinds[i]).f0, conf |-> Frame(kinds[i]).conf]]],
   energy |-> [i \in DOMAIN kinds |-> Frame(kinds[i]).energy],
   leakage |-> [hop |-> 10, frames |->
                  [i \in DOMAIN kinds |-> [offset |-> 10 * (i - 1), leak |-> Frame(kinds[i]).leak]]]]

Whole(kinds, ids) == Phrase(kinds, ids, Steady, Bracketed)
RegionChoices == {{a}, {b}, {a, b}}

Performances ==
  {Whole(kinds, ids) : kinds \in [1..6 -> {"rest", "true", "leak"}], ids \in {{a}, {a, b}}}
  \cup {Whole(<<"rest">> \o kinds \o <<"rest", "rest">>, ids) :
          kinds \in [1..4 -> {"true", "sharp", "flat", "octave", "weak"}], ids \in RegionChoices}

\* one tone from frame i to frame j, or a phrase that is too short or too noisy
Rendered ==
  {Whole([n \in 1..8 |-> IF n \in i..j THEN kind ELSE "rest"], {a}) :
     i \in 1..8, j \in 1..8, kind \in {"true", "sharp", "flat", "weak"}}
  \cup {Whole([n \in 1..8 |-> IF n \in i..j THEN "true" ELSE "rest"], {id}) :
          i \in 1..8, j \in 1..8, id \in {c, d}}
  \cup {Whole(kinds, {a}) : kinds \in {[n \in 1..7 |-> "noise"], [n \in 1..7 |-> "leak"]}}
  \cup {Phrase([n \in 1..k |-> "true"], {a}, Steady, Reports(Steady, {0, 40})) : k \in 1..4}

\* a phrase from 40 to 90 and playback moved at most once around it
Tone == [n \in 1..5 |-> "true"]
Histories ==
  [from : {0, 5}, drift : {-2, -1, 0, 1}, seek : {20, 60, 100}, by : {-4, -2, 0, 1, 2, 4, 6, 60}]
At40(history, transport) ==
  [Phrase(Tone, {b}, history, transport) EXCEPT !.phrase = [start |-> 40, end |-> 90, rate |-> 1000]]
Calibrations ==
  {At40(h, Reports(h, mics)) : h \in Histories,
     mics \in {{10, 120}, {40, 90}, {38, 70, 100}, {0, 130}, {0, 30, 110}, {39, 131}, {50, 110}, {10, 60}}}
  \cup {At40(h, Revised(Head(Reports(h, {10, 120}))) \o Tail(Reports(h, {10, 120}))) :
          h \in Histories}
  \cup {At40(Steady, t) : t \in
         {[Reports(Steady, {10, 120}) EXCEPT ![2].captured = 10],
          [Reports(Steady, {10, 120}) EXCEPT ![2].mic = 10],
          [Reports(Steady, {10, 120}) EXCEPT ![1].rate = 2000, ![2].rate = 2000]}}
  \cup {At40([Steady EXCEPT !.from = f], Reports([Steady EXCEPT !.from = f], {10, 120})) :
          f \in {40}}

Canonical == Whole(Tone, {a})
Faults ==
  {[Canonical EXCEPT !.approved = x, !.authorized = y, !.intact = z] : x, y, z \in BOOLEAN}
  \cup {[Canonical EXCEPT !.pitch.hop = 20], [Canonical EXCEPT !.leakage.hop = 20],
        [Canonical EXCEPT !.pitch.frames = Tail(@)], [Canonical EXCEPT !.leakage.frames = Front(@)],
        [Canonical EXCEPT !.phrase.end = 45], [Canonical EXCEPT !.ids = {}],
        [Canonical EXCEPT !.produced = 0]}

AllJobs == Performances \cup Rendered \cup Calibrations \cup Faults
MCJobs == [ids \in {j.ids : j \in AllJobs} |-> {j \in AllJobs : j.ids = ids}]
=================================================================================
