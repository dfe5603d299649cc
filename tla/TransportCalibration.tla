-------------------------- MODULE TransportCalibration --------------------------
(***************************************************************************)
(* calibrate_phrase (scoring/calibration.py): where on the song's timeline *)
(* a phrase starts, from the reports the browser made of its playhead and  *)
(* its microphone, or the reason why the evidence is refused.              *)
(*                                                                         *)
(* An event is a record of the report's sequence number and revision, the  *)
(* time it was captured, the playhead (at), the microphone's sample (mic), *)
(* the rate and the drift in parts per million.  Reports come in the order *)
(* TransportEvidenceV1 demands: by sequence number, then by revision.      *)
(***************************************************************************)
EXTENDS Statistics, FiniteSets

CONSTANTS FeaturePolicy,  \* policy.FeaturePolicy; lengths in milliseconds
          Million         \* parts of one for the rates, 1_000_000

CalibrationBounds == {"max_anchor_distance_ms", "max_compensable_drift_ppm",
                      "max_uncompensated_error_ms", "max_anchor_residual_ms",
                      "max_segment_rate_error_ppm"}

ASSUME FeaturePolicyAssumption ==
  /\ Million \in Nat \ {0}
  /\ FeaturePolicy.hop_samples \in Nat \ {0} /\ FeaturePolicy.hop_samples <= 16384
  /\ \A name \in CalibrationBounds : FeaturePolicy[name] \in Nat \ {0}

\* what TransportSyncV1 accepts: the rate a drift leaves is positive
Event ==
  [seq : Nat, revision : Nat, captured : Int, rate : Nat, mic : Nat, at : Nat,
   drift : {ppm \in Int : Million + ppm > 0}]

\* the latest revision of every report
Selected(events) ==
  Only(events, {e \in Range(events) :
    ~\E i \in DOMAIN events : events[i].seq = e.seq /\ events[i].revision > e.revision})

StrictlyIncreasing(values) == \A i \in 2..Len(values) : values[i - 1] < values[i]

\* two neighbouring reports between which playback went on at its own pace
Continuous(previous, current) ==
  LET played == current.at - previous.at
      heard == current.mic - previous.mic
  IN  /\ played > 0
      /\ Abs(played - heard) * Million <= FeaturePolicy.max_segment_rate_error_ppm * heard

Refused(reason) == [status |-> reason, start |-> 0]

\* a position on the anchor's line, multiplied by the second argument
OnLine(anchor, mic) ==
  anchor.at * (Million + anchor.drift) + (mic - anchor.mic) * Million

\* Faulty variant of Contradicts: the reports after the phrase are not compared.
ContradictsBefore(anchor, e) ==
  /\ e.mic <= anchor.mic
  /\ Abs(OnLine(anchor, e.mic) - e.at * (Million + anchor.drift)) * 1000
       > FeaturePolicy.max_anchor_residual_ms * anchor.rate * (Million + anchor.drift)

Contradicts(anchor, e) ==
  Abs(OnLine(anchor, e.mic) - e.at * (Million + anchor.drift)) * 1000
    > FeaturePolicy.max_anchor_residual_ms * anchor.rate * (Million + anchor.drift)

\* the reports around the phrase, from the last before it to the first after it
Around(phrase, events) ==
  Only(events, {e \in Range(events) :
    /\ \A i \in DOMAIN events : events[i].mic <= phrase.start => events[i].mic <= e.mic
    /\ \A i \in DOMAIN events : events[i].mic >= phrase.end => events[i].mic >= e.mic})

\* the first of those nearest to the phrase's start
Anchor(phrase, around) ==
  LET Distance(i) == Abs(around[i].mic - phrase.start)
  IN  around[CHOOSE i \in DOMAIN around :
               /\ \A j \in DOMAIN around : Distance(i) <= Distance(j)
               /\ \A j \in 1..(i - 1) : Distance(j) # Distance(i)]

CalibratePhrase(phrase, evidence) ==
  LET events == Selected(evidence)
      around == Around(phrase, events)
      anchor == Anchor(phrase, around)
      distance == Round(FeaturePolicy.max_anchor_distance_ms * phrase.rate, 1000)
      start == Round(OnLine(anchor, phrase.start), Million + anchor.drift)
  IN  IF events = << >> THEN Refused("no_events")
      ELSE IF \E i \in DOMAIN events : events[i].rate # phrase.rate THEN Refused("sample_rate")
      ELSE IF ~StrictlyIncreasing(Column(events, "captured")) THEN Refused("timestamps")
      ELSE IF ~StrictlyIncreasing(Column(events, "mic")) THEN Refused("microphone_positions")
      ELSE IF \/ \A i \in DOMAIN events : events[i].mic > phrase.start
              \/ \A i \in DOMAIN events : events[i].mic < phrase.end
      THEN Refused("not_bracketed")
      ELSE IF \/ phrase.start - Head(around).mic > distance
              \/ Last(around).mic - phrase.end > distance
      THEN Refused("anchor_distance")
      ELSE IF \E i \in 2..Len(around) : ~Continuous(around[i - 1], around[i])
      THEN Refused("seek_or_loop")
      ELSE IF Abs(anchor.drift) > FeaturePolicy.max_compensable_drift_ppm
      THEN Refused("drift")
      ELSE IF \E i \in DOMAIN around : Contradicts(anchor, around[i])
      THEN Refused("contradicting_anchors")
      ELSE IF (phrase.end - phrase.start) * Abs(anchor.drift) * 1000
                > FeaturePolicy.max_uncompensated_error_ms * phrase.rate * Million
      THEN Refused("drift_error")
      ELSE IF start < 0 THEN Refused("before_the_song")
      ELSE [status |-> "accepted", start |-> start]
=================================================================================
