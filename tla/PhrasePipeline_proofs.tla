-------------------------- MODULE PhrasePipeline_proofs --------------------------
(***************************************************************************)
(* Invariance proofs about PhrasePipeline, for any songs, jobs and         *)
(* policies that meet the assumptions of the modules.                      *)
(***************************************************************************)
EXTENDS PhrasePipeline, PhraseScoring_proofs

-----------------------------------------------------------------------------
(* The calibration.                                                        *)

\* The selected reports are reports.
LEMMA SelectedType ==
  ASSUME NEW evidence \in Seq(Event)
  PROVE  Selected(evidence) \in Seq(Event)
BY OnlyType DEF Selected

\* So are those around a phrase.
LEMMA AroundType ==
  ASSUME NEW events \in Seq(Event), NEW p
  PROVE  Around(p, events) \in Seq(Event)
BY OnlyType DEF Around

\* A sequence's elements are its range.
LEMMA RangeIndexed ==
  ASSUME NEW T, NEW s \in Seq(T)
  PROVE  /\ \A i \in DOMAIN s : s[i] \in Range(s) /\ s[i] \in T
         /\ \A x \in Range(s) : x \in T /\ \E i \in DOMAIN s : s[i] = x
BY DEF Range

\* The numbers of a report.
LEMMA EventFields ==
  ASSUME NEW e \in Event
  PROVE  /\ e.mic \in Nat /\ e.at \in Nat /\ e.rate \in Nat
         /\ e.drift \in Int /\ Million + e.drift > 0
BY DEF Event

\* The last report at or before a phrase that has one is around it.
LEMMA BeforeIsAround ==
  ASSUME NEW p, ValidPhrase(p), NEW events \in Seq(Event),
         \E i \in DOMAIN events : events[i].mic <= p.start
  PROVE  \E e \in Range(Around(p, events)) : e.mic <= p.start
<1> DEFINE Early == {i \in DOMAIN events : events[i].mic <= p.start}
           Gaps == {p.start - events[i].mic : i \in Early}
<1>1. \A i \in DOMAIN events : events[i].mic \in Nat
  <2>1. \A i \in DOMAIN events : events[i] \in Event
    OBVIOUS
  <2> QED BY <2>1, EventFields
<1>2. p.start \in Nat /\ p.end \in Nat /\ p.start < p.end
  BY DEF ValidPhrase
<1>3. Gaps \subseteq Nat /\ Gaps # {}
  BY <1>1, <1>2
<1>4. PICK gap \in Gaps : \A other \in Gaps : gap <= other
  <2> HIDE DEF Gaps
  <2> QED BY <1>3, LeastNatural
<1>5. PICK i \in Early : gap = p.start - events[i].mic
  BY <1>4
<1>6. i \in DOMAIN events /\ events[i].mic <= p.start
  BY <1>5
<1>7. \A k \in DOMAIN events : events[k].mic <= p.start => events[k].mic <= events[i].mic
  <2> SUFFICES ASSUME NEW k \in DOMAIN events, events[k].mic <= p.start
               PROVE  events[k].mic <= events[i].mic
    OBVIOUS
  <2>1. p.start - events[k].mic \in Gaps
    OBVIOUS
  <2>2. p.start - events[i].mic <= p.start - events[k].mic
    BY <1>4, <1>5, <2>1
  <2> HIDE DEF Gaps, Early
  <2> QED BY <1>1, <1>2, <1>6, <2>2
<1>8. \A k \in DOMAIN events : events[k].mic >= p.end => events[k].mic >= events[i].mic
  <2> HIDE DEF Gaps, Early
  <2> QED BY <1>1, <1>2, <1>6
<1>9. events[i] \in Range(events)
  BY <1>6, RangeIndexed
<1>10. events[i] \in Range(Around(p, events))
  BY <1>7, <1>8, <1>9, OnlyRange DEF Around
<1> QED BY <1>6, <1>10

\* The first report at or after a phrase that has one is around it.
LEMMA AfterIsAround ==
  ASSUME NEW p, ValidPhrase(p), NEW events \in Seq(Event),
         \E i \in DOMAIN events : events[i].mic >= p.end
  PROVE  \E e \in Range(Around(p, events)) : e.mic >= p.end
<1> DEFINE Late == {i \in DOMAIN events : events[i].mic >= p.end}
           Gaps == {events[i].mic - p.end : i \in Late}
<1>1. \A i \in DOMAIN events : events[i].mic \in Nat
  <2>1. \A i \in DOMAIN events : events[i] \in Event
    OBVIOUS
  <2> QED BY <2>1, EventFields
<1>2. p.start \in Nat /\ p.end \in Nat /\ p.start < p.end
  BY DEF ValidPhrase
<1>3. Gaps \subseteq Nat /\ Gaps # {}
  BY <1>1, <1>2
<1>4. PICK gap \in Gaps : \A other \in Gaps : gap <= other
  <2> HIDE DEF Gaps
  <2> QED BY <1>3, LeastNatural
<1>5. PICK i \in Late : gap = events[i].mic - p.end
  BY <1>4
<1>6. i \in DOMAIN events /\ events[i].mic >= p.end
  BY <1>5
<1>7. \A k \in DOMAIN events : events[k].mic >= p.end => events[k].mic >= events[i].mic
  <2> SUFFICES ASSUME NEW k \in DOMAIN events, events[k].mic >= p.end
               PROVE  events[k].mic >= events[i].mic
    OBVIOUS
  <2>1. events[k].mic - p.end \in Gaps
    OBVIOUS
  <2>2. events[i].mic - p.end <= events[k].mic - p.end
    BY <1>4, <1>5, <2>1
  <2> HIDE DEF Gaps, Late
  <2> QED BY <1>1, <1>2, <1>6, <2>2
<1>8. \A k \in DOMAIN events : events[k].mic <= p.start => events[k].mic <= events[i].mic
  <2> HIDE DEF Gaps, Late
  <2> QED BY <1>1, <1>2, <1>6
<1>9. events[i] \in Range(events)
  BY <1>6, RangeIndexed
<1>10. events[i] \in Range(Around(p, events))
  BY <1>7, <1>8, <1>9, OnlyRange DEF Around
<1> QED BY <1>6, <1>10

\* The anchor is one of the reports around the phrase.
LEMMA AnchorIsAround ==
  ASSUME NEW p, ValidPhrase(p), NEW around \in Seq(Event), around # << >>
  PROVE  \E i \in DOMAIN around : Anchor(p, around) = around[i]
<1> DEFINE Distance(i) == Abs(around[i].mic - p.start)
           Distances == {Distance(i) : i \in DOMAIN around}
           Nearest == {i \in DOMAIN around : \A j \in DOMAIN around : Distance(i) <= Distance(j)}
           Best(i) == /\ \A j \in DOMAIN around : Distance(i) <= Distance(j)
                      /\ \A j \in 1..(i - 1) : Distance(j) # Distance(i)
<1>1. DOMAIN around = 1..Len(around) /\ Len(around) \in Nat /\ 1 \in DOMAIN around
  OBVIOUS
<1>2. \A i \in DOMAIN around : Distance(i) \in Nat
  <2>1. \A i \in DOMAIN around : around[i] \in Event
    OBVIOUS
  <2>2. \A i \in DOMAIN around : around[i].mic \in Nat
    BY <2>1, EventFields
  <2> QED BY <2>2 DEF ValidPhrase, Abs
<1> HIDE DEF Distance
<1>3. Distances \subseteq Nat /\ Distances # {}
  BY <1>1, <1>2
<1>4. PICK least \in Distances : \A other \in Distances : least <= other
  <2> HIDE DEF Distances
  <2> QED BY <1>3, LeastNatural
<1>5. Nearest # {} /\ Nearest \subseteq Nat
  BY <1>1, <1>4
<1>6. PICK i \in Nearest : \A j \in Nearest : i <= j
  <2> HIDE DEF Nearest
  <2> QED BY <1>5, LeastNatural
<1>7. \A j \in 1..(i - 1) : Distance(j) # Distance(i)
  <2> SUFFICES ASSUME NEW j \in 1..(i - 1), Distance(j) = Distance(i) PROVE FALSE
    OBVIOUS
  <2>1. j \in DOMAIN around /\ i \in DOMAIN around
    BY <1>1, <1>6
  <2>2. j \in Nearest
    BY <1>6, <2>1
  <2>3. i <= j
    BY <1>6, <2>2
  <2> QED BY <1>1, <1>5, <1>6, <2>3
<1>8. i \in DOMAIN around /\ Best(i)
  BY <1>6, <1>7
<1>9. Anchor(p, around) = around[CHOOSE k \in DOMAIN around : Best(k)]
  BY DEF Anchor, Distance
<1> HIDE DEF Best
<1>10. (CHOOSE k \in DOMAIN around : Best(k)) \in DOMAIN around
  BY <1>8
<1> QED BY <1>9, <1>10

\* The anchor that an accepted calibration goes by, and the reports on both
\* sides of the phrase that it was compared with.
Backed(p, events, anchor, start0) ==
  LET Agreeing(e) == e \in Range(events) /\ ~Contradicts(anchor, e)
  IN  /\ anchor \in Range(events) /\ anchor.rate = p.rate
      /\ start0 = Round(OnLine(anchor, p.start), Million + anchor.drift)
      /\ (p.end - p.start) * Abs(anchor.drift) * 1000
           <= FeaturePolicy.max_uncompensated_error_ms * p.rate * Million
      /\ \E e \in Event : Agreeing(e) /\ e.mic <= p.start
      /\ \E e \in Event : Agreeing(e) /\ e.mic >= p.end

\* An accepted calibration goes by a report around the phrase that the others agree with.
LEMMA CalibrationIsBacked ==
  ASSUME NEW p, ValidPhrase(p), NEW evidence \in Seq(Event),
         CalibratePhrase(p, evidence).status = "accepted"
  PROVE  \E anchor \in Event :
           Backed(p, Selected(evidence), anchor, CalibratePhrase(p, evidence).start)
<1> DEFINE events == Selected(evidence)
           around == Around(p, events)
           anchor == Anchor(p, around)
           distance == Round(FeaturePolicy.max_anchor_distance_ms * p.rate, 1000)
           Line == Round(OnLine(anchor, p.start), Million + anchor.drift)
           result == CalibratePhrase(p, evidence)
           None == events = << >>
           OtherRate == \E i \in DOMAIN events : events[i].rate # p.rate
           Captured == StrictlyIncreasing(Column(events, "captured"))
           Heard == StrictlyIncreasing(Column(events, "mic"))
           Open == \/ \A i \in DOMAIN events : events[i].mic > p.start
                   \/ \A i \in DOMAIN events : events[i].mic < p.end
           Far == \/ p.start - Head(around).mic > distance
                  \/ Last(around).mic - p.end > distance
           Torn == \E i \in 2..Len(around) : ~Continuous(around[i - 1], around[i])
           Fast == Abs(anchor.drift) > FeaturePolicy.max_compensable_drift_ppm
           Disputed == \E i \in DOMAIN around : Contradicts(anchor, around[i])
           Drifted == (p.end - p.start) * Abs(anchor.drift) * 1000
                        > FeaturePolicy.max_uncompensated_error_ms * p.rate * Million
<1>1. result = IF None THEN Refused("no_events")
               ELSE IF OtherRate THEN Refused("sample_rate")
               ELSE IF ~Captured THEN Refused("timestamps")
               ELSE IF ~Heard THEN Refused("microphone_positions")
               ELSE IF Open THEN Refused("not_bracketed")
               ELSE IF Far THEN Refused("anchor_distance")
               ELSE IF Torn THEN Refused("seek_or_loop")
               ELSE IF Fast THEN Refused("drift")
               ELSE IF Disputed THEN Refused("contradicting_anchors")
               ELSE IF Drifted THEN Refused("drift_error")
               ELSE IF Line < 0 THEN Refused("before_the_song")
               ELSE [status |-> "accepted", start |-> Line]
  BY Zenon DEF CalibratePhrase
<1>2. events \in Seq(Event) /\ around \in Seq(Event)
  BY SelectedType, AroundType
<1>3. result.status = "accepted"
  OBVIOUS
<1> HIDE DEF result, None, OtherRate, Captured, Heard, Open, Far, Torn, Fast, Disputed, Drifted,
             Line
<1>4. \A reason \in {"no_events", "sample_rate", "timestamps", "microphone_positions",
                     "not_bracketed", "anchor_distance", "seek_or_loop", "drift",
                     "contradicting_anchors", "drift_error", "before_the_song"} :
        Refused(reason).status # "accepted"
  BY DEF Refused
<1>5. /\ ~OtherRate /\ ~Open /\ ~Disputed /\ ~Drifted
      /\ result.start = Line
  BY <1>1, <1>3, <1>4
<1> HIDE DEF anchor, around, events
<1>6. \A e \in Range(events) : e \in Event /\ e.rate = p.rate
  BY <1>2, <1>5, RangeIndexed DEF OtherRate
<1>7. \A e \in Range(around) : e \in Event /\ e \in Range(events) /\ ~Contradicts(anchor, e)
  <2>1. Range(around) \subseteq Range(events)
    BY <1>2, OnlyRange DEF around, Around
  <2> QED BY <1>2, <1>5, <1>6, <2>1, RangeIndexed DEF Disputed
<1>8. \A i \in DOMAIN events : events[i].mic \in Nat
  <2>1. \A i \in DOMAIN events : events[i] \in Event
    BY <1>2
  <2> QED BY <2>1, EventFields
<1>9. \E e \in Range(around) : e.mic <= p.start
  <2>1. \E i \in DOMAIN events : events[i].mic <= p.start
    BY <1>5, <1>8 DEF Open, ValidPhrase
  <2> QED BY <1>2, <2>1, BeforeIsAround DEF around
<1>10. \E e \in Range(around) : e.mic >= p.end
  <2>1. \E i \in DOMAIN events : events[i].mic >= p.end
    BY <1>5, <1>8 DEF Open, ValidPhrase
  <2> QED BY <1>2, <2>1, AfterIsAround DEF around
<1>11. anchor \in Range(around)
  <2>1. around # << >>
    BY <1>9 DEF Range
  <2>2. \E i \in DOMAIN around : anchor = around[i]
    BY <1>2, <2>1, AnchorIsAround DEF anchor
  <2> QED BY <2>2 DEF Range
<1>12. ~((p.end - p.start) * Abs(anchor.drift) * 1000
           > FeaturePolicy.max_uncompensated_error_ms * p.rate * Million)
  BY <1>5 DEF Drifted
<1>13. (p.end - p.start) * Abs(anchor.drift) * 1000
         <= FeaturePolicy.max_uncompensated_error_ms * p.rate * Million
  <2>1. anchor.drift \in Int
    BY <1>7, <1>11, EventFields
  <2>2. FeaturePolicy.max_uncompensated_error_ms \in Int /\ Million \in Int
    BY FeaturePolicyAssumption DEF CalibrationBounds
  <2>3. Abs(anchor.drift) \in Int /\ p.end - p.start \in Int /\ p.rate \in Int
    BY <2>1 DEF ValidPhrase, Abs
  <2> DEFINE x == (p.end - p.start) * Abs(anchor.drift) * 1000
             y == FeaturePolicy.max_uncompensated_error_ms * p.rate * Million
  <2>4. x \in Int /\ y \in Int
    BY <2>2, <2>3
  <2>5. ~(x > y)
    BY <1>12
  <2> HIDE DEF x, y
  <2>6. x <= y
    BY <2>4, <2>5
  <2> QED BY <2>6 DEF x, y
<1>14. Backed(p, events, anchor, Line)
  BY <1>6, <1>7, <1>9, <1>10, <1>11, <1>13 DEF Backed, Line
<1> QED BY <1>5, <1>7, <1>11, <1>14 DEF result, events

\* A product is bounded with its factor.
LEMMA DriftGrows ==
  ASSUME NEW n \in Nat, NEW N \in Nat, n <= N, NEW d \in Int
  PROVE  Abs(n * d) <= N * Abs(d)
<1>1. CASE d >= 0
  <2>1. n * d <= N * d /\ n * d >= 0
    BY <1>1
  <2> QED BY <1>1, <2>1 DEF Abs
<1>2. CASE d < 0
  <2> DEFINE c == -d
  <2>0. c \in Nat
    BY <1>2
  <2>1. n * c <= N * c /\ n * c >= 0
    BY <2>0
  <2>2. n * d = -(n * c)
    OBVIOUS
  <2> QED BY <1>2, <2>1, <2>2 DEF Abs
<1> QED BY <1>1, <1>2

\* The error of an aligned sample is those of the start, of the anchor and of
\* the pace since the start, and what playback was moved by in between.
LEMMA ErrorOfSample ==
  ASSUME NEW S \in Int, NEW mic \in Int, NEW ps \in Int, NEW M \in Int, NEW d \in Int,
         NEW D \in Int, NEW F \in Int, NEW at \in Int, NEW am \in Int, NEW ja \in Int,
         NEW jm \in Int, D = M + d
  PROVE  (S + mic - ps) * D - (F + mic * M + jm) =
           (S * D - (at * D + (ps - am) * M)) + (at * D - (F + am * M + ja))
           + (mic - ps) * d + ja - jm
OBVIOUS

\* So is the distance of a report from the line of another.
LEMMA ErrorOfReport ==
  ASSUME NEW M \in Int, NEW D \in Int, NEW F \in Int, NEW at \in Int, NEW am \in Int,
         NEW ja \in Int, NEW et \in Int, NEW em \in Int, NEW je \in Int
  PROVE  (at * D + (em - am) * M) - et * D =
           (at * D - (F + am * M + ja)) - (et * D - (F + em * M + je)) + ja - je
OBVIOUS

\* The numbers of a history of playback.
ValidHistory(h) == h.from \in Int /\ h.drift \in Int /\ h.seek \in Int /\ h.by \in Int

\* what playback was moved by before a sample, on the scale of Truth
Moved(h, mic) == IF mic >= h.seek THEN h.by * (Million + h.drift) ELSE 0

\* Such a calibration puts each sample of a truthful phrase near where it was played.
LEMMA AlignedWithin ==
  ASSUME NEW j, ValidPhrase(j.phrase), ValidHistory(j.history), j.transport \in Seq(Event),
         Truthful(j), CalibratePhrase(j.phrase, j.transport).status = "accepted",
         NEW mic \in j.phrase.start..j.phrase.end
  PROVE  Abs((CalibratePhrase(j.phrase, j.transport).start + mic - j.phrase.start)
               * (Million + j.history.drift) - Truth(j.history, mic)) * 1000
           <= (FeaturePolicy.max_anchor_residual_ms * j.phrase.rate + 1000)
                * (Million + j.history.drift)
              + FeaturePolicy.max_uncompensated_error_ms * j.phrase.rate * Million
<1> DEFINE p == j.phrase
           h == j.history
           d == h.drift
           D == Million + d
           M == Million
           events == Selected(j.transport)
           S == CalibratePhrase(p, j.transport).start
           Late(e) == e.at * D - Truth(h, e.mic)
           RR == FeaturePolicy.max_anchor_residual_ms * p.rate
           U == FeaturePolicy.max_uncompensated_error_ms * p.rate * Million
<1>1. /\ p.start \in Nat /\ p.end \in Nat /\ p.rate \in Nat /\ p.start < p.end
      /\ mic \in Nat /\ p.start <= mic /\ mic <= p.end
      /\ h.from \in Int /\ d \in Int /\ h.seek \in Int /\ h.by \in Int
  BY DEF ValidPhrase, ValidHistory
<1>2. M \in Nat /\ D \in Int /\ RR \in Nat /\ U \in Int
  <2>1. /\ FeaturePolicy.max_anchor_residual_ms \in Nat
        /\ FeaturePolicy.max_uncompensated_error_ms \in Nat /\ Million \in Nat
    BY FeaturePolicyAssumption DEF CalibrationBounds
  <2> HIDE DEF p, d
  <2> QED BY <1>1, <2>1
<1>3. PICK anchor \in Event : Backed(p, events, anchor, S)
  BY CalibrationIsBacked
<1>4. events \in Seq(Event)
  BY SelectedType
<1>5. \A e \in Range(events) : e \in Event /\ e.drift = d /\ 2 * Abs(Late(e)) <= D
  BY <1>4, RangeIndexed DEF Truthful
<1>6. \A e \in Event : e.mic \in Nat /\ e.at \in Nat /\ Million + e.drift > 0
  BY EventFields
<1>7. \A m \in Int : Truth(h, m) = h.from * D + m * M + Moved(h, m)
  BY DEF Truth, Moved
<1> DEFINE F == h.from * D
           B == h.by * D
<1>8. \A m \in Int : Moved(h, m) \in {0, B}
  BY DEF Moved
<1> HIDE DEF p, h, d, M, D, events, S, RR, U
<1>16. F \in Int /\ B \in Int /\ \A m \in Int : Moved(h, m) \in Int
  BY <1>1, <1>2, <1>8
<1>17. \A m \in Int : Truth(h, m) = F + m * M + Moved(h, m)
  BY <1>7
<1> HIDE DEF F, B
<1>9. anchor \in Range(events) /\ anchor.rate = p.rate /\ anchor.drift = d /\ D > 0
  BY <1>3, <1>5, <1>6 DEF Backed, D
<1>10. \A e \in Event : OnLine(anchor, e.mic) = anchor.at * D + (e.mic - anchor.mic) * M
  BY <1>9 DEF OnLine, D, M
<1>11. S = Round(anchor.at * D + (p.start - anchor.mic) * M, D)
  BY <1>3, <1>9 DEF Backed, OnLine, D, M
<1> DEFINE line == anchor.at * D + (p.start - anchor.mic) * M
           rs == S * D - line
           ra == Late(anchor)
           x == (mic - p.start) * d
           ja == Moved(h, anchor.mic)
           jm == Moved(h, mic)
<1>12. S \in Int /\ 2 * Abs(rs) <= D
  <2>1. line \in Int /\ D \in Nat
    BY <1>1, <1>2, <1>6, <1>9
  <2> HIDE DEF line
  <2> QED BY <1>9, <1>11, <2>1, RoundIsNear DEF line
<1>13. Abs(x) * 1000 <= U
  <2>1. Abs(x) <= (p.end - p.start) * Abs(d)
    <3>1. mic - p.start \in Nat /\ p.end - p.start \in Nat /\ mic - p.start <= p.end - p.start
      BY <1>1
    <3> QED BY <1>1, <3>1, DriftGrows
  <2>2. (p.end - p.start) * Abs(d) * 1000 <= U
    BY <1>3, <1>9 DEF Backed, U
  <2>3. x \in Int /\ Abs(x) \in Int /\ Abs(d) \in Int
    BY <1>1 DEF Abs
  <2> DEFINE y == (p.end - p.start) * Abs(d)
  <2>4. y \in Int
    BY <1>1, <2>3
  <2> HIDE DEF x, y
  <2> QED BY <1>2, <2>1, <2>2, <2>3, <2>4 DEF y
<1>18. /\ anchor.at \in Int /\ anchor.mic \in Int /\ mic \in Int /\ p.start \in Int
       /\ ja \in Int /\ jm \in Int
  <2>1. anchor.at \in Int /\ anchor.mic \in Int /\ mic \in Int /\ p.start \in Int
    BY <1>1, <1>6
  <2> QED BY <1>16, <2>1
<1> DEFINE at == anchor.at
           am == anchor.mic
           ps == p.start
<1>19. /\ ra = at * D - (F + am * M + ja)
       /\ Truth(h, mic) = F + mic * M + jm
       /\ rs = S * D - (at * D + (ps - am) * M)
       /\ x = (mic - ps) * d
  BY <1>17, <1>18
<1>22. at \in Int /\ am \in Int /\ ps \in Int /\ mic \in Int /\ ja \in Int /\ jm \in Int
  BY <1>18
<1> HIDE DEF ja, jm, ra, rs, x, at, am, ps
<1>23. /\ D = M + d /\ M \in Int /\ D \in Int /\ d \in Int /\ F \in Int /\ S \in Int
  BY <1>1, <1>2, <1>12, <1>16 DEF D, M
<1>14. (S + mic - ps) * D - Truth(h, mic) = rs + ra + x + ja - jm
  <2>1. (S + mic - ps) * D - (F + mic * M + jm) =
          (S * D - (at * D + (ps - am) * M)) + (at * D - (F + am * M + ja))
          + (mic - ps) * d + ja - jm
    BY <1>22, <1>23, ErrorOfSample
  <2> QED BY <1>19, <2>1
<1>24. ra \in Int /\ rs \in Int /\ x \in Int
  BY <1>19, <1>22, <1>23
<1>25. ASSUME NEW e \in Event, e \in Range(events), ~Contradicts(anchor, e)
       PROVE  /\ Moved(h, e.mic) \in Int /\ Late(e) \in Int /\ 2 * Abs(Late(e)) <= D
              /\ Abs(ra - Late(e) + ja - Moved(h, e.mic)) * 1000 <= RR * D
  <2> DEFINE et == e.at
             em == e.mic
             je == Moved(h, e.mic)
             re == Late(e)
             C == (at * D + (em - am) * M) - et * D
  <2>1. et \in Int /\ em \in Int /\ je \in Int /\ re = et * D - (F + em * M + je)
    <3>1. et \in Int /\ em \in Int
      BY <1>6
    <3>2. Truth(h, em) = F + em * M + je /\ je \in Int
      BY <1>16, <1>17, <3>1
    <3> QED BY <3>1, <3>2
  <2>2. ~(Abs(C) * 1000 > RR * D)
    <3>1. OnLine(anchor, em) = at * D + (em - am) * M
      BY <1>10 DEF at, am
    <3>2. /\ Million + anchor.drift = D
          /\ FeaturePolicy.max_anchor_residual_ms * anchor.rate = RR
      BY <1>9 DEF D, RR, M
    <3>3. ~(Abs(OnLine(anchor, em) - et * D) * 1000 > RR * D)
      BY <1>25, <3>2, Zenon DEF Contradicts
    <3> QED BY <3>1, <3>3
  <2>3. 2 * Abs(re) <= D
    BY <1>5, <1>25
  <2> HIDE DEF et, em, je, re
  <2>4. re \in Int
    BY <1>22, <1>23, <2>1
  <2>5. C = ra - re + ja - je
    BY <1>19, <1>22, <1>23, <2>1, ErrorOfReport
  <2>6. C \in Int /\ RR * D \in Int
    BY <1>2, <1>22, <1>23, <2>1
  <2> HIDE DEF C
  <2>7. Abs(C) * 1000 <= RR * D
    <3> DEFINE z == RR * D
    <3>1. z \in Int /\ ~(Abs(C) * 1000 > z)
      BY <2>2, <2>6
    <3> HIDE DEF z
    <3>2. Abs(C) * 1000 <= z
      BY <2>6, <3>1 DEF Abs
    <3> QED BY <3>2 DEF z
  <2>8. Abs(ra - re + ja - je) * 1000 <= RR * D
    BY <2>5, <2>7
  <2> QED BY <2>1, <2>3, <2>4, <2>8 DEF je, re
<1>26. \A m, n \in Int : (m >= h.seek <=> n >= h.seek) => Moved(h, m) = Moved(h, n)
  BY DEF Moved
<1>15. \/ ja = jm
       \/ \E e \in Event : e \in Range(events) /\ ~Contradicts(anchor, e) /\ Moved(h, e.mic) = jm
  <2>1. CASE anchor.mic >= h.seek <=> mic >= h.seek
    BY <1>18, <1>26, <2>1 DEF ja, jm
  <2>2. CASE mic >= h.seek
    <3>1. PICK e \in Event : e \in Range(events) /\ ~Contradicts(anchor, e) /\ e.mic >= p.end
      BY <1>3 DEF Backed
    <3>2. e.mic \in Int /\ e.mic >= h.seek
      BY <1>1, <1>6, <2>2, <3>1
    <3>3. Moved(h, e.mic) = jm
      BY <1>18, <1>26, <2>2, <3>2 DEF jm
    <3> QED BY <3>1, <3>3
  <2>3. CASE ~(mic >= h.seek)
    <3>1. PICK e \in Event : e \in Range(events) /\ ~Contradicts(anchor, e) /\ e.mic <= p.start
      BY <1>3 DEF Backed
    <3>2. e.mic \in Int /\ ~(e.mic >= h.seek)
      BY <1>1, <1>6, <2>3, <3>1
    <3>3. Moved(h, e.mic) = jm
      BY <1>18, <1>26, <2>3, <3>2 DEF jm
    <3> QED BY <3>1, <3>3
  <2> QED BY <2>1, <2>2, <2>3
<1>27. 2 * Abs(ra) <= D
  BY <1>5, <1>9 DEF ra
<1>28. \E re, je \in Int : /\ 2 * Abs(re) <= D
                           /\ \/ ja = jm
                              \/ je = jm /\ Abs(ra - re + ja - je) * 1000 <= RR * D
  <2>1. CASE ja = jm
    BY <1>22, <1>24, <1>27, <2>1
  <2>2. CASE ja # jm
    <3>1. PICK e \in Event : /\ e \in Range(events) /\ ~Contradicts(anchor, e)
                             /\ Moved(h, e.mic) = jm
      BY <1>15, <2>2
    <3> DEFINE re == Late(e)
               je == Moved(h, e.mic)
    <3>2. /\ re \in Int /\ je \in Int /\ 2 * Abs(re) <= D /\ je = jm
          /\ Abs(ra - re + ja - je) * 1000 <= RR * D
      BY <1>25, <3>1
    <3> HIDE DEF re, je
    <3> QED BY <3>2
  <2> QED BY <2>1, <2>2
<1>29. RR * D \in Nat
  BY <1>2, <1>9
<1> DEFINE R == RR * D
<1>30. Abs(rs + ra + x + ja - jm) * 1000 <= R + 1000 * D + U
  <2>1. R \in Nat
    BY <1>29
  <2> HIDE DEF R
  <2>2. PICK re \in Int, je \in Int : /\ 2 * Abs(re) <= D
                                      /\ \/ ja = jm
                                         \/ je = jm /\ Abs(ra - re + ja - je) * 1000 <= R
    BY <1>28 DEF R
  <2>3. /\ D \in Int /\ rs \in Int /\ ra \in Int /\ re \in Int /\ x \in Int
        /\ ja \in Int /\ je \in Int /\ jm \in Int /\ R \in Nat /\ U \in Int
        /\ D > 0 /\ 2 * Abs(rs) <= D /\ 2 * Abs(ra) <= D /\ 2 * Abs(re) <= D
        /\ Abs(x) * 1000 <= U
        /\ \/ ja = jm
           \/ je = jm /\ Abs(ra - re + ja - je) * 1000 <= R
    BY <1>2, <1>9, <1>12, <1>13, <1>22, <1>24, <1>27, <2>1, <2>2
  <2> QED BY <2>3 DEF Abs
<1>31. R + 1000 * D = (RR + 1000) * D
  BY <1>2
<1>32. Abs((S + mic - ps) * D - Truth(h, mic)) * 1000 <= (RR + 1000) * D + U
  BY <1>14, <1>30, <1>31
<1> QED BY <1>32 DEF S, D, d, M, p, h, ps, RR, U
-----------------------------------------------------------------------------
(* What a run has established at each of its stages.                       *)

\* The regions of SongManifestV1.
HasRegions(m) == IsSequence(m.regions) /\ \A i \in DOMAIN m.regions : ValidRegion(m.regions[i])

\* ScoringJob, and what came with it
Submitted(j, m) ==
  /\ ValidIds(j.ids, m)
  /\ ValidPhrase(j.phrase) /\ j.transport \in Seq(Event) /\ ValidHistory(j.history)
  /\ j.pitch.frames \in Seq(PitchFrame) /\ j.leakage.frames \in Seq(LeakageFrame)
  /\ \A i \in DOMAIN j.pitch.frames : j.energy[i] \in Energy

\* What run keeps of an accepted calibration.
Calibrated(j, at) ==
  /\ CalibratePhrase(j.phrase, j.transport).status = "accepted"
  /\ CalibratePhrase(j.phrase, j.transport).start = at

\* UserFeaturesV1
ValidFeatures(f) ==
  /\ f = [tenant |-> f.tenant, rate |-> f.rate, hop |-> f.hop, calibration |-> f.calibration,
          version |-> f.version, produced |-> f.produced, frames |-> f.frames]
  /\ f.rate \in Nat \ {0} /\ f.hop \in Nat \ {0}
  /\ f.frames \in Seq(UserFeatureFrame) /\ f.frames # << >>
  /\ \A i, k \in 1..Len(f.frames) : i < k => f.frames[i].at < f.frames[k].at

\* The score that the run is about to record, or has recorded.
Result == ScorePhrase(manifest, features, job.produced, job.ids)

\* What each stage may rely on: the manifest, the job, the calibration and the features
\* met their contracts, and the score was made of them.
PipelineInv ==
  /\ stage = "failed" \/ error = "none"
  /\ stage \in {"published", "submitted", "admitted", "calibrated", "extracted", "scored"} =>
       ValidManifest(manifest) /\ HasRegions(manifest)
  /\ stage \in {"submitted", "admitted", "calibrated", "extracted", "scored"} =>
       Submitted(job, manifest)
  /\ stage \in {"calibrated", "extracted", "scored"} => Calibrated(job, start)
  /\ stage \in {"extracted", "scored"} => ValidFeatures(features)
  /\ stage = "scored" => score = Result /\ Result.status # "failed"
  /\ error = "score.invalid_inputs" =>
       /\ ValidManifest(manifest) /\ HasRegions(manifest)
       /\ Submitted(job, manifest)
       /\ ValidFeatures(features)
       /\ Result.status = "failed"

\* The offsets of frames that are a hop apart increase.
LEMMA OffsetsIncrease ==
  ASSUME NEW frames \in Seq(PitchFrame), NEW hop \in Nat \ {0},
         \A i \in 2..Len(frames) : frames[i].offset - frames[i - 1].offset = hop
  PROVE  \A i, k \in 1..Len(frames) : i < k => frames[i].offset < frames[k].offset
<1> DEFINE N == Len(frames)
           f == [i \in 1..N |-> frames[i].offset]
<1>1. N \in Nat /\ \A k \in 1..N : frames[k].offset \in Nat
  <2>1. \A k \in 1..N : frames[k] \in PitchFrame
    OBVIOUS
  <2> QED BY <2>1 DEF PitchFrame
<1>2. \A k \in 2..N : frames[k].offset - frames[k - 1].offset = hop
  OBVIOUS
<1> HIDE DEF N
<1>3. f \in [1..N -> Int] /\ \A k \in 1..N : f[k] = frames[k].offset
  BY <1>1
<1>4. \A k \in 2..N : f[k - 1] < f[k]
  <2> SUFFICES ASSUME NEW k \in 2..N PROVE f[k - 1] < f[k]
    OBVIOUS
  <2>1. k \in 1..N /\ k - 1 \in 1..N
    BY <1>1
  <2> QED BY <1>1, <1>2, <1>3, <2>1
<1>5. \A i, k \in 1..N : i < k => f[i] < f[k]
  <2> HIDE DEF f
  <2> QED BY <1>1, <1>3, <1>4, StepsIncrease
<1> QED BY <1>3, <1>5 DEF N

\* The frames of a phrase come to lie in order on the song's timeline.
LEMMA MappedFrames ==
  ASSUME NEW m, Submitted(job, m), ValidOffsets(job.pitch), ValidTimelines(job), start \in Int
  PROVE  /\ Mapped(job) \in Seq(UserFeatureFrame)
         /\ \A i, k \in 1..Len(Mapped(job)) : i < k => Mapped(job)[i].at < Mapped(job)[k].at
<1> DEFINE pitch == job.pitch.frames
           leakage == job.leakage.frames
           frames == [i \in DOMAIN pitch |->
                        [at |-> start + pitch[i].offset, voiced |-> pitch[i].voiced,
                         f0 |-> pitch[i].f0, conf |-> pitch[i].conf,
                         energy |-> job.energy[i], leak |-> leakage[i].leak]]
           T == [at : Int, voiced : BOOLEAN, f0 : Int, conf : 0..100, energy : Energy, leak : 0..100]
           A == {x \in Range(frames) : 0 <= x.at /\ x.at < manifest.duration}
           R == {p \in T \X T : p[1].at < p[2].at}
<1>1. pitch \in Seq(PitchFrame) /\ leakage \in Seq(LeakageFrame)
  BY DEF Submitted
<1>2. DOMAIN pitch = 1..Len(pitch) /\ Len(pitch) \in Nat /\ DOMAIN leakage = DOMAIN pitch
  BY <1>1 DEF ValidTimelines, Column
<1>3. \A i \in DOMAIN pitch : pitch[i] \in PitchFrame /\ leakage[i] \in LeakageFrame
                             /\ job.energy[i] \in Energy
  BY <1>1, <1>2 DEF Submitted
<1>4. \A i \in DOMAIN pitch : /\ pitch[i].offset \in Nat /\ pitch[i].voiced \in BOOLEAN
                             /\ pitch[i].f0 \in Int /\ pitch[i].conf \in 0..100
                             /\ leakage[i].leak \in 0..100 /\ job.energy[i] \in Energy
  BY <1>3 DEF PitchFrame, LeakageFrame
<1>5. \A i, k \in 1..Len(pitch) : i < k => pitch[i].offset < pitch[k].offset
  <2>1. job.pitch.hop \in Nat \ {0}
    <3>1. FeaturePolicy.hop_samples \in Nat \ {0}
      BY FeaturePolicyAssumption
    <3> QED BY <3>1 DEF ValidTimelines
  <2>2. \A i \in 2..Len(pitch) : pitch[i].offset - pitch[i - 1].offset = job.pitch.hop
    BY DEF ValidOffsets
  <2> QED BY <1>1, <2>1, <2>2, OffsetsIncrease
<1>6. Mapped(job) = Only(frames, A)
  BY DEF Mapped
<1> HIDE DEF pitch, leakage
<1>7. \A i \in DOMAIN pitch : frames[i] \in T /\ frames[i].at = start + pitch[i].offset
  BY <1>4
<1>15. DOMAIN frames = DOMAIN pitch /\ frames = [i \in DOMAIN pitch |-> frames[i]]
  OBVIOUS
<1>16. \A x, y \in T : x.at < y.at => <<x, y>> \in R
  OBVIOUS
<1>10. \A x : x \in T /\ x \in A => x \in UserFeatureFrame
  BY DEF UserFeatureFrame
<1> HIDE DEF frames, R, T
<1>8. frames \in Seq(T) /\ Len(frames) = Len(pitch)
  BY <1>2, <1>7, <1>15
<1>9. \A i, k \in 1..Len(frames) : i < k => <<frames[i], frames[k]>> \in R
  <2> SUFFICES ASSUME NEW i \in 1..Len(frames), NEW k \in 1..Len(frames), i < k
               PROVE  <<frames[i], frames[k]>> \in R
    OBVIOUS
  <2>1. /\ i \in DOMAIN pitch /\ k \in DOMAIN pitch
        /\ i \in 1..Len(pitch) /\ k \in 1..Len(pitch)
    BY <1>2, <1>8
  <2>2. pitch[i].offset < pitch[k].offset /\ pitch[i].offset \in Nat /\ pitch[k].offset \in Nat
    BY <1>4, <1>5, <2>1
  <2>3. frames[i].at < frames[k].at
    BY <1>7, <2>1, <2>2
  <2> QED BY <1>7, <1>16, <2>1, <2>3
<1>11. \A x, y : <<x, y>> \in R => x.at < y.at
  BY DEF R
<1> HIDE DEF A
<1>12. Only(frames, A) \in Seq(T \cap A)
  BY <1>8, OnlyType
<1>13. Only(frames, A) \in Seq(UserFeatureFrame)
  BY <1>10, <1>12
<1>14. \A i, k \in 1..Len(Only(frames, A)) : i < k => <<Only(frames, A)[i], Only(frames, A)[k]>> \in R
  BY <1>8, <1>9, OnlyOrdered
<1> QED BY <1>6, <1>11, <1>13, <1>14

\* A phrase starts at a sample.
LEMMA StartIsInt ==
  ASSUME NEW j, NEW m, Submitted(j, m), NEW at, Calibrated(j, at)
  PROVE  at \in Int
<1>1. ValidPhrase(j.phrase) /\ j.transport \in Seq(Event)
  BY DEF Submitted
<1>2. PICK anchor \in Event : Backed(j.phrase, Selected(j.transport), anchor, at)
  BY <1>1, CalibrationIsBacked DEF Calibrated
<1>3. /\ anchor.mic \in Int /\ anchor.at \in Int /\ anchor.drift \in Int
      /\ Million + anchor.drift > 0 /\ Million \in Int /\ j.phrase.start \in Int
  BY <1>1, EventFields, FeaturePolicyAssumption DEF ValidPhrase
<1>4. OnLine(anchor, j.phrase.start) \in Int /\ Million + anchor.drift \in Nat
  BY <1>3 DEF OnLine
<1> QED BY <1>2, <1>3, <1>4, RoundIsNear DEF Backed
-----------------------------------------------------------------------------
(* The gate.                                                               *)

\* The candidates that become regions.
UsableOf(a) == Only(a.candidates, {c \in Range(a.candidates) : Usable(c, a)})

\* Analyses that ValidAnalysis accepts.
ValidInput(a) ==
  /\ a.frames \in Seq(ReferenceF0Frame) /\ a.candidates \in Seq(ReferenceRegionCandidate)
  /\ ValidAnalysis(a)

\* What the gate decides.
GateCases(gate, stems, a) ==
  LET regions == [i \in DOMAIN UsableOf(a) |-> RegionOf(UsableOf(a)[i], a)]
  IN  \/ /\ gate.status \in {"rejected", "practice_only"}
         /\ gate.coverage = 0 /\ gate.regions = << >>
      \/ /\ gate.status = "accepted" /\ gate.blocking = {}
         /\ Blocking(stems, regions, Coverage(a)) = {}
         /\ gate.coverage = Coverage(a) /\ gate.regions = regions

\* The gate decides in one of these ways.
LEMMA GateDecides ==
  ASSUME NEW stems, NEW a
  PROVE  GateCases(Gate(stems, a), stems, a)
<1> DEFINE usable == UsableOf(a)
           regions == [i \in DOMAIN usable |-> RegionOf(usable[i], a)]
           coverage == Coverage(a)
           blocking == Blocking(stems, regions, coverage)
           partial == Len(usable) < Len(a.candidates) \/ coverage < Millionths
           Without(status, issues) ==
             [status |-> status, coverage |-> 0, blocking |-> issues, warnings |-> {},
              regions |-> << >>]
           Accepted == [status |-> "accepted", coverage |-> coverage, blocking |-> {},
                        warnings |-> IF partial THEN {"partial_coverage"} ELSE {},
                        regions |-> regions]
           Silent == stems.presence < IngestPolicy.min_vocal_presence_coverage
           gate == Gate(stems, a)
<1>1. gate = IF Silent THEN Without("rejected", {"no_vocal"})
             ELSE IF blocking # {} THEN Without("practice_only", blocking) ELSE Accepted
  BY Zenon DEF Gate, UsableOf
<1>2. /\ Accepted.status = "accepted" /\ Accepted.blocking = {}
      /\ Accepted.coverage = coverage /\ Accepted.regions = regions
  OBVIOUS
<1>3. \A status, issues : /\ Without(status, issues).status = status
                          /\ Without(status, issues).coverage = 0
                          /\ Without(status, issues).regions = << >>
  OBVIOUS
<1> HIDE DEF Without, Accepted, Silent, regions, blocking, coverage, gate, usable
<1>4. \/ gate.status \in {"rejected", "practice_only"} /\ gate.coverage = 0 /\ gate.regions = << >>
      \/ /\ gate.status = "accepted" /\ gate.blocking = {} /\ blocking = {}
         /\ gate.coverage = coverage /\ gate.regions = regions
  BY <1>1, <1>2, <1>3
<1> QED BY <1>4 DEF GateCases, regions, blocking, coverage, gate, usable

\* The regions of a gate's manifest are those of its usable candidates.
LEMMA UsableCandidates ==
  ASSUME NEW a, ValidInput(a)
  PROVE  /\ UsableOf(a) \in Seq(ReferenceRegionCandidate)
         /\ Range(UsableOf(a)) = {c \in Range(a.candidates) : Usable(c, a)}
<1> DEFINE A == {c \in Range(a.candidates) : Usable(c, a)}
<1>1. a.candidates \in Seq(ReferenceRegionCandidate) /\ A \subseteq Range(a.candidates)
  BY DEF ValidInput
<1>2. UsableOf(a) = Only(a.candidates, A)
  BY DEF UsableOf
<1> HIDE DEF A
<1>3. Only(a.candidates, A) \in Seq(ReferenceRegionCandidate)
  BY <1>1, OnlyType
<1>4. Range(Only(a.candidates, A)) = Range(a.candidates) \cap A
  BY <1>1, OnlyRange
<1> QED BY <1>1, <1>2, <1>3, <1>4 DEF A

\* A candidate lies within its song.
LEMMA CandidateFields ==
  ASSUME NEW a, ValidInput(a), NEW c \in Range(a.candidates)
  PROVE  /\ c.start \in Nat /\ c.end \in Nat /\ c.start < c.end
         /\ c.end <= a.duration
<1>1. PICK i \in 1..Len(a.candidates) : c = a.candidates[i]
  BY DEF ValidInput, Range
<1>2. c \in ReferenceRegionCandidate
  BY <1>1 DEF ValidInput
<1>3. c.start \in Nat /\ c.end \in Nat
  BY <1>2 DEF ReferenceRegionCandidate
<1> QED BY <1>1, <1>3 DEF ValidInput, ValidAnalysis

\* The target of a usable candidate is a number of cents.
LEMMA TargetType ==
  ASSUME NEW a, ValidInput(a), NEW c, Usable(c, a)
  PROVE  RegionOf(c, a).target \in Int
<1> DEFINE sung == Voiced(Within(a.frames, c))
           pitches == Column(sung, "f0")
<1>1. RegionOf(c, a).target = Round(TwiceMedian(pitches), 2)
  BY DEF RegionOf
<1>2. sung \in Seq(ReferenceF0Frame) /\ sung # << >>
  <2>1. Within(a.frames, c) \in Seq(ReferenceF0Frame)
    BY OnlyType DEF ValidInput, Within
  <2>2. sung \in Seq(ReferenceF0Frame)
    BY <2>1, OnlyType DEF Voiced
  <2> QED BY <2>2 DEF Usable
<1> HIDE DEF sung
<1>3. pitches \in Seq(Int) /\ pitches # << >>
  <2>1. \A i \in DOMAIN sung : sung[i] \in ReferenceF0Frame
    BY <1>2
  <2>2. \A i \in DOMAIN sung : sung[i].f0 \in Int
    BY <2>1 DEF ReferenceF0Frame
  <2>3. DOMAIN sung = 1..Len(sung) /\ Len(sung) \in Nat /\ 1 \in 1..Len(sung)
    BY <1>2
  <2>4. pitches = [i \in 1..Len(sung) |-> sung[i].f0]
    BY <2>3 DEF Column
  <2>5. pitches \in Seq(Int)
    BY <2>2, <2>3, <2>4
  <2>6. 1 \in DOMAIN pitches
    BY <2>3, <2>4
  <2> QED BY <2>5, <2>6
<1> HIDE DEF pitches
<1>4. TwiceMedian(pitches) \in Int
  BY <1>3, TwiceMedianType
<1> QED BY <1>1, <1>4, RoundIsNear

\* The gate makes regions that the contract accepts.
LEMMA GateRegions ==
  ASSUME NEW a, ValidInput(a)
  PROVE  HasRegions(ManifestOf(a))
<1> DEFINE m == ManifestOf(a)
           gate == Gate(a.stems, a)
           usable == UsableOf(a)
           regions == [i \in DOMAIN usable |-> RegionOf(usable[i], a)]
<1>1. m.regions = gate.regions
  BY DEF ManifestOf
<1>2. gate.regions = << >> \/ gate.regions = regions
  BY GateDecides DEF GateCases
<1>3. IsSequence(<< >>) /\ DOMAIN << >> = {}
  <2>1. << >> \in Seq(Range(<< >>))
    OBVIOUS
  <2> QED BY <2>1 DEF IsSequence
<1>4. usable \in Seq(ReferenceRegionCandidate)
  BY UsableCandidates
<1>5. \A i \in DOMAIN usable : usable[i] \in Range(a.candidates)
  BY <1>4, RangeIndexed, UsableCandidates
<1>6. \A c : RegionOf(c, a).start = c.start /\ RegionOf(c, a).end = c.end
  BY DEF RegionOf
<1> HIDE DEF usable
<1>7. regions \in Seq(Range(regions)) /\ DOMAIN regions = DOMAIN usable
  BY <1>4 DEF Range
<1>8. \A i \in DOMAIN usable : Usable(usable[i], a)
  <2>1. \A i \in DOMAIN usable : usable[i] \in Range(usable)
    BY <1>4, RangeIndexed
  <2>2. \A c \in Range(usable) : Usable(c, a)
    BY UsableCandidates DEF usable
  <2> QED BY <2>1, <2>2
<1>9. \A i \in DOMAIN regions : ValidRegion(regions[i])
  <2>1. \A i \in DOMAIN usable : RegionOf(usable[i], a).target \in Int
    BY <1>8, TargetType
  <2>2. \A i \in DOMAIN usable : usable[i].start \in Nat /\ usable[i].end \in Nat
                                  /\ usable[i].start < usable[i].end
    BY <1>5, CandidateFields
  <2>3. \A i \in DOMAIN usable : ValidRegion(RegionOf(usable[i], a))
    BY <1>6, <2>1, <2>2 DEF ValidRegion
  <2> QED BY <1>7, <2>3
<1> QED BY <1>1, <1>2, <1>3, <1>7, <1>9 DEF HasRegions, IsSequence

\* An eligible candidate is one the scoring core is willing to judge: its gate
\* asks for no less.
LEMMA EligibleIsScorable ==
  ASSUME NEW a, ValidInput(a), NEW c, Eligible(c, a)
  PROVE  Usable(c, a) /\ Scorable(RegionOf(c, a))
<1> DEFINE own == Within(a.frames, c)
           g == RegionOf(c, a)
<1>1. own \in Seq(ReferenceF0Frame)
  BY OnlyType DEF ValidInput, Within
<1>2. own # << >>
  <2>1. Voiced(own) # << >>
    BY DEF Eligible, Usable
  <2> QED BY <2>1, OnlyOfNothing DEF Voiced
<1>3. /\ g.ref = TwiceMedian(Column(own, "conf")) /\ g.mono = TwiceMedian(Column(own, "mono"))
      /\ g.ornament = c.ornament
  BY DEF RegionOf
<1>4. /\ Usable(c, a) /\ ~c.ornament
      /\ g.ref >= 2 * IngestPolicy.min_reference_confidence
      /\ g.mono >= 2 * IngestPolicy.min_monophonic_confidence
  BY DEF Eligible
<1> HIDE DEF own, g
<1>5. Column(own, "conf") \in Seq(Int) /\ Column(own, "mono") \in Seq(Int)
  <2>1. \A i \in DOMAIN own : own[i].conf \in Int /\ own[i].mono \in Int
    <3>1. \A i \in DOMAIN own : own[i] \in ReferenceF0Frame
      BY <1>1
    <3> QED BY <3>1 DEF ReferenceF0Frame
  <2>2. DOMAIN own = 1..Len(own) /\ Len(own) \in Nat
    BY <1>1
  <2>3. \A field : Column(own, field) = [i \in 1..Len(own) |-> own[i][field]]
    BY <2>2 DEF Column
  <2>4. [i \in 1..Len(own) |-> own[i].conf] \in Seq(Int)
    BY <2>1, <2>2
  <2>5. [i \in 1..Len(own) |-> own[i].mono] \in Seq(Int)
    BY <2>1, <2>2
  <2> QED BY <2>3, <2>4, <2>5
<1>6. Column(own, "conf") # << >> /\ Column(own, "mono") # << >>
  <2>1. 1 \in DOMAIN own
    BY <1>1, <1>2
  <2>2. \A field : 1 \in DOMAIN Column(own, field)
    BY <2>1 DEF Column
  <2> QED BY <2>2
<1>7. g.ref \in Int /\ g.mono \in Int
  BY <1>3, <1>5, <1>6, TwiceMedianType
<1>8. /\ IngestPolicy.min_reference_confidence \in Int
      /\ IngestPolicy.min_monophonic_confidence \in Int
  BY IngestPolicyAssumption DEF IngestThresholds
<1>9. /\ ScoringPolicy.min_reference_confidence \in Int
      /\ ScoringPolicy.min_monophonic_confidence \in Int
  BY ScoringPolicyAssumption DEF UnitFields
<1>10. /\ g.ref >= 2 * ScoringPolicy.min_reference_confidence
       /\ g.mono >= 2 * ScoringPolicy.min_monophonic_confidence
  BY <1>4, <1>7, <1>8, <1>9, PoliciesAssumption
<1> QED BY <1>3, <1>4, <1>10 DEF Scorable, g

\* The coverage of a song is a share, which nothing but eligible candidates make
\* up.
LEMMA CoverageIsShare ==
  ASSUME NEW a, ValidInput(a)
  PROVE  /\ Coverage(a) \in 0..Millionths
         /\ Coverage(a) > 0 => \E c \in Range(a.candidates) : Eligible(c, a)
<1> DEFINE s == a.candidates
           T == Range(s)
           A == {c \in T : Eligible(c, a)}
           v == [c \in T |-> c.end - c.start]
           e == Measure(Only(s, A), v)
           t == Measure(s, v)
<1>1. s \in Seq(T)
  <2>1. s \in Seq(ReferenceRegionCandidate)
    BY DEF ValidInput
  <2> QED BY <2>1, SequenceRange DEF IsSequence
<1>2. v \in [T -> Nat]
  BY CandidateFields
<1>3. \A c \in T : v[c] = c.end - c.start
  OBVIOUS
<1>4. Coverage(a) = IF t = 0 THEN 0 ELSE Round(e * Millionths, t)
  <2>1. \A x \in Seq(T) : Total([i \in DOMAIN x |-> x[i].end - x[i].start]) = Measure(x, v)
    <3> SUFFICES ASSUME NEW x \in Seq(T)
                 PROVE  Total([i \in DOMAIN x |-> x[i].end - x[i].start]) = Measure(x, v)
      OBVIOUS
    <3>1. \A i \in DOMAIN x : x[i] \in T
      OBVIOUS
    <3> HIDE DEF T, v
    <3>2. [i \in DOMAIN x |-> x[i].end - x[i].start] = [i \in DOMAIN x |-> v[x[i]]]
      BY <1>3, <3>1
    <3> QED BY <3>2 DEF Measure
  <2>2. Only(s, A) \in Seq(T)
    <3> HIDE DEF A, T
    <3> QED BY <1>1, OnlyType
  <2> DEFINE LengthOf(x) == Total([i \in DOMAIN x |-> x[i].end - x[i].start])
  <2>3. Coverage(a) = IF LengthOf(s) = 0 THEN 0
                      ELSE Round(LengthOf(Only(s, A)) * Millionths, LengthOf(s))
    BY Zenon DEF Coverage
  <2>4. LengthOf(s) = t /\ LengthOf(Only(s, A)) = e
    BY <1>1, <2>1, <2>2
  <2> HIDE DEF LengthOf, e, t
  <2> QED BY <2>3, <2>4
<1>5. e \in Nat /\ t \in Nat /\ e <= t
  <2> HIDE DEF A, T, v
  <2> QED BY <1>1, <1>2, MeasureOfOnly
<1>6. A = {} => e = 0
  <2> SUFFICES ASSUME A = {} PROVE e = 0
    OBVIOUS
  <2>1. Only(s, A) = << >>
    <3> HIDE DEF T, A
    <3>1. Only(s, A) \in Seq(T \cap A)
      BY <1>1, OnlyType
    <3>2. Only(s, A) \in Seq({})
      BY <3>1
    <3> QED BY <3>2
  <2> HIDE DEF v, A
  <2> QED BY <2>1, MeasureOfNothing
<1> HIDE DEF e, t
<1>7. Millionths \in Nat
  BY DEF Millionths
<1>8. CASE t = 0
  BY <1>4, <1>7, <1>8
<1>9. CASE t # 0
  <2>1. t > 0
    BY <1>5, <1>9
  <2>2. Round(e * Millionths, t) \in 0..Millionths /\ (e = 0 => Round(e * Millionths, t) = 0)
    BY <1>5, <1>7, <2>1, ShareRounds
  <2> DEFINE r == Round(e * Millionths, t)
  <2>3. Coverage(a) = r /\ r \in 0..Millionths /\ (e = 0 => r = 0)
    BY <1>4, <1>9, <2>2
  <2> HIDE DEF r
  <2>4. Coverage(a) > 0 => A # {}
    BY <1>6, <2>3
  <2> QED BY <2>3, <2>4
<1> QED BY <1>8, <1>9

\* No two usable candidates start at the same place.
LEMMA RegionsDiffer ==
  ASSUME NEW a, ValidInput(a)
  PROVE  \A i, k \in 1..Len(UsableOf(a)) : i < k => UsableOf(a)[i].start < UsableOf(a)[k].start
<1> DEFINE s == a.candidates
           N == Len(s)
           f == [i \in 1..N |-> s[i].start]
           A == {c \in Range(s) : Usable(c, a)}
           C == ReferenceRegionCandidate
           R == {p \in C \X C : p[1].start < p[2].start}
<1>1. s \in Seq(C) /\ N \in Nat /\ \A i \in 1..N : s[i] \in C
  BY DEF ValidInput
<1>2. \A i \in 1..N : s[i].start \in Nat /\ s[i].end \in Nat
  BY <1>1 DEF ReferenceRegionCandidate
<1>3. /\ \A i \in 1..N : s[i].start < s[i].end
      /\ \A i \in 2..N : s[i - 1].end <= s[i].start
  BY DEF ValidInput, ValidAnalysis
<1> HIDE DEF s, N, C
<1>4. \A i \in 2..N : f[i - 1] < f[i]
  <2> SUFFICES ASSUME NEW i \in 2..N PROVE f[i - 1] < f[i]
    OBVIOUS
  <2>1. i \in 1..N /\ i - 1 \in 1..N
    BY <1>1
  <2>2. f[i - 1] = s[i - 1].start /\ f[i] = s[i].start
    BY <2>1
  <2> HIDE DEF f
  <2> QED BY <1>2, <1>3, <2>1, <2>2
<1>5. \A i, k \in 1..N : i < k => s[i].start < s[k].start
  <2>1. f \in [1..N -> Int] /\ \A i \in 1..N : f[i] = s[i].start
    BY <1>2
  <2> HIDE DEF f
  <2>2. \A i, k \in 1..N : i < k => f[i] < f[k]
    BY <1>1, <1>4, <2>1, StepsIncrease
  <2> QED BY <2>1, <2>2
<1>6. \A i, k \in 1..N : i < k => <<s[i], s[k]>> \in R
  BY <1>1, <1>5
<1>7. \A x, y : <<x, y>> \in R => x.start < y.start
  OBVIOUS
<1>8. UsableOf(a) = Only(s, A)
  BY DEF UsableOf, s
<1> HIDE DEF R, A
<1>9. \A i, k \in 1..Len(Only(s, A)) : i < k => <<Only(s, A)[i], Only(s, A)[k]>> \in R
  BY <1>1, <1>6, OnlyOrdered DEF N
<1> QED BY <1>7, <1>8, <1>9

\* What nothing blocks covers enough of the song.
LEMMA UnblockedCovers ==
  ASSUME NEW stems, NEW regions, NEW coverage,
         Blocking(stems, regions, coverage) = {}, regions # << >>
  PROVE  ~(100 * coverage < IngestPolicy.min_scorable_vocal_coverage * Millionths)
<1> DEFINE few == 100 * coverage < IngestPolicy.min_scorable_vocal_coverage * Millionths
<1>1. "insufficient_coverage" \notin Blocking(stems, regions, coverage)
  OBVIOUS
<1>2. few => "insufficient_coverage" \in Blocking(stems, regions, coverage)
  BY Zenon DEF Blocking, few
<1> QED BY <1>1, <1>2 DEF few

\* The gate makes manifests that the contract accepts.
LEMMA GateIsSound ==
  ASSUME NEW a, ValidInput(a)
  PROVE  /\ ValidManifest(ManifestOf(a))
         /\ ManifestOf(a).gate = "accepted" =>
              \E i \in DOMAIN ManifestOf(a).regions : Scorable(ManifestOf(a).regions[i])
<1> DEFINE m == ManifestOf(a)
           gate == Gate(a.stems, a)
           usable == UsableOf(a)
           regions == [i \in DOMAIN usable |-> RegionOf(usable[i], a)]
<1>1. /\ m.gate = gate.status /\ m.regions = gate.regions /\ m.coverage = gate.coverage
      /\ m.blocking = gate.blocking /\ m.duration = a.duration
      /\ m.source = "extracted_recording" /\ m.kinds = {"source", "vocal", "accompaniment", "f0"}
  BY DEF ManifestOf
<1>2. RequiredKinds(m.source) \subseteq m.kinds
  BY <1>1 DEF RequiredKinds
<1>3. GateCases(gate, a.stems, a)
  BY GateDecides
<1> HIDE DEF m, gate
<1>4. CASE gate.status \in {"rejected", "practice_only"} /\ gate.coverage = 0 /\ gate.regions = << >>
  <2>1. m.gate # "accepted" /\ m.regions = << >> /\ m.coverage = 0 /\ DOMAIN m.regions = {}
    BY <1>1, <1>4
  <2> QED BY <1>2, <2>1 DEF ValidManifest, m
<1>5. CASE /\ gate.status = "accepted" /\ gate.blocking = {}
           /\ Blocking(a.stems, regions, Coverage(a)) = {}
           /\ gate.coverage = Coverage(a) /\ gate.regions = regions
  <2>1. regions # << >>
    BY <1>5 DEF Blocking
  <2>2. Coverage(a) \in 1..Millionths
    <3>1. ~(100 * Coverage(a) < IngestPolicy.min_scorable_vocal_coverage * Millionths)
      BY <1>5, <2>1, UnblockedCovers
    <3>2. /\ IngestPolicy.min_scorable_vocal_coverage \in Int
          /\ IngestPolicy.min_scorable_vocal_coverage > 0
      BY IngestPolicyAssumption, PoliciesAssumption DEF IngestThresholds
    <3>3. Coverage(a) \in 0..Millionths
      BY CoverageIsShare
    <3>4. \A c, q \in Int : q > 0 /\ ~(100 * c < q * Millionths) => c > 0
      BY DEF Millionths
    <3>5. Millionths \in Nat
      BY DEF Millionths
    <3>6. Coverage(a) \in Int /\ Coverage(a) > 0
      BY <3>1, <3>2, <3>3, <3>4, <3>5
    <3> QED BY <3>3, <3>5, <3>6
  <2>3. usable \in Seq(ReferenceRegionCandidate) /\ DOMAIN usable = 1..Len(usable)
    BY UsableCandidates
  <2>4. \A i \in DOMAIN usable : usable[i] \in Range(a.candidates)
    BY <2>3, RangeIndexed, UsableCandidates
  <2>5. \A c : /\ RegionOf(c, a).end = c.end
               /\ RegionOf(c, a).id = <<c.start, c.end, c.ornament>>
    BY DEF RegionOf
  <2>6. DOMAIN regions = DOMAIN usable /\ \A i \in DOMAIN usable : regions[i] = RegionOf(usable[i], a)
    OBVIOUS
  <2>7. \A i \in DOMAIN regions : regions[i].end <= a.duration
    BY <2>4, <2>5, <2>6, CandidateFields
  <2>8. \A i, k \in DOMAIN regions : regions[i].id = regions[k].id => i = k
    <3> SUFFICES ASSUME NEW i \in DOMAIN regions, NEW k \in DOMAIN regions,
                        regions[i].id = regions[k].id
                 PROVE  i = k
      OBVIOUS
    <3>1. usable[i].start = usable[k].start
      BY <2>5, <2>6
    <3>2. usable[i].start \in Nat /\ i \in Nat /\ k \in Nat
      BY <2>3, <2>4, <2>6, CandidateFields
    <3>3. ~(i < k) /\ ~(k < i)
      BY <2>3, <2>6, <3>1, <3>2, RegionsDiffer
    <3> QED BY <3>2, <3>3
  <2>9. \E i \in DOMAIN regions : Scorable(regions[i])
    <3>1. PICK c \in Range(a.candidates) : Eligible(c, a)
      BY <2>2, CoverageIsShare
    <3>2. Usable(c, a) /\ Scorable(RegionOf(c, a))
      BY <3>1, EligibleIsScorable
    <3>3. c \in Range(usable)
      BY <3>1, <3>2, UsableCandidates
    <3>4. PICK i \in DOMAIN usable : usable[i] = c
      BY <3>3 DEF Range
    <3> QED BY <2>6, <3>2, <3>4
  <2> HIDE DEF regions
  <2>10. ValidManifest(m)
    BY <1>1, <1>2, <1>5, <2>1, <2>2, <2>7, <2>8 DEF ValidManifest
  <2> QED BY <1>1, <1>5, <2>9, <2>10 DEF m
<1> QED BY <1>3, <1>4, <1>5 DEF GateCases
-----------------------------------------------------------------------------
(* The invariant of a run.                                                 *)

\* The song is all there is at first.
LEMMA InitPipeline == Init => PipelineInv
BY DEF Init, PipelineInv

\* The gate publishes sound regions.
LEMMA IngestKeeps == PipelineInv /\ Ingest => PipelineInv'
<1> SUFFICES ASSUME PipelineInv, Ingest PROVE PipelineInv'
  OBVIOUS
<1>1. stage' # "failed" => stage' = "published" /\ error' = error
  BY DEF Ingest, Reach, Fail
<1>2. error' = error \/ error' \in {"ingest.invalid_analysis", "ingest.invalid_manifest"}
  BY DEF Ingest, Reach, Fail
<1>3. stage = "song" /\ error = "none"
  BY DEF Ingest, PipelineInv
<1>4. stage' = "published" => ValidManifest(manifest') /\ HasRegions(manifest')
  <2> SUFFICES ASSUME stage' = "published" PROVE ValidManifest(manifest') /\ HasRegions(manifest')
    OBVIOUS
  <2>1. PICK a \in Analyses : ValidAnalysis(a) /\ ValidManifest(ManifestOf(a)) /\ manifest' = ManifestOf(a)
    BY DEF Ingest, Fail
  <2>2. ValidInput(a)
    BY <2>1, AnalysesAssumption DEF ValidInput
  <2> QED BY <2>1, <2>2, GateRegions
<1> QED BY <1>1, <1>2, <1>3, <1>4 DEF PipelineInv

\* Manifests from elsewhere were checked by the contract.
LEMMA ImportKeeps == PipelineInv /\ Import => PipelineInv'
<1> SUFFICES ASSUME PipelineInv, Import PROVE PipelineInv'
  OBVIOUS
<1>1. stage' = "published" /\ error' = "none"
  BY DEF Import, Reach, PipelineInv
<1>2. PICK m \in Manifests : ValidManifest(m) /\ manifest' = m
  BY DEF Import
<1>3. HasRegions(m)
  BY ManifestsAssumption DEF HasRegions, IsSequence
<1> QED BY <1>1, <1>2, <1>3 DEF PipelineInv

\* Jobs were checked against the manifest.
LEMMA SubmitKeeps == PipelineInv /\ Submit => PipelineInv'
<1> SUFFICES ASSUME PipelineInv, Submit PROVE PipelineInv'
  OBVIOUS
<1>1. /\ stage = "published" /\ stage' = "submitted" /\ error' = "none"
      /\ UNCHANGED <<analysis, manifest, start, features, score>>
  BY DEF Submit, Reach, PipelineInv
<1>2. Submitted(job', manifest')
  <2>0. PICK ids \in DOMAIN Jobs : /\ ValidIds(ids, manifest)
                                   /\ \E j \in Jobs[ids] : job' = j
    BY DEF Submit
  <2>1. PICK j \in Jobs[ids] : job' = j
    BY <2>0
  <2>2. /\ j.ids = ids /\ ValidPhrase(j.phrase) /\ j.transport \in Seq(Event)
        /\ j.pitch.frames \in Seq(PitchFrame) /\ j.leakage.frames \in Seq(LeakageFrame)
        /\ \A i \in DOMAIN j.pitch.frames : j.energy[i] \in Energy
    BY JobsAssumption, Zenon
  <2>3. \A name \in {"from", "drift", "seek", "by"} : j.history[name] \in Int
    BY JobsAssumption, Zenon
  <2>4. ValidHistory(j.history)
    BY <2>3 DEF ValidHistory
  <2> QED BY <1>1, <2>0, <2>1, <2>2, <2>4 DEF Submitted
<1>3. ValidManifest(manifest') /\ HasRegions(manifest')
  BY <1>1 DEF PipelineInv
<1> QED BY <1>1, <1>2, <1>3 DEF PipelineInv

\* Admission changes nothing else.
LEMMA AdmitKeeps == PipelineInv /\ Admit => PipelineInv'
<1> SUFFICES ASSUME PipelineInv, Admit PROVE PipelineInv'
  OBVIOUS
<1>1. /\ stage = "submitted" /\ error = "none"
      /\ UNCHANGED <<analysis, manifest, job, start, features, score>>
  BY DEF Admit, PipelineInv
<1>2. \/ stage' = "admitted" /\ error' = "none"
      \/ /\ stage' = "failed"
         /\ error' \in {"policy.unapproved", "model.unauthorized", "input.audio_integrity"}
  <2>1. CASE ~job.approved
    BY <1>1, <2>1 DEF Admit, Fail
  <2>2. CASE job.approved /\ ~job.authorized
    BY <1>1, <2>2 DEF Admit, Fail
  <2>3. CASE job.approved /\ job.authorized /\ ~job.intact
    BY <1>1, <2>3 DEF Admit, Fail
  <2>4. CASE job.approved /\ job.authorized /\ job.intact
    BY <1>1, <2>4 DEF Admit, Reach
  <2> QED BY <2>1, <2>2, <2>3, <2>4
<1> QED BY <1>1, <1>2 DEF PipelineInv

\* The start is the one that was accepted.
LEMMA CalibrateKeeps == PipelineInv /\ Calibrate => PipelineInv'
<1> SUFFICES ASSUME PipelineInv, Calibrate PROVE PipelineInv'
  OBVIOUS
<1> DEFINE result == CalibratePhrase(job.phrase, job.transport)
<1>1. /\ stage = "admitted" /\ error = "none"
      /\ UNCHANGED <<analysis, manifest, job, features, score>>
  BY DEF Calibrate, PipelineInv
<1>2. \/ stage' = "calibrated" /\ error' = "none" /\ result.status = "accepted" /\ start' = result.start
      \/ stage' = "failed" /\ error' = "input.transport"
  BY <1>1 DEF Calibrate, Reach, Fail
<1>3. stage' = "calibrated" => Calibrated(job, start')
  BY <1>2 DEF Calibrated
<1> QED BY <1>1, <1>2, <1>3 DEF PipelineInv

\* Mapped frames are in the order of time.
LEMMA ExtractFeaturesKeeps == PipelineInv /\ ExtractFeatures => PipelineInv'
<1> SUFFICES ASSUME PipelineInv, ExtractFeatures PROVE PipelineInv'
  OBVIOUS
<1>1. /\ stage = "calibrated" /\ error = "none"
      /\ UNCHANGED <<analysis, manifest, job, start, score>>
  BY DEF ExtractFeatures, PipelineInv
<1>2. \/ stage' = "extracted" /\ error' = "none"
      \/ /\ stage' = "failed"
         /\ error' \in {"provider.invalid_output", "input.outside_reference_timeline"}
  BY <1>1 DEF ExtractFeatures, Reach, Fail
<1>3. Submitted(job, manifest) /\ Calibrated(job, start)
  BY <1>1 DEF PipelineInv
<1>4. ASSUME stage' = "extracted" PROVE ValidFeatures(features')
  <2> DEFINE x == [tenant |-> job.tenant, rate |-> job.phrase.rate,
                   hop |-> FeaturePolicy.hop_samples, calibration |-> job.calibration,
                   version |-> FeaturePolicy.score_version,
                   produced |-> job.produced, frames |-> Mapped(job)]
  <2>1. /\ ValidOffsets(job.pitch) /\ ValidTimelines(job)
        /\ Mapped(job) # << >> /\ features' = x
    BY <1>4 DEF ExtractFeatures, Fail
  <2>2. start \in Int
    BY <1>3, StartIsInt
  <2>3. /\ Mapped(job) \in Seq(UserFeatureFrame)
        /\ \A i, k \in 1..Len(Mapped(job)) : i < k => Mapped(job)[i].at < Mapped(job)[k].at
    BY <1>3, <2>1, <2>2, MappedFrames
  <2>4. FeaturePolicy.hop_samples \in Nat \ {0} /\ job.phrase.rate \in Nat \ {0}
    BY <1>3, FeaturePolicyAssumption DEF Submitted, ValidPhrase
  <2>5. x.rate = job.phrase.rate /\ x.hop = FeaturePolicy.hop_samples /\ x.frames = Mapped(job)
    OBVIOUS
  <2>6. x = [tenant |-> x.tenant, rate |-> x.rate, hop |-> x.hop, calibration |-> x.calibration,
             version |-> x.version, produced |-> x.produced, frames |-> x.frames]
    OBVIOUS
  <2> HIDE DEF x
  <2>7. ValidFeatures(x)
    BY <2>1, <2>3, <2>4, <2>5, <2>6 DEF ValidFeatures
  <2> QED BY <2>1, <2>7
<1> QED BY <1>1, <1>2, <1>4 DEF PipelineInv

\* A score is the result of what it was made from.
LEMMA ScoreKeeps == PipelineInv /\ Score => PipelineInv'
<1> SUFFICES ASSUME PipelineInv, Score PROVE PipelineInv'
  OBVIOUS
<1>1. /\ stage = "extracted" /\ error = "none"
      /\ UNCHANGED <<analysis, manifest, job, start, features>>
  BY DEF Score, PipelineInv
<1>2. Result' = Result
  BY <1>1 DEF Result
<1>3. \/ stage' = "scored" /\ error' = "none" /\ score' = Result /\ Result.status # "failed"
      \/ stage' = "failed" /\ error' = "score.invalid_inputs" /\ Result.status = "failed"
  BY <1>1 DEF Score, Reach, Fail, Result
<1> QED BY <1>1, <1>2, <1>3 DEF PipelineInv

\* Nothing else changes.
LEMMA StutterKeeps == PipelineInv /\ UNCHANGED vars => PipelineInv'
<1> SUFFICES ASSUME PipelineInv, UNCHANGED vars PROVE PipelineInv'
  OBVIOUS
<1>1. UNCHANGED <<stage, error, analysis, manifest, job, start, features, score>>
  BY DEF vars
<1>2. Result' = Result
  BY <1>1 DEF Result
<1> QED BY <1>1, <1>2 DEF PipelineInv

\* What a run has established stays true of it.
THEOREM RunsKeepTheirEvidence == Spec => []PipelineInv
<1>1. PipelineInv /\ [Next]_vars => PipelineInv'
  BY IngestKeeps, ImportKeeps, SubmitKeeps, AdmitKeeps, CalibrateKeeps, ExtractFeaturesKeeps,
     ScoreKeeps, StutterKeeps DEF Next
<1> QED BY <1>1, InitPipeline, PTL DEF Spec
-----------------------------------------------------------------------------
(* What follows of it.                                                     *)

\* If playback kept the pace it declares and was moved at most once, an accepted
\* calibration puts every sample of a phrase where it was played, up to the errors
\* the policy allows.  (calibrate_phrase, ADR 0006)
THEOREM PhrasesAreAligned == Spec => []AlignmentErrorIsBounded
<1>1. PipelineInv => AlignmentErrorIsBounded
  <2> SUFFICES ASSUME PipelineInv, stage \in {"calibrated", "extracted", "scored"}, Truthful(job),
                      NEW mic \in job.phrase.start..job.phrase.end
               PROVE  Abs((start + mic - job.phrase.start) * (Million + job.history.drift)
                            - Truth(job.history, mic)) * 1000
                        <= (FeaturePolicy.max_anchor_residual_ms * job.phrase.rate + 1000)
                             * (Million + job.history.drift)
                           + FeaturePolicy.max_uncompensated_error_ms * job.phrase.rate * Million
    BY DEF AlignmentErrorIsBounded
  <2>1. Submitted(job, manifest) /\ Calibrated(job, start)
    BY DEF PipelineInv
  <2>2. /\ ValidPhrase(job.phrase) /\ ValidHistory(job.history) /\ job.transport \in Seq(Event)
        /\ CalibratePhrase(job.phrase, job.transport).status = "accepted"
        /\ CalibratePhrase(job.phrase, job.transport).start = start
    BY <2>1 DEF Submitted, Calibrated
  <2> QED BY <2>2, AlignedWithin
<1> QED BY <1>1, RunsKeepTheirEvidence, PTL

\* A region gets the same corrections alone and with others of its phrase.
\* (ADR 0003; _timing_frames)
THEOREM RegionsJudgeAlone == Spec => []RegionsAreIndependent
<1>1. PipelineInv => RegionsAreIndependent
  <2> SUFFICES ASSUME PipelineInv, stage = "scored", score.status = "scored", NEW id \in job.ids,
                      ScorePhrase(manifest, features, job.produced, {id}).status = "scored"
               PROVE  ScorePhrase(manifest, features, job.produced, {id}).corrections
                        = {c \in score.corrections : c.region = id}
    BY DEF RegionsAreIndependent, Of
  <2>1. IsSequence(manifest.regions) /\ score = ScorePhrase(manifest, features, job.produced, job.ids)
    BY DEF PipelineInv, HasRegions, Result
  <2> QED BY <2>1, RegionsJudgedAlike
<1> QED BY <1>1, RunsKeepTheirEvidence, PTL

\* A frame that differs from another in what it seems to contain.
LEMMA FrameSilenced ==
  ASSUME NEW x \in UserFeatureFrame
  PROVE  LET y == [x EXCEPT !.voiced = FALSE, !.conf = 0, !.energy = -160]
         IN  y.at = x.at /\ y.leak = x.leak
BY DEF UserFeatureFrame

\* Features in which one leaked frame was replaced differ only in it.
LEMMA FeaturesSilenced ==
  ASSUME NEW f, ValidFeatures(f), NEW i \in DOMAIN f.frames, ~Clean(f.frames[i]),
         NEW y, y.at = f.frames[i].at, y.leak = f.frames[i].leak
  PROVE  SameButLeaked(f, [f EXCEPT !.frames[i] = y])
<1> DEFINE h == [f EXCEPT !.frames[i] = y]
           s == f.frames
           t == [s EXCEPT ![i] = y]
<1>1. /\ h.tenant = f.tenant /\ h.rate = f.rate /\ h.hop = f.hop
      /\ h.calibration = f.calibration /\ h.version = f.version /\ h.produced = f.produced
      /\ h.frames = t
  BY DEF ValidFeatures
<1>2. s \in Seq(UserFeatureFrame) /\ s # << >>
  BY DEF ValidFeatures
<1> HIDE DEF h
<1>3. IsSequence(s)
  BY <1>2, SequenceRange
<1> HIDE DEF s
<1>4. i \in DOMAIN s /\ DOMAIN s = 1..Len(s) /\ Len(s) \in Nat
  BY <1>2 DEF s
<1>5. DOMAIN t = DOMAIN s /\ \A k \in DOMAIN s : t[k] = IF k = i THEN y ELSE s[k]
  BY <1>4
<1>6. t \in Seq(Range(t)) /\ Len(t) = Len(s)
  <2>1. t = [k \in 1..Len(s) |-> t[k]] /\ \A k \in 1..Len(s) : t[k] \in Range(t)
    BY <1>4, <1>5 DEF Range
  <2> HIDE DEF t
  <2> QED BY <1>4, <2>1
<1>7. \A k \in 1..Len(s) : /\ t[k].at = s[k].at /\ t[k].leak = s[k].leak
                           /\ Clean(s[k]) => t[k] = s[k]
  BY <1>4, <1>5 DEF s
<1> QED BY <1>1, <1>2, <1>3, <1>6, <1>7 DEF SameButLeaked, IsSequence, h, s

\* A frame with too much accompaniment in it may contain anything: the score does not
\* change.  (ADR 0003; region_frames and low_leakage_frames of score_phrase)
THEOREM LeakageIsSilent == Spec => []LeakedFramesDoNotCount
<1>1. PipelineInv => LeakedFramesDoNotCount
  <2> SUFFICES ASSUME PipelineInv, stage = "scored", NEW i \in DOMAIN features.frames,
                      features.frames[i].leak > ScoringPolicy.max_leakage_confidence
               PROVE  LET x == features.frames[i]
                          silenced == [x EXCEPT !.voiced = FALSE, !.conf = 0, !.energy = -160]
                      IN  ScorePhrase(manifest, WithFrame(i, silenced), job.produced, job.ids) = score
    BY DEF LeakedFramesDoNotCount
  <2> DEFINE x == features.frames[i]
             silenced == [x EXCEPT !.voiced = FALSE, !.conf = 0, !.energy = -160]
  <2>1. ValidFeatures(features) /\ score = ScorePhrase(manifest, features, job.produced, job.ids)
    BY DEF PipelineInv, Result
  <2>2. x \in UserFeatureFrame
    BY <2>1 DEF ValidFeatures
  <2>3. silenced.at = x.at /\ silenced.leak = x.leak
    BY <2>2, FrameSilenced
  <2>4. ~Clean(x)
    <3>1. x.leak \in Int /\ ScoringPolicy.max_leakage_confidence \in Int
      BY <2>2, ScoringPolicyAssumption DEF UserFeatureFrame, UnitFields
    <3> QED BY <3>1 DEF Clean
  <2> HIDE DEF silenced
  <2>5. SameButLeaked(features, [features EXCEPT !.frames[i] = silenced])
    BY <2>1, <2>3, <2>4, FeaturesSilenced
  <2>6. ScorePhrase(manifest, [features EXCEPT !.frames[i] = silenced], job.produced, job.ids) = score
    BY <2>1, <2>5, SameScore
  <2> QED BY <2>6 DEF WithFrame, silenced
<1> QED BY <1>1, RunsKeepTheirEvidence, PTL

\* Songs of the gate, and what a run may have failed with.
GateInv ==
  /\ error # "ingest.invalid_manifest"
  /\ stage = "song" => analysis = Nothing
  /\ stage = "published" /\ analysis # Nothing => /\ analysis \in Analyses /\ ValidAnalysis(analysis)
                                                  /\ manifest = ManifestOf(analysis)

\* The song is published with the manifest the gate has made of it.
LEMMA IngestGated == GateInv /\ Ingest => GateInv'
<1> SUFFICES ASSUME GateInv, Ingest PROVE GateInv'
  OBVIOUS
<1>1. PICK a \in Analyses :
        /\ analysis' = a
        /\ \/ /\ ~ValidAnalysis(a) \/ a.duration # a.stems.duration
              /\ Fail("ingest.invalid_analysis")
              /\ UNCHANGED manifest
           \/ /\ ValidAnalysis(a) /\ a.duration = a.stems.duration
              /\ IF ValidManifest(ManifestOf(a))
                 THEN /\ manifest' = ManifestOf(a)
                      /\ Reach("published")
                 ELSE /\ Fail("ingest.invalid_manifest")
                      /\ UNCHANGED manifest
  BY DEF Ingest
<1>2. CASE Fail("ingest.invalid_analysis")
  BY <1>2 DEF Fail, GateInv
<1>3. CASE ~Fail("ingest.invalid_analysis")
  <2>1. ValidAnalysis(a)
    BY <1>1, <1>3
  <2>2. ValidManifest(ManifestOf(a))
    <3>1. ValidInput(a)
      BY <2>1, AnalysesAssumption DEF ValidInput
    <3> QED BY <3>1, GateIsSound
  <2>3. manifest' = ManifestOf(a) /\ Reach("published")
    BY <1>1, <1>3, <2>2
  <2> QED BY <1>1, <2>1, <2>3 DEF Reach, GateInv
<1> QED BY <1>2, <1>3

\* No later step blames the gate.
LEMMA StepsGated == GateInv /\ [Next]_vars => GateInv'
<1> SUFFICES ASSUME GateInv, [Next]_vars PROVE GateInv'
  OBVIOUS
<1>1. CASE Ingest
  BY <1>1, IngestGated
<1>2. CASE Import
  BY <1>2 DEF Import, Reach, GateInv
<1>3. CASE Submit
  BY <1>3 DEF Submit, Reach, GateInv
<1>4. CASE Admit
  <2>1. CASE ~job.approved
    BY <1>4, <2>1 DEF Admit, Fail, GateInv
  <2>2. CASE job.approved /\ ~job.authorized
    BY <1>4, <2>2 DEF Admit, Fail, GateInv
  <2>3. CASE job.approved /\ job.authorized /\ ~job.intact
    BY <1>4, <2>3 DEF Admit, Fail, GateInv
  <2>4. CASE job.approved /\ job.authorized /\ job.intact
    BY <1>4, <2>4 DEF Admit, Reach, GateInv
  <2> QED BY <2>1, <2>2, <2>3, <2>4
<1>5. CASE Calibrate
  BY <1>5 DEF Calibrate, Reach, Fail, GateInv
<1>6. CASE ExtractFeatures
  BY <1>6 DEF ExtractFeatures, Reach, Fail, GateInv
<1>7. CASE Score
  BY <1>7 DEF Score, Reach, Fail, GateInv
<1>8. CASE UNCHANGED vars
  BY <1>8 DEF vars, GateInv
<1> QED BY <1>1, <1>2, <1>3, <1>4, <1>5, <1>6, <1>7, <1>8 DEF Next

\* The gate never builds a manifest that the contract refuses, and a song it accepts
\* has a region that the core is willing to judge.  (_gate, ADR 0005)
THEOREM AcceptedSongsAreScorable == Spec => []AcceptedSongIsScorable
<1>1. Init => GateInv
  BY DEF Init, GateInv
<1>2. GateInv => AcceptedSongIsScorable
  <2> SUFFICES ASSUME GateInv, stage = "published", analysis # Nothing, manifest.gate = "accepted"
               PROVE  \E i \in DOMAIN manifest.regions : Scorable(manifest.regions[i])
    BY DEF GateInv, AcceptedSongIsScorable
  <2>1. analysis \in Analyses /\ ValidAnalysis(analysis) /\ manifest = ManifestOf(analysis)
    BY DEF GateInv
  <2>2. ValidInput(analysis)
    BY <2>1, AnalysesAssumption DEF ValidInput
  <2> QED BY <2>1, <2>2, GateIsSound
<1> QED BY <1>1, <1>2, StepsGated, PTL DEF Spec
-----------------------------------------------------------------------------
(* Scores are well formed.                                                *)

\* The requested regions are sound and known by their identifiers.
LEMMA RequestedIsSound ==
  ASSUME NEW m, HasRegions(m), ValidManifest(m), NEW ids, Requested(m, ids) # << >>
  PROVE  /\ IsRegions(Requested(m, ids))
         /\ \A g, h \in Range(Requested(m, ids)) : g.id = h.id => g = h
<1> DEFINE regions == Requested(m, ids)
           T == Range(m.regions)
<1>1. m.regions \in Seq(T) /\ IsSequence(m.regions)
  BY DEF HasRegions, IsSequence
<1>2. regions \in Seq(T)
  BY <1>1, RequestedRegions
<1>3. \A g \in T : Extends(g)
  <2>1. \A i \in DOMAIN m.regions : Extends(m.regions[i])
    BY DEF HasRegions, ValidRegion, Extends
  <2> QED BY <2>1 DEF Range
<1>4. \A g, h \in T : g.id = h.id => g = h
  <2>1. \A i, j \in DOMAIN m.regions : m.regions[i].id = m.regions[j].id => i = j
    BY DEF ValidManifest
  <2> QED BY <2>1 DEF Range
<1> HIDE DEF regions, T
<1>5. IsSequence(regions) /\ Range(regions) \subseteq T /\ \A i \in DOMAIN regions : regions[i] \in T
  BY <1>2, SequenceRange, RangeIndexed
<1>6. regions # << >>
  BY DEF regions
<1> QED BY <1>3, <1>4, <1>5, <1>6 DEF IsRegions, regions

\* What a score is that the core did not refuse to make.
LEMMA ScoreShape ==
  ASSUME NEW m, NEW f, NEW at, NEW ids, ScorePhrase(m, f, at, ids).status # "failed"
  PROVE  LET result == ScorePhrase(m, f, at, ids)
             regions == Requested(m, ids)
             obs == Observations(regions, m, f)
             assessed == Assessed(obs)
             total == TotalLength(regions)
         IN  \/ IsAbstention(result)
             \/ /\ regions # << >> /\ assessed # << >> /\ result.status = "scored"
                /\ result.coverage =
                     <<Total([i \in DOMAIN assessed |-> Length(assessed[i].region)]), total>>
                /\ result.metrics = Metrics(obs, TotalCovered(regions, f), total)
                /\ result.corrections = CorrectionsIn(obs, f)
<1> DEFINE result == ScorePhrase(m, f, at, ids)
           regions == Requested(m, ids)
           obs == Observations(regions, m, f)
           covered == TotalCovered(regions, f)
           total == TotalLength(regions)
           judged == Verdict(obs, m, f, covered, total)
<1>1. result # Failed
  BY Statuses
<1>2. IsAbstention(result) \/ (regions # << >> /\ result = judged)
  <2> HIDE DEF result, judged, regions
  <2> QED BY <1>1, ScoreCases DEF result, judged, regions, obs, covered, total
<1>3. IsVerdict(judged, obs, m, f, covered, total)
  BY VerdictCases
<1> HIDE DEF result, judged, obs, covered, total, regions
<1>4. \/ IsAbstention(result)
      \/ regions # << >> /\ result # Failed /\ IsVerdict(result, obs, m, f, covered, total)
  BY <1>1, <1>2, <1>3
<1> QED BY <1>4 DEF IsVerdict, result, obs, covered, total, regions

\* An abstention covers nothing and corrects nothing.
LEMMA AbstentionFields ==
  ASSUME NEW result, IsAbstention(result)
  PROVE  /\ result.status = "abstained" /\ result.coverage = <<0, 1>>
         /\ result.metrics = << >> /\ result.corrections = {}
BY DEF IsAbstention, Abstained

\* Corrections have evidence and are told apart by region and type.
IsSound(corrections) ==
  \A c \in corrections :
    /\ 0 <= c.from /\ c.from < c.to /\ c.start < c.end
    /\ \A d \in corrections : d.region = c.region /\ d.type = c.type => d = c
    /\ \A d \in corrections : d.region = c.region /\ c.type = "missed" => d = c

\* Those of a score are such.
LEMMA CorrectionsAreSound ==
  ASSUME NEW regions, IsRegions(regions), NEW m, NEW f, Featured(f),
         \A g, h \in Range(regions) : g.id = h.id => g = h
  PROVE  IsSound(CorrectionsIn(Observations(regions, m, f), f))
<1> DEFINE obs == Observations(regions, m, f)
           n == Len(regions)
           all == CorrectionsIn(obs, f)
<1>1. /\ DOMAIN obs = 1..n /\ DOMAIN regions = 1..n
      /\ \A i \in 1..n : Observed(obs[i]) /\ obs[i].region = regions[i]
  BY ObservationsAreSound, RegionsCounted
<1>2. \A i \in 1..n : obs[i] = Observation(regions[i], m, f)
  BY <1>1 DEF Observations
<1>3. \A i, k \in 1..n : regions[i].id = regions[k].id => regions[i] = regions[k]
  BY <1>1 DEF Range
<1>4. f.hop \in Nat \ {0}
  BY DEF Featured
<1> HIDE DEF obs, n
<1>5. \A c \in all : \E i \in 1..n : c \in Corrections(obs[i], f)
  BY <1>1 DEF CorrectionsIn
<1> HIDE DEF all
<1>6. ASSUME NEW c \in all, NEW d \in all, d.region = c.region, d.type = c.type \/ c.type = "missed"
      PROVE  d = c
  <2>1. PICK i \in 1..n : c \in Corrections(obs[i], f)
    BY <1>5
  <2>2. PICK k \in 1..n : d \in Corrections(obs[k], f)
    BY <1>5
  <2>3. c.region = regions[i].id /\ d.region = regions[k].id
    BY <1>1, <2>1, <2>2, CorrectedRegion
  <2>4. obs[k] = obs[i]
    BY <1>2, <1>3, <1>6, <2>3
  <2>5. Observed(obs[i]) /\ d \in Corrections(obs[i], f)
    BY <1>1, <2>2, <2>4
  <2> QED BY <1>4, <1>6, <2>1, <2>5, CorrectionIsSound
<1>7. ASSUME NEW c \in all PROVE 0 <= c.from /\ c.from < c.to /\ c.start < c.end
  <2>1. PICK i \in 1..n : c \in Corrections(obs[i], f)
    BY <1>5
  <2>2. Observed(obs[i])
    BY <1>1
  <2> QED BY <1>4, <2>1, <2>2, CorrectionIsSound
<1>8. IsSound(all)
  BY <1>6, <1>7 DEF IsSound
<1> QED BY <1>8 DEF all, obs

\* What the contracts ask of a score.
IsWellFormed(s) ==
  /\ Ratio(s.coverage)
  /\ s.status = "scored" <=> s.coverage[1] > 0
  /\ \A name \in DOMAIN s.metrics : Ratio(s.metrics[name])
  /\ s.status = "abstained" => s.metrics = << >> /\ s.corrections = {}
  /\ IsSound(s.corrections)

\* A share is what NumericMetric accepts.
LEMMA ShareIsRatio ==
  ASSUME NEW r, IsShare(r)
  PROVE  Ratio(r)
BY DEF IsShare, Ratio

\* Every score of the core meets its contract.
LEMMA WellFormed ==
  ASSUME NEW m, NEW f, NEW at, NEW ids, HasRegions(m), ValidManifest(m), ValidFeatures(f),
         ScorePhrase(m, f, at, ids).status # "failed"
  PROVE  IsWellFormed(ScorePhrase(m, f, at, ids))
<1> DEFINE s == ScorePhrase(m, f, at, ids)
           regions == Requested(m, ids)
           obs == Observations(regions, m, f)
           assessed == Assessed(obs)
           length == Total([i \in DOMAIN assessed |-> Length(assessed[i].region)])
           covered == TotalCovered(regions, f)
           total == TotalLength(regions)
<1>1. \/ IsAbstention(s)
      \/ /\ regions # << >> /\ assessed # << >> /\ s.status = "scored"
         /\ s.coverage = <<length, total>>
         /\ s.metrics = Metrics(obs, covered, total)
         /\ s.corrections = CorrectionsIn(obs, f)
  BY ScoreShape
<1>2. Featured(f)
  <2>1. f.hop \in Nat \ {0} /\ f.frames # << >> /\ f.frames \in Seq(UserFeatureFrame)
        /\ \A i, k \in 1..Len(f.frames) : i < k => f.frames[i].at < f.frames[k].at
    BY DEF ValidFeatures
  <2> QED BY <2>1 DEF Featured, Rising
<1>3. CASE IsAbstention(s)
  <2> HIDE DEF s
  <2>1. /\ s.status = "abstained" /\ s.coverage = <<0, 1>>
        /\ s.metrics = << >> /\ s.corrections = {} /\ DOMAIN s.metrics = {}
    BY <1>3, AbstentionFields
  <2>2. Ratio(s.coverage) /\ ~(s.coverage[1] > 0)
    BY <2>1 DEF Ratio
  <2>3. IsSound(s.corrections)
    BY <2>1 DEF IsSound
  <2>4. IsWellFormed(s)
    BY <2>1, <2>2, <2>3 DEF IsWellFormed
  <2> QED BY <2>4 DEF s
<1>4. CASE /\ regions # << >> /\ assessed # << >> /\ s.status = "scored"
           /\ s.coverage = <<length, total>>
           /\ s.metrics = Metrics(obs, covered, total)
           /\ s.corrections = CorrectionsIn(obs, f)
  <2>1. IsRegions(regions) /\ \A g, h \in Range(regions) : g.id = h.id => g = h
    BY <1>4, RequestedIsSound
  <2> HIDE DEF s, regions
  <2>2. IsShare(<<length, total>>) /\ length > 0
    BY <1>2, <1>4, <2>1, AssessedIsPart
  <2>3. IsShare(<<covered, total>>)
    BY <1>2, <2>1, CoverageIsPart
  <2>4. IsSound(s.corrections)
    BY <1>2, <1>4, <2>1, CorrectionsAreSound
  <2> DEFINE n == Len(regions)
  <2>5. n \in Nat \ {0}
    BY <2>1, RegionsCounted
  <2>6. /\ IsSequence(obs) /\ DOMAIN obs = 1..n
        /\ \A i \in 1..n : Observed(obs[i])
    BY <1>2, <2>1, ObservationsAreSound
  <2> HIDE DEF obs, covered, total, length, n
  <2>7. \A name \in DOMAIN s.metrics : IsShare(s.metrics[name])
    BY <1>4, <2>3, <2>5, <2>6, MetricsAreShares
  <2>8. \A name \in DOMAIN s.metrics : Ratio(s.metrics[name])
    BY <2>7, ShareIsRatio
  <2>9. Ratio(s.coverage) /\ s.coverage[1] > 0
    BY <1>4, <2>2, ShareIsRatio
  <2>10. s.status # "abstained"
    BY <1>4
  <2>11. IsWellFormed(s)
    BY <1>4, <2>4, <2>8, <2>9, <2>10 DEF IsWellFormed
  <2> QED BY <2>11 DEF s
<1> QED BY <1>1, <1>3, <1>4

\* A job that came through the contracts fails for its versions or its times only.
LEMMA OnlyOddInputsFail ==
  ASSUME NEW m, NEW f, NEW at, NEW ids, ValidManifest(m), ValidIds(ids, m),
         ScorePhrase(m, f, at, ids).status = "failed"
  PROVE  ~InputsAgree(m, f, at)
<1> DEFINE result == ScorePhrase(m, f, at, ids)
           regions == Requested(m, ids)
           obs == Observations(regions, m, f)
           covered == TotalCovered(regions, f)
           total == TotalLength(regions)
           judged == Verdict(obs, m, f, covered, total)
           Odd == ids = {} \/ ~(ids \subseteq {m.regions[i].id : i \in DOMAIN m.regions})
<1>1. m.gate = "accepted" => ~Odd
  BY DEF ValidIds, RegionIds
<1>2. ReferenceArtifact(m) \in m.kinds
  BY DEF ValidManifest, RequiredKinds, ReferenceArtifact
<1>3. \A r : IsAbstention(r) => r.status = "abstained"
  BY AbstentionFields
<1>4. IsVerdict(judged, obs, m, f, covered, total)
  BY VerdictCases
<1>5. judged.status # "failed"
  <2> HIDE DEF judged, obs, covered, total
  <2> QED BY <1>2, <1>3, <1>4 DEF IsVerdict
<1>6. \/ ~InputsAgree(m, f, at)
      \/ m.gate = "accepted" /\ Odd
      \/ IsAbstention(result)
      \/ result = judged
  <2> HIDE DEF result, judged, regions
  <2> QED BY ScoreCases DEF result, judged, regions, obs, covered, total
<1>7. result.status = "failed"
  OBVIOUS
<1> HIDE DEF result, judged, Odd
<1> QED BY <1>1, <1>3, <1>5, <1>6, <1>7

\* Every score is one the contracts accept, and a job is rejected only for its
\* versions or its times.
THEOREM ScoresAreWellFormed == Spec => []ScoreIsWellFormed
<1>1. PipelineInv => ScoreIsWellFormed
  <2> SUFFICES ASSUME PipelineInv PROVE ScoreIsWellFormed
    OBVIOUS
  <2>1. stage = "scored" => IsWellFormed(score)
    <3> SUFFICES ASSUME stage = "scored" PROVE IsWellFormed(score)
      OBVIOUS
    <3>1. /\ ValidManifest(manifest) /\ HasRegions(manifest) /\ ValidFeatures(features)
          /\ score = Result /\ Result.status # "failed"
      BY DEF PipelineInv
    <3> QED BY <3>1, WellFormed DEF Result
  <2>2. error = "score.invalid_inputs" => ~InputsAgree(manifest, features, job.produced)
    <3> SUFFICES ASSUME error = "score.invalid_inputs"
                 PROVE  ~InputsAgree(manifest, features, job.produced)
      OBVIOUS
    <3>1. ValidManifest(manifest) /\ ValidIds(job.ids, manifest) /\ Result.status = "failed"
      BY DEF PipelineInv, Submitted
    <3> QED BY <3>1, OnlyOddInputsFail DEF Result
  <2> QED BY <2>1, <2>2 DEF ScoreIsWellFormed, IsWellFormed, IsSound
<1> QED BY <1>1, RunsKeepTheirEvidence, PTL

-----------------------------------------------------------------------------
(* One tone.                                                               *)

\* What a stage that has been scored may rely on, for a region that the phrase is a
\* performance of.
LEMMA PerformanceIsTone ==
  ASSUME PipelineInv, stage = "scored", manifest.gate = "accepted",
         score.reason # "input.incomplete_phrase",
         NEW i \in DOMAIN manifest.regions, IsPerformanceOf(manifest.regions[i])
  PROVE  LET g == manifest.regions[i]
         IN  /\ IsTone(Sung, g, manifest, features)
             /\ score.corrections = Corrections(Observation(g, manifest, features), features)
<1> DEFINE g == manifest.regions[i]
           T == Range(manifest.regions)
<1>1. /\ ValidManifest(manifest) /\ HasRegions(manifest) /\ ValidFeatures(features)
      /\ score = Result /\ Result.status # "failed"
  BY DEF PipelineInv
<1>2. IsSequence(manifest.regions) /\ g \in T /\ Extends(g)
  BY <1>1 DEF HasRegions, ValidRegion, Extends, Range
<1>3. \A h, k \in T : h.id = k.id => h = k
  <2>1. \A j, k \in DOMAIN manifest.regions : manifest.regions[j].id = manifest.regions[k].id => j = k
    BY <1>1 DEF ValidManifest
  <2> QED BY <2>1 DEF Range
<1>4. Featured(features)
  BY <1>1 DEF ValidFeatures, Featured, Rising
<1>5. job.ids = {g.id} /\ Scorable(g)
  BY DEF IsPerformanceOf
<1>6. IsTone(Sung, g, manifest, features)
  BY DEF IsPerformanceOf, IsTone, Sung
<1>7. score = ScorePhrase(manifest, features, job.produced, {g.id})
  BY <1>1, <1>5 DEF Result
<1> HIDE DEF g
<1>8. score.corrections = Corrections(Observation(g, manifest, features), features)
  BY <1>1, <1>2, <1>3, <1>4, <1>5, <1>6, <1>7, ToneIsScored
<1> QED BY <1>6, <1>8 DEF g

\* A clean tone near a region gets the corrections it deserves, wherever in the
\* search window it lies.  (score_phrase, ADR 0003)
THEOREM PerformancesAreRecognised == Spec => []PerformanceIsRecognised
<1>1. PipelineInv => PerformanceIsRecognised
  <2> SUFFICES ASSUME PipelineInv, stage = "scored", NEW i \in DOMAIN manifest.regions,
                      manifest.gate = "accepted", score.reason # "input.incomplete_phrase",
                      IsPerformanceOf(manifest.regions[i])
               PROVE  {c.type : c \in score.corrections} = Deserved(manifest.regions[i])
    BY DEF PerformanceIsRecognised
  <2> DEFINE g == manifest.regions[i]
  <2>1. /\ IsTone(Sung, g, manifest, features)
        /\ score.corrections = Corrections(Observation(g, manifest, features), features)
    BY PerformanceIsTone
  <2>2. HasRegions(manifest) /\ ValidFeatures(features)
    BY DEF PipelineInv
  <2>3. Extends(g) /\ g.target \in Int
    BY <2>2 DEF HasRegions, ValidRegion, Extends
  <2>4. Featured(features) /\ features.rate \in Nat
    BY <2>2 DEF ValidFeatures, Featured, Rising
  <2> HIDE DEF g
  <2>5. Deserved(g) = TypesDue(Head(Sung).at, Last(Sung).at + features.hop,
                               Head(Sung).f0 - g.target, g, features)
    BY DEF Deserved, TypesDue
  <2>6. {c.type : c \in Corrections(Observation(g, manifest, features), features)} =
          TypesDue(Head(Sung).at, Last(Sung).at + features.hop,
                   Head(Sung).f0 - g.target, g, features)
    BY <2>1, <2>3, <2>4, PoliciesAssumption, ToneIsCorrected
  <2> QED BY <2>1, <2>5, <2>6 DEF g
<1> QED BY <1>1, RunsKeepTheirEvidence, PTL
==================================================================================
