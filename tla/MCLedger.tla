------------------------------ MODULE MCLedger ------------------------------
(* A small instance of PracticeLedger: an accepted and a practice-only      *)
(* manifest, two reservations and two scores that contend for one key each. *)
EXTENDS PracticeLedger

CONSTANTS m1, m2, t1, p1, p2, c1, c2, e1

MCGate == [m \in Manifests |-> IF m = m1 THEN "ACCEPTED" ELSE "PRACTICE_ONLY"]
MCProducedAt == [d \in Documents |-> 1]
MCCalibration == [d \in Documents \cup Phrases |-> "cal"]
MCEvidence == [d \in Documents |-> {e1}]
MCSessionOf == [p \in Phrases |-> t1]
MCPhraseKey == [p \in Phrases |-> "key"]
MCSequence == [p \in Phrases |-> IF p = p1 THEN 1 ELSE 2]
MCPhraseOf == [sc \in Scores |-> p1]
MCScoreKey == [sc \in Scores |-> "key"]
=============================================================================
