\* service.py line 137: the source of a published song can no longer be replaced.
CONSTANTS
  m1 = m1
  m2 = m2
  t1 = t1
  p1 = p1
  p2 = p2
  c1 = c1
  c2 = c2
  e1 = e1
  Manifests = {m1, m2}
  Sessions = {t1}
  Phrases = {p1, p2}
  Scores = {c1, c2}
  Assets = {e1}
  Requests = {r1, r2}
  Gate <- MCGate
  ProducedAt <- MCProducedAt
  Calibration <- MCCalibration
  Evidence <- MCEvidence
  SessionOf <- MCSessionOf
  PhraseKey <- MCPhraseKey
  Sequence <- MCSequence
  PhraseOf <- MCPhraseOf
  ScoreKey <- MCScoreKey
  TTL = 1
  MaxClock = 2
SPECIFICATION Spec
INVARIANT
  PublishedStaysPublished
CHECK_DEADLOCK FALSE
