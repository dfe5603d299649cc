SPECIFICATION Spec
CONSTANTS
  ScoringPolicy <- MCScoringPolicy
  FeaturePolicy <- MCFeaturePolicy
  IngestPolicy <- MCIngestPolicy
  Octave <- MCOctave
  LongTone <- MCLongTone
  Million <- MCMillion
  Analyses <- MCAnalyses
  Manifests <- MCManifests
  Jobs <- MCJobs
INVARIANTS
  ScoreIsWellFormed
  LeakedFramesDoNotCount
  RegionsAreIndependent
  PerformanceIsRecognised
  AlignmentErrorIsBounded
  AcceptedSongIsScorable
CHECK_DEADLOCK FALSE
