\* Two sessions, two songs, three asynchronous calls at a time.
CONSTANTS
  Runs = {r1, r2, r3}
  Takes = {t1, t2}
  MaxLoads = 2
  MaxDemos = 1
  None = None
SPECIFICATION Spec
INVARIANTS
  TypeOK
  MicIsOwned
  RecordingIsLive
  OneEntryPerTake
  DialogAwaitsCheck
PROPERTIES
  VerdictsAreCurrent
  AnswersMatchDisplay
  AnalysisEnds
  UnmountReleases
CHECK_DEADLOCK FALSE
