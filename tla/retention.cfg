\* One song, one asset and one phrase; one upload at a time races two maintenance workers, one of which may crash.
CONSTANTS
  s1 = s1
  a1 = a1
  p1 = p1
  Songs = {s1}
  Assets = {a1}
  Phrases = {p1}
  SongOf <- MCSongOf
  Handlers = {h1}
  Workers = {w1, w2}
  RetryLimit = 1
  MaxCrashes = 1
  NoKey = NoKey
SPECIFICATION Spec
INVARIANTS
  TypeOK
  NoOrphan
  PurgeAfterErasure
  VerdictMatchesTasks
PROPERTIES
  CleanupAfterTombstone
  SettledForGood
  LateObjectsAreStale
  ErasurePromise
