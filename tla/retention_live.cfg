\* Liveness: two workers share the tasks of one song, and each task may fail once before it is exhausted.
CONSTANTS
  s1 = s1
  a1 = a1
  p1 = p1
  Songs = {s1}
  Assets = {}
  Phrases = {p1}
  SongOf <- MCSongOf
  Handlers = {h1}
  Workers = {w1, w2}
  RetryLimit = 2
  MaxCrashes = 0
  NoKey = NoKey
SPECIFICATION Spec
PROPERTIES
  DeletionSettles
  ExpiryReachesPhrase
