\* ADR 0004: raw-audio TTL removes the audio object.
CONSTANTS
  s1 = s1
  a1 = a1
  p1 = p1
  Songs = {s1}
  Assets = {}
  Phrases = {p1}
  SongOf <- MCSongOf
  Handlers = {h1, h2}
  Workers = {w1}
  RetryLimit = 1
  MaxCrashes = 0
  NoKey = NoKey
SPECIFICATION Spec
INVARIANT
  ExpiredAudioIsErased
