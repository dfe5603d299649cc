\* Two workers with one job, one late request, two failing calls.
CONSTANTS
  Workers = {w1, w2}
  Late = {l1}
  Chunks = 2
  MaxStamp = 1
  MaxFaults = 2
  Blobs <- MCBlobs
SPECIFICATION Spec
INVARIANTS
  TypeOK
  IdenticalRunsConverge
  RefusalsAreJustified
PROPERTIES
  AuthorizedModelIntact
  RunsComeThrough
CHECK_DEADLOCK FALSE
