CONSTANTS
  Docs = {d1, d2}
  Workers = {w1, w2}
  long = long
  empty = empty
  junk = junk
  Contents <- MCContents
  Bad = {junk}
  Size <- MCSize
  MaxChunks = 2
  NoDoc = NoDoc
  NoContent = NoContent
  MaxRetries = 1
  FaultBound = 1
SPECIFICATION FairSpec
CONSTRAINT OneDocument
CHECK_DEADLOCK FALSE
INVARIANTS
  VerdictIsTrue
  GoneLeavesNothing
PROPERTY DocumentSettles
