CONSTANTS
  Events = {e1, e2, e3, e4}
  Sealers = {s1, s2}
  Limit = 2
  DamageBound = 2
  AbortBound = 1
SPECIFICATION ChainSpec
CHECK_DEADLOCK FALSE
SYMMETRY Symmetry
INVARIANT ReportIsTrue
