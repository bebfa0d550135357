CONSTANTS
  Requests = {r1, r2}
  MaxTurns = 3
  MaxTries = 4
  Kinds = {"name", "emailQ", "phone", "details", "callMe", "emailOnly", "bye"}
  Labels = {"question"}
  WithId = {2}
  Known = {"new", "named"}
  GateOn = TRUE
  TurnCap = 1
  FaultBound = 1
SPECIFICATION Spec
CONSTRAINT OverlapEarly
SYMMETRY Symmetry
CHECK_DEADLOCK FALSE
INVARIANTS
  ConsentFollowsDisclosure
  CapHolds
  ToldIsStored
  EvidenceKept
