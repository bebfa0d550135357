SPECIFICATION Spec
CONSTANTS
  Requests = {r1, r2}
  Forms = {f1}
  Uuids = {u1}
  Slots = {1, 2}
  NoEvent = NoEvent
  FaultBound = 1
CONSTRAINT CalendlyAlone
SYMMETRY RequestSymmetry
CHECK_DEADLOCK FALSE
INVARIANTS CalendarAgrees MoveKeepsABooking CalendlyCancelSticks
PROPERTIES OutcomeSticks IsAgenda
