\* One reminder and one confirmation, two processes, one retry, one fault.
CONSTANTS
  Keys = {r1, b1}
  Offsets = {r1}
  Sinks = {"log", "notification", "unknown"}
  Workers = {w1, w2}
  NoKey = NoKey
  MaxRetries = 1
  FaultBound = 1
SPECIFICATION FairReminderSpec
CHECK_DEADLOCK FALSE
INVARIANTS
  CopiesAccounted
  SentReminderIsDispatched
PROPERTIES
  NotificationSettles
  ReminderSettles
