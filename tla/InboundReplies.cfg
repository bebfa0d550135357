\* One message of six kinds, two dispatchers, one of which may die, and one retry.
CONSTANTS
  Events = {e1}
  Workers = {w1, w2}
  NoEvent = NoEvent
  NoLabel = NoLabel
  MaxAttempts = 2
  BatchBound = 1
  CrashBound = 1
  StepsLeft = {{"call"}, {"email", "call"}}
  LabelSets = {{"bounce"}, {"unsubscribe"}, {"contact_later"}, {"no_emails"}, {"not_interested"}, {"book_meeting", "no_calls"}}
SPECIFICATION RepliesSpec
CHECK_DEADLOCK FALSE
INVARIANTS
  HandledOnce
  RecordIsTrue
  HollowPlanIsStopped
  RecordedIsClosed
PROPERTIES
  KeepsPromise
  EventSettles
