CONSTANTS
  DayLength = 3
  CallOpen = 1
  CallClose = 3
  MailOpen = 1
  MailClose = 2
  Gap = 3
  MaxTouches = 3
  MaxCallAttempts = 2
  MailAttempts = 1
  StepGap = 3
  EarlierTouches = {0, 1}
  EarlierCalls = {1}
  BatchSpan = 1
  HoldBound = 1
SPECIFICATION FairSpec
CHECK_DEADLOCK FALSE
PROPERTIES
  PlanFollowsPolicy
  FollowUpsAreSpaced
  CallsRingWithinBatch
  StepLeavesQueue
