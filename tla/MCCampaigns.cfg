CONSTANTS
  c1 = c1
  p1 = p1
  k1 = k1
  NoTask = NoTask
  Contacts = {c1}
  Plans = {p1}
  Tasks = {t1}
  Workers = {w1}
  CallTasks = {t1}
  ContactOf <- MCContactOf
  PlanOf <- MCPlanOf
  Campaign = {k1}
  CampaignOf <- MCCampaignOf
  MaxAttempts = 1
  AttemptBound = 1
  BatchBound = 1
SPECIFICATION CFairSpec
CHECK_DEADLOCK FALSE
INVARIANT StoppedCampaignIsQuiet
PROPERTY EndedCampaignStops
