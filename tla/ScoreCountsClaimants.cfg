SPECIFICATION FairSpec
CONSTANTS
  Components = {"allocation"}
  NoRow = NoRow
  NoName = NoName
  NoDate = NoDate
  NoPolicy = NoPolicy
  jane = jane
  john = john
  u1 = u1
  u2 = u2
  j1 = j1
  ta = ta
  DefaultAttempts = 3
  NotificationAttempts = 5
  Persons = {jane, john}
  Lands <- SomeLands
  MaxRecordChanges = 2
  Bookers = {u1, u2}
  Inputs <- SomeInputs
  Directory <- SomeDirectory
  Slots <- SomeSlots
  ServedStates = {"Lagos"}
  MaxTime = 1
  MaxCalendarChanges = 1
  Plans <- SomePlans
  Endless = 4
  Callers = {u1, u2}
  JourneyIds = {j1}
  TenantIds = {ta}
  JourneyRequests <- SomeJourneyRequests
  Permitted <- SomePermitted
  WorkflowStatuses = {"completed", "review"}
  TTL = 1
  MaxSecond = 1
  MaxEvents = 3
  Parallel = 2
INVARIANT ScoreCountsClaimants
CHECK_DEADLOCK FALSE
