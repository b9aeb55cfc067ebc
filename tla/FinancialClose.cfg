SPECIFICATION Spec
CONSTANTS
  i1 = i1
  i2 = i2
  t1 = t1
  ref1 = ref1
  ref2 = ref2
  alice = alice
  bob = bob
  Items = {i1}
  Tenants = {t1}
  TenantOf <- OneTenant
  RefOf <- FirstReferenced
  ValueOf <- TenDollars
  CurrencyOf <- InUSD
  Actors = {alice, bob}
  Refs = {ref1, ref2}
  Values = {9, 10}
  Currencies = {"USD", "EUR"}
  Scales = {2, 6}
  NoRef = NoRef
  NoRun = NoRun
  NoClose = NoClose
  NoActor = NoActor
  RunIds = {1, 2}
  Statements <- DatedStatements
  Periods <- FirstTwoDays
  MaxDay = 3
  MaxTrail = 5
  Reported = {}
CHECK_DEADLOCK FALSE
INVARIANT TypeOK
INVARIANT TrailTellsTheStory
INVARIANT SealedSnapshotIsComplete
PROPERTY ClosedOverIndependentReview
