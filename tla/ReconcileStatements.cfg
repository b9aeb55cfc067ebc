SPECIFICATION Spec
CONSTANTS
  i1 = i1
  i2 = i2
  t1 = t1
  ref1 = ref1
  ref2 = ref2
  alice = alice
  bob = bob
  Items = {i1, i2}
  Tenants = {t1}
  TenantOf <- OneTenant
  RefOf <- FirstReferenced
  ValueOf <- TenDollars
  CurrencyOf <- InUSD
  Actors = {alice}
  Refs = {ref1, ref2}
  Values = {9, 10}
  Currencies = {"USD", "EUR"}
  Scales = {2, 6}
  NoRef = NoRef
  NoRun = NoRun
  NoClose = NoClose
  NoActor = NoActor
  RunIds = {1, 2}
  Statements <- ManyStatements
  Periods <- FirstDay
  MaxDay = 1
  MaxTrail = 0
  Reported = {"accepted", "settled"}
CHECK_DEADLOCK FALSE
 
PROPERTY CleanRunMeansAgreement
