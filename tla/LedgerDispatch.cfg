SPECIFICATION Spec
CONSTANTS
  Tenants = {t1, t2}
  Keys = {k1, k2}
  Providers = {psp, otherPsp}
  Refs = {r1, r2}
  t1 = t1
  t2 = t2
  k1 = k1
  k2 = k2
  psp = psp
  otherPsp = otherPsp
  r1 = r1
  r2 = r2
  NoProvider = NoProvider
  NoRef = NoRef
  NoCommand = NoCommand
  NoWorker = NoWorker
  NoEvent = NoEvent
  Provider = psp
  Commands <- SharedKey
  Heard = {TRUE}
  JournalIds = {j1, j2}
  Workers = {w1, w2}
  MaxAttempts = 2
  BatchSize = 2
  Verdicts = {"accepted"}
  Bodies = {"b1"}
  Echoes = {"same"}
  MaxStalls = 1
SYMMETRY Symmetry
INVARIANT OutboxAgreesWithSettlement
INVARIANT PublishedWasExecuted
INVARIANT LeaseCountIsCurrent
INVARIANT AttemptsBounded
PROPERTY FinalRowsStay
PROPERTY LeaseRespected
