SPECIFICATION FairSpec
CONSTANTS
  Tenants = {t1, t2}
  Keys = {k1, k2}
  Providers = {psp, otherPsp}
  Refs = {r1, r2}
  t1 = t1
  t2 = t2
  k1 = k1
  k2 = k2
  psp = psp
  otherPsp = otherPsp
  r1 = r1
  r2 = r2
  NoProvider = NoProvider
  NoRef = NoRef
  NoCommand = NoCommand
  NoWorker = NoWorker
  NoEvent = NoEvent
  Provider = psp
  Commands <- OneSettlement
  Heard = {TRUE}
  JournalIds = {j1}
  Workers = {w1, w2}
  MaxAttempts = 2
  BatchSize = 1
  Verdicts = {"accepted", "settled", "rejected", "reversed"}
  Bodies = {"b1"}
  Echoes = {"same"}
  MaxStalls = 2
PROPERTY EventuallyDispatched
PROPERTY BooksConverge
