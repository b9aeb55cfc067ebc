SPECIFICATION Spec
CONSTANTS
  Tenants = {t1, t2}
  Keys = {k1, k2}
  Providers = {psp, otherPsp}
  Refs = {r1, r2}
  t1 = t1
  t2 = t2
  k1 = k1
  k2 = k2
  psp = psp
  otherPsp = otherPsp
  r1 = r1
  r2 = r2
  NoProvider = NoProvider
  NoRef = NoRef
  NoCommand = NoCommand
  NoWorker = NoWorker
  NoEvent = NoEvent
  Provider = psp
  Commands <- ForeignProvider
  Heard = {TRUE}
  JournalIds = {j1}
  Workers = {w1}
  MaxAttempts = 1
  BatchSize = 1
  Verdicts = {"accepted", "settled", "rejected"}
  Bodies = {"b1", "b2"}
  Echoes = {"same", "other"}
  MaxStalls = 1
INVARIANT BooksFollowProvider
PROPERTY ImplementsLifecycle
