SPECIFICATION Spec
CONSTANTS
  Tenants = {t1, t2}
  Keys = {k1, k2}
  Providers = {psp, otherPsp}
  Refs = {r1, r2}
  t1 = t1
  t2 = t2
  k1 = k1
  k2 = k2
  psp = psp
  otherPsp = otherPsp
  r1 = r1
  r2 = r2
  NoProvider = NoProvider
  NoRef = NoRef
  NoCommand = NoCommand
  NoWorker = NoWorker
  NoEvent = NoEvent
  Provider = psp
  Commands <- ManyCommands
  Heard = {TRUE, FALSE}
  JournalIds = {j1, j2, j3}
  Workers = {}
  MaxAttempts = 1
  BatchSize = 1
  Verdicts = {}
  Bodies = {"b1"}
  Echoes = {"same"}
  MaxStalls = 0
INVARIANT TypeOK
 
INVARIANT AnswersNameTheCommand
