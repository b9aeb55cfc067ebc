SPECIFICATION Spec
CONSTANTS
  Services = {"chargeback", "insider", "aml", "sim-swap", "crypto", "investment", "takeover"}
  NoRow = NoRow
  ta = ta
  tb = tb
  ca = ca
  cb = cb
  m1 = m1
  t1 = t1
  t2 = t2
  d1 = d1
  d2 = d2
  d3 = d3
  d4 = d4
  d5 = d5
  e1 = e1
  e2 = e2
  vault = vault
  wiki = wiki
  h1 = h1
  h2 = h2
  h3 = h3
  a1 = a1
  r1 = r1
  n1 = n1
  n2 = n2
  u1 = u1
  home = home
  abroad = abroad
  w1 = w1
  s1 = s1
  ngn = ngn
  p1 = p1
  p2 = p2
  i1 = i1
  i2 = i2
  g1 = g1
  g2 = g2
  q1 = q1
  q2 = q2
  v1 = v1
  x1 = x1
  x2 = x2
  u2 = u2
  l1 = l1
  l2 = l2
  h4 = h4
  Concurrency = 2
  MaxFailures = 1
  Tenants = {ta, tb}
  Roles = {"admin", "viewer"}
  RequiredRoles = {"admin"}
  Users = {u1}
  Transactions = {t1, t2}
  Customers = {ca, cb}
  Merchants = {m1}
  DisputeIds = {d1, d2, d3, d4, d5}
  Amounts = {"low", "high", "edge"}
  StoredAs <- ToCents
  HighValue = {"high", "edge"}
  CardRequests <- SomeCardRequests
  DisputeAges = {0, 366}
  StoredPayments <- OldPayments
  StoredDisputes <- OldDisputes
  Ageing = {d3}
  MaxCardCalls = 3
  Employees = {e1, e2}
  Resources = {vault, wiki}
  Addresses = {h1, h2, h3, h4}
  Privileged = {vault}
  StaffRequests <- SomeStaffRequests
  StaffLog <- SomeStaffLog
  MaxStaffCalls = 3
  Clients = {a1}
  SARs = {r1}
  Entities = {n1, n2}
  Types = {"individual", "organization"}
  Sanctioned <- SomeSanctioned
  Limit = 1
  AMLRequests <- SomeAMLRequests
  MaxAMLCalls = 3
  Locations = {home, abroad}
  Swaps <- SomeSwaps
  Accesses <- SomeAccesses
  AccessLog <- SomeAccessLog
  Devices <- SomeDevices
  UsualLocations = 1
  FrequentSwaps = 1
  Today = 0
  MaxSwapCalls = 2
  MaxAccesses = 1
  NewUsers = {}
  Wallets = {w1}
  Sellers = {s1}
  Currencies = {ngn}
  TradeIds = {p1, p2}
  WalletRequests <- SomeWalletRequests
  WalletLedger <- SomeLedger
  Trades <- SomeTrades
  Blacklist = {}
  KnownAfter = 2
  BusyDay = 3
  BusyHour = 0
  BusyP2P = 1
  MaxWalletCalls = 3
  Schemes = {i1, i2}
  Names = {g1, g2}
  Promoters = {q1, q2}
  Registered = {g1, q2}
  Losers = {}
  Investors = {v1}
  SchemeRequests <- SomeSchemeRequests
  MaxSchemeCalls = 3
  LoginUsers = {u1, u2}
  LoginDevices = {l1, l2}
  Cities = {home, abroad}
  Fingerprints = {x1, x2}
  Distance <- Kilometres
  ManyLogins = 20
  LoginRequests <- SomeLoginRequests
  StoredLogins <- SomeLogins
  StoredFingerprints <- SomeFingerprints
  StoredAttempts <- SomeAttempts
  MaxLoginCalls = 3
INVARIANTS
  TypeOK
  RequestsAreIdempotent
  VerdictsRestOnRecords
  
  AnswersStand
  BlocksMatchEvidence
  RecordsAreHeeded
  CondemnedSchemesStayKnown
  
CHECK_DEADLOCK FALSE
