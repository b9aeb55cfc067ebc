------------------------- MODULE ChargebackDetector -------------------------
(***************************************************************************)
(* chargeback-fraud-detector: card transactions and disputes are stored    *)
(* per tenant, and every analysis counts what is stored and leaves a risk  *)
(* decision behind.  A handler runs its SQL statements one by one, with no *)
(* transaction around them: each statement is a step here, requests        *)
(* interleave between statements, and any statement may fail and leave the *)
(* rows written before it.                                                 *)
(*                                                                         *)
(* A row is named by the request that wrote it.  Scores and likelihoods    *)
(* are in hundredths.                                                      *)
(***************************************************************************)
EXTENDS Integers, FiniteSets, Sequences, FiniteSetsExt

CONSTANTS
  Tenants, Customers, Merchants, Transactions, DisputeIds, Roles,
  RequiredRoles,         \* KEYCLOAK_REQUIRED_ROLES
  Amounts, StoredAs,     \* StoredAs[a]: a rounded to the cents of the column
  HighValue,             \* the amounts of at least highValueThreshold
  Requests,              \* the requests that may arrive
  Ages,                  \* the ages of a dispute that are told apart, in days
  StoredPayments, StoredDisputes,  \* the rows of earlier days
  NoRow,
  Ageing,                \* bound: the disputes old enough to leave the windows
  MaxCalls,              \* bound: requests received
  MaxFailures,           \* bound: requests that fail
  Concurrency            \* bound: requests in flight

(* What Keycloak's introspection tells of a bearer token.                  *)
Token == [active : BOOLEAN, roles : SUBSET Roles, tenant : Tenants \cup {NoRow}]

Kinds == {"risk", "predict", "friendly", "abuse", "dispute", "customer", "merchant"}

(* transactionRequest, disputeRequest, abuseRequest and the two look-ups in *)
(* one record.  window is the days an abuse check looks back, brief a      *)
(* description under 20 characters.                                        *)
Request ==
  [kind : Kinds, tenant : Tenants, token : Token, customer : Customers,
   merchant : Merchants, txn : Transactions, amount : Amounts, foreign : BOOLEAN,
   dispute : DisputeIds, brief : BOOLEAN, window : 1..3650]

Payment == [customer : Customers, merchant : Merchants, amount : Amounts, foreign : BOOLEAN]

StoredPayment == {p \in Payment : StoredAs[p.amount] = p.amount}

Dispute ==
  [customer : Customers, txn : Transactions, age : Ages,
   status : {"under_review", "high_risk_review"}]

ConstantsAssumption ==
  /\ Requests \subseteq Request
  /\ IsFiniteSet(Transactions) /\ IsFiniteSet(DisputeIds)
  /\ NoRow \notin Payment \cup Dispute /\ Ageing \subseteq DisputeIds
  /\ {0, 366} \subseteq Ages /\ Ages \subseteq 0..366
  /\ StoredAs \in [Amounts -> Amounts] /\ \A a \in Amounts : StoredAs[StoredAs[a]] = StoredAs[a]
  /\ HighValue \subseteq Amounts
  /\ StoredPayments \in [Tenants \X Transactions -> StoredPayment \cup {NoRow}]
  /\ StoredDisputes \in [Tenants \X DisputeIds -> Dispute \cup {NoRow}]
  /\ \A d \in Tenants \X DisputeIds :
       LET row == StoredDisputes[d]
       IN row # NoRow => /\ StoredPayments[<<d[1], row.txn>>] # NoRow
                         /\ StoredPayments[<<d[1], row.txn>>].customer = row.customer
  /\ {MaxCalls, MaxFailures} \subseteq Nat /\ Concurrency \in Nat \ {0}

CallIds == 1..MaxCalls

VARIABLES
  payments,    \* chargeback_transactions
  disputes,    \* dispute_records
  cases,       \* friendly_fraud_cases
  patterns,    \* chargeback_abuse_patterns
  decisions,   \* chargeback_risk_decisions
  calls        \* the requests, and where their handlers stand

vars == <<payments, disputes, cases, patterns, decisions, calls>>

Stages == {"persist", "exists", "count", "record", "decide"}
Ends == {"done", "forbidden", "conflict", "missing", "error"}

Verdicts ==
  {"none", "critical", "high", "medium", "low",
   "approve", "step_up_verification", "decline_or_manual_review",
   "friendly_fraud", "no_friendly_fraud", "abuse", "no_abuse",
   "escalate_for_fraud_review", "request_additional_evidence",
   "continue_standard_dispute_review"}

(* own and other: what the handler counted; seen: the disputes stored for *)
(* the customer when the request began.                                    *)
Call ==
  [req : Requests, at : Stages \cup Ends, own : Nat, other : Nat,
   verdict : Verdicts, seen : SUBSET DisputeIds]

-----------------------------------------------------------------------------
(* What a statement sees.                                                  *)

DisputesOf(tenant, customer, age) ==
  {d \in DisputeIds : LET row == disputes[<<tenant, d>>]
                      IN row # NoRow /\ row.customer = customer /\ row.age <= age}

(* The join of disputes with the merchant's transactions.                  *)
MerchantDisputes(tenant, merchant, age) ==
  {d \in DisputeIds : LET row == disputes[<<tenant, d>>]
                      IN /\ row # NoRow /\ row.age <= age
                         /\ payments[<<tenant, row.txn>>] # NoRow
                         /\ payments[<<tenant, row.txn>>].merchant = merchant}

CasesOf(tenant, customer) ==
  {k \in cases : calls[k].req.tenant = tenant /\ calls[k].req.customer = customer}

(* The decisions whose subject is the customer: those of its abuse checks. *)
DecisionsAbout(tenant, customer) ==
  {k \in decisions : /\ calls[k].req.kind = "abuse"
                     /\ calls[k].req.tenant = tenant /\ calls[k].req.customer = customer}

-----------------------------------------------------------------------------
(* The scores.                                                             *)

Least(a, b) == IF a <= b THEN a ELSE b
Points(holds, points) == IF holds THEN points ELSE 0

TransactionRisk(req, own, other) ==
  Least(100, Points(req.amount \in HighValue, 25) + Points(req.foreign, 15)
             + Least(35, 10 * own) + Least(25, 5 * other))

RiskLevel(score) ==
  CASE score >= 70 -> "critical" [] score >= 50 -> "high"
    [] score >= 30 -> "medium" [] OTHER -> "low"

(* is_friendly_fraud.  The confidence is a float64 sum: one combination    *)
(* that adds up to 0.55 on paper comes out at 0.5499999999999999.          *)
FriendlyFraud(req, own, other) ==
  LET high == req.amount \in HighValue
  IN /\ 5 + Least(45, 12 * own) + Least(35, 18 * other)
          + Points(high, 15) + Points(req.foreign, 5) >= 55
     /\ ~ (own = 0 /\ other >= 2 /\ high /\ ~ req.foreign)

AbuseThreshold(window) == IF window <= 30 THEN 3 ELSE IF window <= 180 THEN 5 ELSE 8

RatioScore(actual, threshold) == Least(100, (actual * 100) \div threshold)

Likelihood(req, own) == Least(95, Least(95, 10 + 12 * own) + Points(req.brief, 10))

DisputeStatus(likelihood) ==
  IF likelihood >= 70 THEN "high_risk_review" ELSE "under_review"

(* Mutant of Graded: the lower limit is asked first.                       *)
GradedFromBelow(score, severe, middle, mild) ==
  CASE score >= 35 -> severe [] OTHER -> mild

Graded(score, severe, middle, mild) ==
  CASE score >= 70 -> severe [] score >= 35 -> middle [] OTHER -> mild

Verdict(req, own, other) ==
  CASE req.kind = "risk" -> RiskLevel(TransactionRisk(req, own, other))
    [] req.kind = "predict" ->
         Graded(TransactionRisk(req, own, other),
                "decline_or_manual_review", "step_up_verification", "approve")
    [] req.kind = "friendly" ->
         IF FriendlyFraud(req, own, other) THEN "friendly_fraud" ELSE "no_friendly_fraud"
    [] req.kind = "abuse" -> IF own >= AbuseThreshold(req.window) THEN "abuse" ELSE "no_abuse"
    [] req.kind = "dispute" ->
         Graded(Likelihood(req, own), "escalate_for_fraud_review",
                "request_additional_evidence", "continue_standard_dispute_review")
    [] OTHER -> RiskLevel(other)

(* getCustomerRiskScore: the average of the decisions and 5 for each,      *)
(* rounded to the nearest.                                                 *)
CustomerRisk(tenant, customer) ==
  LET about == DecisionsAbout(tenant, customer)
      n == Cardinality(about)
      score(k) == RatioScore(calls[k].own, AbuseThreshold(calls[k].req.window))
      total == MapThenSumSet(score, about)
  IN IF n = 0 THEN 0 ELSE Least(100, (2 * (total + 5 * n * n) + n) \div (2 * n))

(* getMerchantRiskScore: disputes per hundred transactions.                *)
MerchantRisk(tenant, merchant) ==
  LET sold == {t \in Transactions : /\ payments[<<tenant, t>>] # NoRow
                                    /\ payments[<<tenant, t>>].merchant = merchant}
      n == Cardinality(sold)
      m == Cardinality(MerchantDisputes(tenant, merchant, 366))
  IN IF n = 0 THEN 0 ELSE Least(100, (200 * m + n) \div (2 * n))

-----------------------------------------------------------------------------
Init ==
  /\ payments = StoredPayments
  /\ disputes = StoredDisputes
  /\ cases = {} /\ patterns = {} /\ decisions = {}
  /\ calls = [c \in {} |-> NoRow]

InFlight == {c \in DOMAIN calls : calls[c].at \in Stages}

(* The statements of each handler, in their order.                         *)
AnalyzeTransaction == <<"persist", "count", "decide">>
DetectFriendlyFraud == <<"persist", "count", "record", "decide">>
DetectChargebackAbuse == <<"count", "record", "decide">>
PredictChargeback == <<"persist", "count", "decide">>
AnalyzeDispute == <<"exists", "count", "record", "decide">>
GetRiskScore == <<"count">>

Statements ==
  [risk |-> AnalyzeTransaction, friendly |-> DetectFriendlyFraud,
   abuse |-> DetectChargebackAbuse, predict |-> PredictChargeback,
   dispute |-> AnalyzeDispute, customer |-> GetRiskScore, merchant |-> GetRiskScore]

After(call) ==
  LET todo == Statements[call.req.kind]
  IN IF call.at = todo[Len(todo)] THEN "done"
     ELSE todo[1 + CHOOSE i \in 1..Len(todo) : todo[i] = call.at]

Introspected(token) == token.active

Authorized(token) == token.roles \cap RequiredRoles # {}

(* authenticate, then tenantMatches: the tenant of the token is the only   *)
(* one a request may name.                                                 *)
Authenticated(token) == Introspected(token) /\ Authorized(token) /\ token.tenant # NoRow

TenantMatches(req) == req.tenant = req.token.tenant

Receive(req) ==
  LET c == Cardinality(DOMAIN calls) + 1
      call == [req |-> req, own |-> 0, other |-> 0, verdict |-> "none",
               seen |-> DisputesOf(req.tenant, req.customer, 366),
               at |-> IF Authenticated(req.token) /\ TenantMatches(req)
                      THEN Statements[req.kind][1] ELSE "forbidden"]
  IN /\ c \in CallIds /\ Cardinality(InFlight) < Concurrency
     /\ calls' = [k \in 1..c |-> IF k = c THEN call ELSE calls[k]]
     /\ UNCHANGED <<payments, disputes, cases, patterns, decisions>>

MoveTo(c, stage) == calls' = [calls EXCEPT ![c].at = stage]
MoveOn(c) == MoveTo(c, After(calls[c]))

(* persistTransaction.  INSERT .. ON CONFLICT DO NOTHING, then the row     *)
(* that is there, which never changes, is compared with the request.       *)
(* Mutant of SameFacts: the parties are compared and the money is not.     *)
SameParties(row, req) == row.customer = req.customer /\ row.merchant = req.merchant

(* Mutant of SameFacts: a row that is there is a conflict.                 *)
NeverSame(row, req) == FALSE

SameFacts(row, req) ==
  /\ row.customer = req.customer /\ row.merchant = req.merchant
  /\ row.amount = req.amount /\ row.foreign = req.foreign

(* Mutant of NewPayment: the column would keep every decimal.              *)
UnroundedPayment(req) ==
  [customer |-> req.customer, merchant |-> req.merchant,
   amount |-> req.amount, foreign |-> req.foreign]

NewPayment(req) ==
  [customer |-> req.customer, merchant |-> req.merchant,
   amount |-> StoredAs[req.amount], foreign |-> req.foreign]

Persist(c) ==
  LET req == calls[c].req
      row == payments[<<req.tenant, req.txn>>]
  IN /\ calls[c].at = "persist"
     /\ \/ /\ row = NoRow
           /\ payments' = [payments EXCEPT ![<<req.tenant, req.txn>>] = NewPayment(req)]
           /\ MoveOn(c)
        \/ /\ row # NoRow /\ SameFacts(row, req)
           /\ MoveOn(c)
           /\ UNCHANGED payments
        \/ /\ row # NoRow /\ ~ SameFacts(row, req)
           /\ MoveTo(c, "conflict")
           /\ UNCHANGED payments
     /\ UNCHANGED <<disputes, cases, patterns, decisions>>

(* analyzeDispute asks for the transaction of the tenant and the customer. *)
(* Mutant of TransactionOf: the customer is left out of the query.         *)
TransactionOfTenant(req) == payments[<<req.tenant, req.txn>>] # NoRow

TransactionOf(req) ==
  LET row == payments[<<req.tenant, req.txn>>] IN row # NoRow /\ row.customer = req.customer

LookForTransaction(c) ==
  /\ calls[c].at = "exists"
  /\ IF TransactionOf(calls[c].req) THEN MoveOn(c) ELSE MoveTo(c, "missing")
  /\ UNCHANGED <<payments, disputes, cases, patterns, decisions>>

(* lookupHistory and the counting queries of the other handlers.           *)
Window(req) == IF req.kind = "abuse" THEN req.window ELSE 365

(* Mutant of OwnCount: tenant_id is left out of the query.                 *)
CountOfAllTenants(req) ==
  Cardinality({d \in Tenants \X DisputeIds : d[2] \in DisputesOf(d[1], req.customer, Window(req))})

OwnCount(req) ==
  Cardinality(DisputesOf(req.tenant, req.customer, Window(req)))

OtherCount(req) ==
  CASE req.kind = "friendly" -> Cardinality(CasesOf(req.tenant, req.customer))
    [] req.kind \in {"risk", "predict"} ->
         Cardinality(MerchantDisputes(req.tenant, req.merchant, 365))
    [] req.kind = "merchant" -> MerchantRisk(req.tenant, req.merchant)
    [] req.kind = "customer" -> CustomerRisk(req.tenant, req.customer)
    [] OTHER -> 0

Count(c) ==
  LET req == calls[c].req
      own == OwnCount(req)
      other == OtherCount(req)
  IN /\ calls[c].at = "count"
     /\ calls' = [calls EXCEPT ![c].own = own, ![c].other = other,
                               ![c].verdict = Verdict(req, own, other),
                               ![c].at = After(calls[c])]
     /\ UNCHANGED <<payments, disputes, cases, patterns, decisions>>

(* Every friendly-fraud analysis inserts a case, whatever its verdict.     *)
RecordCase(c) ==
  /\ calls[c].at = "record" /\ calls[c].req.kind = "friendly"
  /\ cases' = cases \cup {c}
  /\ MoveOn(c)
  /\ UNCHANGED <<payments, disputes, patterns, decisions>>

RecordPattern(c) ==
  /\ calls[c].at = "record" /\ calls[c].req.kind = "abuse"
  /\ patterns' = patterns \cup {c}
  /\ MoveOn(c)
  /\ UNCHANGED <<payments, disputes, cases, decisions>>

(* The upsert of a dispute: a row that is there keeps its transaction, its *)
(* customer and its date and takes the new status.                         *)
RecordDispute(c) ==
  LET req == calls[c].req
      status == DisputeStatus(Likelihood(req, calls[c].own))
      row == disputes[<<req.tenant, req.dispute>>]
      upserted == IF row = NoRow
                  THEN [customer |-> req.customer, txn |-> req.txn, age |-> 0, status |-> status]
                  ELSE [row EXCEPT !.status = status]
  IN /\ calls[c].at = "record" /\ req.kind = "dispute"
     /\ disputes' = [disputes EXCEPT ![<<req.tenant, req.dispute>>] = upserted]
     /\ MoveOn(c)
     /\ UNCHANGED <<payments, cases, patterns, decisions>>

(* persistDecision, then the answer.                                       *)
Decide(c) ==
  /\ calls[c].at = "decide"
  /\ decisions' = decisions \cup {c}
  /\ MoveOn(c)
  /\ UNCHANGED <<payments, disputes, cases, patterns>>

(* A statement fails or the ten seconds are over: 500, nothing undone.     *)
Fail(c) ==
  /\ calls[c].at \in Stages
  /\ Cardinality({k \in DOMAIN calls : calls[k].at = "error"}) < MaxFailures
  /\ MoveTo(c, "error")
  /\ UNCHANGED <<payments, disputes, cases, patterns, decisions>>

(* Time passes over the counting windows.                                  *)
Age(tenant, d) ==
  /\ disputes[<<tenant, d>>] # NoRow /\ disputes[<<tenant, d>>].age < 366
  /\ disputes' = [disputes EXCEPT ![<<tenant, d>>].age = Min({a \in Ages : a > @})]
  /\ UNCHANGED <<payments, cases, patterns, decisions, calls>>

Next ==
  \/ \E req \in Requests : Receive(req)
  \/ \E c \in DOMAIN calls :
       \/ Persist(c) \/ LookForTransaction(c) \/ Count(c)
       \/ RecordCase(c) \/ RecordPattern(c) \/ RecordDispute(c) \/ Decide(c) \/ Fail(c)
  \/ \E tenant \in Tenants, d \in Ageing : Age(tenant, d)

Spec == Init /\ [][Next]_vars

-----------------------------------------------------------------------------
(* Properties.                                                             *)

(* The rows have the columns' types, a row belongs to a request that wrote *)
(* it and was allowed to (the tables of chargeback_fraud_schema.sql).      *)
TypeOK ==
  /\ payments \in [Tenants \X Transactions -> StoredPayment \cup {NoRow}]
  /\ disputes \in [Tenants \X DisputeIds -> Dispute \cup {NoRow}]
  /\ \A c \in DOMAIN calls : calls[c] \in Call
  /\ cases \cup patterns \cup decisions \subseteq {c \in DOMAIN calls : calls[c].at # "forbidden"}

(* Two requests that name one transaction with different facts never both  *)
(* decide: every decision about a transaction was computed from the row    *)
(* that is stored, up to the cents (persistTransaction's idempotency).     *)
Facts(req) == <<req.customer, req.merchant, StoredAs[req.amount], req.foreign>>

DecidedFromStoredFacts ==
  \A c \in decisions :
    LET req == calls[c].req
        row == payments[<<req.tenant, req.txn>>]
    IN req.kind \in {"risk", "predict", "friendly"} => row # NoRow /\ Facts(row) = Facts(req)

(* A transaction is refused only when another request, or an earlier day,  *)
(* named it with other facts: an exact repetition is taken up again, unless*)
(* its amount has more decimals than the column keeps.                     *)
ConflictsAreReal ==
  \A c \in DOMAIN calls :
    LET req == calls[c].req
    IN calls[c].at = "conflict" =>
         \/ StoredAs[req.amount] # req.amount
         \/ StoredPayments[<<req.tenant, req.txn>>] # NoRow
         \/ \E k \in DOMAIN calls :
              /\ calls[k].req.tenant = req.tenant /\ calls[k].req.txn = req.txn
              /\ Facts(calls[k].req) # Facts(req)

(* A dispute names a stored transaction of its tenant and its customer,    *)
(* through upserts that name another transaction or another customer.      *)
DisputesNameTheirTransaction ==
  \A tenant \in Tenants, d \in DisputeIds :
    LET row == disputes[<<tenant, d>>]
    IN row # NoRow => /\ payments[<<tenant, row.txn>>] # NoRow
                      /\ payments[<<tenant, row.txn>>].customer = row.customer

(* What a decision counted: every dispute that was stored when its request *)
(* began and is still recent, and none that its tenant did not store for   *)
(* that customer, a repeated analysis of one dispute counting once.        *)
CountsAreHonest ==
  \A c \in DOMAIN calls :
    LET req == calls[c].req
        counted == req.kind # "customer" /\ calls[c].verdict # "none"
    IN counted =>
         /\ Cardinality(calls[c].seen \cap DisputesOf(req.tenant, req.customer, Window(req)))
              <= calls[c].own
         /\ calls[c].own <= Cardinality(DisputesOf(req.tenant, req.customer, 366))

(* What a severe verdict needs, however requests repeat and interleave.    *)
(* Repeated friendly-fraud analyses make cases, and cases make a verdict:  *)
(* without a dispute only from the third analysis of the customer, for a   *)
(* high and foreign amount.  A prediction declines nothing before the      *)
(* second dispute, and an escalated dispute is at least the fifth.         *)
SevereVerdictsHaveGrounds ==
  \A c \in DOMAIN calls :
    LET req == calls[c].req
        own == DisputesOf(req.tenant, req.customer, 366)
        theirs == MerchantDisputes(req.tenant, req.merchant, 366)
    IN /\ calls[c].verdict = "friendly_fraud" =>
            \/ own # {}
            \/ /\ Cardinality(CasesOf(req.tenant, req.customer) \ {c}) >= 2
               /\ req.amount \in HighValue /\ req.foreign
       /\ calls[c].verdict = "decline_or_manual_review" => Cardinality(own \cup theirs) >= 2
       /\ calls[c].verdict = "escalate_for_fraud_review" => Cardinality(own) >= 5

(* persistTransaction both ways: requests that decide about a transaction  *)
(* agree on its facts, and one that agrees is not refused.                 *)
RequestsAreIdempotent == DecidedFromStoredFacts /\ ConflictsAreReal

(* What is answered about a customer rests on rows of that customer: the   *)
(* counts, the disputes behind them and the grounds of a severe verdict.   *)
VerdictsRestOnRecords ==
  DisputesNameTheirTransaction /\ CountsAreHonest /\ SevereVerdictsHaveGrounds

=============================================================================
