---------------------------- MODULE MCDetectors ----------------------------
(***************************************************************************)
(* A small instance of the detectors: for each service the requests whose  *)
(* interleavings its properties are about, beside rows of earlier days     *)
(* that bring its counts next to their limits.                             *)
(***************************************************************************)
EXTENDS Detectors, TLC

CONSTANTS
  ta, tb, ca, cb, m1, t1, t2, d1, d2, d3, d4, d5,
  e1, e2, vault, wiki, h1, h2, h3,
  a1, r1, n1, n2, u1, home, abroad, w1, s1, ngn, p1, p2,
  i1, i2, g1, g2, q1, q2, v1, x1, x2, u2, l1, l2, h4

(* Chargebacks: cb has three disputes about t1 from earlier days.          *)
TokenOf(tenant) == [active |-> TRUE, roles |-> Roles, tenant |-> tenant]
Sale(kind, tenant, customer, txn, amount, foreign) ==
  [kind |-> kind, tenant |-> tenant, token |-> TokenOf(ta), customer |-> customer,
   merchant |-> m1, txn |-> txn, amount |-> amount, foreign |-> foreign,
   dispute |-> d5, brief |-> FALSE, window |-> 30]
Disputing(customer, dispute, brief) ==
  [Sale("dispute", ta, customer, t1, "low", FALSE) EXCEPT !.dispute = dispute, !.brief = brief]

SomeCardRequests ==
  {Sale("friendly", ta, ca, t2, "high", TRUE),
   Sale("predict", ta, ca, t2, "low", TRUE),
   Sale("risk", ta, ca, t2, "edge", TRUE),
   Disputing(cb, d4, FALSE), Disputing(cb, d5, TRUE), Disputing(ca, d4, TRUE),
   [Sale("abuse", tb, cb, t1, "low", FALSE) EXCEPT !.token = TokenOf(tb), !.window = 365]}
CardLookUps ==
  {Sale("abuse", ta, cb, t1, "low", FALSE), Sale("customer", ta, cb, t1, "low", FALSE),
   Sale("merchant", ta, cb, t1, "low", FALSE), Sale("merchant", tb, cb, t1, "low", FALSE)}

OldPayments ==
  [p \in Tenants \X Transactions |->
    IF p = <<ta, t1>>
    THEN [customer |-> cb, merchant |-> m1, amount |-> "high", foreign |-> TRUE] ELSE NoRow]
OldDisputes ==
  [p \in Tenants \X DisputeIds |->
    IF p[1] = ta /\ p[2] \in {d1, d2, d3}
    THEN [customer |-> cb, txn |-> t1, age |-> 0, status |-> "under_review"] ELSE NoRow]
ToCents == [a \in Amounts |-> IF a = "edge" THEN "high" ELSE a]

(* Insiders: e1 has used the vault four times, from three addresses.       *)
Done(kind, employees, resource) ==
  [kind |-> kind, token |-> [active |-> TRUE, roles |-> Roles], header |-> ta, tenant |-> ta,
   employees |-> employees, resource |-> resource, address |-> h1, late |-> FALSE,
   lateUTC |-> FALSE, recent |-> TRUE, hours |-> 24, large |-> FALSE, external |-> FALSE]

SomeStaffRequests ==
  {[Done("transfer", <<e1>>, vault) EXCEPT !.large = TRUE],
   [Done("abuse", <<e1>>, vault) EXCEPT !.late = TRUE],
   [Done("abuse", <<e1>>, wiki) EXCEPT !.late = TRUE], Done("collusion", <<e1, e2>>, vault),
   Done("access", <<e2>>, wiki), Done("unusual", <<e1>>, vault), Done("risk", <<e1>>, vault),
   [Done("risk", <<e1>>, vault) EXCEPT !.header = tb]}

Used(employee, resource, address) ==
  [tenant |-> ta, employee |-> employee, resource |-> resource, address |-> address,
   lateUTC |-> FALSE, recent |-> TRUE]
SomeStaffLog ==
  <<Used(e1, vault, h1), Used(e1, vault, h2), Used(e1, vault, h3), Used(e1, vault, h1),
    Used(e2, vault, h1), Used(e1, wiki, h1)>>

(* AML.                                                                    *)
Sent(kind) ==
  [kind |-> kind, client |-> a1, token |-> TRUE, sar |-> r1, txns |-> <<t1, t2>>,
   entity |-> n1, type |-> "individual", usable |-> TRUE]
SomeAMLRequests ==
  {Sent("file"), Sent("generate"), Sent("sanctions"),
   [Sent("sanctions") EXCEPT !.type = "organization"],
   [Sent("sanctions") EXCEPT !.type = "organization", !.entity = n2]}
AnalysisRequests == {Sent("batch"), Sent("score"), Sent("funds")}
FilingRequests == {Sent("generate"), Sent("file"), [Sent("file") EXCEPT !.usable = FALSE]}
SomeSanctioned == {<<n1, "organization">>}

(* SIM swaps: one-time passwords failed at the edges of the hour.          *)
Did(type, success, location, when) ==
  [user |-> u1, type |-> type, success |-> success, location |-> location, when |-> when]
SomeSwaps ==
  {[user |-> u1, location |-> home, when |-> 0], [user |-> u1, location |-> abroad, when |-> 100]}
SomeAccesses == {Did("login", TRUE, home, 5), Did("transfer", TRUE, home, 159)}
SomeAccessLog ==
  <<Did("otp_request", FALSE, home, -60), Did("otp_request", FALSE, home, -1),
    Did("otp_request", FALSE, home, 0)>>
SomeDevices == {[user |-> u1, firstSeen |-> 2]}

(* Crypto: a seller with a disputed trade, and a batch of two.             *)
Moved(amount, platform) ==
  [user |-> u1, wallet |-> w1, amount |-> amount, platform |-> platform, age |-> "hour"]
Ask(kind) ==
  [kind |-> kind, token |-> TRUE, txns |-> << >>, wallet |-> w1, id |-> p2,
   trade |-> [seller |-> s1, currency |-> ngn, price |-> 9]]
SomeWalletRequests ==
  {[Ask("analyze") EXCEPT !.txns = <<Moved(4, "exchange"), Moved(12, "p2p")>>],
   Ask("verify"), Ask("blacklist")}
TradeRequests == {Ask("verify"), Ask("blacklist"), Ask("trade")}
SomeLedger == << >>
SomeTrades ==
  [id \in TradeIds |->
    IF id = p1 THEN [seller |-> s1, currency |-> ngn, price |-> 3, disputed |-> TRUE, today |-> TRUE]
    ELSE NoRow]

(* Investments: two schemes of one promoter, one of them registered, and   *)
(* another promoter's under the same id.                                   *)
Facts(name, promoter, returns, points) ==
  [name |-> name, promoter |-> promoter, returns |-> returns, points |-> points]
About(kind, scheme, facts) ==
  [kind |-> kind, token |-> TRUE, scheme |-> scheme, facts |-> facts, investor |-> v1,
   large |-> FALSE]
SomeSchemeRequests ==
  {About("analyze", i1, Facts(g1, q1, "high", 10)), About("analyze", i2, Facts(g2, q1, "high", 10)),
   About("analyze", i1, Facts(g2, q2, "low", 0)), About("risk", i1, Facts(g1, q1, "high", 10)),
   About("investor", i1, Facts(g1, q1, "high", 10))}

(* Takeovers: u1 has logged in at home from three addresses, u2 has the    *)
(* device that u1 is now seen with and has failed twice from its address.  *)
Seen(kind) ==
  [kind |-> kind, allowed |-> TRUE, tenant |-> ta, user |-> u1, device |-> l2, address |-> h4,
   city |-> abroad, time |-> 0, fingerprint |-> x1, failed |-> 4]
SomeLoginRequests ==
  {Seen("takeover"), Seen("login"), Seen("session"), Seen("travel"), Seen("device"),
   [Seen("device") EXCEPT !.fingerprint = x2], Seen("stuffing")}
Was(user, device, address, time) ==
  [tenant |-> ta, user |-> user, device |-> device, address |-> address, city |-> home,
   time |-> time, call |-> 0]
SomeLogins ==
  <<Was(u1, l1, h1, -30), Was(u1, l1, h2, -2), Was(u1, l1, h3, -1), Was(u2, l2, h1, -1)>>
SomeFingerprints ==
  <<[tenant |-> ta, user |-> u1, device |-> l1, fingerprint |-> x1, trusted |-> TRUE, call |-> 0]>>
SomeAttempts == <<[tenant |-> ta, user |-> u2, address |-> h4, failed |-> 2, call |-> 0]>>
Kilometres == [p \in Cities \X Cities |-> IF p[1] = p[2] THEN 0 ELSE 5000]

=============================================================================
