-------------------------- MODULE InsiderDetector --------------------------
(***************************************************************************)
(* insider-fraud-detector: the accesses and transfers of employees are     *)
(* logged, and each request is scored against what is logged.  A handler   *)
(* first stores its own row and then counts, so that of two requests at a  *)
(* time the later one to count sees both.  Only the event, the activity    *)
(* and the alert of a score share a transaction; insider_fraud_events and  *)
(* unusual_activities get their rows together and are one table here.      *)
(***************************************************************************)
EXTENDS Integers, FiniteSets, Sequences, FiniteSetsExt, SequencesExt

CONSTANTS
  Tenants, Employees, Resources, Addresses, Roles, RequiredRoles,
  Privileged,      \* the resources isPrivileged names
  Requests,        \* the requests that may arrive
  Logged,          \* the accesses that are logged already
  MaxCalls,        \* bound: requests received
  MaxFailures,     \* bound: requests that fail
  Concurrency      \* bound: requests in flight

Kinds == {"access", "unusual", "transfer", "abuse", "collusion", "risk"}

Token == [active : BOOLEAN, roles : SUBSET Roles]

(* accessEvent, unusualActivityRequest, dataExfiltrationRequest and        *)
(* collusionRequest in one record.  late: the hour is before 6 or after 22 *)
(* in the timestamp's own zone; lateUTC: it is so in UTC, which is what the*)
(* log keeps; recent: the timestamp, the caller's, is in the window.       *)
Request ==
  [kind : Kinds, token : Token, header : Tenants, tenant : Tenants,
   employees : Seq(Employees), resource : Resources, address : Addresses,
   late : BOOLEAN, lateUTC : BOOLEAN, recent : BOOLEAN,
   hours : 1..8760, large : BOOLEAN, external : BOOLEAN]

Access ==
  [tenant : Tenants, employee : Employees, resource : Resources, address : Addresses,
   lateUTC : BOOLEAN, recent : BOOLEAN]

ConstantsAssumption ==
  /\ Privileged \subseteq Resources
  /\ \A req \in Requests : req \in Request /\ req.employees # << >>
  /\ Logged \in Seq(Access)
  /\ {MaxCalls, MaxFailures} \subseteq Nat /\ Concurrency \in Nat \ {0}

CallIds == 1..MaxCalls

VARIABLES
  accesses,   \* privileged_access_logs
  attempts,   \* data_exfiltration_attempts, by the call that wrote the row
  events,     \* insider_fraud_events and unusual_activities
  alerts,     \* insider_fraud_alerts
  calls

vars == <<accesses, attempts, events, alerts, calls>>

Stages == {"log", "attempt", "count", "report"}
Ends == {"done", "forbidden", "error"}

(* next: the employee, by position, whose event is written next.           *)
Call ==
  [req : Requests, at : Stages \cup Ends, score : 0..100, next : Nat]

Event == [call : CallIds, tenant : Tenants, employee : Employees, score : 0..100]
Alert == [call : CallIds, tenant : Tenants, employee : Employees,
          level : {"critical", "high", "medium", "low"}]

-----------------------------------------------------------------------------
(* What is counted.                                                        *)

Employee(req) == req.employees[1]

Recent(tenant, employee) ==
  {i \in DOMAIN accesses :
    /\ accesses[i].tenant = tenant /\ accesses[i].employee = employee
    /\ accesses[i].recent}

OfPrivileged(rows) == {i \in rows : accesses[i].resource \in Privileged}

(* accessHistory.                                                          *)
AccessHistory(req) ==
  LET rows == Recent(req.tenant, Employee(req))
  IN [total |-> Cardinality(rows),
      afterHours |-> Cardinality({i \in rows : accesses[i].lateUTC}),
      privileged |-> Cardinality(OfPrivileged(rows))]

Attempts(tenant, employee) ==
  {c \in attempts : calls[c].req.tenant = tenant /\ Employee(calls[c].req) = employee}

(* The resources that two of the employees have used.                      *)
SharedResources(req) ==
  {r \in Resources :
    Cardinality({e \in ToSet(req.employees) :
                  \E i \in Recent(req.tenant, e) : accesses[i].resource = r}) >= 2}

-----------------------------------------------------------------------------
(* The scores.                                                             *)

Least(a, b) == IF a <= b THEN a ELSE b
Points(holds, points) == IF holds THEN points ELSE 0

RiskLevel(score) ==
  CASE score >= 70 -> "critical" [] score >= 50 -> "high"
    [] score >= 30 -> "medium" [] OTHER -> "low"

AccessRisk(req) ==
  LET h == AccessHistory(req)
  IN Least(100, Points(req.late, 20) + Points(req.resource \in Privileged, 20)
                + Points(h.total >= 20, 25) + Points(h.privileged >= 10, 20))

UnusualAccessThreshold(hours) == IF hours * 3 > 10 THEN hours * 3 ELSE 10

UnusualRisk(req) ==
  LET h == AccessHistory(req)
  IN Least(100, Points(h.total >= UnusualAccessThreshold(req.hours), 35)
                + Least(25, 5 * h.afterHours) + Least(30, 5 * h.privileged))

ExfiltrationRisk(req) ==
  LET n == Cardinality(Attempts(req.tenant, Employee(req)))
  IN Least(100, Points(req.large, 45) + Points(req.external, 35)
                + Points(n > 1, Least(20, 10 * (n - 1))))

(* Mutant of AbuseRisk: every access counts, privileged or not.            *)
AbuseRiskOfAllAccesses(req) ==
  LET rows == Recent(req.tenant, Employee(req))
  IN Least(100, Points(Cardinality(rows) >= 5, 50) + Points(req.late, 20))

AbuseRisk(req) ==
  LET rows == OfPrivileged(Recent(req.tenant, Employee(req)))
      sources == {accesses[i].address : i \in rows}
  IN Least(100, Points(Cardinality(rows) >= 5, 50) + Points(Cardinality(sources) > 2, 25)
                + Points(req.late, 20))

CollusionRisk(req) == Least(100, 35 * Cardinality(SharedResources(req)))

(* getEmployeeRiskScore: the average of the employee's events.             *)
EmployeeRisk(req) ==
  LET own == {e \in events : e.tenant = req.tenant /\ e.employee = Employee(req)}
      n == Cardinality(own)
      score(e) == e.score
  IN IF n = 0 THEN 0 ELSE (2 * MapThenSumSet(score, own) + n) \div (2 * n)

Score(req) ==
  CASE req.kind = "access" -> AccessRisk(req)
    [] req.kind = "unusual" -> UnusualRisk(req)
    [] req.kind = "transfer" -> ExfiltrationRisk(req)
    [] req.kind = "abuse" -> AbuseRisk(req)
    [] req.kind = "collusion" -> CollusionRisk(req)
    [] req.kind = "risk" -> EmployeeRisk(req)

-----------------------------------------------------------------------------
Init ==
  /\ accesses = Logged
  /\ attempts = {} /\ events = {} /\ alerts = {}
  /\ calls = << >>

(* The statements of each handler, in their order.                         *)
MonitorAccess == <<"log", "count", "report">>
DetectUnusualActivity == <<"count", "report">>

(* Mutant of DetectDataExfiltration: count first, then store.              *)
CountThenStore == <<"count", "attempt", "report">>
DetectDataExfiltration == <<"attempt", "count", "report">>
DetectAuthorizationAbuse == <<"log", "count", "report">>
DetectCollusion == <<"count", "report">>
GetEmployeeRiskScore == <<"count">>

Statements ==
  [access |-> MonitorAccess, unusual |-> DetectUnusualActivity,
   transfer |-> DetectDataExfiltration, abuse |-> DetectAuthorizationAbuse,
   collusion |-> DetectCollusion, risk |-> GetEmployeeRiskScore]

After(call) ==
  LET todo == Statements[call.req.kind]
  IN IF call.at = Last(todo) THEN "done"
     ELSE todo[1 + CHOOSE i \in DOMAIN todo : todo[i] = call.at]

Introspected(token) == token.active

Authorized(token) == token.roles \cap RequiredRoles # {}

(* The tenant is the one of the X-Tenant-ID header; the token names none.  *)
Authenticated(token) == Introspected(token) /\ Authorized(token)

TenantMatches(req) == req.header = req.tenant

InFlight == {c \in DOMAIN calls : calls[c].at \in Stages}

Receive(req) ==
  /\ Len(calls) < MaxCalls /\ Cardinality(InFlight) < Concurrency
  /\ LET first == IF Authenticated(req.token) /\ TenantMatches(req)
                  THEN Head(Statements[req.kind]) ELSE "forbidden"
     IN calls' = Append(calls, [req |-> req, at |-> first, score |-> 0, next |-> 1])
  /\ UNCHANGED <<accesses, attempts, events, alerts>>

(* persistAccess: created_at is the caller's timestamp, in UTC.            *)
PersistAccess(c) ==
  LET req == calls[c].req
      row == [tenant |-> req.tenant, employee |-> Employee(req), resource |-> req.resource,
              address |-> req.address, lateUTC |-> req.lateUTC, recent |-> req.recent]
  IN /\ calls[c].at = "log"
     /\ accesses' = Append(accesses, row)
     /\ calls' = [calls EXCEPT ![c].at = After(calls[c])]
     /\ UNCHANGED <<attempts, events, alerts>>

PersistAttempt(c) ==
  /\ calls[c].at = "attempt"
  /\ attempts' = attempts \cup {c}
  /\ calls' = [calls EXCEPT ![c].at = After(calls[c])]
  /\ UNCHANGED <<accesses, events, alerts>>

Count(c) ==
  /\ calls[c].at = "count"
  /\ calls' = [calls EXCEPT ![c].score = Score(calls[c].req), ![c].at = After(calls[c])]
  /\ UNCHANGED <<accesses, attempts, events, alerts>>

(* persistEventAndAlert: one transaction for one employee, repeated for    *)
(* each employee of a collusion analysis, until one of them fails.         *)
AlertDue(score) == score >= 50

(* Mutant of Reported: the loop writes of the first employee each time.    *)
FirstEmployee(c) == calls[c].req.employees[1]

Reported(c) == calls[c].req.employees[calls[c].next]

PersistEventAndAlert(c) ==
  LET req == calls[c].req
      employee == Reported(c)
      score == calls[c].score
      event == [call |-> c, tenant |-> req.tenant, employee |-> employee, score |-> score]
      alert == [call |-> c, tenant |-> req.tenant, employee |-> employee,
                level |-> RiskLevel(score)]
      last == req.kind # "collusion" \/ calls[c].next = Len(req.employees)
  IN /\ calls[c].at = "report"
     /\ events' = events \cup {event}
     /\ alerts' = alerts \cup (IF AlertDue(score) THEN {alert} ELSE {})
     /\ calls' = [calls EXCEPT ![c].at = IF last THEN "done" ELSE @, ![c].next = @ + 1]
     /\ UNCHANGED <<accesses, attempts>>

Fail(c) ==
  /\ calls[c].at \in Stages
  /\ Cardinality({k \in DOMAIN calls : calls[k].at = "error"}) < MaxFailures
  /\ calls' = [calls EXCEPT ![c].at = "error"]
  /\ UNCHANGED <<accesses, attempts, events, alerts>>

Next ==
  \/ \E req \in Requests : Receive(req)
  \/ \E c \in DOMAIN calls :
       PersistAccess(c) \/ PersistAttempt(c) \/ Count(c) \/ PersistEventAndAlert(c) \/ Fail(c)

Spec == Init /\ [][Next]_vars

-----------------------------------------------------------------------------
(* Properties.                                                             *)

(* The tables have their columns' types, and only admitted requests leave  *)
(* rows (insider_fraud_schema.sql).                                        *)
TypeOK ==
  /\ accesses \in Seq(Access)
  /\ events \subseteq Event /\ alerts \subseteq Alert
  /\ calls \in Seq(Call)
  /\ attempts \cup {e.call : e \in events} \subseteq
       {c \in DOMAIN calls : calls[c].at # "forbidden"}

(* An employee moves a large volume twice: each transfer is below the      *)
(* alert's score on its own, and whatever way the two requests interleave, *)
(* at least one of them is answered with an alert.                         *)
Done(kind, tenant, employee) ==
  {c \in DOMAIN calls : /\ calls[c].at = "done" /\ calls[c].req.kind = kind
                        /\ calls[c].req.tenant = tenant
                        /\ Employee(calls[c].req) = employee}

RepeatedTransfersAreAlerted ==
  \A tenant \in Tenants, employee \in Employees :
    LET large == {c \in Done("transfer", tenant, employee) : calls[c].req.large}
    IN Cardinality(large) >= 2 => \E a \in alerts : a.call \in large

(* What a severe answer needs: five privileged accesses for abuse, and for *)
(* exfiltration a large volume that left the house or was the third try.   *)
SevereAnswersHaveGrounds ==
  \A c \in DOMAIN calls :
    LET req == calls[c].req
    IN calls[c].at \in {"report", "done"} /\ calls[c].score >= 60 =>
         /\ req.kind = "abuse" =>
              Cardinality(OfPrivileged(Recent(req.tenant, Employee(req)))) >= 5
         /\ req.kind = "transfer" =>
              req.large /\ (req.external
                            \/ Cardinality(Attempts(req.tenant, Employee(req))) >= 3)

(* A collusion analysis that is answered is on the record of every         *)
(* employee it named, with one score, and one that fails is on the record  *)
(* of those named first.                                                   *)
CollusionIsOnRecord ==
  \A c \in DOMAIN calls :
    LET named == calls[c].req.employees
        recorded == {e.employee : e \in {e \in events : e.call = c}}
    IN calls[c].req.kind = "collusion" =>
         /\ calls[c].at = "done" => recorded = ToSet(named)
         /\ recorded = ToSet(SubSeq(named, 1, calls[c].next - 1))
         /\ AlertDue(calls[c].score) =>
              {a.employee : a \in {a \in alerts : a.call = c}} = recorded

(* What the service answers about an employee and what it has on record go *)
(* together, both ways: repeated transfers, severe answers, collusion.     *)
AnswersMatchRecords ==
  RepeatedTransfersAreAlerted /\ SevereAnswersHaveGrounds /\ CollusionIsOnRecord

=============================================================================
