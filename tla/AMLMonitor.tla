----------------------------- MODULE AMLMonitor -----------------------------
(***************************************************************************)
(* aml-monitor: the HTTP service before the AML model.  A request is       *)
(* authenticated, passes the limiter, a counter per client address in      *)
(* Redis whose expiry a second command sets, and enters its handler, which *)
(* asks the model, the database and the regulator in separate calls.       *)
(*                                                                         *)
(* The repository package and the model are not part of this source; what  *)
(* is assumed of them is what the handlers use.                            *)
(***************************************************************************)
EXTENDS Integers, FiniteSets, Sequences

CONSTANTS
  Clients,       \* client addresses
  SARs, Transactions, Entities, Types,
  Sanctioned,    \* <<entity, type>>: whom the model knows as sanctioned
  Limit,         \* requests per window, 100 in the code
  Requests,      \* the requests that may arrive
  MaxCalls,      \* bound: requests received
  MaxFaults,     \* bound: failures of Redis, the database, the regulator's
                 \* line and the process
  Concurrency    \* bound: requests in flight

Kinds == {"analyze", "batch", "score", "patterns", "funds", "generate", "file", "sanctions"}

(* token: the claims parse, name the issuer and are not expired, and       *)
(* Keycloak, if it answers, publishes keys.                                *)
(* usable: the authority is CBN or EFCC, with an HTTPS endpoint and a key. *)
Request ==
  [kind : Kinds, client : Clients, token : BOOLEAN, sar : SARs, txns : Seq(Transactions),
   entity : Entities, type : Types, usable : BOOLEAN]

ConstantsAssumption ==
  /\ \A req \in Requests : req \in Request /\ req.txns # << >>
  /\ Sanctioned \subseteq Entities \X Types
  /\ Limit \in Nat \ {0} /\ {MaxCalls, MaxFaults} \subseteq Nat /\ Concurrency \in Nat \ {0}

VARIABLES
  counter,    \* rate_limit:<client>, 0 when there is no such key
  expiring,   \* the clients whose key has an expiry
  reports,    \* the stored SARs
  analyses,   \* the stored transaction analyses
  findings,   \* the calls whose patterns or verification are stored
  sanctions,  \* the cached sanctions answers
  accepted,   \* the filings the regulator has taken: <<SAR, call>>
  calls,
  faults

limiter == <<counter, expiring>>
tables == <<reports, analyses, findings, sanctions>>
vars == <<counter, expiring, reports, analyses, findings, sanctions, accepted, calls, faults>>

Stages == {"limit", "expire", "look", "ask", "post", "store"}
Ends == {"done", "limited", "unauthorized", "refused", "missing", "error", "lost"}

(* next: the transaction of a batch; verdict: the model's answer, success: *)
(* the regulator's; afterFiling: a filing of the SAR had been answered as  *)
(* done when this call began.                                              *)
Call ==
  [req : Request, at : Stages \cup Ends, next : Nat, verdict : BOOLEAN, success : BOOLEAN,
   reference : BOOLEAN, posted : BOOLEAN, afterFiling : BOOLEAN]

Verdicts == {"none", "clear", "flagged"}

Init ==
  /\ counter = [a \in Clients |-> 0] /\ expiring = {}
  /\ reports = [s \in SARs |-> [status |-> "none", reference |-> FALSE]]
  /\ analyses = [t \in Transactions |-> "none"]
  /\ findings = {} /\ accepted = {}
  /\ sanctions = [k \in {} |-> FALSE]
  /\ calls = << >> /\ faults = 0

-----------------------------------------------------------------------------
(* The middleware.                                                         *)

InFlight == {c \in DOMAIN calls : calls[c].at \in Stages}

FilingAnswered(sar) ==
  \E c \in DOMAIN calls :
    calls[c].req.kind = "file" /\ calls[c].req.sar = sar /\ calls[c].at = "done"

(* authMiddleware.                                                         *)
Receive(req) ==
  /\ Len(calls) < MaxCalls /\ Cardinality(InFlight) < Concurrency
  /\ calls' = Append(calls,
       [req |-> req, at |-> IF req.token THEN "limit" ELSE "unauthorized", next |-> 1,
        verdict |-> FALSE, success |-> FALSE, reference |-> FALSE, posted |-> FALSE,
        afterFiling |-> FilingAnswered(req.sar)])
  /\ UNCHANGED <<limiter, tables, accepted, faults>>

MoveTo(c, stage) == calls' = [calls EXCEPT ![c].at = stage]

MayFault == faults < MaxFaults
Fault == MayFault /\ faults' = faults + 1

FirstStage(kind) ==
  IF kind \in {"score", "file", "sanctions"} THEN "look" ELSE "ask"

(* Mutant of CreatesKey: counts from zero.                                 *)
CountsFromZero(n) == n = 0

CreatesKey(n) == n = 1

(* INCR.  A Redis that does not answer lets the request pass, and may have *)
(* counted it.                                                             *)
Increment(c) ==
  LET client == calls[c].req.client
      n == counter[client] + 1
      stage == IF CreatesKey(n) THEN "expire"
               ELSE IF n > Limit THEN "limited"
               ELSE FirstStage(calls[c].req.kind)
  IN /\ calls[c].at = "limit"
     /\ \/ /\ counter' = [counter EXCEPT ![client] = n]
           /\ MoveTo(c, stage)
           /\ UNCHANGED faults
        \/ /\ Fault
           /\ MoveTo(c, FirstStage(calls[c].req.kind))
           /\ counter' \in {counter, [counter EXCEPT ![client] = n]}
     /\ UNCHANGED <<expiring, tables, accepted>>

(* EXPIRE, for the request that created the key; its error is not looked   *)
(* at.                                                                     *)
SetExpiry(c) ==
  LET client == calls[c].req.client
  IN /\ calls[c].at = "expire"
     /\ MoveTo(c, FirstStage(calls[c].req.kind))
     /\ \/ /\ expiring' = IF counter[client] > 0 THEN expiring \cup {client} ELSE expiring
           /\ UNCHANGED faults
        \/ Fault /\ UNCHANGED expiring
     /\ UNCHANGED <<counter, tables, accepted>>

(* The minute is over.                                                     *)
WindowEnds(client) ==
  /\ client \in expiring
  /\ expiring' = expiring \ {client}
  /\ counter' = [counter EXCEPT ![client] = 0]
  /\ UNCHANGED <<tables, accepted, calls, faults>>

-----------------------------------------------------------------------------
(* Analyses.  A verdict that cannot be stored is answered all the same.    *)

ModelFails(c) ==
  /\ calls[c].at = "ask"
  /\ Fault
  /\ \/ calls[c].req.kind # "batch" /\ MoveTo(c, "error")
     \/ /\ calls[c].req.kind = "batch"   \* the element is skipped
        /\ calls' = [calls EXCEPT ![c].next = @ + 1,
              ![c].at = IF calls[c].next = Len(calls[c].req.txns) THEN "done" ELSE "ask"]
  /\ UNCHANGED <<limiter, tables, accepted>>

Ask(c) ==
  LET req == calls[c].req
  IN /\ calls[c].at = "ask"
     /\ \E verdict \in BOOLEAN :
          /\ req.kind = "sanctions" => verdict = (<<req.entity, req.type>> \in Sanctioned)
          /\ calls' = [calls EXCEPT ![c].verdict = verdict, ![c].at = "store"]
     /\ UNCHANGED <<limiter, tables, accepted, faults>>

StoreAnalysis(c) ==
  LET req == calls[c].req
      verdict == IF calls[c].verdict THEN "flagged" ELSE "clear"
      last == req.kind = "analyze" \/ calls[c].next = Len(req.txns)
  IN /\ calls[c].at = "store" /\ req.kind \in {"analyze", "batch"}
     /\ \/ /\ analyses' = [analyses EXCEPT ![req.txns[calls[c].next]] = verdict]
           /\ UNCHANGED faults
        \/ Fault /\ UNCHANGED analyses
     /\ calls' = [calls EXCEPT ![c].next = @ + 1, ![c].at = IF last THEN "done" ELSE "ask"]
     /\ UNCHANGED <<limiter, reports, findings, sanctions, accepted>>

(* StorePattern and StoreSourceOfFundsVerification.                        *)
StoreFinding(c) ==
  /\ calls[c].at = "store" /\ calls[c].req.kind \in {"patterns", "funds"}
  /\ \/ findings' = findings \cup {c} /\ UNCHANGED faults
     \/ Fault /\ UNCHANGED findings
  /\ MoveTo(c, "done")
  /\ UNCHANGED <<limiter, reports, analyses, sanctions, accepted>>

GetTransactionRiskScore(c) ==
  /\ calls[c].at = "look" /\ calls[c].req.kind = "score"
  /\ MoveTo(c, IF analyses[calls[c].req.txns[1]] = "none" THEN "missing" ELSE "done")
  /\ UNCHANGED <<limiter, tables, accepted, faults>>

-----------------------------------------------------------------------------
(* CheckSanctions: the cache knows an answer by the name alone.            *)

(* Mutant of CacheKey: the answer is kept by the type.                     *)
CacheByType(req) == req.type

CacheKey(req) == req.entity

LookForSanctions(c) ==
  LET key == CacheKey(calls[c].req)
  IN /\ calls[c].at = "look" /\ calls[c].req.kind = "sanctions"
     /\ IF key \in DOMAIN sanctions
        THEN calls' = [calls EXCEPT ![c].verdict = sanctions[key], ![c].at = "done"]
        ELSE MoveTo(c, "ask")
     /\ UNCHANGED <<limiter, tables, accepted, faults>>

CacheSanctions(c) ==
  LET key == CacheKey(calls[c].req)
  IN /\ calls[c].at = "store" /\ calls[c].req.kind = "sanctions"
     /\ \/ /\ sanctions' = [k \in DOMAIN sanctions \cup {key} |->
                              IF k = key THEN calls[c].verdict ELSE sanctions[k]]
           /\ UNCHANGED faults
        \/ Fault /\ UNCHANGED sanctions
     /\ MoveTo(c, "done")
     /\ UNCHANGED <<limiter, reports, analyses, findings, accepted>>

-----------------------------------------------------------------------------
(* Suspicious activity reports.                                            *)

(* The model gives the report its id.                                      *)
StoreSAR(c) ==
  LET s == calls[c].req.sar
  IN /\ calls[c].at = "store" /\ calls[c].req.kind = "generate"
     /\ \/ /\ reports[s].status = "none"
           /\ reports' = [reports EXCEPT ![s].status = "draft"]
           /\ MoveTo(c, "done") /\ UNCHANGED faults
        \/ Fault /\ MoveTo(c, "error") /\ UNCHANGED reports
     /\ UNCHANGED <<limiter, analyses, findings, sanctions, accepted>>

(* Mutant of AlreadyFiled: nobody asks.                                    *)
NeverFiled(s) == FALSE

AlreadyFiled(s) == reports[s].status = "filed"

GetSAR(c) ==
  LET s == calls[c].req.sar
  IN /\ calls[c].at = "look" /\ calls[c].req.kind = "file"
     /\ MoveTo(c, IF reports[s].status = "none" THEN "missing"
                  ELSE IF AlreadyFiled(s) THEN "refused" ELSE "post")
     /\ UNCHANGED <<limiter, tables, accepted, faults>>

(* fileWithRegulator.  The answer to a filing the regulator took may be    *)
(* lost; a refusal may carry a reference.                                  *)
FileWithRegulator(c) ==
  LET req == calls[c].req
      outcome(success, reference) ==
        calls' = [calls EXCEPT ![c].at = "store", ![c].posted = req.usable,
                               ![c].success = success, ![c].reference = reference]
      taken == accepted' = accepted \cup {<<req.sar, c>>}
  IN /\ calls[c].at = "post"
     /\ \/ ~ req.usable /\ outcome(FALSE, FALSE) /\ UNCHANGED <<accepted, faults>>
        \/ req.usable /\ outcome(TRUE, TRUE) /\ taken /\ UNCHANGED faults
        \/ req.usable /\ outcome(FALSE, FALSE) /\ taken /\ Fault
        \/ /\ req.usable /\ \E reference \in BOOLEAN : outcome(FALSE, reference)
           /\ Fault /\ UNCHANGED accepted
     /\ UNCHANGED <<limiter, tables>>

(* UpdateSARStatus, whatever the regulator said.                           *)
UpdateSARStatus(c) ==
  LET s == calls[c].req.sar
  IN /\ calls[c].at = "store" /\ calls[c].req.kind = "file"
     /\ \/ /\ reports' = [reports EXCEPT ![s] =
                [status |-> "filed", reference |-> calls[c].reference]]
           /\ MoveTo(c, "done") /\ UNCHANGED faults
        \/ Fault /\ MoveTo(c, "error") /\ UNCHANGED reports
     /\ UNCHANGED <<limiter, analyses, findings, sanctions, accepted>>

(* The process stops: its requests are gone, Redis and the tables are not. *)
Crash ==
  /\ InFlight # {}
  /\ Fault
  /\ calls' = [c \in DOMAIN calls |->
                 IF c \in InFlight THEN [calls[c] EXCEPT !.at = "lost"] ELSE calls[c]]
  /\ UNCHANGED <<limiter, tables, accepted>>

Next ==
  \/ \E req \in Requests : Receive(req)
  \/ \E c \in DOMAIN calls :
       \/ Increment(c) \/ SetExpiry(c) \/ ModelFails(c) \/ Ask(c) \/ StoreAnalysis(c)
       \/ StoreFinding(c) \/ GetTransactionRiskScore(c) \/ LookForSanctions(c)
       \/ CacheSanctions(c) \/ StoreSAR(c) \/ GetSAR(c) \/ FileWithRegulator(c)
       \/ UpdateSARStatus(c)
  \/ \E client \in Clients : WindowEnds(client)
  \/ Crash

Spec == Init /\ [][Next]_vars

-----------------------------------------------------------------------------
(* Properties.                                                             *)

(* The tables and Redis have their types, an expiry belongs to a key that  *)
(* exists, and what is on record was left by a request that arrived.       *)
TypeOK ==
  /\ counter \in [Clients -> 0..MaxCalls] /\ expiring \subseteq Clients
  /\ \A client \in expiring : counter[client] > 0
  /\ reports \in [SARs -> [status : {"none", "draft", "filed"}, reference : BOOLEAN]]
  /\ analyses \in [Transactions -> Verdicts]
  /\ findings \subseteq DOMAIN calls /\ accepted \subseteq SARs \X DOMAIN calls
  /\ \A c \in DOMAIN calls : calls[c] \in Call

(* Once a filing was answered as done, no request that begins after it     *)
(* posts the report to the regulator again.                                *)
NoFilingAfterFiled ==
  \A c \in DOMAIN calls : ~ (calls[c].posted /\ calls[c].afterFiling)

(* A sanctions answer that is not the model's is the one it gave for the   *)
(* same name under another type.                                           *)
SanctionsAnswersHaveASource ==
  \A c \in DOMAIN calls :
    LET req == calls[c].req
    IN /\ req.kind = "sanctions" /\ calls[c].at = "done"
       /\ calls[c].verdict # (<<req.entity, req.type>> \in Sanctioned)
       => \E k \in DOMAIN calls : /\ calls[k].req.kind = "sanctions"
                                  /\ calls[k].req.entity = req.entity
                                  /\ calls[k].req.type # req.type

(* What was answered stands: a filing is not repeated, and an answer about *)
(* a name is not another name's.                                           *)
AnswersStand == NoFilingAfterFiled /\ SanctionsAnswersHaveASource

(* The comment above FileSAR: it "files a SAR with regulatory authorities",*)
(* so a report that is on record as filed was taken by one.                *)
FiledMeansAccepted ==
  \A s \in SARs : reports[s].status = "filed" => \E f \in accepted : f[1] = s

(* A client over the limit is let in again when its minute is over, unless *)
(* its key never got an expiry, which takes a failure between INCR and     *)
(* EXPIRE.                                                                 *)
Stuck(client) ==
  /\ counter[client] > 0 /\ client \notin expiring
  /\ \A c \in InFlight : calls[c].req.client # client \/ calls[c].at # "expire"

LimitedClientsRecover ==
  \A client \in Clients :
    (counter[client] > Limit) ~> (counter[client] = 0 \/ (Stuck(client) /\ faults > 0))

=============================================================================
