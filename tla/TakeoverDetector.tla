-------------------------- MODULE TakeoverDetector --------------------------
(***************************************************************************)
(* account-takeover-detector: logins are compared with the user's earlier  *)
(* ones, failed logins are summed up by address, devices are known by the  *)
(* fingerprint they came with first.  Each check of a login stores it, so  *)
(* that the next check of the same login finds it as an earlier one.  The  *)
(* checks for takeover and for credential stuffing are transactions of     *)
(* PostgreSQL (read committed), the others single statements.              *)
(***************************************************************************)
EXTENDS Integers, FiniteSets, Sequences, FiniteSetsExt

CONSTANTS
  Tenants, Users, Devices, Addresses, Cities, Fingerprints,
  Distance,        \* kilometres between two cities, 0 if one is not known
  ManyLogins,      \* logins of 30 days that are many
  Requests,        \* the requests that may arrive
  StoredLogins, StoredFingerprints, StoredAttempts,  \* rows of earlier days
  MaxCalls,        \* bound: requests received
  MaxFaults,       \* bound: failing statements, crashes
  Concurrency      \* bound: requests in flight

LoginChecks == {"takeover", "login", "session", "travel"}

(* time: hours from now; failed: attempts, user: also the name they tried. *)
Request ==
  [kind : LoginChecks \cup {"device", "stuffing"}, allowed : BOOLEAN, tenant : Tenants,
   user : Users, device : Devices, address : Addresses, city : Cities, time : Int,
   fingerprint : Fingerprints, failed : Nat]

Login ==
  [tenant : Tenants, user : Users, device : Devices, address : Addresses, city : Cities,
   time : Int, call : 0..MaxCalls]
Fingerprint ==
  [tenant : Tenants, user : Users, device : Devices, fingerprint : Fingerprints,
   trusted : BOOLEAN, call : 0..MaxCalls]
Attempt ==
  [tenant : Tenants, user : Users, address : Addresses, failed : Nat, call : 0..MaxCalls]

ConstantsAssumption ==
  /\ Requests \subseteq Request
  /\ Distance \in [Cities \X Cities -> Nat]
  /\ StoredLogins \in Seq(Login) /\ StoredFingerprints \in Seq(Fingerprint)
  /\ StoredAttempts \in Seq(Attempt)
  \* the rows of earlier days are of none of the calls
  /\ \A i \in DOMAIN StoredLogins : StoredLogins[i].call = 0
  /\ \A i \in DOMAIN StoredFingerprints : StoredFingerprints[i].call = 0
  /\ \A i \in DOMAIN StoredAttempts : StoredAttempts[i].call = 0
  /\ {MaxCalls, MaxFaults, ManyLogins} \subseteq Nat /\ Concurrency \in Nat \ {0}

VARIABLES
  logins,        \* login_patterns
  fingerprints,  \* device_fingerprints
  attempts,      \* credential_stuffing_attempts
  events,        \* ato_events: the calls they are of
  alerts,        \* ato_alerts: the calls they are of
  calls,
  faults

vars == <<logins, fingerprints, attempts, events, alerts, calls, faults>>
tables == <<logins, fingerprints, attempts, events, alerts>>

Stages == {"look", "commit", "login", "enrol", "event", "alert"}
Ends == {"refused", "done", "error", "lost"}
Flags == {"device", "city", "addresses", "velocity", "address", "travel", "matched", "trusted"}

(* began: how many rows there were then, kept for checking.                *)
Call ==
  [req : Request, at : Stages \cup Ends, flags : SUBSET Flags, score : 0..100,
   began : [logins : Nat, fingerprints : Nat, attempts : Nat]]

-----------------------------------------------------------------------------
AtMost(n, limit) == IF n < limit THEN n ELSE limit
Flag(flag, holds) == IF holds THEN {flag} ELSE {}

OfUser(row, req) == row.tenant = req.tenant /\ row.user = req.user

Day == 24
Month == 30 * Day
Window(kind) == IF kind = "login" THEN Day ELSE Month

(* Mutant of Recent: the devices and cities of all users are known.        *)
RecentOfAll(req) ==
  {i \in DOMAIN logins : logins[i].tenant = req.tenant /\ logins[i].time >= - Window(req.kind)}

(* Logins are dated by who reports them.                                   *)
Recent(req) ==
  {i \in DOMAIN logins : OfUser(logins[i], req) /\ logins[i].time >= - Window(req.kind)}

With(rows, field, value) == {i \in rows : logins[i][field] = value}

(* What the SELECT of detect_takeover and analyze_login finds.             *)
HistoryFlags(req) ==
  LET rows == Recent(req)
  IN Flag("device", With(rows, "device", req.device) = {})
     \cup Flag("city", With(rows, "city", req.city) = {})
     \cup Flag("addresses", Cardinality({logins[i].address : i \in rows}) >= 3)
     \cup Flag("velocity", req.kind = "takeover" /\ Cardinality(rows) >= ManyLogins)

Latest(req) ==
  LET rows == {i \in DOMAIN logins : OfUser(logins[i], req)}
  IN {i \in rows : \A k \in rows : logins[k].time <= logins[i].time}

SessionFlags(req, previous) ==
  Flag("device", previous.device # req.device)
  \cup Flag("address", previous.address # req.address)
  \cup Flag("city", previous.city # req.city)

(* Faster than 900 km/h; a login dated earlier than the previous one came  *)
(* no time after it.                                                       *)
TravelFlags(req, previous) ==
  LET distance == Distance[<<previous.city, req.city>>]
      hours == IF req.time > previous.time THEN req.time - previous.time ELSE 0
  IN Flag("travel", distance > 900 * hours)

Points ==
  [takeover |-> [device |-> 30, city |-> 25, addresses |-> 20, velocity |-> 20],
   login |-> [device |-> 25, city |-> 20, addresses |-> 20],
   session |-> [device |-> 35, address |-> 20, city |-> 25],
   travel |-> [travel |-> 70]]

Score(kind, flags) == AtMost(MapThenSumSet(LAMBDA flag : Points[kind][flag], flags), 100)

StuffingScore(failed, names) == AtMost(5 * failed + 10 * (names - 1), 100)

Severe(call) == call.req.kind \notin {"login", "device"} /\ call.score >= 60

Init ==
  /\ logins = StoredLogins /\ fingerprints = StoredFingerprints /\ attempts = StoredAttempts
  /\ events = {} /\ alerts = {}
  /\ calls = << >> /\ faults = 0

Fault == faults < MaxFaults /\ faults' = faults + 1

InFlight == {c \in DOMAIN calls : calls[c].at \in Stages}

(* authenticate: the token is active and has a role that is required.      *)
Receive(req) ==
  /\ Len(calls) < MaxCalls /\ Cardinality(InFlight) < Concurrency
  /\ calls' = Append(calls,
       [req |-> req, at |-> IF req.allowed THEN "look" ELSE "refused", flags |-> {}, score |-> 0,
        began |-> [logins |-> Len(logins), fingerprints |-> Len(fingerprints),
                   attempts |-> Len(attempts)]])
  /\ UNCHANGED <<tables, faults>>

Goes(c, stage) == calls' = [calls EXCEPT ![c].at = stage]

-----------------------------------------------------------------------------
(* The statement that reads.                                               *)

Judged(c, flags, score, stage) ==
  /\ calls' = [calls EXCEPT ![c].flags = flags, ![c].score = score, ![c].at = stage]
  /\ UNCHANGED <<tables, faults>>

LookAtHistory(c) ==
  LET req == calls[c].req
      flags == HistoryFlags(req)
  IN /\ calls[c].at = "look" /\ req.kind \in {"takeover", "login"}
     /\ Judged(c, flags, Score(req.kind, flags), IF req.kind = "takeover" THEN "commit" ELSE "login")

(* detect_session_hijacking, check_impossible_travel: without a login on   *)
(* record nothing is found; of several latest ones any is taken.           *)
LookAtPrevious(c) ==
  LET req == calls[c].req
      found(flags) == Judged(c, flags, Score(req.kind, flags), "login")
  IN /\ calls[c].at = "look" /\ req.kind \in {"session", "travel"}
     /\ \/ Latest(req) = {} /\ found({})
        \/ \E i \in Latest(req) :
             found(IF req.kind = "session" THEN SessionFlags(req, logins[i])
                   ELSE TravelFlags(req, logins[i]))

(* Mutant of OnRecord: a name's attempts are summed up.                    *)
OnRecordOfUser(req) ==
  {i \in DOMAIN attempts : OfUser(attempts[i], req) /\ attempts[i].address = req.address}

OnRecord(req) ==
  {i \in DOMAIN attempts : attempts[i].tenant = req.tenant /\ attempts[i].address = req.address}

Failed(log, rows) == MapThenSumSet(LAMBDA i : log[i].failed, rows)

(* detect_credential_stuffing: its own row is inserted, so that the sum    *)
(* has it, and those of other transactions that have committed.            *)
SumUp(c) ==
  LET req == calls[c].req
      rows == OnRecord(req)
      failed == req.failed + Failed(attempts, rows)
      names == {req.user} \cup {attempts[i].user : i \in rows}
  IN /\ calls[c].at = "look" /\ req.kind = "stuffing"
     /\ Judged(c, {}, StuffingScore(failed, Cardinality(names)), "commit")

DeviceRows(row) ==
  {i \in DOMAIN fingerprints : OfUser(fingerprints[i], row) /\ fingerprints[i].device = row.device}

(* Mutant of Enrols: another fingerprint is taken on record as well.       *)
EnrolsMismatches(known, matched) == ~ matched

Enrols(known, matched) == known = {}

(* verify_device compares with the latest row of the device.               *)
LookAtDevice(c) ==
  LET req == calls[c].req
      known == DeviceRows(req)
      last == fingerprints[Max(known)]
      matched == known # {} /\ last.fingerprint = req.fingerprint
      trusted == matched /\ last.trusted
  IN /\ calls[c].at = "look" /\ req.kind = "device"
     /\ Judged(c, Flag("matched", matched) \cup Flag("trusted", trusted),
               IF trusted THEN 0 ELSE 30, IF Enrols(known, matched) THEN "enrol" ELSE "event")

-----------------------------------------------------------------------------
(* The statements that write.  One may fail, or take effect with an answer *)
(* that is lost: the request ends with an error.                           *)
Outcome(c, stage) ==
  \/ Goes(c, stage) /\ UNCHANGED faults
  \/ Goes(c, "error") /\ Fault

LoginOf(c) ==
  LET req == calls[c].req
  IN [tenant |-> req.tenant, user |-> req.user, device |-> req.device, address |-> req.address,
      city |-> req.city, time |-> req.time, call |-> c]

AttemptOf(c) ==
  LET req == calls[c].req
  IN [tenant |-> req.tenant, user |-> req.user, address |-> req.address, failed |-> req.failed,
      call |-> c]

(* Mutant of AlertOf: a score at the limit is none.                        *)
AlertAbove(c) == IF calls[c].score > 60 THEN {c} ELSE {}

AlertOf(c) == IF Severe(calls[c]) THEN {c} ELSE {}

Commit(c) ==
  LET kind == calls[c].req.kind
  IN /\ calls[c].at = "commit" /\ Outcome(c, "done")
     /\ logins' = IF kind = "takeover" THEN Append(logins, LoginOf(c)) ELSE logins
     /\ attempts' = IF kind = "stuffing" THEN Append(attempts, AttemptOf(c)) ELSE attempts
     /\ events' = events \cup {c}
     /\ alerts' = alerts \cup AlertOf(c)
     /\ UNCHANGED fingerprints

StoreLogin(c) ==
  /\ calls[c].at = "login" /\ Outcome(c, "event")
  /\ logins' = Append(logins, LoginOf(c))
  /\ UNCHANGED <<fingerprints, attempts, events, alerts>>

Enrol(c) ==
  LET req == calls[c].req
  IN /\ calls[c].at = "enrol" /\ Outcome(c, "event")
     /\ fingerprints' = Append(fingerprints,
          [tenant |-> req.tenant, user |-> req.user, device |-> req.device,
           fingerprint |-> req.fingerprint, trusted |-> FALSE, call |-> c])
     /\ UNCHANGED <<logins, attempts, events, alerts>>

RecordEvent(c) ==
  /\ calls[c].at = "event" /\ Outcome(c, IF AlertOf(c) = {} THEN "done" ELSE "alert")
  /\ events' = events \cup {c}
  /\ UNCHANGED <<logins, fingerprints, attempts, alerts>>

CreateAlert(c) ==
  /\ calls[c].at = "alert" /\ Outcome(c, "done")
  /\ alerts' = alerts \cup {c}
  /\ UNCHANGED <<logins, fingerprints, attempts, events>>

(* A statement fails without effect, a transaction is rolled back.         *)
Fails(c) ==
  /\ calls[c].at \in Stages /\ Goes(c, "error") /\ Fault
  /\ UNCHANGED tables

(* The process stops; PostgreSQL does not.                                 *)
Stop ==
  /\ InFlight # {} /\ Fault
  /\ calls' = [c \in DOMAIN calls |->
                 IF c \in InFlight THEN [calls[c] EXCEPT !.at = "lost"] ELSE calls[c]]
  /\ UNCHANGED tables

Handle(c) ==
  \/ LookAtHistory(c) \/ LookAtPrevious(c) \/ SumUp(c) \/ LookAtDevice(c)
  \/ Commit(c) \/ StoreLogin(c) \/ Enrol(c) \/ RecordEvent(c) \/ CreateAlert(c) \/ Fails(c)

Next ==
  \/ \E req \in Requests : Receive(req)
  \/ \E c \in DOMAIN calls : Handle(c)
  \/ Stop

-----------------------------------------------------------------------------
(* Properties.                                                             *)

TypeOK ==
  /\ logins \in Seq(Login) /\ fingerprints \in Seq(Fingerprint) /\ attempts \in Seq(Attempt)
  /\ events \subseteq DOMAIN calls /\ alerts \subseteq events
  /\ calls \in Seq(Call)

(* A device or a city passes for known only by a login that another check  *)
(* has stored, and one that was on record when the check began is known.   *)
HistoryIsOthers ==
  \A c \in DOMAIN calls :
    LET call == calls[c]
        same(field) == {i \in DOMAIN logins : /\ OfUser(logins[i], call.req)
                                              /\ logins[i].time >= - Window(call.req.kind)
                                              /\ logins[i][field] = call.req[field]}
    IN call.req.kind \in {"takeover", "login"} /\ call.at = "done"
       => \A field \in {"device", "city"} :
            /\ field \notin call.flags => \E i \in same(field) : logins[i].call # c
            /\ field \in call.flags => same(field) \cap (1..call.began.logins) = {}

(* An answer that calls a login or an attempt severe has its alert, and    *)
(* what is stored in a transaction has it whatever was answered.           *)
SevereFindingsAreAlerted ==
  \A c \in DOMAIN calls :
    LET stored == c \in events /\ calls[c].req.kind \in {"takeover", "stuffing"}
    IN Severe(calls[c]) /\ (calls[c].at = "done" \/ stored) => c \in alerts

(* The failed logins on record from one address, some of them reported by  *)
(* a call, are too many only if a caller was alerted, or two that reported *)
(* them did so at once.                                                    *)
BurstsAreAlerted ==
  \A tenant \in Tenants, address \in Addresses :
    LET rows == {i \in DOMAIN attempts :
                   attempts[i].tenant = tenant /\ attempts[i].address = address}
        names == Cardinality({attempts[i].user : i \in rows})
        atOnce(i, k) ==
          i < k /\ attempts[k].call # 0 /\ calls[attempts[k].call].began.attempts < i
    IN (\E i \in rows : attempts[i].call # 0) /\ StuffingScore(Failed(attempts, rows), names) >= 60
       => \/ \E i \in rows : attempts[i].call \in alerts
          \/ \E i, k \in rows : atOnce(i, k)

(* The first fingerprint of a device stays its only one, unless two that   *)
(* saw none were verified at once, and only what is on record matches.     *)
DevicesKeepTheirFingerprint ==
  /\ \A i, k \in DOMAIN fingerprints :
       i < k /\ fingerprints[k].call # 0 /\ k \in DeviceRows(fingerprints[i])
       => calls[fingerprints[k].call].began.fingerprints < i
  /\ \A c \in DOMAIN calls :
       "matched" \in calls[c].flags
       => \E i \in DeviceRows(calls[c].req) :
            fingerprints[i].fingerprint = calls[c].req.fingerprint

(* What the service finds rests on earlier rows and is not overlooked.     *)
TakeoversAreNoticed ==
  HistoryIsOthers /\ SevereFindingsAreAlerted /\ BurstsAreAlerted /\ DevicesKeepTheirFingerprint

=============================================================================
