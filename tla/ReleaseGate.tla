----------------------------- MODULE ReleaseGate -----------------------------
(***************************************************************************)
(* The release-gate metrics service: CI jobs report gate and scenario      *)
(* results to any replica, one Redis script decides for all replicas       *)
(* whether an event is new and within its key's rate, and the replica that *)
(* made the claim increments its own counter.                              *)
(*                                                                         *)
(* Time is one clock, Redis's; a replica's clock runs Offset away from it. *)
(* An event identity leaves the result out, so several reports share one.  *)
(***************************************************************************)
EXTENDS Integers, FiniteSets, FiniteSetsExt

CONSTANTS
  Ids,          \* event identities: hashes of event, run, gate and scenario
  KeyIds,       \* HMAC keys of the keyring
  Reports,      \* what CI jobs report
  Replicas,
  Offset,       \* each replica's clock against Redis's
  MaxOffset,    \* how far a clock may be away
  MaxDelay,     \* most time between a script call and its run
  ClockSkew,    \* how old or new a request's timestamp may be
  Window, Limit,\* rateWindow and rateLimit
  TTL,          \* replayTTL
  MaxTries,     \* the sender's attempts: one and curl's --retry
  MaxTime,      \* bound: the time that is modelled
  MaxSent,      \* bound: requests sent in all
  MaxCalls,     \* bound: handlers at work at once
  Faults,       \* what may go wrong: Redis's "reply" lost, "restart", "failover"
  MaxFaults     \* bound: how often something does

(* valid: validSignature and validEvent; counts: recordMetric has a counter*)
(* for it (a ci_gate success has none).                                    *)
Report == [id : Ids, result : {"success", "failure"}, key : KeyIds,
           valid : BOOLEAN, counts : BOOLEAN]

Tries == 1..MaxTries

ASSUME ReportsAssumption == Reports \subseteq Report
ASSUME OffsetAssumption ==
  /\ Replicas # {}
  /\ MaxOffset \in Nat
  /\ Offset \in [Replicas -> (0 - MaxOffset)..MaxOffset]
ASSUME TimesAssumption ==
  /\ MaxDelay \in Nat /\ ClockSkew \in Nat /\ MaxTime \in Nat
  /\ Window \in Nat \ {0} /\ TTL \in Nat \ {0}
ASSUME CountsAssumption ==
  /\ Limit \in Nat \ {0} /\ MaxTries \in Nat \ {0}
  /\ MaxFaults \in Nat /\ MaxSent \in Nat /\ MaxCalls \in Nat
  /\ Faults \subseteq {"reply", "restart", "failover"}
(* 24 h against 5 min: a request is stale before its replay key expires.   *)
ASSUME TTLAssumption == ClockSkew + MaxOffset + MaxDelay < TTL

VARIABLES
  now,
  sender,      \* each report's sender: its timestamp, its tries and its state
  calls,       \* the handler of each try
  redis,       \* replay keys and rate windows
  standby,     \* the Redis replica's copy of them: bound, it lacks the last write
  counters,    \* each replica's counters
  granted,     \* history: the claims Redis granted
  lost,        \* history: identities whose claim no replica learned of
  failovers, faults

vars == <<now, sender, calls, redis, standby, counters, granted, lost, failovers, faults>>

-----------------------------------------------------------------------------
SenderState == {"unsent", "waiting", "retry", "accepted", "refused"}

(* arrived: the request; calling: the script call is out; the rest are the *)
(* script's results, not yet handled.                                      *)
Stages == {"none", "arrived", "calling", "accepted", "duplicate", "limited"}

(* at and stamp: when the call was made, by Redis's and the replica's clock*)
Call == [stage : Stages, replica : Replicas, at : Nat, stamp : Int]

NoCall == [stage |-> "none", replica |-> CHOOSE r \in Replicas : TRUE, at |-> 0, stamp |-> 0]

(* A sorted set: its members, their scores, and when PEXPIRE removes it.   *)
Rate == [members : SUBSET [id : Ids, score : Int], until : Nat]

EmptyRate == [members |-> {}, until |-> 0]

Empty == [replay |-> [i \in Ids |-> 0], rate |-> [k \in KeyIds |-> EmptyRate]]

Init ==
  /\ now = 0
  /\ sender = [q \in Reports |-> [state |-> "unsent", signed |-> 0, tries |-> 0]]
  /\ calls = [q \in Reports |-> [n \in Tries |-> NoCall]]
  /\ redis = Empty
  /\ standby = Empty
  /\ counters = [r \in Replicas |-> [q \in Reports |-> 0]]
  /\ granted = {}
  /\ lost = {}
  /\ failovers = 0
  /\ faults = 0

(* Time begins with the first request.                                     *)
Tick ==
  /\ now < MaxTime
  /\ \E q \in Reports : sender[q].state # "unsent"
  /\ now' = now + 1
  /\ UNCHANGED <<sender, calls, redis, standby, counters, granted, lost, failovers, faults>>

-----------------------------------------------------------------------------
(* The sender signs its report once and curl sends it again after a        *)
(* timeout, 429 or 503 with the same timestamp.                            *)

(* Mutant of Send: --retry without a number.                               *)
SendForEver(q, r) ==
  /\ sender[q].state \in {"unsent", "retry"}
  /\ sender' = [sender EXCEPT ![q] =
                  [state |-> "retry", tries |-> @.tries + 1, signed |-> now]]
  /\ UNCHANGED <<now, calls, redis, standby, counters, granted, lost, failovers, faults>>

Send(q, r) ==
  LET n == sender[q].tries + 1 IN
  /\ sender[q].state \in {"unsent", "retry"} /\ n \in Tries
  /\ MapThenSumSet(LAMBDA p : sender[p].tries, Reports) < MaxSent
  /\ Cardinality({c \in Reports \X Tries : calls[c[1]][c[2]].stage # "none"}) < MaxCalls
  /\ sender' = [sender EXCEPT ![q] =
                  [state |-> "waiting", tries |-> n,
                   signed |-> IF n = 1 THEN now ELSE @.signed]]
  /\ calls' = [calls EXCEPT ![q][n] = [NoCall EXCEPT !.stage = "arrived", !.replica = r]]
  /\ UNCHANGED <<now, redis, standby, counters, granted, lost, failovers, faults>>

GiveUpWaiting(q) ==
  /\ sender[q].state = "waiting"
  /\ sender' = [sender EXCEPT ![q].state = "retry"]
  /\ UNCHANGED <<now, calls, redis, standby, counters, granted, lost, failovers, faults>>

(* The handler of try n ends; its answer reaches a sender that still waits.*)
Answer(q, n, state) ==
  /\ calls' = [calls EXCEPT ![q][n] = NoCall]
  /\ sender' = IF sender[q].state = "waiting" /\ sender[q].tries = n
               THEN [sender EXCEPT ![q].state = state] ELSE sender

-----------------------------------------------------------------------------
(* ingestHandler.                                                          *)

LocalTime(r) == now + Offset[r]

(* Mutant of Fresh: the timestamp is only looked at for the future.        *)
NotFromTheFuture(q, r) == sender[q].signed - LocalTime(r) <= ClockSkew

Fresh(q, r) == LocalTime(r) - sender[q].signed \in (0 - ClockSkew)..ClockSkew

(* 400 and 401, which curl does not retry.                                 *)
Refuse(q, n) ==
  /\ calls[q][n].stage = "arrived"
  /\ ~ (q.valid /\ Fresh(q, calls[q][n].replica))
  /\ Answer(q, n, "refused")
  /\ UNCHANGED <<now, redis, standby, counters, granted, lost, failovers, faults>>

(* The timestamp is checked, the body read and the call made within one    *)
(* unit of time.                                                           *)
CallScript(q, n) ==
  /\ calls[q][n].stage = "arrived"
  /\ q.valid /\ Fresh(q, calls[q][n].replica)
  /\ calls' = [calls EXCEPT ![q][n] =
                 [@ EXCEPT !.stage = "calling", !.at = now,
                           !.stamp = LocalTime(calls[q][n].replica)]]
  /\ UNCHANGED <<now, sender, redis, standby, counters, granted, lost, failovers, faults>>

-----------------------------------------------------------------------------
(* redisClaimAndRateLimitLua, atomic in Redis.                             *)

Claimed(id) == now < redis.replay[id]

(* Mutant of Recent: the window is one unit short.                         *)
RecentInShortWindow(k, stamp) ==
  {m \in redis.rate[k].members : now < redis.rate[k].until /\ m.score > stamp - Window + 1}

(* The members ZREMRANGEBYSCORE leaves, if the sorted set has not expired. *)
Recent(k, stamp) ==
  {m \in redis.rate[k].members : now < redis.rate[k].until /\ m.score > stamp - Window}

Full(k, stamp) == Cardinality(Recent(k, stamp)) >= Limit

RunScript(q, n, result) ==
  /\ calls[q][n].stage = "calling"
  /\ now <= calls[q][n].at + MaxDelay
  /\ calls' = [calls EXCEPT ![q][n].stage = result]
  /\ UNCHANGED <<now, sender, counters, lost, failovers, faults>>

FindDuplicate(q, n) ==
  /\ RunScript(q, n, "duplicate")
  /\ Claimed(q.id)
  /\ UNCHANGED <<redis, standby, granted>>

(* The expired members are removed also when the event is turned away.     *)
FindFull(q, n) ==
  LET stamp == calls[q][n].stamp IN
  /\ RunScript(q, n, "limited")
  /\ ~ Claimed(q.id) /\ Full(q.key, stamp)
  /\ redis' = [redis EXCEPT !.rate[q.key].members = Recent(q.key, stamp)]
  /\ standby' = redis
  /\ UNCHANGED granted

Grant(q, n) ==
  LET stamp == calls[q][n].stamp IN
  /\ RunScript(q, n, "accepted")
  /\ ~ Claimed(q.id) /\ ~ Full(q.key, stamp)
  /\ redis' = [redis EXCEPT
                 !.replay[q.id] = now + TTL,
                 !.rate[q.key] =
                    [members |-> {m \in Recent(q.key, stamp) : m.id # q.id}
                                   \cup {[id |-> q.id, score |-> stamp]},
                     until |-> now + Window]]
  /\ standby' = redis
  /\ granted' = granted \cup {[id |-> q.id, key |-> q.key, at |-> now]}

-----------------------------------------------------------------------------
(* The rest of ingestHandler.                                              *)

(* Mutant of Record: a handler whose sender has gone does not count.       *)
RecordIfHeard(q, n) ==
  /\ calls[q][n].stage = "accepted"
  /\ counters' = IF q.counts /\ sender[q].state = "waiting" /\ sender[q].tries = n
                 THEN [counters EXCEPT ![calls[q][n].replica][q] = @ + 1] ELSE counters
  /\ Answer(q, n, "accepted")
  /\ UNCHANGED <<now, redis, standby, granted, lost, failovers, faults>>

(* The increment, and 202 from the replica that made the claim.            *)
Record(q, n) ==
  /\ calls[q][n].stage = "accepted"
  /\ counters' = IF q.counts THEN [counters EXCEPT ![calls[q][n].replica][q] = @ + 1]
                             ELSE counters
  /\ Answer(q, n, "accepted")
  /\ UNCHANGED <<now, redis, standby, granted, lost, failovers, faults>>

(* 202 without an increment, or 429.                                       *)
TurnAway(q, n) ==
  /\ \/ calls[q][n].stage = "duplicate" /\ Answer(q, n, "accepted")
     \/ calls[q][n].stage = "limited" /\ Answer(q, n, "retry")
  /\ UNCHANGED <<now, redis, standby, counters, granted, lost, failovers, faults>>

Fault(kind) ==
  /\ kind \in Faults /\ faults < MaxFaults
  /\ faults' = faults + 1

Strand(q, n) ==
  lost' = IF calls[q][n].stage = "accepted" THEN lost \cup {q.id} ELSE lost

(* Redis is unreachable, its reply does not arrive within two seconds, or  *)
(* the sender hangs up and r.Context() ends the wait: 503.  A call that    *)
(* runs only afterwards is one whose reply was lost.                       *)
ClaimFails(q, n) ==
  /\ calls[q][n].stage \in {"calling", "accepted", "duplicate", "limited"}
  /\ Fault("reply")
  /\ Answer(q, n, "retry")
  /\ Strand(q, n)
  /\ UNCHANGED <<now, redis, standby, counters, granted, failovers>>

(* The connection breaks before the reply: go-redis sends the same script  *)
(* call again (external).                                                  *)
ClaimRepeats(q, n) ==
  /\ calls[q][n].stage \in {"accepted", "duplicate", "limited"}
  /\ Fault("reply")
  /\ calls' = [calls EXCEPT ![q][n].stage = "calling"]
  /\ Strand(q, n)
  /\ UNCHANGED <<now, sender, redis, standby, counters, granted, failovers>>

(* A replica restarts: its counters begin at zero, its handlers are gone.  *)
Restart(r) ==
  LET Mine == {c \in Reports \X Tries :
                 calls[c[1]][c[2]].stage # "none" /\ calls[c[1]][c[2]].replica = r} IN
  /\ Fault("restart")
  /\ counters' = [counters EXCEPT ![r] = [q \in Reports |-> 0]]
  /\ calls' = [q \in Reports |-> [n \in Tries |->
                 IF <<q, n>> \in Mine THEN NoCall ELSE calls[q][n]]]
  /\ lost' = lost \cup {c[1].id : c \in {d \in Mine : calls[d[1]][d[2]].stage = "accepted"}}
                  \cup {q.id : q \in {p \in Reports : counters[r][p] > 0}}
  /\ UNCHANGED <<now, sender, redis, standby, granted, failovers>>

(* Redis replicates asynchronously (external): the replica that takes over *)
(* has not seen the last write.                                            *)
Failover ==
  /\ Fault("failover")
  /\ failovers' = failovers + 1
  /\ redis' = standby
  /\ UNCHANGED <<now, sender, calls, standby, counters, granted, lost>>

-----------------------------------------------------------------------------
Handle(q, n) ==
  \/ Refuse(q, n) \/ CallScript(q, n)
  \/ FindDuplicate(q, n) \/ FindFull(q, n) \/ Grant(q, n)
  \/ Record(q, n) \/ TurnAway(q, n)
  \/ ClaimFails(q, n) \/ ClaimRepeats(q, n)

Next ==
  \/ Tick
  \/ \E q \in Reports, r \in Replicas : Send(q, r)
  \/ \E q \in Reports : GiveUpWaiting(q)
  \/ \E q \in Reports, n \in Tries : Handle(q, n)
  \/ \E r \in Replicas : Restart(r)
  \/ Failover

Spec == Init /\ [][Next]_vars

-----------------------------------------------------------------------------
(* Every sender, handler and store keeps its type.                         *)
TypeOK ==
  /\ now \in 0..MaxTime
  /\ sender \in [Reports -> [state : SenderState, signed : 0..MaxTime, tries : 0..MaxTries]]
  /\ calls \in [Reports -> [Tries -> Call]]
  /\ redis \in [replay : [Ids -> Nat], rate : [KeyIds -> Rate]]
  /\ standby \in [replay : [Ids -> Nat], rate : [KeyIds -> Rate]]
  /\ counters \in [Replicas -> [Reports -> Nat]]
  /\ granted \subseteq [id : Ids, key : KeyIds, at : Nat]
  /\ lost \subseteq Ids
  /\ failovers \in 0..faults
  /\ faults \in 0..MaxFaults

(* The increments q has had, each told by its replica and its turn there.  *)
Counts(q) == UNION {{r} \X (1..counters[r][q]) : r \in Replicas}

(* However a signed request is retried, duplicated over replicas and       *)
(* delayed, it is counted once, and once more only for a failover of Redis *)
(* that forgot its claim.                                                  *)
CountedOnce == \A q \in Reports : Cardinality(Counts(q)) <= 1 + failovers

(* Replicas stamp the sliding window with clocks that disagree, so it may  *)
(* let go of a member early, but never by more than the clocks are apart   *)
(* and a call may be under way: in any shorter window Limit is kept, and   *)
(* passed by one claim for each failover that forgot one.  (Longer than    *)
(* TTL an identity may be claimed again, and is then one member for two.)  *)
SureWindow ==
  LET window == Window - 2 * MaxOffset - MaxDelay IN
  IF window <= TTL THEN window ELSE TTL

RateKept ==
  \A k \in KeyIds :
    Cardinality({g \in granted : g.key = k /\ g.at > now - SureWindow})
      <= Limit + failovers

Counted(id) == \E q \in Reports, r \in Replicas : q.id = id /\ counters[r][q] > 0

BeingCounted(id) == \E q \in Reports, n \in Tries : q.id = id /\ calls[q][n].stage = "accepted"

AllCount(id) == \A q \in Reports : q.id = id => q.counts

(* An event the service answered 202 for is in a counter, or about to be,  *)
(* unless the reply to its claim was lost or a replica restarted.          *)
NothingElseLost ==
  \A q \in Reports :
    sender[q].state = "accepted" /\ AllCount(q.id) =>
      Counted(q.id) \/ BeingCounted(q.id) \/ q.id \in lost

(* Doc: "exactly one replica increments for every accepted event."  An     *)
(* event answered 202 that no handler is still about to count should be in *)
(* a counter.                                                              *)
AcceptedIsCounted ==
  \A q \in Reports :
    sender[q].state = "accepted" /\ AllCount(q.id) => Counted(q.id) \/ BeingCounted(q.id)

=============================================================================
