------------------------- MODULE ReleaseGate_proofs -------------------------
(***************************************************************************)
(* Theorems about ReleaseGate, for any number of replicas, senders, tries, *)
(* requests and faults.                                                    *)
(***************************************************************************)
EXTENDS ReleaseGate, FiniteSetTheorems, TLAPS

Sender == [state : SenderState, signed : 0..MaxTime, tries : 0..MaxTries]
Store == [replay : [Ids -> Nat], rate : [KeyIds -> Rate]]

(* A step of the system is a step of one of its actions.                   *)
LEMMA NextCases ==
  ASSUME [Next]_vars
  PROVE  \/ Tick
         \/ \E q \in Reports, r \in Replicas : Send(q, r)
         \/ \E q \in Reports : GiveUpWaiting(q)
         \/ \E q \in Reports, n \in Tries : Refuse(q, n)
         \/ \E q \in Reports, n \in Tries : CallScript(q, n)
         \/ \E q \in Reports, n \in Tries : FindDuplicate(q, n)
         \/ \E q \in Reports, n \in Tries : FindFull(q, n)
         \/ \E q \in Reports, n \in Tries : Grant(q, n)
         \/ \E q \in Reports, n \in Tries : Record(q, n)
         \/ \E q \in Reports, n \in Tries : TurnAway(q, n)
         \/ \E q \in Reports, n \in Tries : ClaimFails(q, n)
         \/ \E q \in Reports, n \in Tries : ClaimRepeats(q, n)
         \/ \E r \in Replicas : Restart(r)
         \/ Failover
         \/ UNCHANGED vars
BY DEF Next, Handle

LEMMA NoCallIsACall == NoCall \in Call
<1>1. (CHOOSE r \in Replicas : TRUE) \in Replicas
  BY OffsetAssumption
<1> QED BY <1>1 DEF NoCall, Call, Stages

LEMMA Clocks ==
  ASSUME NEW t \in Nat, NEW r \in Replicas PROVE t + Offset[r] \in Int
BY OffsetAssumption

(* A handler's end changes its own call and at most its sender's state.    *)
LEMMA Answered ==
  ASSUME TypeOK, NEW q \in Reports, NEW n \in Tries, NEW state \in {"accepted", "refused", "retry"},
         Answer(q, n, state)
  PROVE  /\ calls' \in [Reports -> [Tries -> Call]]
         /\ calls'[q][n].stage = "none"
         /\ \A p \in Reports : \A m \in Tries :
              <<p, m>> # <<q, n>> => calls'[p][m] = calls[p][m]
         /\ sender' \in [Reports -> Sender]
         /\ \A p \in Reports : /\ sender'[p].tries = sender[p].tries
                               /\ sender'[p].state # sender[p].state
                                    => p = q /\ sender'[p].state = state
<1>1. calls \in [Reports -> [Tries -> Call]] /\ sender \in [Reports -> Sender]
  BY DEF TypeOK, Sender
<1>2. calls' = [calls EXCEPT ![q][n] = NoCall]
  BY DEF Answer
<1>3. /\ calls' \in [Reports -> [Tries -> Call]]
      /\ calls'[q][n].stage = "none"
      /\ \A p \in Reports : \A m \in Tries :
           <<p, m>> # <<q, n>> => calls'[p][m] = calls[p][m]
  <2>1. NoCall.stage = "none"
    BY DEF NoCall
  <2> QED BY <1>1, <1>2, <2>1, NoCallIsACall
<1>4. CASE sender' = sender
  BY <1>1, <1>3, <1>4
<1>5. CASE sender' = [sender EXCEPT ![q].state = state]
  BY <1>1, <1>3, <1>5 DEF Sender, SenderState
<1> QED BY <1>4, <1>5 DEF Answer

-----------------------------------------------------------------------------
(* Every step keeps the type of every sender, handler and store.           *)
LEMMA TypeStays ==
  ASSUME TypeOK, [Next]_vars
  PROVE  TypeOK'
<1>1. /\ now \in 0..MaxTime /\ now \in Nat /\ MaxTime \in Nat /\ MaxTries \in Nat
      /\ sender \in [Reports -> Sender]
      /\ calls \in [Reports -> [Tries -> Call]]
      /\ redis \in Store /\ standby \in Store
      /\ counters \in [Replicas -> [Reports -> Nat]]
      /\ granted \subseteq [id : Ids, key : KeyIds, at : Nat]
      /\ lost \subseteq Ids /\ failovers \in 0..faults /\ faults \in 0..MaxFaults
      /\ MaxFaults \in Nat
  BY TimesAssumption, CountsAssumption DEF TypeOK, Sender, Store
<1>2. \A q \in Reports : q.id \in Ids /\ q.key \in KeyIds
  BY ReportsAssumption DEF Report
<1> DEFINE Rest == /\ now' = now /\ redis' = redis /\ standby' = standby
                   /\ counters' = counters /\ granted' = granted /\ lost' = lost
                   /\ failovers' = failovers /\ faults' = faults
<1>3. CASE Tick
  BY <1>1, <1>3 DEF Tick, TypeOK, Sender, Store
<1>4. ASSUME NEW q \in Reports, NEW r \in Replicas, Send(q, r)
      PROVE  TypeOK'
  <2>1. PICK n \in Tries : n = sender[q].tries + 1 /\ Rest
             /\ sender' = [sender EXCEPT ![q] =
                             [state |-> "waiting", tries |-> n,
                              signed |-> IF n = 1 THEN now ELSE @.signed]]
             /\ calls' = [calls EXCEPT ![q][n] =
                            [NoCall EXCEPT !.stage = "arrived", !.replica = r]]
    BY <1>4 DEF Send
  <2>2. [NoCall EXCEPT !.stage = "arrived", !.replica = r] \in Call
    BY NoCallIsACall DEF Call, Stages
  <2>3. calls' \in [Reports -> [Tries -> Call]]
    BY <1>1, <2>1, <2>2
  <2>4. sender' \in [Reports -> Sender]
    BY <1>1, <2>1 DEF Sender, SenderState, Tries
  <2> QED BY <1>1, <2>1, <2>3, <2>4 DEF TypeOK, Sender, Store
<1>5. ASSUME NEW q \in Reports, GiveUpWaiting(q)
      PROVE  TypeOK'
  <2>1. sender' \in [Reports -> Sender]
    BY <1>1, <1>5 DEF GiveUpWaiting, Sender, SenderState
  <2> QED BY <1>1, <1>5, <2>1 DEF GiveUpWaiting, TypeOK, Sender, Store
<1>6. ASSUME NEW q \in Reports, NEW n \in Tries, Refuse(q, n)
      PROVE  TypeOK'
  <2>1. Answer(q, n, "refused") /\ Rest
    BY <1>6 DEF Refuse
  <2> QED BY <1>1, <2>1, Answered DEF TypeOK, Sender, Store
<1>7. ASSUME NEW q \in Reports, NEW n \in Tries, CallScript(q, n)
      PROVE  TypeOK'
  <2>1. PICK call : call = [calls[q][n] EXCEPT !.stage = "calling", !.at = now,
                              !.stamp = LocalTime(calls[q][n].replica)]
    OBVIOUS
  <2>2. calls[q][n] \in Call /\ calls[q][n].replica \in Replicas
    BY <1>1 DEF Call
  <2>3. LocalTime(calls[q][n].replica) \in Int
    BY <1>1, <2>2, Clocks DEF LocalTime
  <2>4. call \in Call
    BY <1>1, <2>1, <2>2, <2>3 DEF Call, Stages
  <2>5. calls' = [calls EXCEPT ![q][n] = call] /\ Rest /\ sender' = sender
    BY <1>7, <2>1 DEF CallScript
  <2> QED BY <1>1, <2>4, <2>5 DEF TypeOK, Sender, Store
<1>8. ASSUME NEW q \in Reports, NEW n \in Tries, FindDuplicate(q, n)
      PROVE  TypeOK'
  <2>1. /\ calls' = [calls EXCEPT ![q][n].stage = "duplicate"] /\ Rest /\ sender' = sender
        /\ "duplicate" \in Stages
    BY <1>8 DEF FindDuplicate, RunScript, Stages
  <2>2. calls' \in [Reports -> [Tries -> Call]]
    <3>1. PICK call : call = [calls[q][n] EXCEPT !.stage = "duplicate"]
      OBVIOUS
    <3>2. calls[q][n] \in Call
      BY <1>1
    <3>3. call \in Call
      BY <3>1, <3>2 DEF Call, Stages
    <3>4. calls' = [calls EXCEPT ![q][n] = call]
      BY <1>1, <2>1, <3>1
    <3> QED BY <1>1, <3>3, <3>4
  <2> QED BY <1>1, <2>1, <2>2 DEF TypeOK, Sender, Store
<1>9. ASSUME NEW q \in Reports, NEW n \in Tries, FindFull(q, n)
      PROVE  TypeOK'
  <2>1. /\ calls' = [calls EXCEPT ![q][n].stage = "limited"] /\ sender' = sender
        /\ now' = now /\ counters' = counters /\ granted' = granted /\ lost' = lost
        /\ failovers' = failovers /\ faults' = faults /\ standby' = redis
        /\ redis' = [redis EXCEPT !.rate[q.key].members = Recent(q.key, calls[q][n].stamp)]
    BY <1>9 DEF FindFull, RunScript, Stages
  <2>2. redis.rate[q.key] \in Rate
    BY <1>1, <1>2 DEF Store
  <2>3. Recent(q.key, calls[q][n].stamp) \subseteq redis.rate[q.key].members
    BY DEF Recent
  <2>4. [redis.rate[q.key] EXCEPT !.members = Recent(q.key, calls[q][n].stamp)] \in Rate
    BY <2>2, <2>3 DEF Rate
  <2>5. redis' \in Store
    BY <1>1, <1>2, <2>1, <2>4 DEF Store
  <2>6. calls' \in [Reports -> [Tries -> Call]]
    <3>1. PICK call : call = [calls[q][n] EXCEPT !.stage = "limited"]
      OBVIOUS
    <3>2. calls[q][n] \in Call
      BY <1>1
    <3>3. call \in Call
      BY <3>1, <3>2 DEF Call, Stages
    <3>4. calls' = [calls EXCEPT ![q][n] = call]
      BY <1>1, <2>1, <3>1
    <3> QED BY <1>1, <3>3, <3>4
  <2> QED BY <1>1, <2>1, <2>5, <2>6 DEF TypeOK, Sender, Store
<1>10. ASSUME NEW q \in Reports, NEW n \in Tries, Grant(q, n)
       PROVE  TypeOK'
  <2>1. PICK stamp : stamp = calls[q][n].stamp
    OBVIOUS
  <2>2. PICK rate : rate = [members |-> {m \in Recent(q.key, stamp) : m.id # q.id}
                                          \cup {[id |-> q.id, score |-> stamp]},
                            until |-> now + Window]
    OBVIOUS
  <2>3. /\ calls' = [calls EXCEPT ![q][n].stage = "accepted"] /\ sender' = sender
        /\ now' = now /\ counters' = counters /\ lost' = lost
        /\ failovers' = failovers /\ faults' = faults /\ standby' = redis
        /\ redis' = [redis EXCEPT !.replay[q.id] = now + TTL, !.rate[q.key] = rate]
        /\ granted' = granted \cup {[id |-> q.id, key |-> q.key, at |-> now]}
    BY <1>10, <2>1, <2>2 DEF Grant, RunScript, Stages
  <2>4. redis.rate[q.key] \in Rate /\ stamp \in Int
    BY <1>1, <1>2, <2>1 DEF Store, Call
  <2>5. Recent(q.key, stamp) \subseteq [id : Ids, score : Int]
    BY <2>4 DEF Recent, Rate
  <2>6. rate \in Rate
    <3>1. now + Window \in Nat
      BY <1>1, TimesAssumption
    <3>2. [id |-> q.id, score |-> stamp] \in [id : Ids, score : Int]
      BY <1>2, <2>4
    <3> QED BY <2>2, <2>5, <3>1, <3>2 DEF Rate
  <2>7. redis' \in Store
    <3>1. now + TTL \in Nat
      BY <1>1, TimesAssumption
    <3> QED BY <1>1, <1>2, <2>3, <2>6, <3>1 DEF Store
  <2>8. granted' \subseteq [id : Ids, key : KeyIds, at : Nat]
    BY <1>1, <1>2, <2>3
  <2>9. calls' \in [Reports -> [Tries -> Call]]
    <3>1. PICK call : call = [calls[q][n] EXCEPT !.stage = "accepted"]
      OBVIOUS
    <3>2. calls[q][n] \in Call
      BY <1>1
    <3>3. call \in Call
      BY <3>1, <3>2 DEF Call, Stages
    <3>4. calls' = [calls EXCEPT ![q][n] = call]
      BY <1>1, <2>3, <3>1
    <3> QED BY <1>1, <3>3, <3>4
  <2> QED BY <1>1, <2>3, <2>7, <2>8, <2>9 DEF TypeOK, Sender, Store
<1>11. ASSUME NEW q \in Reports, NEW n \in Tries, Record(q, n)
       PROVE  TypeOK'
  <2>1. PICK r \in Replicas : r = calls[q][n].replica
    BY <1>1 DEF Call
  <2>2. /\ Answer(q, n, "accepted")
        /\ now' = now /\ redis' = redis /\ standby' = standby /\ granted' = granted
        /\ lost' = lost /\ failovers' = failovers /\ faults' = faults
        /\ \/ counters' = counters
           \/ counters' = [counters EXCEPT ![r][q] = counters[r][q] + 1]
    BY <1>11, <2>1 DEF Record
  <2>3. counters[r][q] + 1 \in Nat
    BY <1>1
  <2>4. counters' \in [Replicas -> [Reports -> Nat]]
    BY <1>1, <2>2, <2>3
  <2> QED BY <1>1, <2>2, <2>4, Answered DEF TypeOK, Sender, Store
<1>12. ASSUME NEW q \in Reports, NEW n \in Tries, TurnAway(q, n)
       PROVE  TypeOK'
  <2>1. (Answer(q, n, "accepted") \/ Answer(q, n, "retry")) /\ Rest
    BY <1>12 DEF TurnAway
  <2>2. calls' \in [Reports -> [Tries -> Call]] /\ sender' \in [Reports -> Sender]
    BY <2>1, Answered
  <2> QED BY <1>1, <2>1, <2>2 DEF TypeOK, Sender, Store
<1>13. ASSUME NEW q \in Reports, NEW n \in Tries, ClaimFails(q, n)
       PROVE  TypeOK'
  <2>1. /\ Answer(q, n, "retry") /\ now' = now /\ redis' = redis /\ standby' = standby
        /\ counters' = counters /\ granted' = granted /\ failovers' = failovers
        /\ faults < MaxFaults /\ faults' = faults + 1
        /\ lost' = lost \/ lost' = lost \cup {q.id}
    BY <1>13 DEF ClaimFails, Fault, Strand
  <2> QED BY <1>1, <1>2, <2>1, Answered DEF TypeOK, Sender, Store
<1>14. ASSUME NEW q \in Reports, NEW n \in Tries, ClaimRepeats(q, n)
       PROVE  TypeOK'
  <2>1. /\ calls' = [calls EXCEPT ![q][n].stage = "calling"] /\ sender' = sender /\ now' = now /\ redis' = redis /\ standby' = standby
        /\ counters' = counters /\ granted' = granted /\ failovers' = failovers
        /\ faults < MaxFaults /\ faults' = faults + 1
        /\ lost' = lost \/ lost' = lost \cup {q.id}
    BY <1>14 DEF ClaimRepeats, Fault, Strand, Stages
  <2>2. calls' \in [Reports -> [Tries -> Call]]
    <3>1. PICK call : call = [calls[q][n] EXCEPT !.stage = "calling"]
      OBVIOUS
    <3>2. calls[q][n] \in Call
      BY <1>1
    <3>3. call \in Call
      BY <3>1, <3>2 DEF Call, Stages
    <3>4. calls' = [calls EXCEPT ![q][n] = call]
      BY <1>1, <2>1, <3>1
    <3> QED BY <1>1, <3>3, <3>4
  <2>3. lost' \subseteq Ids
    BY <1>1, <1>2, <2>1
  <2> QED BY <1>1, <2>1, <2>2, <2>3 DEF TypeOK, Sender, Store
<1>15. ASSUME NEW r \in Replicas, Restart(r)
       PROVE  TypeOK'
  <2>1. /\ now' = now /\ sender' = sender /\ redis' = redis /\ standby' = standby
        /\ granted' = granted /\ failovers' = failovers
        /\ faults < MaxFaults /\ faults' = faults + 1
        /\ counters' = [counters EXCEPT ![r] = [q \in Reports |-> 0]]
    BY <1>15 DEF Restart, Fault
  <2>2. calls' \in [Reports -> [Tries -> Call]]
    BY <1>1, <1>15, NoCallIsACall DEF Restart
  <2>3. counters' \in [Replicas -> [Reports -> Nat]]
    BY <1>1, <2>1
  <2>4. lost' \subseteq Ids
    BY <1>1, <1>2, <1>15 DEF Restart
  <2> QED BY <1>1, <2>1, <2>2, <2>3, <2>4 DEF TypeOK, Sender, Store
<1>16. CASE Failover
  BY <1>1, <1>16 DEF Failover, Fault, TypeOK, Sender, Store
<1>17. CASE UNCHANGED vars
  BY <1>17 DEF vars, TypeOK
<1> QED
  BY <1>3, <1>4, <1>5, <1>6, <1>7, <1>8, <1>9, <1>10, <1>11, <1>12, <1>13, <1>14, <1>15, <1>16,
     <1>17, NextCases

(* Every sender, handler and store keeps its type.                         *)
THEOREM TypeCorrect == Spec => []TypeOK
<1>1. Init => TypeOK
  BY NoCallIsACall, TimesAssumption, CountsAssumption
     DEF Init, TypeOK, Empty, EmptyRate, Rate, SenderState
<1>2. TypeOK /\ [Next]_vars => TypeOK'
  BY TypeStays
<1> QED BY <1>1, <1>2, PTL DEF Spec

-----------------------------------------------------------------------------
(* Where a claim goes.                                                     *)

GrantedIds == {g.id : g \in granted}

(* An identity Redis granted is in a counter, about to be, or lost.        *)
GrantsAreKept ==
  \A id \in GrantedIds : AllCount(id) => Counted(id) \/ BeingCounted(id) \/ id \in lost

(* Who says "claimed" speaks of a grant: the replay keys of both copies of *)
(* Redis, the results of the script, and the sender's 202.                 *)
ClaimsWereGranted ==
  /\ \A id \in Ids : redis.replay[id] # 0 \/ standby.replay[id] # 0 => id \in GrantedIds
  /\ \A q \in Reports :
       /\ sender[q].state = "accepted" => q.id \in GrantedIds
       /\ \A n \in Tries :
            /\ calls[q][n].stage \in {"accepted", "duplicate"} => q.id \in GrantedIds
            /\ n > sender[q].tries => calls[q][n].stage = "none"

(* A step that strands no call keeps what is known of every grant.         *)
LEMMA CallsOfOthersStay ==
  ASSUME TypeOK, GrantsAreKept, NEW q \in Reports, NEW n \in Tries,
         \A p \in Reports : \A m \in Tries : <<p, m>> # <<q, n>> => calls'[p][m] = calls[p][m],
         \A p \in Reports : \A r \in Replicas : counters[r][p] > 0 => counters'[r][p] > 0,
         lost \subseteq lost',
         \/ calls[q][n].stage # "accepted"
         \/ q.id \in lost'
         \/ q.counts => \E r \in Replicas : counters'[r][q] > 0
  PROVE  \A id \in GrantedIds :
           AllCount(id) => Counted(id)' \/ BeingCounted(id)' \/ id \in lost'
<1> SUFFICES ASSUME NEW id \in GrantedIds, AllCount(id)
             PROVE  Counted(id)' \/ BeingCounted(id)' \/ id \in lost'
  OBVIOUS
<1>1. Counted(id) \/ BeingCounted(id) \/ id \in lost
  BY DEF GrantsAreKept
<1>2. CASE Counted(id)
  BY <1>2 DEF Counted
<1>3. CASE BeingCounted(id)
  <2>1. PICK p \in Reports, m \in Tries : p.id = id /\ calls[p][m].stage = "accepted"
    BY <1>3 DEF BeingCounted
  <2>2. CASE <<p, m>> # <<q, n>>
    BY <2>1, <2>2 DEF BeingCounted
  <2>3. CASE p = q /\ m = n
    BY <2>1, <2>3 DEF Counted, AllCount
  <2> QED BY <2>2, <2>3
<1> QED BY <1>1, <1>2, <1>3

(* A handler that answers, however it does.                                *)
LEMMA AnswersKeepClaims ==
  ASSUME TypeOK, ClaimsWereGranted, NEW q \in Reports, NEW n \in Tries,
         NEW state \in {"accepted", "refused", "retry"}, Answer(q, n, state),
         state = "accepted" => q.id \in GrantedIds,
         redis' = redis, standby' = standby, granted' = granted
  PROVE  ClaimsWereGranted'
<1>1. GrantedIds' = GrantedIds
  BY DEF GrantedIds
<1>2. /\ calls'[q][n].stage = "none"
      /\ \A p \in Reports : \A m \in Tries :
           <<p, m>> # <<q, n>> => calls'[p][m] = calls[p][m]
      /\ \A p \in Reports : /\ sender'[p].tries = sender[p].tries
                            /\ sender'[p].state # sender[p].state
                                 => p = q /\ sender'[p].state = state
  BY Answered
<1>3. ASSUME NEW p \in Reports, sender'[p].state = "accepted" PROVE p.id \in GrantedIds
  BY <1>2, <1>3 DEF ClaimsWereGranted
<1>4. ASSUME NEW p \in Reports, NEW m \in Tries
      PROVE  /\ calls'[p][m].stage \in {"accepted", "duplicate"} => p.id \in GrantedIds
             /\ m > sender'[p].tries => calls'[p][m].stage = "none"
  <2>1. CASE <<p, m>> # <<q, n>>
    BY <1>2, <2>1 DEF ClaimsWereGranted
  <2>2. CASE p = q /\ m = n
    BY <1>2, <2>2
  <2> QED BY <2>1, <2>2
<1> QED BY <1>1, <1>3, <1>4 DEF ClaimsWereGranted

(* A handler that goes on to its next stage.                               *)
LEMMA StagesKeepClaims ==
  ASSUME TypeOK, ClaimsWereGranted, NEW q \in Reports, NEW n \in Tries, NEW stage \in Stages,
         calls'[q][n].stage = stage, calls[q][n].stage # "none",
         \A p \in Reports : \A m \in Tries : <<p, m>> # <<q, n>> => calls'[p][m] = calls[p][m],
         sender' = sender, GrantedIds \subseteq GrantedIds',
         stage \in {"accepted", "duplicate"} => q.id \in GrantedIds',
         \A id \in Ids : redis'.replay[id] # 0 \/ standby'.replay[id] # 0 => id \in GrantedIds'
  PROVE  ClaimsWereGranted'
<1>1. ASSUME NEW p \in Reports, NEW m \in Tries
      PROVE  /\ calls'[p][m].stage \in {"accepted", "duplicate"} => p.id \in GrantedIds'
             /\ m > sender'[p].tries => calls'[p][m].stage = "none"
  <2>1. CASE <<p, m>> # <<q, n>>
    BY <2>1 DEF ClaimsWereGranted
  <2>2. CASE p = q /\ m = n
    BY <2>2 DEF ClaimsWereGranted
  <2> QED BY <2>1, <2>2
<1> QED BY <1>1 DEF ClaimsWereGranted

LEMMA GrantsStay ==
  ASSUME TypeOK, GrantsAreKept, ClaimsWereGranted, [Next]_vars
  PROVE  GrantsAreKept' /\ ClaimsWereGranted'
<1>1. /\ now \in Nat /\ sender \in [Reports -> Sender] /\ calls \in [Reports -> [Tries -> Call]]
      /\ redis \in Store /\ standby \in Store
      /\ counters \in [Replicas -> [Reports -> Nat]]
  BY TimesAssumption DEF TypeOK, Sender, Store
<1>2. \A q \in Reports : q.id \in Ids /\ q.key \in KeyIds
  BY ReportsAssumption DEF Report
<1>3. \A id \in Ids : redis.replay[id] # 0 \/ standby.replay[id] # 0 => id \in GrantedIds
  BY DEF ClaimsWereGranted
<1>4. \A q \in Reports : \A n \in Tries :
        calls[q][n].stage \in {"accepted", "duplicate"} => q.id \in GrantedIds
  BY DEF ClaimsWereGranted
<1> DEFINE Kept == \A id \in GrantedIds :
                     AllCount(id) => Counted(id)' \/ BeingCounted(id)' \/ id \in lost'
<1>5. ASSUME granted' = granted
      PROVE  /\ GrantedIds' = GrantedIds
             /\ Kept => GrantsAreKept'
  BY <1>5 DEF GrantedIds, GrantsAreKept, AllCount
<1>6. ASSUME calls' = calls, counters' = counters, lost' = lost, granted' = granted
      PROVE  GrantsAreKept'
  BY <1>6 DEF GrantsAreKept, GrantedIds, AllCount, Counted, BeingCounted
<1>7. CASE Tick \/ UNCHANGED vars
  <2>1. UNCHANGED <<calls, counters, lost, granted, sender, redis, standby>>
    BY <1>7 DEF Tick, vars
  <2> QED BY <1>6, <2>1 DEF ClaimsWereGranted, GrantedIds
<1>8. ASSUME NEW q \in Reports, GiveUpWaiting(q)
      PROVE  GrantsAreKept' /\ ClaimsWereGranted'
  <2>1. /\ UNCHANGED <<calls, counters, lost, granted, redis, standby>>
        /\ \A p \in Reports : /\ sender'[p].tries = sender[p].tries
                              /\ sender'[p].state = "accepted" => sender[p].state = "accepted"
    BY <1>1, <1>8 DEF GiveUpWaiting, Sender
  <2>2. GrantedIds' = GrantedIds
    BY <2>1 DEF GrantedIds
  <2> QED BY <1>6, <2>1, <2>2 DEF ClaimsWereGranted
<1>9. CASE Failover
  <2>1. /\ UNCHANGED <<calls, counters, lost, granted, standby, sender>>
        /\ redis' = standby
    BY <1>9 DEF Failover
  <2>2. GrantedIds' = GrantedIds
    BY <2>1 DEF GrantedIds
  <2> QED BY <1>6, <2>1, <2>2 DEF ClaimsWereGranted
<1>10. ASSUME NEW q \in Reports, NEW r \in Replicas, Send(q, r)
       PROVE  GrantsAreKept' /\ ClaimsWereGranted'
  <2>1. PICK n \in Tries :
          /\ n = sender[q].tries + 1 /\ UNCHANGED <<counters, lost, granted, redis, standby>>
          /\ calls' = [calls EXCEPT ![q][n] = [NoCall EXCEPT !.stage = "arrived", !.replica = r]]
          /\ sender' = [sender EXCEPT ![q] =
                          [state |-> "waiting", tries |-> n,
                           signed |-> IF n = 1 THEN now ELSE @.signed]]
    BY <1>10 DEF Send
  <2>2. /\ calls'[q][n].stage = "arrived"
        /\ \A p \in Reports : \A m \in Tries :
             <<p, m>> # <<q, n>> => calls'[p][m] = calls[p][m]
    <3>1. [NoCall EXCEPT !.stage = "arrived", !.replica = r].stage = "arrived"
      BY DEF NoCall
    <3> QED BY <1>1, <2>1, <3>1
  <2>3. /\ sender'[q].state = "waiting" /\ sender'[q].tries = n
        /\ \A p \in Reports \ {q} : sender'[p] = sender[p]
    BY <1>1, <2>1
  <2>4. sender[q].tries \in Nat /\ n \in Nat /\ n > sender[q].tries
    <3>1. sender[q].tries \in 0..MaxTries /\ MaxTries \in Nat
      BY <1>1, CountsAssumption DEF Sender
    <3> QED BY <2>1, <3>1
  <2>5. calls[q][n].stage = "none"
    BY <2>4 DEF ClaimsWereGranted
  <2>6. GrantsAreKept'
    BY <1>5, <2>1, <2>2, <2>5, CallsOfOthersStay
  <2>7. GrantedIds' = GrantedIds
    BY <2>1 DEF GrantedIds
  <2>8. ASSUME NEW p \in Reports, NEW m \in Tries
        PROVE  /\ calls'[p][m].stage \in {"accepted", "duplicate"} => p.id \in GrantedIds
               /\ m > sender'[p].tries => calls'[p][m].stage = "none"
    <3>1. CASE p # q
      BY <2>2, <2>3, <3>1 DEF ClaimsWereGranted
    <3>2. CASE p = q /\ m = n
      BY <2>2, <2>3, <2>4, <3>2
    <3>3. CASE p = q /\ m # n
      <4>1. calls'[p][m] = calls[p][m]
        BY <2>2, <3>3
      <4>2. m \in Nat /\ (m > n => m > sender[q].tries)
        BY <2>4, CountsAssumption DEF Tries
      <4> QED BY <2>3, <3>3, <4>1, <4>2 DEF ClaimsWereGranted
    <3> QED BY <3>1, <3>2, <3>3
  <2>9. \A p \in Reports : sender'[p].state = "accepted" => p.id \in GrantedIds
    BY <2>3 DEF ClaimsWereGranted
  <2> QED BY <2>1, <2>6, <2>7, <2>8, <2>9 DEF ClaimsWereGranted
<1>11. ASSUME NEW q \in Reports, NEW n \in Tries, Refuse(q, n) \/ TurnAway(q, n)
       PROVE  GrantsAreKept' /\ ClaimsWereGranted'
  <2>1. PICK state \in {"accepted", "refused", "retry"} :
          /\ Answer(q, n, state) /\ UNCHANGED <<redis, standby, counters, granted, lost>>
          /\ calls[q][n].stage # "accepted"
          /\ state = "accepted" => calls[q][n].stage = "duplicate"
    BY <1>11 DEF Refuse, TurnAway
  <2>2. ClaimsWereGranted'
    BY <1>4, <2>1, AnswersKeepClaims
  <2>3. \A p \in Reports : \A m \in Tries :
          <<p, m>> # <<q, n>> => calls'[p][m] = calls[p][m]
    BY <2>1, Answered
  <2> QED BY <1>5, <2>1, <2>2, <2>3, CallsOfOthersStay
<1>12. ASSUME NEW q \in Reports, NEW n \in Tries, CallScript(q, n)
       PROVE  GrantsAreKept' /\ ClaimsWereGranted'
  <2>1. /\ calls[q][n].stage = "arrived"
        /\ calls' = [calls EXCEPT ![q][n] =
                       [calls[q][n] EXCEPT !.stage = "calling", !.at = now,
                                           !.stamp = LocalTime(calls[q][n].replica)]]
        /\ UNCHANGED <<sender, redis, standby, counters, granted, lost>>
    BY <1>12 DEF CallScript
  <2>2. /\ calls'[q][n].stage = "calling" /\ "calling" \in Stages
        /\ \A p \in Reports : \A m \in Tries :
             <<p, m>> # <<q, n>> => calls'[p][m] = calls[p][m]
    BY <1>1, <2>1 DEF Call, Stages
  <2>3. ClaimsWereGranted'
    BY <1>3, <1>5, <2>1, <2>2, StagesKeepClaims
  <2> QED BY <1>5, <2>1, <2>2, <2>3, CallsOfOthersStay
<1>13. ASSUME NEW q \in Reports, NEW n \in Tries, FindDuplicate(q, n) \/ FindFull(q, n)
       PROVE  GrantsAreKept' /\ ClaimsWereGranted'
  <2>1. PICK stage \in {"duplicate", "limited"} :
          /\ calls' = [calls EXCEPT ![q][n].stage = stage] /\ calls[q][n].stage = "calling"
          /\ UNCHANGED <<sender, counters, granted, lost>>
          /\ stage = "duplicate" => Claimed(q.id)
          /\ \/ redis' = redis /\ standby' = standby
             \/ /\ standby' = redis
                /\ redis' = [redis EXCEPT
                      !.rate[q.key].members = Recent(q.key, calls[q][n].stamp)]
    BY <1>13 DEF FindDuplicate, FindFull, RunScript
  <2>2. stage \in Stages
    BY DEF Stages
  <2>3. /\ calls'[q][n].stage = stage
        /\ \A p \in Reports : \A m \in Tries :
             <<p, m>> # <<q, n>> => calls'[p][m] = calls[p][m]
    BY <1>1, <2>1 DEF Call
  <2>4. stage = "duplicate" => q.id \in GrantedIds
    <3>1. Claimed(q.id) => redis.replay[q.id] # 0
      BY <1>1 DEF Claimed
    <3> QED BY <1>2, <1>3, <2>1, <3>1
  <2>5. /\ redis'.replay = redis.replay
        /\ standby'.replay = standby.replay \/ standby'.replay = redis.replay
    BY <1>1, <2>1 DEF Store
  <2>6. ClaimsWereGranted'
    BY <1>3, <1>5, <2>1, <2>2, <2>3, <2>4, <2>5, StagesKeepClaims
  <2> QED BY <1>5, <2>1, <2>3, <2>6, CallsOfOthersStay
<1>14. ASSUME NEW q \in Reports, NEW n \in Tries, Grant(q, n)
       PROVE  GrantsAreKept' /\ ClaimsWereGranted'
  <2>1. PICK rate :
          /\ calls' = [calls EXCEPT ![q][n].stage = "accepted"] /\ calls[q][n].stage = "calling"
          /\ UNCHANGED <<sender, counters, lost>>
          /\ redis' = [redis EXCEPT !.replay[q.id] = now + TTL, !.rate[q.key] = rate]
          /\ standby' = redis
          /\ granted' = granted \cup {[id |-> q.id, key |-> q.key, at |-> now]}
    BY <1>14 DEF Grant, RunScript
  <2>2. "accepted" \in Stages
    BY DEF Stages
  <2>3. /\ calls'[q][n].stage = "accepted"
        /\ \A p \in Reports : \A m \in Tries :
             <<p, m>> # <<q, n>> => calls'[p][m] = calls[p][m]
    BY <1>1, <2>1 DEF Call
  <2>4. GrantedIds' = GrantedIds \cup {q.id}
    <3>1. PICK g : g = [id |-> q.id, key |-> q.key, at |-> now]
      OBVIOUS
    <3>2. g.id = q.id /\ granted' = granted \cup {g}
      BY <2>1, <3>1
    <3> QED BY <3>2 DEF GrantedIds
  <2>5. \A id \in Ids : redis'.replay[id] # 0 => id = q.id \/ redis.replay[id] # 0
    BY <1>1, <1>2, <2>1 DEF Store
  <2>6. ClaimsWereGranted'
    BY <1>3, <2>1, <2>2, <2>3, <2>4, <2>5, StagesKeepClaims
  <2>7. Kept
    BY <2>1, <2>3, CallsOfOthersStay
  <2>8. BeingCounted(q.id)'
    BY <2>3 DEF BeingCounted
  <2>9. GrantsAreKept'
    BY <2>4, <2>7, <2>8 DEF GrantsAreKept, AllCount
  <2> QED BY <2>6, <2>9
<1>15. ASSUME NEW q \in Reports, NEW n \in Tries, Record(q, n)
       PROVE  GrantsAreKept' /\ ClaimsWereGranted'
  <2>1. PICK r \in Replicas : r = calls[q][n].replica
    BY <1>1 DEF Call
  <2>2. /\ Answer(q, n, "accepted") /\ UNCHANGED <<redis, standby, granted, lost>>
        /\ calls[q][n].stage = "accepted"
        /\ counters' = IF q.counts THEN [counters EXCEPT ![r][q] = counters[r][q] + 1] ELSE counters
    BY <1>15, <2>1 DEF Record
  <2>3. /\ \A p \in Reports : \A s \in Replicas : counters[s][p] > 0 => counters'[s][p] > 0
        /\ q.counts => counters'[r][q] > 0
    <3>1. CASE q.counts
      <4>1. /\ counters'[r][q] = counters[r][q] + 1 /\ counters[r][q] + 1 > 0
            /\ \A p \in Reports : \A s \in Replicas :
                 p # q \/ s # r => counters'[s][p] = counters[s][p]
        BY <1>1, <2>2, <3>1
      <4> QED BY <4>1
    <3>2. CASE ~ q.counts
      BY <2>2, <3>2
    <3> QED BY <3>1, <3>2
  <2>4. ClaimsWereGranted'
    BY <1>4, <2>2, AnswersKeepClaims
  <2>5. \A p \in Reports : \A m \in Tries :
          <<p, m>> # <<q, n>> => calls'[p][m] = calls[p][m]
    BY <2>2, Answered
  <2> QED BY <1>5, <2>2, <2>3, <2>4, <2>5, CallsOfOthersStay
<1>16. ASSUME NEW q \in Reports, NEW n \in Tries, ClaimFails(q, n)
       PROVE  GrantsAreKept' /\ ClaimsWereGranted'
  <2>1. /\ Answer(q, n, "retry") /\ UNCHANGED <<redis, standby, counters, granted>>
        /\ lost \subseteq lost' /\ (calls[q][n].stage = "accepted" => q.id \in lost')
    BY <1>16 DEF ClaimFails, Strand
  <2>2. ClaimsWereGranted'
    BY <2>1, AnswersKeepClaims
  <2>3. \A p \in Reports : \A m \in Tries :
          <<p, m>> # <<q, n>> => calls'[p][m] = calls[p][m]
    BY <2>1, Answered
  <2> QED BY <1>5, <2>1, <2>2, <2>3, CallsOfOthersStay
<1>17. ASSUME NEW q \in Reports, NEW n \in Tries, ClaimRepeats(q, n)
       PROVE  GrantsAreKept' /\ ClaimsWereGranted'
  <2>1. /\ calls' = [calls EXCEPT ![q][n].stage = "calling"] /\ calls[q][n].stage # "none"
        /\ UNCHANGED <<sender, redis, standby, counters, granted>>
        /\ lost \subseteq lost' /\ (calls[q][n].stage = "accepted" => q.id \in lost')
        /\ "calling" \in Stages
    BY <1>17 DEF ClaimRepeats, Strand, Stages
  <2>2. /\ calls'[q][n].stage = "calling"
        /\ \A p \in Reports : \A m \in Tries :
             <<p, m>> # <<q, n>> => calls'[p][m] = calls[p][m]
    BY <1>1, <2>1 DEF Call
  <2>3. ClaimsWereGranted'
    BY <1>3, <1>5, <2>1, <2>2, StagesKeepClaims
  <2> QED BY <1>5, <2>1, <2>2, <2>3, CallsOfOthersStay
<1>18. ASSUME NEW r \in Replicas, Restart(r)
       PROVE  GrantsAreKept' /\ ClaimsWereGranted'
  <2> DEFINE Mine == {c \in Reports \X Tries :
                        calls[c[1]][c[2]].stage # "none" /\ calls[c[1]][c[2]].replica = r}
  <2>1. /\ UNCHANGED <<sender, redis, standby, granted>>
        /\ counters' = [counters EXCEPT ![r] = [q \in Reports |-> 0]]
        /\ calls' = [q \in Reports |-> [n \in Tries |->
                       IF <<q, n>> \in Mine THEN NoCall ELSE calls[q][n]]]
        /\ lost' = lost \cup {c[1].id : c \in {d \in Mine : calls[d[1]][d[2]].stage = "accepted"}}
                        \cup {q.id : q \in {p \in Reports : counters[r][p] > 0}}
    BY <1>18 DEF Restart
  <2>2. \A q \in Reports : \A n \in Tries :
          \/ calls'[q][n] = calls[q][n]
          \/ calls'[q][n].stage = "none" /\ <<q, n>> \in Mine
    <3>1. NoCall.stage = "none"
      BY DEF NoCall
    <3> HIDE DEF Mine
    <3> QED BY <2>1, <3>1
  <2>3. /\ lost \subseteq lost'
        /\ \A q \in Reports : counters[r][q] > 0 => q.id \in lost'
    BY <2>1
  <2>4. ASSUME NEW q \in Reports, NEW n \in Tries, <<q, n>> \in Mine, calls[q][n].stage = "accepted"
        PROVE  q.id \in lost'
    <3>1. <<q, n>> \in {d \in Mine : calls[d[1]][d[2]].stage = "accepted"}
      BY <2>4
    <3>2. <<q, n>>[1].id \in
            {c[1].id : c \in {d \in Mine : calls[d[1]][d[2]].stage = "accepted"}}
      BY <3>1
    <3> HIDE DEF Mine
    <3> QED BY <2>1, <3>2
  <2> HIDE DEF Mine
  <2>5. GrantedIds' = GrantedIds
    BY <2>1 DEF GrantedIds
  <2>6. ClaimsWereGranted'
    BY <2>1, <2>2, <2>5 DEF ClaimsWereGranted
  <2>7. ASSUME NEW id \in GrantedIds, AllCount(id)
        PROVE  Counted(id)' \/ BeingCounted(id)' \/ id \in lost'
    <3>1. Counted(id) \/ BeingCounted(id) \/ id \in lost
      BY <2>7 DEF GrantsAreKept
    <3>2. CASE Counted(id)
      <4>1. PICK q \in Reports, s \in Replicas : q.id = id /\ counters[s][q] > 0
        BY <3>2 DEF Counted
      <4>2. CASE s = r
        BY <2>3, <4>1, <4>2
      <4>3. CASE s # r
        BY <1>1, <2>1, <4>1, <4>3 DEF Counted
      <4> QED BY <4>2, <4>3
    <3>3. CASE BeingCounted(id)
      <4>1. PICK q \in Reports, n \in Tries : q.id = id /\ calls[q][n].stage = "accepted"
        BY <3>3 DEF BeingCounted
      <4> QED BY <2>2, <2>4, <4>1 DEF BeingCounted
    <3> QED BY <2>3, <3>1, <3>2, <3>3
  <2> QED BY <1>5, <2>1, <2>6, <2>7
<1> QED
  BY <1>7, <1>8, <1>9, <1>10, <1>11, <1>12, <1>13, <1>14, <1>15, <1>16, <1>17, <1>18, NextCases

(* An event the service answered 202 for is in a counter, or about to be,  *)
(* unless the reply to its claim was lost or a replica restarted.          *)
THEOREM OnlyFaultsLoseCounts == Spec => []NothingElseLost
<1>1. Init => GrantsAreKept /\ ClaimsWereGranted
  BY DEF Init, GrantsAreKept, ClaimsWereGranted, GrantedIds, Empty, NoCall
<1>2. TypeOK /\ GrantsAreKept /\ ClaimsWereGranted /\ [Next]_vars
        => GrantsAreKept' /\ ClaimsWereGranted'
  BY GrantsStay
<1>3. GrantsAreKept /\ ClaimsWereGranted => NothingElseLost
  BY DEF GrantsAreKept, ClaimsWereGranted, NothingElseLost
<1> QED BY <1>1, <1>2, <1>3, TypeCorrect, PTL DEF Spec

-----------------------------------------------------------------------------
(* CountedOnce: what a request has cost so far.                            *)

AcceptedTries(q) == {n \in Tries : calls[q][n].stage = "accepted"}

(* Its increments, and the claims whose increment is still to come.        *)
Cost(q) == Cardinality(Counts(q)) + Cardinality(AcceptedTries(q))

(* A call that was made is as fresh as its handler found it, and a report  *)
(* that was never sent has no calls and no counts.                         *)
CallsAreTimely ==
  \A q \in Reports :
    /\ sender[q].signed <= now
    /\ \A n \in Tries : calls[q][n].stage \notin {"none", "arrived"} =>
         /\ calls[q][n].at <= now
         /\ calls[q][n].stamp = calls[q][n].at + Offset[calls[q][n].replica]
         /\ calls[q][n].stamp - sender[q].signed <= ClockSkew
    /\ sender[q].tries = 0 =>
         /\ \A n \in Tries : calls[q][n].stage = "none"
         /\ \A r \in Replicas : counters[r][q] = 0

(* A claim costs one; while Redis's replay key may still expire before the *)
(* request is stale, only failovers have cost anything.                    *)
CostsAreBounded ==
  \A q \in Reports :
    /\ IsFiniteSet(Counts(q))
    /\ Cost(q) <= 1 + failovers
    /\ redis.replay[q.id] < sender[q].signed + TTL => Cost(q) <= failovers

LEMMA CountsHas ==
  ASSUME TypeOK, NEW q \in Reports, NEW c
  PROVE  c \in Counts(q) <=> \E r \in Replicas : \E i \in 1..counters[r][q] : c = <<r, i>>
BY DEF Counts

LEMMA AcceptedTriesAreFinite ==
  ASSUME NEW q \in Reports
  PROVE  /\ IsFiniteSet(AcceptedTries(q)) /\ Cardinality(AcceptedTries(q)) \in Nat
         /\ \A S \in SUBSET Tries : IsFiniteSet(S) /\ Cardinality(S) \in Nat
<1>1. IsFiniteSet(Tries)
  BY FS_Interval, CountsAssumption DEF Tries
<1>2. \A S \in SUBSET Tries : IsFiniteSet(S) /\ Cardinality(S) \in Nat
  BY <1>1, FS_Subset, FS_CardinalityType
<1> QED BY <1>2 DEF AcceptedTries

(* A report that gains neither an increment nor a claim costs no more.     *)
LEMMA CostShrinks ==
  ASSUME TypeOK, TypeOK', NEW q \in Reports, IsFiniteSet(Counts(q)),
         \A r \in Replicas : counters'[r][q] <= counters[r][q],
         \A n \in Tries : calls'[q][n].stage = "accepted" => calls[q][n].stage = "accepted"
  PROVE  /\ IsFiniteSet(Counts(q)') /\ Cost(q) \in Nat /\ Cost(q)' \in Nat
         /\ Cost(q)' <= Cost(q)
<1>1. Counts(q)' \subseteq Counts(q)
  <2> SUFFICES ASSUME NEW c \in Counts(q)' PROVE c \in Counts(q)
    OBVIOUS
  <2>1. PICK r \in Replicas : \E i \in 1..counters'[r][q] : c = <<r, i>>
    BY DEF Counts
  <2>2. counters[r][q] \in Nat /\ counters'[r][q] \in Nat /\ counters'[r][q] <= counters[r][q]
    BY DEF TypeOK
  <2> QED BY <2>1, <2>2, CountsHas
<1>2. AcceptedTries(q)' \subseteq AcceptedTries(q)
  BY DEF AcceptedTries
<1>3. /\ IsFiniteSet(Counts(q)') /\ Cardinality(Counts(q)') <= Cardinality(Counts(q))
      /\ Cardinality(Counts(q)) \in Nat /\ Cardinality(Counts(q)') \in Nat
  BY <1>1, FS_Subset, FS_CardinalityType
<1>4. /\ IsFiniteSet(AcceptedTries(q)) /\ Cardinality(AcceptedTries(q)) \in Nat
      /\ Cardinality(AcceptedTries(q)') \in Nat
      /\ Cardinality(AcceptedTries(q)') <= Cardinality(AcceptedTries(q))
  <2>1. AcceptedTries(q) \in SUBSET Tries /\ AcceptedTries(q)' \in SUBSET Tries
    BY DEF AcceptedTries
  <2> QED BY <1>2, <2>1, AcceptedTriesAreFinite, FS_Subset
<1> QED BY <1>3, <1>4 DEF Cost

(* A step that only ends calls and forgets counts keeps the bounds.        *)
LEMMA QuietStepsKeepCosts ==
  ASSUME TypeOK, TypeOK', CostsAreBounded,
         \A p \in Reports : sender'[p].signed = sender[p].signed,
         \A p \in Reports : \A n \in Tries :
           calls'[p][n].stage = "accepted" => calls[p][n].stage = "accepted",
         \A p \in Reports : \A r \in Replicas : counters'[r][p] <= counters[r][p],
         redis'.replay = redis.replay, failovers' = failovers
  PROVE  CostsAreBounded'
<1> SUFFICES ASSUME NEW q \in Reports
    PROVE  /\ IsFiniteSet(Counts(q))'
           /\ (Cost(q) <= 1 + failovers)'
           /\ (redis.replay[q.id] < sender[q].signed + TTL => Cost(q) <= failovers)'
  BY DEF CostsAreBounded
<1>1. /\ IsFiniteSet(Counts(q)) /\ Cost(q) <= 1 + failovers
      /\ redis.replay[q.id] < sender[q].signed + TTL => Cost(q) <= failovers
  BY DEF CostsAreBounded
<1>2. IsFiniteSet(Counts(q)') /\ Cost(q) \in Nat /\ Cost(q)' \in Nat /\ Cost(q)' <= Cost(q)
  BY <1>1, CostShrinks
<1>3. failovers \in Nat
  BY DEF TypeOK
<1> QED BY <1>1, <1>2, <1>3

(* A step that only ends calls or moves them on keeps them timely.         *)
LEMMA QuietStepsKeepTime ==
  ASSUME TypeOK, TypeOK', CallsAreTimely, now <= now',
         \A p \in Reports : /\ sender'[p].signed = sender[p].signed
                            /\ sender'[p].tries = sender[p].tries,
         \A p \in Reports : \A n \in Tries :
           \/ calls'[p][n].stage = "none"
           \/ /\ calls'[p][n].replica = calls[p][n].replica
              /\ calls'[p][n].at = calls[p][n].at /\ calls'[p][n].stamp = calls[p][n].stamp
              /\ calls'[p][n].stage = calls[p][n].stage
                   \/ calls[p][n].stage \notin {"none", "arrived"},
         \A p \in Reports : \A r \in Replicas :
           sender[p].tries = 0 /\ counters[r][p] = 0 => counters'[r][p] = 0
  PROVE  CallsAreTimely'
<1>1. /\ now \in Nat /\ now' \in Nat
      /\ \A p \in Reports : sender[p].signed \in Nat /\ calls[p] \in [Tries -> Call]
  BY DEF TypeOK
<1>2. ASSUME NEW p \in Reports
      PROVE  sender'[p].signed <= now'
  BY <1>1 DEF CallsAreTimely
<1>3. ASSUME NEW p \in Reports, NEW n \in Tries, calls'[p][n].stage \notin {"none", "arrived"}
      PROVE  /\ calls'[p][n].at <= now'
             /\ calls'[p][n].stamp = calls'[p][n].at + Offset[calls'[p][n].replica]
             /\ calls'[p][n].stamp - sender'[p].signed <= ClockSkew
  <2>1. calls[p][n].stage \notin {"none", "arrived"} /\ calls[p][n].at \in Nat
    BY <1>1, <1>3 DEF Call
  <2>2. /\ calls[p][n].at <= now
        /\ calls[p][n].stamp = calls[p][n].at + Offset[calls[p][n].replica]
        /\ calls[p][n].stamp - sender[p].signed <= ClockSkew
    BY <2>1 DEF CallsAreTimely
  <2> QED BY <1>1, <1>3, <2>1, <2>2
<1>4. ASSUME NEW p \in Reports, sender'[p].tries = 0
      PROVE  /\ \A n \in Tries : calls'[p][n].stage = "none"
             /\ \A r \in Replicas : counters'[r][p] = 0
  BY <1>4 DEF CallsAreTimely
<1> QED BY <1>2, <1>3, <1>4 DEF CallsAreTimely

(* An answer ends its call and changes no timestamp.                       *)
LEMMA AnswersAreQuiet ==
  ASSUME TypeOK, NEW q \in Reports, NEW n \in Tries, NEW state \in {"accepted", "refused", "retry"},
         Answer(q, n, state)
  PROVE  /\ \A p \in Reports : /\ sender'[p].signed = sender[p].signed
                               /\ sender'[p].tries = sender[p].tries
         /\ \A p \in Reports : \A m \in Tries :
              calls'[p][m].stage = "none" \/ calls'[p][m] = calls[p][m]
<1>1. sender \in [Reports -> Sender]
  BY DEF TypeOK, Sender
<1>2. \A p \in Reports : sender'[p].signed = sender[p].signed
  BY <1>1 DEF Answer, Sender
<1>3. \A p \in Reports : \A m \in Tries :
        calls'[p][m].stage = "none" \/ calls'[p][m] = calls[p][m]
  <2> SUFFICES ASSUME NEW p \in Reports, NEW m \in Tries
      PROVE  calls'[p][m].stage = "none" \/ calls'[p][m] = calls[p][m]
    OBVIOUS
  <2>1. CASE <<p, m>> = <<q, n>>
    BY <2>1, Answered
  <2>2. CASE <<p, m>> # <<q, n>>
    BY <2>2, Answered
  <2> QED BY <2>1, <2>2
<1> QED BY <1>2, <1>3, Answered

(* Every step keeps what requests cost within the faults.                  *)
LEMMA CostsStay ==
  ASSUME TypeOK, TypeOK', CallsAreTimely, CostsAreBounded, [Next]_vars
  PROVE  CallsAreTimely' /\ CostsAreBounded'
<1>1. /\ now \in Nat /\ now' \in Nat /\ failovers \in Nat
      /\ sender \in [Reports -> Sender] /\ calls \in [Reports -> [Tries -> Call]]
      /\ redis \in Store /\ counters \in [Replicas -> [Reports -> Nat]]
  BY DEF TypeOK, Sender, Store
<1>2. \A q \in Reports : q.id \in Ids /\ q.key \in KeyIds
  BY ReportsAssumption DEF Report
<1>3. TTL \in Nat /\ MaxDelay \in Nat /\ ClockSkew \in Nat /\ MaxOffset \in Nat /\ MaxTries \in Nat
  BY TimesAssumption, OffsetAssumption, CountsAssumption
<1>4. NoCall.stage = "none"
  BY DEF NoCall
<1> DEFINE Quiet ==
      /\ now <= now'
      /\ \A p \in Reports : /\ sender'[p].signed = sender[p].signed
                            /\ sender'[p].tries = sender[p].tries
      /\ \A p \in Reports : \A m \in Tries :
           \/ calls'[p][m].stage = "none"
           \/ /\ calls'[p][m].replica = calls[p][m].replica
              /\ calls'[p][m].at = calls[p][m].at /\ calls'[p][m].stamp = calls[p][m].stamp
              /\ calls'[p][m].stage = calls[p][m].stage
                   \/ calls[p][m].stage \notin {"none", "arrived"}
      Fewer ==
      /\ \A p \in Reports : \A m \in Tries :
           calls'[p][m].stage = "accepted" => calls[p][m].stage = "accepted"
      /\ \A p \in Reports : \A r \in Replicas : counters'[r][p] <= counters[r][p]
      /\ redis'.replay = redis.replay /\ failovers' = failovers
      Same == UNCHANGED <<now, redis, counters, failovers>>
<1>5. ASSUME Quiet, \A p \in Reports : \A r \in Replicas :
                      sender[p].tries = 0 /\ counters[r][p] = 0 => counters'[r][p] = 0
      PROVE  CallsAreTimely'
  BY <1>5, QuietStepsKeepTime
<1>6. ASSUME Quiet, Fewer
      PROVE  CallsAreTimely' /\ CostsAreBounded'
  <2>1. \A p \in Reports : \A r \in Replicas : counters[r][p] = 0 => counters'[r][p] = 0
    <3> SUFFICES ASSUME NEW p \in Reports, NEW r \in Replicas, counters[r][p] = 0
        PROVE  counters'[r][p] = 0
      OBVIOUS
    <3>1. counters'[r][p] \in Nat
      BY DEF TypeOK
    <3> QED BY <1>6, <3>1
  <2>2. CostsAreBounded'
    BY <1>6, QuietStepsKeepCosts
  <2> QED BY <1>5, <1>6, <2>1, <2>2
(* A call whose stage alone changes.                                       *)
<1>7. ASSUME NEW q \in Reports, NEW n \in Tries, NEW stage \in Stages,
             calls' = [calls EXCEPT ![q][n].stage = stage],
             calls[q][n].stage \notin {"none", "arrived"},
             now' = now, sender' = sender
      PROVE  /\ Quiet /\ calls'[q][n].stage = stage
             /\ \A p \in Reports : \A m \in Tries :
                  <<p, m>> # <<q, n>> => calls'[p][m] = calls[p][m]
  <2>1. PICK call : call = [calls[q][n] EXCEPT !.stage = stage]
    OBVIOUS
  <2>2. /\ calls'[q][n] = call
        /\ \A p \in Reports : \A m \in Tries :
             <<p, m>> # <<q, n>> => calls'[p][m] = calls[p][m]
    BY <1>1, <1>7, <2>1
  <2>3. /\ call.stage = stage /\ call.at = calls[q][n].at /\ call.stamp = calls[q][n].stamp
        /\ call.replica = calls[q][n].replica
    BY <1>1, <2>1 DEF Call
  <2>4. ASSUME NEW p \in Reports, NEW m \in Tries
        PROVE  /\ calls'[p][m].replica = calls[p][m].replica
               /\ calls'[p][m].at = calls[p][m].at /\ calls'[p][m].stamp = calls[p][m].stamp
               /\ calls'[p][m].stage = calls[p][m].stage
                    \/ calls[p][m].stage \notin {"none", "arrived"}
    <3>1. CASE p = q /\ m = n
      BY <1>7, <2>2, <2>3, <3>1
    <3>2. CASE <<p, m>> # <<q, n>>
      BY <2>2, <3>2
    <3> QED BY <3>1, <3>2
  <2> QED BY <1>1, <1>7, <2>2, <2>3, <2>4
(* The end of a call.                                                      *)
<1>8. ASSUME NEW q \in Reports, NEW n \in Tries, NEW state \in {"accepted", "refused", "retry"},
             Answer(q, n, state), Same
      PROVE  Quiet /\ Fewer
  <2>1. /\ \A p \in Reports : /\ sender'[p].signed = sender[p].signed
                              /\ sender'[p].tries = sender[p].tries
        /\ \A p \in Reports : \A m \in Tries :
             calls'[p][m].stage = "none" \/ calls'[p][m] = calls[p][m]
    BY <1>8, AnswersAreQuiet
  <2> QED BY <1>1, <1>8, <2>1
<1>9. CASE Tick
  <2>1. now' = now + 1 /\ UNCHANGED <<sender, calls, redis, counters, failovers>>
    BY <1>9 DEF Tick
  <2> QED BY <1>1, <1>6, <2>1
<1>10. ASSUME NEW q \in Reports, NEW r \in Replicas, Send(q, r)
       PROVE  CallsAreTimely' /\ CostsAreBounded'
  <2>1. PICK n \in Tries : n = sender[q].tries + 1 /\ Same
             /\ sender' = [sender EXCEPT ![q] =
                             [state |-> "waiting", tries |-> n,
                              signed |-> IF n = 1 THEN now ELSE @.signed]]
             /\ calls' = [calls EXCEPT ![q][n] =
                            [NoCall EXCEPT !.stage = "arrived", !.replica = r]]
    BY <1>10 DEF Send
  <2>2. /\ \A p \in Reports : \A m \in Tries :
             <<p, m>> # <<q, n>> => calls'[p][m] = calls[p][m]
        /\ calls'[q][n].stage = "arrived"
    <3>1. PICK call : call = [NoCall EXCEPT !.stage = "arrived", !.replica = r]
      OBVIOUS
    <3>2. call.stage = "arrived"
      BY <1>4, <3>1, NoCallIsACall DEF Call
    <3> QED BY <1>1, <2>1, <3>1, <3>2
  <2>3. /\ \A p \in Reports : p # q => sender'[p] = sender[p]
        /\ sender'[q].tries = n /\ n # 0
        /\ n = 1 => sender'[q].signed = now /\ sender[q].tries = 0
        /\ n # 1 => sender'[q].signed = sender[q].signed
    BY <1>1, <2>1 DEF Sender, Tries
  <2>4. n = 1 => /\ \A m \in Tries : calls[q][m].stage = "none"
                 /\ \A s \in Replicas : counters[s][q] = 0
    BY <2>3 DEF CallsAreTimely
  <2>5. ASSUME NEW p \in Reports
        PROVE  /\ sender'[p].signed <= now'
               /\ \A m \in Tries : calls'[p][m].stage \notin {"none", "arrived"} =>
                    /\ calls'[p][m].at <= now'
                    /\ calls'[p][m].stamp = calls'[p][m].at + Offset[calls'[p][m].replica]
                    /\ calls'[p][m].stamp - sender'[p].signed <= ClockSkew
               /\ sender'[p].tries = 0 =>
                    /\ \A m \in Tries : calls'[p][m].stage = "none"
                    /\ \A s \in Replicas : counters'[s][p] = 0
    <3>1. CASE p # q
      <4>1. calls'[p] = calls[p]
        BY <1>1, <2>1, <3>1
      <4> QED BY <2>1, <2>3, <3>1, <4>1 DEF CallsAreTimely
    <3>2. CASE p = q
      <4>1. sender'[q].signed <= now' /\ sender'[q].tries # 0
        BY <1>1, <2>1, <2>3 DEF CallsAreTimely
      <4>2. ASSUME NEW m \in Tries, calls'[q][m].stage \notin {"none", "arrived"}
            PROVE  /\ calls'[q][m].at <= now'
                   /\ calls'[q][m].stamp = calls'[q][m].at + Offset[calls'[q][m].replica]
                   /\ calls'[q][m].stamp - sender'[q].signed <= ClockSkew
        <5>1. m # n
          BY <2>2, <4>2
        <5>2. calls'[q][m] = calls[q][m]
          BY <2>2, <5>1
        <5>3. n # 1
          BY <2>4, <4>2, <5>2
        <5> QED BY <2>1, <2>3, <4>2, <5>2, <5>3 DEF CallsAreTimely
      <4> QED BY <3>2, <4>1, <4>2
    <3> QED BY <3>1, <3>2
  <2>6. CallsAreTimely'
    BY <2>5 DEF CallsAreTimely
  <2>7. ASSUME NEW p \in Reports
        PROVE  /\ IsFiniteSet(Counts(p))'
               /\ (Cost(p) <= 1 + failovers)'
               /\ (redis.replay[p.id] < sender[p].signed + TTL => Cost(p) <= failovers)'
    <3>1. /\ IsFiniteSet(Counts(p)) /\ Cost(p) <= 1 + failovers
          /\ redis.replay[p.id] < sender[p].signed + TTL => Cost(p) <= failovers
      BY DEF CostsAreBounded
    <3>2. \A m \in Tries : calls'[p][m].stage = "accepted" => calls[p][m].stage = "accepted"
      <4> SUFFICES ASSUME NEW m \in Tries, calls'[p][m].stage = "accepted"
          PROVE  calls[p][m].stage = "accepted"
        OBVIOUS
      <4>1. <<p, m>> # <<q, n>>
        BY <2>2
      <4> QED BY <2>2, <4>1
    <3>3. \A s \in Replicas : counters'[s][p] <= counters[s][p]
      BY <1>1, <2>1
    <3>4. IsFiniteSet(Counts(p)') /\ Cost(p) \in Nat /\ Cost(p)' \in Nat /\ Cost(p)' <= Cost(p)
      BY <3>1, <3>2, <3>3, CostShrinks
    <3>5. CASE p # q \/ n # 1
      BY <1>1, <2>1, <2>3, <3>1, <3>4, <3>5
    <3>6. CASE p = q /\ n = 1
      <4>1. Counts(p) = {}
        BY <1>1, <2>4, <3>6 DEF Counts
      <4>2. AcceptedTries(p) = {}
        BY <2>4, <3>6 DEF AcceptedTries
      <4>3. Cost(p) = 0
        BY <4>1, <4>2, FS_EmptySet DEF Cost
      <4> QED BY <1>1, <2>1, <3>4, <4>3
    <3> QED BY <3>5, <3>6
  <2> QED BY <2>6, <2>7 DEF CostsAreBounded
<1>11. ASSUME NEW q \in Reports, GiveUpWaiting(q)
       PROVE  CallsAreTimely' /\ CostsAreBounded'
  <2>1. sender' = [sender EXCEPT ![q].state = "retry"] /\ Same /\ calls' = calls
    BY <1>11 DEF GiveUpWaiting
  <2>2. \A p \in Reports : /\ sender'[p].signed = sender[p].signed
                           /\ sender'[p].tries = sender[p].tries
    BY <1>1, <2>1 DEF Sender
  <2> QED BY <1>1, <1>6, <2>1, <2>2
<1>12. ASSUME NEW q \in Reports, NEW n \in Tries,
              Refuse(q, n) \/ TurnAway(q, n) \/ ClaimFails(q, n)
       PROVE  CallsAreTimely' /\ CostsAreBounded'
  <2>1. Same
    BY <1>12 DEF Refuse, TurnAway, ClaimFails
  <2>2. Answer(q, n, "refused") \/ Answer(q, n, "accepted") \/ Answer(q, n, "retry")
    BY <1>12 DEF Refuse, TurnAway, ClaimFails
  <2>3. Quiet /\ Fewer
    BY <1>8, <2>1, <2>2
  <2> QED BY <1>6, <2>3
<1>13. ASSUME NEW q \in Reports, NEW n \in Tries, CallScript(q, n)
       PROVE  CallsAreTimely' /\ CostsAreBounded'
  <2>1. PICK call : call = [calls[q][n] EXCEPT !.stage = "calling", !.at = now,
                              !.stamp = LocalTime(calls[q][n].replica)]
    OBVIOUS
  <2>2. /\ calls[q][n].stage = "arrived" /\ Fresh(q, calls[q][n].replica)
        /\ calls' = [calls EXCEPT ![q][n] = call] /\ Same /\ sender' = sender
    BY <1>13, <2>1 DEF CallScript
  <2>3. /\ call.stage = "calling" /\ call.at = now /\ call.replica = calls[q][n].replica
        /\ call.stamp = now + Offset[call.replica] /\ call.replica \in Replicas
    BY <1>1, <2>1 DEF Call, LocalTime
  <2>4. /\ calls'[q][n] = call
        /\ \A p \in Reports : \A m \in Tries :
             <<p, m>> # <<q, n>> => calls'[p][m] = calls[p][m]
    BY <1>1, <2>2
  <2>5. ASSUME NEW p \in Reports, NEW m \in Tries, calls'[p][m].stage \notin {"none", "arrived"}
        PROVE  /\ calls'[p][m].at <= now'
               /\ calls'[p][m].stamp = calls'[p][m].at + Offset[calls'[p][m].replica]
               /\ calls'[p][m].stamp - sender'[p].signed <= ClockSkew
    <3>1. CASE p = q /\ m = n
      <4>1. call.stamp \in Int /\ sender[q].signed \in Nat
        BY <1>1, <2>3, Clocks DEF Sender
      <4>2. call.stamp - sender[q].signed \in (0 - ClockSkew)..ClockSkew
        BY <2>2, <2>3 DEF Fresh, LocalTime
      <4>3. call.stamp - sender[q].signed <= ClockSkew
        BY <1>3, <4>1, <4>2
      <4> QED BY <1>1, <2>2, <2>3, <2>4, <3>1, <4>3
    <3>2. CASE <<p, m>> # <<q, n>>
      BY <2>2, <2>4, <2>5, <3>2 DEF CallsAreTimely
    <3> QED BY <3>1, <3>2
  <2>6. ASSUME NEW p \in Reports
        PROVE  /\ sender'[p].signed <= now'
               /\ sender'[p].tries = 0 =>
                    /\ \A m \in Tries : calls'[p][m].stage = "none"
                    /\ \A r \in Replicas : counters'[r][p] = 0
    <3>1. sender[p].tries = 0 => p # q
      BY <2>2 DEF CallsAreTimely
    <3> QED BY <2>2, <2>4, <3>1 DEF CallsAreTimely
  <2>7. CallsAreTimely'
    BY <2>5, <2>6 DEF CallsAreTimely
  <2>8. Fewer
    <3>1. ASSUME NEW p \in Reports, NEW m \in Tries, calls'[p][m].stage = "accepted"
          PROVE  calls[p][m].stage = "accepted"
      <4>1. <<p, m>> # <<q, n>>
        BY <2>3, <2>4, <3>1
      <4> QED BY <2>4, <3>1, <4>1
    <3> QED BY <1>1, <2>2, <3>1
  <2>9. CostsAreBounded'
    BY <2>2, <2>8, QuietStepsKeepCosts
  <2> QED BY <2>7, <2>9
<1>14. ASSUME NEW q \in Reports, NEW n \in Tries,
              FindDuplicate(q, n) \/ FindFull(q, n) \/ ClaimRepeats(q, n)
       PROVE  CallsAreTimely' /\ CostsAreBounded'
  <2>1. PICK stage \in Stages :
          /\ calls' = [calls EXCEPT ![q][n].stage = stage] /\ stage # "accepted"
          /\ calls[q][n].stage \notin {"none", "arrived"}
          /\ UNCHANGED <<now, sender, counters, failovers>>
          /\ \/ redis' = redis
             \/ redis' = [redis EXCEPT !.rate[q.key].members = Recent(q.key, calls[q][n].stamp)]
    BY <1>14 DEF FindDuplicate, FindFull, ClaimRepeats, RunScript, Stages
  <2>2. /\ Quiet /\ calls'[q][n].stage = stage
        /\ \A p \in Reports : \A m \in Tries :
             <<p, m>> # <<q, n>> => calls'[p][m] = calls[p][m]
    BY <1>7, <2>1
  <2>3. redis'.replay = redis.replay
    BY <1>1, <2>1 DEF Store
  <2>4. Fewer
    <3>1. ASSUME NEW p \in Reports, NEW m \in Tries, calls'[p][m].stage = "accepted"
          PROVE  calls[p][m].stage = "accepted"
      <4>1. <<p, m>> # <<q, n>>
        BY <2>1, <2>2, <3>1
      <4> QED BY <2>2, <3>1, <4>1
    <3> QED BY <1>1, <2>1, <2>3, <3>1
  <2> QED BY <1>6, <2>2, <2>4
<1>15. ASSUME NEW q \in Reports, NEW n \in Tries, Grant(q, n)
       PROVE  CallsAreTimely' /\ CostsAreBounded'
  <2>1. PICK rate :
          /\ calls' = [calls EXCEPT ![q][n].stage = "accepted"] /\ calls[q][n].stage = "calling"
          /\ now <= calls[q][n].at + MaxDelay /\ ~ Claimed(q.id)
          /\ UNCHANGED <<now, sender, counters, failovers>>
          /\ redis' = [redis EXCEPT !.replay[q.id] = now + TTL, !.rate[q.key] = rate]
    BY <1>15 DEF Grant, RunScript
  <2>2. /\ Quiet /\ calls'[q][n].stage = "accepted"
        /\ \A p \in Reports : \A m \in Tries :
             <<p, m>> # <<q, n>> => calls'[p][m] = calls[p][m]
    BY <1>7, <2>1 DEF Stages
  <2>3. CallsAreTimely'
    BY <1>5, <2>1, <2>2
  <2>4. /\ redis'.replay[q.id] = now + TTL
        /\ \A i \in Ids : i # q.id => redis'.replay[i] = redis.replay[i]
    BY <1>1, <1>2, <2>1 DEF Store
  <2>5. redis.replay[q.id] < sender[q].signed + TTL
    <3>1. PICK at \in Nat, offset \in Int, signed \in Nat, replay \in Nat :
             /\ at = calls[q][n].at /\ offset = Offset[calls[q][n].replica]
             /\ signed = sender[q].signed /\ replay = redis.replay[q.id]
      <4>1. calls[q][n].at \in Nat /\ calls[q][n].replica \in Replicas
        BY <1>1 DEF Call
      <4>2. Offset[calls[q][n].replica] \in Int
        BY <4>1, OffsetAssumption
      <4>3. sender[q].signed \in Nat
        BY <1>1 DEF Sender
      <4>4. redis.replay[q.id] \in Nat
        BY <1>1, <1>2 DEF Store
      <4> QED BY <4>1, <4>2, <4>3, <4>4
    <3>2. 0 - MaxOffset <= offset
      BY <1>1, <1>3, <3>1, OffsetAssumption DEF Call
    <3>3. calls[q][n].stamp = at + offset /\ calls[q][n].stamp - signed <= ClockSkew
      BY <2>1, <3>1 DEF CallsAreTimely
    <3>4. now <= at + MaxDelay /\ ~ (now < replay)
      BY <2>1, <3>1 DEF Claimed
    <3>5. at + offset - signed <= ClockSkew
      BY <3>3
    <3>6. replay < signed + TTL
      BY <1>1, <1>3, <3>1, <3>2, <3>4, <3>5, TTLAssumption
    <3> QED BY <3>1, <3>6
  <2>6. ASSUME NEW p \in Reports
        PROVE  /\ IsFiniteSet(Counts(p))'
               /\ (Cost(p) <= 1 + failovers)'
               /\ (redis.replay[p.id] < sender[p].signed + TTL => Cost(p) <= failovers)'
    <3>1. /\ IsFiniteSet(Counts(p)) /\ Cost(p) <= 1 + failovers
          /\ redis.replay[p.id] < sender[p].signed + TTL => Cost(p) <= failovers
      BY DEF CostsAreBounded
    <3>2. Counts(p)' = Counts(p)
      BY <2>1 DEF Counts
    <3>3. sender[p].signed <= now /\ sender[p].signed \in Nat
      BY <1>1 DEF CallsAreTimely, Sender
    <3>4. redis'.replay[p.id] < sender[p].signed + TTL
            => p.id # q.id /\ redis.replay[p.id] < sender[p].signed + TTL
      <4>1. PICK signed \in Nat : signed = sender[p].signed /\ signed <= now
        BY <3>3
      <4>2. CASE p.id = q.id
        <5>1. ~ (now + TTL < signed + TTL)
          BY <1>1, <1>3, <4>1
        <5> QED BY <2>4, <4>1, <4>2, <5>1
      <4>3. CASE p.id # q.id
        BY <1>2, <2>4, <4>3
      <4> QED BY <4>2, <4>3
    <3>5. CASE p # q
      <4>1. AcceptedTries(p)' = AcceptedTries(p)
        BY <2>2, <3>5 DEF AcceptedTries
      <4>2. Cost(p)' = Cost(p)
        BY <3>2, <4>1 DEF Cost
      <4> QED BY <2>1, <3>1, <3>2, <3>4, <4>2
    <3>6. CASE p = q
      <4>1. AcceptedTries(q)' = AcceptedTries(q) \cup {n} /\ n \notin AcceptedTries(q)
        BY <2>1, <2>2 DEF AcceptedTries
      <4>2. Cardinality(AcceptedTries(q)') = Cardinality(AcceptedTries(q)) + 1
        BY <4>1, AcceptedTriesAreFinite, FS_AddElement
      <4>3. Cardinality(Counts(q)) \in Nat /\ Cardinality(AcceptedTries(q)) \in Nat
        BY <3>1, <3>6, AcceptedTriesAreFinite, FS_CardinalityType
      <4>4. Cost(q)' = Cost(q) + 1 /\ Cost(q) \in Nat
        BY <3>2, <3>6, <4>2, <4>3 DEF Cost
      <4> QED BY <1>1, <2>1, <2>5, <3>1, <3>2, <3>4, <3>6, <4>4
    <3> QED BY <3>5, <3>6
  <2> QED BY <2>3, <2>6 DEF CostsAreBounded
<1>16. ASSUME NEW q \in Reports, NEW n \in Tries, Record(q, n)
       PROVE  CallsAreTimely' /\ CostsAreBounded'
  <2>1. PICK r \in Replicas : r = calls[q][n].replica
    BY <1>1 DEF Call
  <2>2. /\ Answer(q, n, "accepted") /\ UNCHANGED <<now, redis, failovers>>
        /\ calls[q][n].stage = "accepted"
        /\ counters' = IF q.counts THEN [counters EXCEPT ![r][q] = counters[r][q] + 1] ELSE counters
    BY <1>16, <2>1 DEF Record
  <2>3. /\ \A p \in Reports : /\ sender'[p].signed = sender[p].signed
                              /\ sender'[p].tries = sender[p].tries
        /\ \A p \in Reports : \A m \in Tries :
             calls'[p][m].stage = "none" \/ calls'[p][m] = calls[p][m]
        /\ calls'[q][n].stage = "none"
    BY <2>2, AnswersAreQuiet, Answered
  <2>4. CASE ~ q.counts
    <3>1. Quiet /\ Fewer
      BY <1>1, <2>2, <2>3, <2>4
    <3> QED BY <1>6, <3>1
  <2>5. CASE q.counts
    <3>1. /\ counters'[r][q] = counters[r][q] + 1
          /\ \A p \in Reports : \A s \in Replicas :
               p # q \/ s # r => counters'[s][p] = counters[s][p]
      BY <1>1, <2>2, <2>5
    <3>2. Quiet
      BY <1>1, <2>2, <2>3
    <3>3. sender[q].tries # 0
      BY <2>2 DEF CallsAreTimely
    <3>4. CallsAreTimely'
      BY <1>5, <3>1, <3>2, <3>3
    <3>5. ASSUME NEW p \in Reports
          PROVE  IsFiniteSet(Counts(p)') /\ Cost(p) \in Nat /\ Cost(p)' \in Nat /\ Cost(p)' <= Cost(p)
      <4>1. IsFiniteSet(Counts(p))
        BY DEF CostsAreBounded
      <4>2. CASE p # q
        <5>1. \A s \in Replicas : counters'[s][p] <= counters[s][p]
          BY <1>1, <3>1, <4>2
        <5>2. \A m \in Tries : calls'[p][m].stage = "accepted" => calls[p][m].stage = "accepted"
          BY <2>3
        <5> QED BY <4>1, <5>1, <5>2, CostShrinks
      <4>3. CASE p = q
        <5>1. PICK c : c = <<r, counters[r][q] + 1>>
          OBVIOUS
        <5>2. Counts(q)' = Counts(q) \cup {c}
          <6>1. ASSUME NEW d \in Counts(q)'
                PROVE  d \in Counts(q) \cup {c}
            <7>1. PICK s \in Replicas : \E i \in 1..counters'[s][q] : d = <<s, i>>
              BY <6>1 DEF Counts
            <7>2. PICK i \in 1..counters'[s][q] : d = <<s, i>>
              BY <7>1
            <7>3. CASE s # r
              BY <3>1, <7>2, <7>3, CountsHas
            <7>4. CASE s = r /\ i = counters[r][q] + 1
              BY <5>1, <7>2, <7>4
            <7>5. CASE s = r /\ i # counters[r][q] + 1
              <8>1. i \in 1..counters[s][q]
                <9>1. PICK count \in Nat : count = counters[r][q]
                  BY <1>1
                <9>2. i \in 1..(count + 1) /\ i # count + 1
                  BY <3>1, <7>2, <7>5, <9>1
                <9>3. i \in 1..count
                  BY <9>1, <9>2
                <9> QED BY <7>5, <9>1, <9>3
              <8> QED BY <7>2, <8>1, CountsHas
            <7> QED BY <7>3, <7>4, <7>5
          <6>2. ASSUME NEW d \in Counts(q)
                PROVE  d \in Counts(q)'
            <7>1. PICK s \in Replicas : \E i \in 1..counters[s][q] : d = <<s, i>>
              BY <6>2 DEF Counts
            <7>2. PICK i \in 1..counters[s][q] : d = <<s, i>>
              BY <7>1
            <7>3. i \in 1..counters'[s][q]
              BY <1>1, <3>1, <7>2
            <7> QED BY <7>2, <7>3 DEF Counts
          <6>3. c \in Counts(q)'
            <7>1. counters[r][q] + 1 \in 1..counters'[r][q]
              BY <1>1, <3>1
            <7> QED BY <5>1, <7>1 DEF Counts
          <6> QED BY <6>1, <6>2, <6>3
        <5>3. IsFiniteSet(Counts(q)') /\ Cardinality(Counts(q)') <= Cardinality(Counts(q)) + 1
          BY <4>1, <4>3, <5>2, FS_AddElement, FS_CardinalityType
        <5>4. AcceptedTries(q)' = AcceptedTries(q) \ {n} /\ n \in AcceptedTries(q)
          BY <2>2, <2>3, Answered DEF AcceptedTries
        <5>5. Cardinality(AcceptedTries(q)') = Cardinality(AcceptedTries(q)) - 1
          BY <5>4, AcceptedTriesAreFinite, FS_RemoveElement
        <5>6. AcceptedTries(q)' \in SUBSET Tries
          BY DEF AcceptedTries
        <5>7. /\ Cardinality(Counts(q)) \in Nat /\ Cardinality(AcceptedTries(q)) \in Nat
              /\ Cardinality(Counts(q)') \in Nat /\ Cardinality(AcceptedTries(q)') \in Nat
          BY <4>1, <4>3, <5>3, <5>6, AcceptedTriesAreFinite, FS_CardinalityType
        <5> QED BY <4>3, <5>3, <5>5, <5>7 DEF Cost
      <4> QED BY <4>2, <4>3
    <3>6. ASSUME NEW p \in Reports
          PROVE  /\ IsFiniteSet(Counts(p))'
                 /\ (Cost(p) <= 1 + failovers)'
                 /\ (redis.replay[p.id] < sender[p].signed + TTL => Cost(p) <= failovers)'
      <4>1. /\ Cost(p) <= 1 + failovers
            /\ redis.replay[p.id] < sender[p].signed + TTL => Cost(p) <= failovers
        BY DEF CostsAreBounded
      <4>2. IsFiniteSet(Counts(p)') /\ Cost(p) \in Nat /\ Cost(p)' \in Nat /\ Cost(p)' <= Cost(p)
        BY <3>5
      <4>3. sender'[p].signed = sender[p].signed /\ redis' = redis /\ failovers' = failovers
        BY <2>2, <2>3
      <4> QED BY <1>1, <4>1, <4>2, <4>3
    <3>7. CostsAreBounded'
      BY <3>6 DEF CostsAreBounded
    <3> QED BY <3>4, <3>7
  <2> QED BY <2>4, <2>5
<1>17. ASSUME NEW r \in Replicas, Restart(r)
       PROVE  CallsAreTimely' /\ CostsAreBounded'
  <2>1. /\ UNCHANGED <<now, sender, redis, failovers>>
        /\ counters' = [counters EXCEPT ![r] = [q \in Reports |-> 0]]
        /\ \A q \in Reports : \A n \in Tries : calls'[q][n] = NoCall \/ calls'[q][n] = calls[q][n]
    BY <1>17 DEF Restart
  <2>2. Quiet
    BY <1>1, <1>4, <2>1
  <2>3. Fewer
    <3>1. \A p \in Reports : \A s \in Replicas : counters'[s][p] <= counters[s][p]
      BY <1>1, <2>1
    <3> QED BY <1>4, <2>1, <3>1
  <2> QED BY <1>6, <2>2, <2>3
<1>18. CASE Failover
  <2>1. failovers' = failovers + 1 /\ UNCHANGED <<now, sender, calls, counters>>
    BY <1>18 DEF Failover
  <2>2. Quiet
    BY <1>1, <2>1
  <2>3. CallsAreTimely'
    BY <1>5, <2>1, <2>2
  <2>4. ASSUME NEW p \in Reports
        PROVE  IsFiniteSet(Counts(p)') /\ Cost(p)' <= failovers'
    <3>1. Counts(p)' = Counts(p) /\ AcceptedTries(p)' = AcceptedTries(p)
      BY <2>1 DEF Counts, AcceptedTries
    <3>2. IsFiniteSet(Counts(p)) /\ Cost(p) <= 1 + failovers
      BY DEF CostsAreBounded
    <3> QED BY <1>1, <2>1, <3>1, <3>2 DEF Cost
  <2>5. ASSUME NEW p \in Reports
        PROVE  Cost(p)' <= 1 + failovers'
    <3>1. Cost(p)' \in Nat
      <4>1. AcceptedTries(p)' \in SUBSET Tries
        BY DEF AcceptedTries
      <4>2. Cardinality(AcceptedTries(p)') \in Nat /\ Cardinality(Counts(p)') \in Nat
        BY <2>4, <4>1, AcceptedTriesAreFinite, FS_CardinalityType
      <4> QED BY <4>2 DEF Cost
    <3> QED BY <1>1, <2>1, <2>4, <3>1
  <2> QED BY <2>3, <2>4, <2>5 DEF CostsAreBounded
<1>19. CASE UNCHANGED vars
  <2>1. Quiet /\ Fewer
    BY <1>1, <1>19 DEF vars
  <2> QED BY <1>6, <2>1
<1> QED
  BY <1>9, <1>10, <1>11, <1>12, <1>13, <1>14, <1>15, <1>16, <1>17, <1>18, <1>19, NextCases

LEMMA CostsStart ==
  ASSUME Init PROVE CallsAreTimely /\ CostsAreBounded
<1>1. CallsAreTimely
  BY DEF Init, CallsAreTimely, NoCall
<1>2. ASSUME NEW q \in Reports
      PROVE  Counts(q) = {} /\ AcceptedTries(q) = {}
  BY DEF Init, Counts, AcceptedTries, NoCall
<1>3. ASSUME NEW q \in Reports
      PROVE  IsFiniteSet(Counts(q)) /\ Cost(q) = 0
  BY <1>2, FS_EmptySet DEF Cost
<1> QED BY <1>1, <1>3 DEF Init, CostsAreBounded

(* However a signed request is retried, duplicated over replicas and       *)
(* delayed, it is counted once, and once more only for a failover of Redis *)
(* that forgot its claim.                                                  *)
THEOREM RequestsCountOnce == Spec => []CountedOnce
<1>1. Init => CallsAreTimely /\ CostsAreBounded
  BY CostsStart
<1>2. TypeOK /\ TypeOK' /\ CallsAreTimely /\ CostsAreBounded /\ [Next]_vars
        => CallsAreTimely' /\ CostsAreBounded'
  BY CostsStay
<1>3. TypeOK /\ CostsAreBounded => CountedOnce
  <2> SUFFICES ASSUME TypeOK, CostsAreBounded, NEW q \in Reports
      PROVE  Cardinality(Counts(q)) <= 1 + failovers
    BY DEF CountedOnce
  <2>1. IsFiniteSet(Counts(q)) /\ Cost(q) <= 1 + failovers /\ failovers \in Nat
    BY DEF CostsAreBounded, TypeOK
  <2> QED BY <2>1, AcceptedTriesAreFinite, FS_CardinalityType DEF Cost
<1> QED BY <1>1, <1>2, <1>3, TypeCorrect, PTL DEF Spec

-----------------------------------------------------------------------------
(* RateKept: what a copy of Redis remembers of the grants.                 *)

Live(g) == g.at > now - SureWindow

(* store remembers every grant that is still live but those of forgotten:  *)
(* the member is young enough for every replica's clock, the set and the   *)
(* replay key have not expired.                                            *)
Remembers(store, forgotten) ==
  /\ \A g \in granted \ forgotten : Live(g) =>
       /\ \E m \in store.rate[g.key].members :
            m.id = g.id /\ m.score >= g.at - MaxDelay - MaxOffset
       /\ store.rate[g.key].until >= g.at + Window
       /\ store.replay[g.id] >= g.at + TTL
  /\ \A g, h \in granted \ forgotten : Live(g) /\ Live(h) /\ g.id = h.id => g = h
  /\ \A k \in KeyIds :
       Cardinality({g \in granted \ forgotten : g.key = k /\ Live(g)}) <= Limit

StoresRemember ==
  /\ IsFiniteSet(granted)
  /\ \A g \in granted : g.at <= now
  /\ \A k \in KeyIds : IsFiniteSet(redis.rate[k].members) /\ IsFiniteSet(standby.rate[k].members)
  /\ \E forgotten \in SUBSET granted :
       Cardinality(forgotten) <= failovers /\ Remembers(redis, forgotten)
  /\ \E forgotten \in SUBSET granted :
       Cardinality(forgotten) <= failovers + 1 /\ Remembers(standby, forgotten)

LEMMA SureWindowIsSure ==
  /\ SureWindow \in Int /\ SureWindow <= TTL /\ SureWindow <= Window
  /\ SureWindow <= Window - 2 * MaxOffset - MaxDelay
BY TimesAssumption, OffsetAssumption DEF SureWindow

(* A store that has kept what the first one had remembers the grants that  *)
(* are still live.                                                         *)
LEMMA MemoryIsKept ==
  ASSUME TypeOK, TypeOK', NEW first \in Store, NEW second \in Store,
         NEW missing, NEW unseen, IsFiniteSet(granted), now <= now',
         Remembers(first, missing),
         granted' \ unseen \subseteq granted \ missing,
         \A g \in granted \ missing : Live(g) =>
           /\ \A m \in first.rate[g.key].members :
                m.id = g.id /\ m.score >= g.at - MaxDelay - MaxOffset
                  => m \in second.rate[g.key].members
           /\ second.rate[g.key].until = first.rate[g.key].until
           /\ second.replay[g.id] = first.replay[g.id]
  PROVE  Remembers(second, unseen)'
<1>1. \A g \in granted' : g \in [id : Ids, key : KeyIds, at : Nat]
  BY DEF TypeOK
<1>2. now \in Nat /\ now' \in Nat /\ SureWindow \in Int
  BY SureWindowIsSure DEF TypeOK
<1>3. ASSUME NEW g \in granted' \ unseen, Live(g)'
      PROVE  g \in granted \ missing /\ Live(g)
  <2>1. g.at \in Nat /\ g.at > now' - SureWindow
    BY <1>1, <1>3 DEF Live
  <2> QED BY <1>2, <2>1 DEF Live
<1>4. ASSUME NEW g \in granted' \ unseen, Live(g)'
      PROVE  /\ \E m \in second.rate[g.key].members :
                  m.id = g.id /\ m.score >= g.at - MaxDelay - MaxOffset
             /\ second.rate[g.key].until >= g.at + Window
             /\ second.replay[g.id] >= g.at + TTL
  <2>1. g \in granted \ missing /\ Live(g)
    BY <1>3, <1>4
  <2>2. /\ \E m \in first.rate[g.key].members :
             m.id = g.id /\ m.score >= g.at - MaxDelay - MaxOffset
        /\ first.rate[g.key].until >= g.at + Window
        /\ first.replay[g.id] >= g.at + TTL
    BY <2>1 DEF Remembers
  <2> QED BY <2>1, <2>2
<1>5. ASSUME NEW g \in granted' \ unseen, NEW h \in granted' \ unseen,
             Live(g)', Live(h)', g.id = h.id
      PROVE  g = h
  BY <1>3, <1>5 DEF Remembers
<1>6. ASSUME NEW k \in KeyIds
      PROVE  (Cardinality({g \in granted \ unseen : g.key = k /\ Live(g)}) <= Limit)'
  <2> DEFINE Before == {g \in granted \ missing : g.key = k /\ Live(g)}
             After == {g \in granted' \ unseen : g.key = k /\ Live(g)'}
  <2>1. After \subseteq Before
    BY <1>3
  <2>2. IsFiniteSet(Before)
    BY FS_Subset
  <2>3. Cardinality(Before) <= Limit
    BY DEF Remembers
  <2> HIDE DEF Before, After
  <2>4. IsFiniteSet(After) /\ Cardinality(After) <= Cardinality(Before)
    BY <2>1, <2>2, FS_Subset
  <2>5. Cardinality(After) \in Nat /\ Cardinality(Before) \in Nat
    BY <2>2, <2>4, FS_CardinalityType
  <2>6. Cardinality(After) <= Limit
    BY <2>3, <2>4, <2>5, CountsAssumption
  <2> QED BY <2>6 DEF After
<1> QED BY <1>4, <1>5, <1>6 DEF Remembers

(* No replica's clock is so far ahead that the script drops the member of  *)
(* a grant that is still live.                                             *)
LEMMA LiveMembersAreRecent ==
  ASSUME TypeOK, NEW missing, Remembers(redis, missing), \A g \in granted : g.at <= now,
         NEW at \in Nat, NEW r \in Replicas, at <= now,
         NEW g \in granted \ missing, Live(g),
         NEW m \in redis.rate[g.key].members, m.score >= g.at - MaxDelay - MaxOffset
  PROVE  m \in Recent(g.key, at + Offset[r])
<1>1. /\ g \in [id : Ids, key : KeyIds, at : Nat] /\ redis \in Store /\ now \in Nat
  BY DEF TypeOK, Store
<1>2. PICK until \in Nat, mark \in Int, begun \in Nat, offset \in Int :
        /\ until = redis.rate[g.key].until /\ mark = m.score /\ begun = g.at
        /\ offset = Offset[r] /\ offset <= MaxOffset
  <2>1. redis.rate[g.key] \in Rate
    BY <1>1 DEF Store
  <2>2. redis.rate[g.key].until \in Nat /\ m.score \in Int
    BY <2>1 DEF Rate
  <2>3. g.at \in Nat
    BY <1>1
  <2>4. Offset[r] \in Int /\ Offset[r] <= MaxOffset
    BY OffsetAssumption
  <2> QED BY <2>2, <2>3, <2>4
<1>3. until >= begun + Window
  BY <1>2 DEF Remembers
<1>4. begun > now - SureWindow /\ mark >= begun - MaxDelay - MaxOffset
  BY <1>2 DEF Live
<1>5. /\ Window \in Nat /\ MaxDelay \in Nat /\ MaxOffset \in Nat /\ SureWindow \in Int
      /\ SureWindow <= Window /\ SureWindow <= Window - 2 * MaxOffset - MaxDelay
  BY SureWindowIsSure, TimesAssumption, OffsetAssumption
<1>6. now < until
  BY <1>1, <1>2, <1>3, <1>4, <1>5
<1>7. mark > at + offset - Window
  BY <1>1, <1>2, <1>4, <1>5
<1>8. m.score > (at + Offset[r]) - Window
  BY <1>2, <1>5, <1>7
<1>9. now < redis.rate[g.key].until
  BY <1>2, <1>6
<1> HIDE DEF Remembers, TypeOK
<1> QED BY <1>8, <1>9 DEF Recent

(* If the script finds room in the window, fewer than Limit grants that    *)
(* are live and not forgotten are of its key: each has a member there.     *)
LEMMA RoomForOne ==
  ASSUME TypeOK, NEW missing, Remembers(redis, missing), \A g \in granted : g.at <= now,
         IsFiniteSet(granted), NEW k \in KeyIds, IsFiniteSet(redis.rate[k].members),
         NEW at \in Nat, NEW r \in Replicas, at <= now, ~ Full(k, at + Offset[r])
  PROVE  LET G == {g \in granted \ missing : g.key = k /\ Live(g)} IN
         IsFiniteSet(G) /\ Cardinality(G) \in Nat /\ Cardinality(G) + 1 <= Limit
<1> DEFINE G == {g \in granted \ missing : g.key = k /\ Live(g)}
           R == Recent(k, at + Offset[r])
           member == [g \in G |-> CHOOSE m \in R : m.id = g.id]
<1>1. IsFiniteSet(G) /\ IsFiniteSet(R)
  <2>1. G \subseteq granted /\ R \subseteq redis.rate[k].members
    BY DEF Recent
  <2> QED BY <2>1, FS_Subset
<1>2. Cardinality(G) \in Nat /\ Cardinality(R) \in Nat
  BY <1>1, FS_CardinalityType
<1>3. ASSUME NEW g \in G
      PROVE  \E m \in R : m.id = g.id
  <2>1. PICK m \in redis.rate[g.key].members :
          m.id = g.id /\ m.score >= g.at - MaxDelay - MaxOffset
    BY DEF Remembers
  <2>2. m \in Recent(g.key, at + Offset[r])
    BY <2>1, LiveMembersAreRecent
  <2> QED BY <2>1, <2>2
<1>4. \A g, h \in G : g.id = h.id => g = h
  BY DEF Remembers
<1> HIDE DEF G, R
<1>5. \A g \in G : member[g] \in R /\ member[g].id = g.id
  BY <1>3
<1>6. member \in [G -> R]
  BY <1>5
<1>7. \A g, h \in G : member[g] = member[h] => g = h
  <2> SUFFICES ASSUME NEW g \in G, NEW h \in G, member[g] = member[h] PROVE g = h
    OBVIOUS
  <2>1. g.id = h.id
    BY <1>5
  <2> QED BY <1>4, <2>1
<1>8. ~ Cardinality(R) < Cardinality(G)
  <2> HIDE DEF member
  <2> QED BY <1>1, <1>6, <1>7, FS_PigeonHole
<1>9. ~ Cardinality(R) >= Limit
  BY DEF Full, R
<1>10. Cardinality(G) + 1 <= Limit
  BY <1>2, <1>8, <1>9, CountsAssumption
<1> QED BY <1>1, <1>2, <1>10 DEF G

(* Every step keeps what the copies of Redis remember.                     *)
LEMMA MemoriesStay ==
  ASSUME TypeOK, TypeOK', CallsAreTimely, StoresRemember, [Next]_vars
  PROVE  StoresRemember'
<1>1. /\ now \in Nat /\ now' \in Nat /\ failovers \in Nat /\ failovers' \in Nat
      /\ calls \in [Reports -> [Tries -> Call]]
      /\ redis \in Store /\ standby \in Store /\ redis' \in Store /\ standby' \in Store
      /\ granted \subseteq [id : Ids, key : KeyIds, at : Nat]
  BY DEF TypeOK, Store
<1>2. \A q \in Reports : q.id \in Ids /\ q.key \in KeyIds
  BY ReportsAssumption DEF Report
<1>3. /\ IsFiniteSet(granted)
      /\ \A g \in granted : g.at <= now
      /\ \A k \in KeyIds : IsFiniteSet(redis.rate[k].members) /\ IsFiniteSet(standby.rate[k].members)
  BY DEF StoresRemember
<1>4. PICK missing \in SUBSET granted : Cardinality(missing) <= failovers /\ Remembers(redis, missing)
  BY DEF StoresRemember
<1>5. PICK unseen \in SUBSET granted :
        Cardinality(unseen) <= failovers + 1 /\ Remembers(standby, unseen)
  BY DEF StoresRemember
<1>6. /\ IsFiniteSet(missing) /\ Cardinality(missing) \in Nat
      /\ IsFiniteSet(unseen) /\ Cardinality(unseen) \in Nat
  BY <1>3, FS_Subset, FS_CardinalityType
(* Nothing is granted and no store changes, or the standby has taken over. *)
<1>7. ASSUME now <= now', granted' = granted, standby' = standby,
             \/ redis' = redis /\ failovers <= failovers'
             \/ redis' = standby /\ failovers' = failovers + 1
      PROVE  StoresRemember'
  <2>1. Remembers(redis, missing)' \/ redis' # redis
    <3>1. PICK store \in Store : store = redis
      BY <1>1
    <3>2. Remembers(store, missing)'
      BY <1>3, <1>4, <1>7, <3>1, MemoryIsKept
    <3> QED BY <3>1, <3>2 DEF Remembers
  <2>2. Remembers(standby, unseen)'
    <3>1. PICK store \in Store : store = standby
      BY <1>1
    <3>2. Remembers(store, unseen)'
      BY <1>3, <1>5, <1>7, <3>1, MemoryIsKept
    <3> QED BY <1>7, <3>1, <3>2 DEF Remembers
  <2>3. redis' # redis => Remembers(redis, unseen)'
    BY <1>7, <2>2 DEF Remembers
  <2>4. \E forgotten \in SUBSET granted' :
          Cardinality(forgotten) <= failovers' /\ Remembers(redis, forgotten)'
    <3>1. CASE redis' = redis
      <4>1. Cardinality(missing) <= failovers'
        BY <1>1, <1>4, <1>6, <1>7
      <4> QED BY <1>7, <2>1, <3>1, <4>1
    <3>2. CASE redis' # redis
      BY <1>5, <1>7, <2>3, <3>2
    <3> QED BY <3>1, <3>2
  <2>5. \E forgotten \in SUBSET granted' :
          Cardinality(forgotten) <= failovers' + 1 /\ Remembers(standby, forgotten)'
    <3>1. Cardinality(unseen) <= failovers' + 1
      BY <1>1, <1>5, <1>6, <1>7
    <3> QED BY <1>7, <2>2, <3>1
  <2>6. \A g \in granted' : g.at <= now'
    <3> SUFFICES ASSUME NEW g \in granted PROVE g.at <= now'
      BY <1>7
    <3>1. g.at \in Nat /\ g.at <= now
      BY <1>1, <1>3
    <3> QED BY <1>1, <1>7, <3>1
  <2>7. \A k \in KeyIds : IsFiniteSet(redis'.rate[k].members) /\ IsFiniteSet(standby'.rate[k].members)
    BY <1>3, <1>7
  <2> QED BY <1>3, <1>7, <2>4, <2>5, <2>6, <2>7 DEF StoresRemember
<1>8. ASSUME NEW q \in Reports, NEW n \in Tries, FindFull(q, n)
      PROVE  StoresRemember'
  <2>1. /\ UNCHANGED <<now, granted, failovers>> /\ standby' = redis
        /\ calls[q][n].stage = "calling"
        /\ redis' = [redis EXCEPT !.rate[q.key].members = Recent(q.key, calls[q][n].stamp)]
    BY <1>8 DEF FindFull, RunScript
  <2>2. PICK at \in Nat, r \in Replicas :
          calls[q][n].stamp = at + Offset[r] /\ at <= now
    BY <1>1, <2>1 DEF CallsAreTimely, Call
  <2>3. /\ redis'.replay = redis.replay
        /\ \A k \in KeyIds : redis'.rate[k].until = redis.rate[k].until
        /\ \A k \in KeyIds : k # q.key => redis'.rate[k].members = redis.rate[k].members
        /\ redis'.rate[q.key].members = Recent(q.key, at + Offset[r])
    <3>1. \A k \in KeyIds : redis.rate[k] \in Rate
      BY <1>1 DEF Store
    <3>2. PICK rate : rate = [redis.rate[q.key] EXCEPT !.members = Recent(q.key, calls[q][n].stamp)]
      OBVIOUS
    <3>3. redis' = [redis EXCEPT !.rate[q.key] = rate]
      BY <1>1, <1>2, <2>1, <3>2 DEF Store
    <3>4. rate.until = redis.rate[q.key].until /\ rate.members = Recent(q.key, at + Offset[r])
      BY <1>2, <2>2, <3>1, <3>2 DEF Rate
    <3>5. /\ redis'.replay = redis.replay /\ redis'.rate[q.key] = rate
          /\ \A k \in KeyIds : k # q.key => redis'.rate[k] = redis.rate[k]
      BY <1>1, <1>2, <3>3 DEF Store
    <3> QED BY <3>4, <3>5
  <2>4. Remembers(redis, missing)'
    <3>1. PICK first \in Store, second \in Store : first = redis /\ second = redis'
      BY <1>1
    <3>2. ASSUME NEW g \in granted \ missing, Live(g)
          PROVE  /\ \A m \in first.rate[g.key].members :
                      m.id = g.id /\ m.score >= g.at - MaxDelay - MaxOffset
                        => m \in second.rate[g.key].members
                 /\ second.rate[g.key].until = first.rate[g.key].until
                 /\ second.replay[g.id] = first.replay[g.id]
      <4>1. g.key \in KeyIds
        BY <1>1
      <4>2. ASSUME NEW m \in redis.rate[g.key].members, m.score >= g.at - MaxDelay - MaxOffset
            PROVE  m \in redis'.rate[g.key].members
        <5>1. m \in Recent(g.key, at + Offset[r])
          BY <1>3, <1>4, <2>2, <3>2, <4>2, LiveMembersAreRecent
        <5> QED BY <2>3, <4>1, <5>1
      <4> QED BY <2>3, <3>1, <4>1, <4>2
    <3>3. Remembers(second, missing)'
      <4>1. /\ now <= now' /\ granted' \ missing \subseteq granted \ missing
            /\ IsFiniteSet(granted) /\ Remembers(first, missing)
        BY <1>1, <1>3, <1>4, <2>1, <3>1 DEF Remembers
      <4> QED BY <3>2, <4>1, MemoryIsKept
    <3> QED BY <3>1, <3>3 DEF Remembers
  <2>5. Remembers(standby, missing)'
    <3>1. PICK store \in Store : store = redis
      BY <1>1
    <3>2. Remembers(store, missing)'
      BY <1>1, <1>3, <1>4, <2>1, <3>1, MemoryIsKept
    <3> QED BY <2>1, <3>1, <3>2 DEF Remembers
  <2>6. \A k \in KeyIds : IsFiniteSet(redis'.rate[k].members) /\ IsFiniteSet(standby'.rate[k].members)
    <3>1. Recent(q.key, at + Offset[r]) \subseteq redis.rate[q.key].members
      BY DEF Recent
    <3>2. IsFiniteSet(Recent(q.key, at + Offset[r]))
      BY <1>2, <1>3, <3>1, FS_Subset
    <3> QED BY <1>3, <2>1, <2>3, <3>2
  <2>7. Cardinality(missing) <= failovers' /\ Cardinality(missing) <= failovers' + 1
    BY <1>1, <1>4, <1>6, <2>1
  <2> QED BY <1>3, <2>1, <2>4, <2>5, <2>6, <2>7 DEF StoresRemember
<1>9. ASSUME NEW q \in Reports, NEW n \in Tries, Grant(q, n)
      PROVE  StoresRemember'
  <2>1. PICK at \in Nat, r \in Replicas, stamp \in Int :
          /\ stamp = calls[q][n].stamp /\ stamp = at + Offset[r] /\ at <= now
          /\ now <= at + MaxDelay
    <3>1. calls[q][n].stage = "calling" /\ now <= calls[q][n].at + MaxDelay
      BY <1>9 DEF Grant, RunScript
    <3>2. calls[q][n].at \in Nat /\ calls[q][n].replica \in Replicas /\ calls[q][n].stamp \in Int
      BY <1>1 DEF Call
    <3> QED BY <3>1, <3>2 DEF CallsAreTimely
  <2>2. PICK g0 : g0 = [id |-> q.id, key |-> q.key, at |-> now]
    OBVIOUS
  <2>3. PICK rate : rate = [members |-> {m \in Recent(q.key, stamp) : m.id # q.id}
                                          \cup {[id |-> q.id, score |-> stamp]},
                            until |-> now + Window]
    OBVIOUS
  <2>4. /\ UNCHANGED <<now, failovers>> /\ standby' = redis
        /\ ~ Claimed(q.id) /\ ~ Full(q.key, stamp)
        /\ redis' = [redis EXCEPT !.replay[q.id] = now + TTL, !.rate[q.key] = rate]
        /\ granted' = granted \cup {g0}
    BY <1>9, <2>1, <2>2, <2>3 DEF Grant, RunScript
  <2>5. /\ redis'.replay[q.id] = now + TTL
        /\ \A i \in Ids : i # q.id => redis'.replay[i] = redis.replay[i]
        /\ redis'.rate[q.key] = rate
        /\ \A k \in KeyIds : k # q.key => redis'.rate[k] = redis.rate[k]
    BY <1>1, <1>2, <2>4 DEF Store
  (* A live grant the claim finds remembered is another event's.           *)
  <2>6. ASSUME NEW g \in granted \ missing, Live(g)
        PROVE  g.id # q.id
    <3>1. PICK begun \in Nat, replay \in Nat : begun = g.at /\ replay = redis.replay[g.id]
      BY <1>1 DEF Store
    <3>2. replay >= begun + TTL /\ begun > now - SureWindow
      BY <1>4, <2>6, <3>1 DEF Remembers, Live
    <3>3. now < replay
      BY <1>1, <3>1, <3>2, SureWindowIsSure, TimesAssumption
    <3> QED BY <2>4, <3>1, <3>3 DEF Claimed
  <2>7. ASSUME NEW g \in granted \ missing, Live(g)
        PROVE  /\ \E m \in redis'.rate[g.key].members :
                    m.id = g.id /\ m.score >= g.at - MaxDelay - MaxOffset
               /\ redis'.rate[g.key].until >= g.at + Window
               /\ redis'.replay[g.id] >= g.at + TTL
    <3>1. /\ g.id \in Ids /\ g.key \in KeyIds /\ g.at \in Nat /\ g.at <= now
      BY <1>1, <1>3
    <3>2. /\ redis.rate[g.key].until >= g.at + Window
          /\ redis.replay[g.id] >= g.at + TTL
      BY <1>4, <2>7 DEF Remembers
    <3>3. PICK m \in redis.rate[g.key].members :
            m.id = g.id /\ m.score >= g.at - MaxDelay - MaxOffset
      BY <1>4, <2>7 DEF Remembers
    <3>4. redis'.replay[g.id] >= g.at + TTL
      BY <2>5, <2>6, <2>7, <3>1, <3>2
    <3>5. CASE g.key # q.key
      BY <2>5, <3>1, <3>2, <3>3, <3>4, <3>5
    <3>6. CASE g.key = q.key
      <4>1. m \in Recent(q.key, stamp)
        BY <1>3, <1>4, <2>1, <2>7, <3>3, <3>6, LiveMembersAreRecent
      <4>2. m \in rate.members
        BY <2>3, <2>6, <2>7, <3>3, <4>1
      <4>3. rate.until >= g.at + Window
        BY <1>1, <2>3, <3>1, TimesAssumption
      <4> QED BY <2>5, <3>3, <3>4, <3>6, <4>2, <4>3
    <3> QED BY <3>5, <3>6
  <2>8. /\ g0.id = q.id /\ g0.key = q.key /\ g0.at = now
        /\ \E m \in redis'.rate[g0.key].members :
             m.id = g0.id /\ m.score >= g0.at - MaxDelay - MaxOffset
        /\ redis'.rate[g0.key].until >= g0.at + Window
        /\ redis'.replay[g0.id] >= g0.at + TTL
    <3>1. g0.id = q.id /\ g0.key = q.key /\ g0.at = now
      BY <2>2
    <3>2. PICK offset \in Int : offset = Offset[r] /\ 0 - MaxOffset <= offset
      BY OffsetAssumption
    <3>3. stamp >= now - MaxDelay - MaxOffset
      BY <1>1, <2>1, <3>2, TimesAssumption, OffsetAssumption
    <3>4. PICK m : m = [id |-> q.id, score |-> stamp]
      OBVIOUS
    <3>5. m \in rate.members /\ m.id = q.id /\ m.score = stamp
      BY <2>3, <3>4
    <3>6. rate.until >= now + Window /\ redis'.replay[q.id] >= now + TTL
      BY <1>1, <2>3, <2>5, TimesAssumption
    <3> QED BY <2>5, <3>1, <3>3, <3>5, <3>6
  <2>9. \A g : Live(g)' <=> Live(g)
    BY <2>4 DEF Live
  <2>10. Remembers(redis, missing)'
    <3>1. ASSUME NEW g \in granted' \ missing, Live(g)'
          PROVE  /\ \E m \in redis'.rate[g.key].members :
                      m.id = g.id /\ m.score >= g.at - MaxDelay - MaxOffset
                 /\ redis'.rate[g.key].until >= g.at + Window
                 /\ redis'.replay[g.id] >= g.at + TTL
      BY <2>4, <2>7, <2>8, <2>9, <3>1
    <3>2. ASSUME NEW g \in granted' \ missing, NEW h \in granted' \ missing,
                 Live(g)', Live(h)', g.id = h.id
          PROVE  g = h
      <4>1. CASE g \in granted /\ h \in granted
        BY <1>4, <2>9, <3>2, <4>1 DEF Remembers
      <4>2. CASE g = g0 \/ h = g0
        BY <2>4, <2>6, <2>8, <2>9, <3>2, <4>2
      <4> QED BY <2>4, <4>1, <4>2
    <3>3. ASSUME NEW k \in KeyIds
          PROVE  (Cardinality({g \in granted \ missing : g.key = k /\ Live(g)}) <= Limit)'
      <4> DEFINE Before == {g \in granted \ missing : g.key = k /\ Live(g)}
                 After == {g \in granted' \ missing : g.key = k /\ Live(g)'}
      <4>1. IsFiniteSet(Before) /\ Cardinality(Before) \in Nat /\ Cardinality(Before) <= Limit
        <5>1. Before \subseteq granted
          OBVIOUS
        <5>2. IsFiniteSet(Before)
          BY <1>3, <5>1, FS_Subset
        <5> QED BY <1>4, <5>2, FS_CardinalityType DEF Remembers
      <4>2. CASE k # q.key
        <5>1. After \subseteq Before
          BY <2>4, <2>8, <2>9, <4>2
        <5> HIDE DEF Before, After
        <5>2. IsFiniteSet(After) /\ Cardinality(After) <= Cardinality(Before)
          BY <4>1, <5>1, FS_Subset
        <5>3. Cardinality(After) \in Nat
          BY <5>2, FS_CardinalityType
        <5>4. Cardinality(After) <= Limit
          BY <4>1, <5>2, <5>3, CountsAssumption
        <5> QED BY <5>4 DEF After
      <4>3. CASE k = q.key
        <5>1. After \subseteq Before \cup {g0}
          BY <2>4, <2>9
        <5>2. Cardinality(Before) + 1 <= Limit
          <6>1. ~ Full(k, at + Offset[r]) /\ IsFiniteSet(redis.rate[k].members)
            BY <1>3, <2>1, <2>4, <4>3
          <6>2. at <= now /\ IsFiniteSet(granted) /\ (\A g \in granted : g.at <= now)
                /\ Remembers(redis, missing)
            BY <1>3, <1>4, <2>1
          <6> QED BY <6>1, <6>2, RoomForOne
        <5> HIDE DEF Before, After
        <5>3. IsFiniteSet(Before \cup {g0}) /\ Cardinality(Before \cup {g0}) <= Cardinality(Before) + 1
          BY <4>1, FS_AddElement
        <5>4. IsFiniteSet(After) /\ Cardinality(After) <= Cardinality(Before \cup {g0})
          BY <5>1, <5>3, FS_Subset
        <5>5. Cardinality(After) \in Nat /\ Cardinality(Before \cup {g0}) \in Nat
          BY <5>3, <5>4, FS_CardinalityType
        <5>6. Cardinality(After) <= Limit
          BY <4>1, <5>2, <5>3, <5>4, <5>5, CountsAssumption
        <5> QED BY <5>6 DEF After
      <4> QED BY <4>2, <4>3
    <3> QED BY <3>1, <3>2, <3>3 DEF Remembers
  <2>11. Remembers(standby, missing \cup {g0})'
    <3>1. PICK store \in Store : store = redis
      BY <1>1
    <3>2. PICK more : more = missing \cup {g0}
      OBVIOUS
    <3>3. granted' \ more \subseteq granted \ missing
      BY <2>4, <3>2
    <3>4. Remembers(store, more)'
      BY <1>1, <1>3, <1>4, <2>4, <3>1, <3>3, MemoryIsKept
    <3> QED BY <2>4, <3>1, <3>2, <3>4 DEF Remembers
  <2>12. \A k \in KeyIds : IsFiniteSet(redis'.rate[k].members) /\ IsFiniteSet(standby'.rate[k].members)
    <3>1. {m \in Recent(q.key, stamp) : m.id # q.id} \subseteq redis.rate[q.key].members
      BY DEF Recent
    <3>2. IsFiniteSet({m \in Recent(q.key, stamp) : m.id # q.id})
      BY <1>2, <1>3, <3>1, FS_Subset
    <3>3. IsFiniteSet(rate.members)
      BY <2>3, <3>2, FS_AddElement
    <3> QED BY <1>3, <2>4, <2>5, <3>3
  <2>13. IsFiniteSet(granted') /\ \A g \in granted' : g.at <= now'
    <3>1. IsFiniteSet(granted')
      BY <1>3, <2>4, FS_AddElement
    <3> QED BY <1>1, <1>3, <2>4, <2>8, <3>1
  <2>14. Cardinality(missing \cup {g0}) <= failovers' + 1
    <3>1. Cardinality(missing \cup {g0}) <= Cardinality(missing) + 1
      <4>1. \/ Cardinality(missing \cup {g0}) = Cardinality(missing)
            \/ Cardinality(missing \cup {g0}) = Cardinality(missing) + 1
        BY <1>6, FS_AddElement
      <4> QED BY <1>6, <4>1
    <3>2. Cardinality(missing \cup {g0}) \in Nat
      BY <1>6, FS_AddElement, FS_CardinalityType
    <3> QED BY <1>1, <1>4, <1>6, <2>4, <3>1, <3>2
  <2>15. missing \subseteq granted' /\ missing \cup {g0} \subseteq granted'
    BY <2>4
  <2>16. \E forgotten \in SUBSET granted' :
           Cardinality(forgotten) <= failovers' /\ Remembers(redis, forgotten)'
    BY <1>4, <2>4, <2>10, <2>15
  <2>17. \E forgotten \in SUBSET granted' :
           Cardinality(forgotten) <= failovers' + 1 /\ Remembers(standby, forgotten)'
    BY <2>11, <2>14, <2>15
  <2> QED BY <2>12, <2>13, <2>16, <2>17 DEF StoresRemember
<1>10. CASE Tick
  BY <1>1, <1>7, <1>10 DEF Tick
<1>11. ASSUME NEW q \in Reports, NEW r \in Replicas, Send(q, r)
       PROVE  StoresRemember'
  BY <1>1, <1>7, <1>11 DEF Send
<1>12. ASSUME NEW q \in Reports, GiveUpWaiting(q)
       PROVE  StoresRemember'
  BY <1>1, <1>7, <1>12 DEF GiveUpWaiting
<1>13. ASSUME NEW q \in Reports, NEW n \in Tries,
              \/ Refuse(q, n) \/ CallScript(q, n) \/ FindDuplicate(q, n) \/ Record(q, n)
              \/ TurnAway(q, n) \/ ClaimFails(q, n) \/ ClaimRepeats(q, n)
       PROVE  StoresRemember'
  <2>1. UNCHANGED <<now, redis, standby, granted, failovers>>
    BY <1>13 DEF Refuse, CallScript, FindDuplicate, RunScript, Record, TurnAway, ClaimFails,
                 ClaimRepeats
  <2> QED BY <1>1, <1>7, <2>1
<1>14. ASSUME NEW r \in Replicas, Restart(r)
       PROVE  StoresRemember'
  BY <1>1, <1>7, <1>14 DEF Restart
<1>15. CASE Failover
  BY <1>1, <1>7, <1>15 DEF Failover
<1>16. CASE UNCHANGED vars
  BY <1>1, <1>7, <1>16 DEF vars
<1> QED
  BY <1>8, <1>9, <1>10, <1>11, <1>12, <1>13, <1>14, <1>15, <1>16, NextCases

(* In a window shorter than the rate window by the clocks' distance and    *)
(* the calls' delay, Redis grants a key Limit claims, and one more for     *)
(* each failover that forgot one.                                          *)
THEOREM RateIsLimited == Spec => []RateKept
<1>1. Init => CallsAreTimely /\ CostsAreBounded
  BY CostsStart
<1>2. Init => StoresRemember
  <2> SUFFICES ASSUME Init PROVE StoresRemember
    OBVIOUS
  <2>1. /\ granted = {} /\ failovers = 0
        /\ \A k \in KeyIds : redis.rate[k].members = {} /\ standby.rate[k].members = {}
    BY DEF Init, Empty, EmptyRate
  <2>2. ASSUME NEW k
        PROVE  {g \in granted \ {} : g.key = k /\ Live(g)} = {}
    BY <2>1
  <2>3. IsFiniteSet({}) /\ Cardinality({}) = 0
    BY FS_EmptySet
  <2>4. Remembers(redis, {}) /\ Remembers(standby, {})
    BY <2>1, <2>2, <2>3, CountsAssumption DEF Remembers
  <2>5. \A k \in KeyIds : IsFiniteSet(redis.rate[k].members) /\ IsFiniteSet(standby.rate[k].members)
    BY <2>1, <2>3
  <2>6. {} \in SUBSET granted /\ Cardinality({}) <= failovers /\ Cardinality({}) <= failovers + 1
    BY <2>1, <2>3
  <2> QED BY <2>1, <2>3, <2>4, <2>5, <2>6 DEF StoresRemember
<1>3. TypeOK /\ TypeOK' /\ CallsAreTimely /\ CostsAreBounded /\ StoresRemember /\ [Next]_vars
        => CallsAreTimely' /\ CostsAreBounded' /\ StoresRemember'
  BY CostsStay, MemoriesStay
<1>4. TypeOK /\ StoresRemember => RateKept
  <2> SUFFICES ASSUME TypeOK, StoresRemember, NEW k \in KeyIds
      PROVE  Cardinality({g \in granted : g.key = k /\ g.at > now - SureWindow})
               <= Limit + failovers
    BY DEF RateKept
  <2>1. PICK missing \in SUBSET granted :
          Cardinality(missing) <= failovers /\ Remembers(redis, missing)
    BY DEF StoresRemember
  <2> DEFINE All == {g \in granted : g.key = k /\ g.at > now - SureWindow}
             Kept == {g \in granted \ missing : g.key = k /\ Live(g)}
  <2>2. All \subseteq Kept \cup missing /\ Kept \subseteq granted
    BY DEF Live
  <2>3. Cardinality(Kept) <= Limit /\ failovers \in Nat /\ Limit \in Nat
    BY <2>1, CountsAssumption DEF Remembers, TypeOK
  <2> HIDE DEF All, Kept
  <2>4. IsFiniteSet(Kept) /\ IsFiniteSet(missing)
    BY <2>1, <2>2, FS_Subset DEF StoresRemember
  <2>5. /\ IsFiniteSet(Kept \cup missing)
        /\ Cardinality(Kept \cup missing)
             = Cardinality(Kept) + Cardinality(missing) - Cardinality(Kept \cap missing)
    BY <2>4, FS_Union
  <2>6. IsFiniteSet(All) /\ Cardinality(All) <= Cardinality(Kept \cup missing)
    BY <2>2, <2>5, FS_Subset
  <2>7. IsFiniteSet(Kept \cap missing)
    BY <2>4, FS_Subset
  <2>8. /\ Cardinality(Kept) \in Nat /\ Cardinality(missing) \in Nat
        /\ Cardinality(Kept \cap missing) \in Nat /\ Cardinality(All) \in Nat
        /\ Cardinality(Kept \cup missing) \in Nat
    BY <2>4, <2>5, <2>6, <2>7, FS_CardinalityType
  <2>9. Cardinality(All) <= Limit + failovers
    BY <2>1, <2>3, <2>5, <2>6, <2>8
  <2> QED BY <2>9 DEF All
<1> QED BY <1>1, <1>2, <1>3, <1>4, TypeCorrect, PTL DEF Spec

=============================================================================
