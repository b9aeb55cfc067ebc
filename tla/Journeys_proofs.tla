--------------------------- MODULE Journeys_proofs ---------------------------
(***************************************************************************)
(* What is proved of a workflow holds of the journeys it is part of: a     *)
(* step of the journeys is one of the workflow or leaves it alone.         *)
(***************************************************************************)
EXTENDS Journeys, FiniteSetTheorems, TLAPS

J34P == INSTANCE DoubleAllocation_proofs
        WITH MaximumAttempts <- DefaultAttempts, MaxChanges <- MaxRecordChanges,
             step <- allocationStep, attempt <- allocationAttempt

STEPSP == INSTANCE JourneySteps_proofs
          WITH at <- planStep, attempt <- planAttempt, status <- planStatus

(* The workflow of steps in the journeys is that of its module.            *)
LEMMA StepsAreLifted ==
  /\ Init => STEPSP!Init
  /\ [Next]_vars => [STEPSP!Next]_(STEPSP!vars)
  /\ STEPSP!ConstantsAssumption
<1>1. Init => STEPSP!Init
  BY DEF Init,
         STEPS!Init, STEPSP!Init, STEPS!Numbers, STEPSP!Numbers
<1>2. [Next]_vars => [STEPSP!Next]_(STEPSP!vars)
  <2>1. [Next]_vars => [STEPS!Next]_(STEPS!vars)
    BY DEF Next, vars, OthersThanAllocation, OthersThanBooking, OthersThanSteps,
           OthersThanOrchestrator, allocationVars, bookingVars, stepsVars, orchestratorVars,
           STEPS!vars
  <2>2. STEPS!SkipStep => STEPSP!SkipStep
    BY DEF
           STEPS!SkipStep, STEPSP!SkipStep, STEPS!Running, STEPSP!Running,
           STEPS!Numbers, STEPSP!Numbers, STEPS!Step, STEPSP!Step,
           STEPS!Executes, STEPSP!Executes, STEPS!Record, STEPSP!Record
  <2>3. STEPS!StepSucceeds => STEPSP!StepSucceeds
    BY DEF
           STEPS!StepSucceeds, STEPSP!StepSucceeds, STEPS!Running,
           STEPSP!Running, STEPS!Numbers, STEPSP!Numbers, STEPS!Step,
           STEPSP!Step, STEPS!Executes, STEPSP!Executes, STEPS!Called,
           STEPSP!Called, STEPS!Resolve, STEPSP!Resolve, STEPS!Acted,
           STEPSP!Acted, STEPS!Record, STEPSP!Record
  <2>4. STEPS!StepRetried => STEPSP!StepRetried
    BY DEF
           STEPS!StepRetried, STEPSP!StepRetried, STEPS!Running,
           STEPSP!Running, STEPS!Numbers, STEPSP!Numbers, STEPS!Step,
           STEPSP!Step, STEPS!Executes, STEPSP!Executes, STEPS!Exhausted,
           STEPSP!Exhausted, STEPS!MaximumAttempts, STEPSP!MaximumAttempts,
           STEPS!CallFails, STEPSP!CallFails, STEPS!Called, STEPSP!Called,
           STEPS!Resolve, STEPSP!Resolve, STEPS!Acted, STEPSP!Acted
  <2>5. STEPS!StepFails => STEPSP!StepFails
    BY DEF
           STEPS!StepFails, STEPSP!StepFails, STEPS!Running, STEPSP!Running,
           STEPS!Numbers, STEPSP!Numbers, STEPS!Step, STEPSP!Step,
           STEPS!Executes, STEPSP!Executes, STEPS!Exhausted, STEPSP!Exhausted,
           STEPS!MaximumAttempts, STEPSP!MaximumAttempts, STEPS!CallFails,
           STEPSP!CallFails, STEPS!Called, STEPSP!Called, STEPS!Resolve,
           STEPSP!Resolve, STEPS!Acted, STEPSP!Acted
  <2>. QED
    BY <2>1, <2>2, <2>3, <2>4, <2>5
    DEF
           STEPS!Next, STEPSP!Next, STEPS!vars, STEPSP!vars
<1>3. STEPSP!ConstantsAssumption
  BY StepsAssumption
  DEF
         STEPS!ConstantsAssumption, STEPSP!ConstantsAssumption,
         STEPS!JourneyStep, STEPSP!JourneyStep
<1>. QED
  BY <1>1, <1>2, <1>3

(* A step gets the results of the earlier steps it names, required steps   *)
(* are done, services act within the policy, for every plan.               *)
THEOREM StepsOfJourneysFollowThePlan == Spec => []StepsFollowThePlan
<1>1. Init => STEPSP!Init
  BY StepsAreLifted
<1>2. [Next]_vars => [STEPSP!Next]_(STEPSP!vars)
  BY StepsAreLifted
<1>3. STEPSP!Init /\ [][STEPSP!Next]_(STEPSP!vars) => []STEPSP!StepsFollowThePlan
  BY STEPSP!PlansAreFollowed, StepsAreLifted
<1>4. STEPSP!StepsFollowThePlan => StepsFollowThePlan
  BY DEF StepsFollowThePlan,
         STEPS!StepsFollowThePlan, STEPSP!StepsFollowThePlan,
         STEPS!EarlierResultsArrive, STEPSP!EarlierResultsArrive,
         STEPS!CompletedDidRequiredSteps, STEPSP!CompletedDidRequiredSteps,
         STEPS!ActsWithinPolicy, STEPSP!ActsWithinPolicy, STEPS!Numbers,
         STEPSP!Numbers, STEPS!Executes, STEPSP!Executes
<1>. QED
  BY <1>1, <1>2, <1>3, <1>4, PTL DEF Spec

LEMMA StepsTypesOfJourneys == Spec => []STEPS!TypeOK
<1>1. Init => STEPSP!Init
  BY StepsAreLifted
<1>2. [Next]_vars => [STEPSP!Next]_(STEPSP!vars)
  BY StepsAreLifted
<1>3. STEPSP!Init /\ [][STEPSP!Next]_(STEPSP!vars) => []STEPSP!TypeOK
  BY STEPSP!StepsTypesHold, StepsAreLifted
<1>4. STEPSP!TypeOK => STEPS!TypeOK
  BY DEF STEPS!TypeOK, STEPSP!TypeOK, STEPS!Numbers, STEPSP!Numbers
<1>. QED
  BY <1>1, <1>2, <1>3, <1>4, PTL DEF Spec

(* The allocation journey in the journeys is that of its module.           *)
LEMMA AllocationIsLifted ==
  /\ Init => J34P!Init
  /\ [Next]_vars => [J34P!Next]_(J34P!vars)
  /\ J34P!ConstantsAssumption
<1>1. Init => J34P!Init
  BY DEF Init,
         J34!Init, J34P!Init
<1>2. [Next]_vars => [J34P!Next]_(J34P!vars)
  <2>1. [Next]_vars => [J34!Next]_(J34!vars)
    BY DEF Next, vars, OthersThanAllocation, OthersThanBooking, OthersThanSteps,
           OthersThanOrchestrator, allocationVars, bookingVars, stepsVars, orchestratorVars,
           J34!vars
  <2>2. J34!Retry => J34P!Retry
    BY DEF
           J34!Retry, J34P!Retry, J34!Steps, J34P!Steps
  <2>3. J34!ExtractLandDetails => J34P!ExtractLandDetails
    BY DEF
           J34!ExtractLandDetails, J34P!ExtractLandDetails, J34!Proceed,
           J34P!Proceed, J34!LastAttempt, J34P!LastAttempt, J34!Unanswered,
           J34P!Unanswered
  <2>4. J34!QueryLandRegistry => J34P!QueryLandRegistry
    BY DEF
           J34!QueryLandRegistry, J34P!QueryLandRegistry, J34!Proceed,
           J34P!Proceed, J34!LastAttempt, J34P!LastAttempt, J34!Unanswered,
           J34P!Unanswered
  <2>5. J34!DetectMultipleClaimants => J34P!DetectMultipleClaimants
    BY DEF
           J34!DetectMultipleClaimants, J34P!DetectMultipleClaimants,
           J34!Proceed, J34P!Proceed, J34!LastAttempt, J34P!LastAttempt,
           J34!Unanswered, J34P!Unanswered, J34!SeveralClaim,
           J34P!SeveralClaim, J34!Flagged, J34P!Flagged, J34!Cardinality,
           J34P!Cardinality
  <2>6. J34!SearchCourtDisputes => J34P!SearchCourtDisputes
    BY DEF
           J34!SearchCourtDisputes, J34P!SearchCourtDisputes, J34!Proceed,
           J34P!Proceed, J34!LastAttempt, J34P!LastAttempt, J34!Unanswered,
           J34P!Unanswered, J34!Flagged, J34P!Flagged
  <2>7. J34!VerifyCurrentOwner => J34P!VerifyCurrentOwner
    BY DEF
           J34!VerifyCurrentOwner, J34P!VerifyCurrentOwner, J34!Proceed,
           J34P!Proceed, J34!LastAttempt, J34P!LastAttempt, J34!Unanswered,
           J34P!Unanswered, J34!Flagged, J34P!Flagged
  <2>8. J34!CheckUnauthorizedSeller => J34P!CheckUnauthorizedSeller
    BY DEF
           J34!CheckUnauthorizedSeller, J34P!CheckUnauthorizedSeller,
           J34!Proceed, J34P!Proceed, J34!LastAttempt, J34P!LastAttempt,
           J34!Unanswered, J34P!Unanswered, J34!Flagged, J34P!Flagged,
           J34!Authorized, J34P!Authorized
  <2>9. J34!CalculateRiskScore => J34P!CalculateRiskScore
    BY DEF
           J34!CalculateRiskScore, J34P!CalculateRiskScore, J34!Proceed,
           J34P!Proceed, J34!LastAttempt, J34P!LastAttempt, J34!Unanswered,
           J34P!Unanswered, J34!Recommendation, J34P!Recommendation
  <2>10. J34!RecordsChange => J34P!RecordsChange
    BY DEF
           J34!RecordsChange, J34P!RecordsChange, J34!Cardinality,
           J34P!Cardinality
  <2>. QED
    BY <2>1, <2>2, <2>3, <2>4, <2>5, <2>6, <2>7, <2>8, <2>9, <2>10
    DEF
           J34!Next, J34P!Next, J34!Workflow, J34P!Workflow, J34!vars,
           J34P!vars
<1>3. J34P!ConstantsAssumption
  BY AllocationAssumption
  DEF
         J34!ConstantsAssumption, J34P!ConstantsAssumption, J34!Land,
         J34P!Land, J34!Statuses, J34P!Statuses, J34!IsFiniteSet,
         J34P!IsFiniteSet
<1>. QED
  BY <1>1, <1>2, <1>3

(* Behind "fraud" and behind "legitimate" there are records that were so   *)
(* during the journey, or look-ups that were not answered.                 *)
THEOREM VerdictsOfJourneysAreGrounded == Spec => []VerdictsHaveGrounds
<1>1. Init => J34P!Init
  BY AllocationIsLifted
<1>2. [Next]_vars => [J34P!Next]_(J34P!vars)
  BY AllocationIsLifted
<1>3. J34P!Init /\ [][J34P!Next]_(J34P!vars) => []J34P!VerdictsHaveGrounds
  BY J34P!VerdictsAreGrounded, AllocationIsLifted
<1>4. J34P!VerdictsHaveGrounds => VerdictsHaveGrounds
  BY DEF VerdictsHaveGrounds,
         J34!VerdictsHaveGrounds, J34P!VerdictsHaveGrounds,
         J34!CleanVerdictIsEarned, J34P!CleanVerdictIsEarned,
         J34!FraudVerdictHasGrounds, J34P!FraudVerdictHasGrounds,
         J34!Cardinality, J34P!Cardinality
<1>. QED
  BY <1>1, <1>2, <1>3, <1>4, PTL DEF Spec

LEMMA AllocationTypesOfJourneys == Spec => []J34!TypeOK
<1>1. Init => J34P!Init
  BY AllocationIsLifted
<1>2. [Next]_vars => [J34P!Next]_(J34P!vars)
  BY AllocationIsLifted
<1>3. J34P!Init /\ [][J34P!Next]_(J34P!vars) => []J34P!TypeOK
  BY J34P!AllocationTypesHold, AllocationIsLifted
<1>4. J34P!TypeOK => J34!TypeOK
  BY DEF J34!TypeOK, J34P!TypeOK, J34!Land, J34P!Land, J34!Steps, J34P!Steps,
         J34!Statuses, J34P!Statuses, J34!Types, J34P!Types,
         J34!Recommendations, J34P!Recommendations
<1>. QED
  BY <1>1, <1>2, <1>3, <1>4, PTL DEF Spec

-----------------------------------------------------------------------------
(* The orchestrator.  A call that has come to the transfer has a run, which*)
(* it started or joined, a call from the cache is answered, and whoever    *)
(* calls is known.                                                         *)
CallsHaveTheirRuns ==
  \A c \in DOMAIN executions :
    LET e == executions[c]
    IN /\ e.request.subject # NoRow /\ e.request.tenant # NoRow
       /\ e.at \in {"cache", "start"} => ~ e.hit /\ e.run = 0 /\ e.moved = -1 /\ ~ e.excused
       /\ e.at = "transfer" => e.moved = -1 /\ ~ e.excused
       /\ e.at \in {"transfer", "await", "answered"} => e.run # 0
       /\ e.hit => e.at = "answered"
       /\ e.run # 0 => e.run \in DOMAIN runs
       /\ e.run # 0 /\ ~ e.hit => ORC!SameWorkflow(c, e.run)

(* Some call of this user waited for this run.                             *)
WaitedFor(user, i) ==
  \E d \in DOMAIN executions :
    ~ executions[d].hit /\ executions[d].run = i /\ ORC!Caller(d) = user

(* An entry of the cache is the result of a run of its journey that its    *)
(* user waited for.                                                        *)
EntriesWereWaitedFor ==
  \A k \in ORC!Keys :
    resultCache[k] # NoRow =>
      /\ runs[resultCache[k][1]].journey = k[1]
      /\ WaitedFor(k[2], resultCache[k][1])

HitsWereWaitedFor ==
  \A c \in DOMAIN executions :
    LET e == executions[c]
    IN e.hit =>
         /\ runs[e.run].state = "completed"
         /\ runs[e.run].journey = e.request.journey
         /\ WaitedFor(e.request.subject, e.run)

(* A transfer is of the call that made it at that second; a call that made *)
(* a transfer that was let through finds one there.                        *)
TransfersAreOfTheirSecond ==
  /\ \A s \in 0..MaxSecond : transfers[s] # NoRow => executions[transfers[s]].moved = s
  /\ \A c \in DOMAIN executions :
       LET e == executions[c]
       IN e.moved # -1 =>
            /\ e.moved \in 0..MaxSecond
            /\ ~ e.excused => transfers[e.moved] # NoRow

OrchestratorInv ==
  /\ ORC!TypeOK /\ CallsHaveTheirRuns /\ EntriesWereWaitedFor
  /\ HitsWereWaitedFor /\ TransfersAreOfTheirSecond

(* What no step changes: of a call who asked and when, its run once it has *)
(* one; of a run its input, and its state once it has ended.               *)
CallsAreKept ==
  /\ DOMAIN executions \subseteq DOMAIN executions'
  /\ \A c \in DOMAIN executions :
       LET e == executions[c]
           f == executions'[c]
       IN /\ f.request = e.request /\ f.began = e.began
          /\ e.at \notin {"cache", "start"} => f.run = e.run
          /\ e.at # "cache" => f.hit = e.hit
          /\ e.at # "transfer" => f.moved = e.moved /\ f.excused = e.excused

RunsAreKept ==
  /\ DOMAIN runs \subseteq DOMAIN runs'
  /\ \A i \in DOMAIN runs :
       /\ runs'[i].journey = runs[i].journey /\ runs'[i].second = runs[i].second
       /\ runs'[i].user = runs[i].user
       /\ runs[i].state # "open" => runs'[i].state = runs[i].state

LEMMA OrchestratorInit ==
  ASSUME ORC!ConstantsAssumption, ORC!Init PROVE OrchestratorInv
BY DEF ORC!ConstantsAssumption, ORC!Init, OrchestratorInv, ORC!TypeOK, CallsHaveTheirRuns,
       EntriesWereWaitedFor, HitsWereWaitedFor, TransfersAreOfTheirSecond, WaitedFor, ORC!Keys

(* A call that changes stays a call, and the calls one by one.             *)
LEMMA OneCallGoes ==
  ASSUME ORC!TypeOK, NEW c \in DOMAIN executions, NEW e \in ORC!Execution, ORC!Goes(c, e)
  PROVE  /\ executions' \in Seq(ORC!Execution) /\ DOMAIN executions' = DOMAIN executions
         /\ executions'[c] = e
         /\ \A d \in DOMAIN executions \ {c} : executions'[d] = executions[d]
<1>1. executions \in Seq(ORC!Execution) /\ executions' = [executions EXCEPT ![c] = e]
  BY DEF ORC!TypeOK, ORC!Goes
<1>2. c \in 1..Len(executions)
  BY <1>1
<1>. QED
  BY <1>1, <1>2

LEMMA OutagesAreBounded ==
  ASSUME ORC!ConstantsAssumption, ORC!TypeOK, UNCHANGED outages \/ ORC!Breaks
  PROVE  outages' \in 0..MaxEvents
<1>1. executions \in Seq(ORC!Execution) /\ Len(executions) \in Nat
  BY DEF ORC!TypeOK
<1>. QED
  BY <1>1 DEF ORC!ConstantsAssumption, ORC!TypeOK, ORC!Breaks, ORC!Budget

LEMMA ReceiveKeepsCalls ==
  ASSUME ORC!ConstantsAssumption, ORC!TypeOK, CallsHaveTheirRuns, NEW r \in JourneyRequests, ORC!Receive(r)
  PROVE  ORC!TypeOK' /\ CallsHaveTheirRuns' /\ CallsAreKept /\ RunsAreKept
<1> DEFINE new == [request |-> r, at |-> "cache", began |-> second, run |-> 0, hit |-> FALSE,
                   moved |-> -1, excused |-> FALSE]
<1>1. new \in ORC!Execution
  BY DEF ORC!ConstantsAssumption, ORC!TypeOK, ORC!Execution
<1>2. /\ executions \in Seq(ORC!Execution) /\ executions' = Append(executions, new)
      /\ UNCHANGED <<second, runs, resultCache, transfers, outages>>
  BY DEF ORC!TypeOK, ORC!Receive
<1>3. /\ executions' \in Seq(ORC!Execution) /\ DOMAIN executions \subseteq DOMAIN executions'
      /\ \A c \in DOMAIN executions : executions'[c] = executions[c]
      /\ \A c \in DOMAIN executions' \ DOMAIN executions : executions'[c] = new
  BY <1>1, <1>2
<1>4. CallsHaveTheirRuns'
  BY <1>2, <1>3 DEF CallsHaveTheirRuns, ORC!Receive, ORC!Accepted, ORC!SameWorkflow
<1>. QED
  BY <1>2, <1>3, <1>4 DEF ORC!TypeOK, CallsAreKept, RunsAreKept

LEMMA ReadCacheKeepsCalls ==
  ASSUME ORC!ConstantsAssumption, ORC!TypeOK, CallsHaveTheirRuns,
         NEW c \in DOMAIN executions, ORC!ReadCache(c)
  PROVE  ORC!TypeOK' /\ CallsHaveTheirRuns' /\ CallsAreKept /\ RunsAreKept
<1> DEFINE entry == resultCache[ORC!CacheKey(c)]
           hit == [ORC!To(c, "answered") EXCEPT !.run = entry[1], !.hit = TRUE]
<1>1. executions[c] \in ORC!Execution /\ executions[c].at = "cache" /\ executions \in Seq(ORC!Execution)
  BY DEF ORC!TypeOK, ORC!ReadCache, ORC!At
<1>2. ORC!CacheKey(c) \in ORC!Keys
  BY <1>1 DEF CallsHaveTheirRuns, ORC!CacheKey, ORC!Caller, ORC!Keys, ORC!Execution, ORC!Request
<1>3. ORC!To(c, "start") \in ORC!Execution
  BY <1>1 DEF ORC!To, ORC!Execution, ORC!Ends
<1>4. ASSUME ORC!Usable(entry)
      PROVE  hit \in ORC!Execution /\ entry[1] \in DOMAIN runs /\ entry[1] # 0
  <2>1. entry[1] \in Nat /\ entry[1] \in DOMAIN runs /\ entry[1] # 0
    BY <1>2, <1>4 DEF ORC!TypeOK, ORC!Usable
  <2>. QED
    BY <1>1, <2>1 DEF ORC!To, ORC!Execution, ORC!Ends
<1>5. UNCHANGED <<second, runs, resultCache, transfers>> /\ outages' \in 0..MaxEvents
  BY <1>1 DEF ORC!ReadCache, ORC!TypeOK, ORC!Breaks, ORC!Budget, ORC!ConstantsAssumption
<1>6. PICK e \in ORC!Execution :
        /\ e = ORC!To(c, "start") \/ (e = hit /\ ORC!Usable(entry))
        /\ ORC!Goes(c, e)
  <2>1. ORC!Goes(c, ORC!To(c, "start")) \/ (ORC!Usable(entry) /\ ORC!Goes(c, hit))
    BY DEF ORC!ReadCache
  <2>. QED
    BY <1>3, <1>4, <2>1
<1>9. \/ e.at = "start" /\ e.hit = executions[c].hit /\ e.run = executions[c].run
      \/ e.at = "answered" /\ e.hit /\ e.run \in DOMAIN runs /\ e.run # 0
  BY <1>1, <1>4, <1>6 DEF ORC!To, ORC!Execution
<1>7. e.request = executions[c].request /\ e.began = executions[c].began
      /\ e.moved = executions[c].moved /\ e.excused = executions[c].excused
  BY <1>1, <1>6 DEF ORC!To, ORC!Execution
<1>8. /\ executions' \in Seq(ORC!Execution) /\ DOMAIN executions' = DOMAIN executions
      /\ executions'[c] = e
      /\ \A d \in DOMAIN executions \ {c} : executions'[d] = executions[d]
  BY <1>6, OneCallGoes
<1>10. CallsHaveTheirRuns'
  BY <1>1, <1>5, <1>7, <1>8, <1>9 DEF CallsHaveTheirRuns, ORC!SameWorkflow
<1>. QED
  BY <1>1, <1>5, <1>7, <1>8, <1>10 DEF ORC!TypeOK, CallsAreKept, RunsAreKept

LEMMA StartWorkflowKeepsCalls ==
  ASSUME ORC!ConstantsAssumption, ORC!TypeOK, CallsHaveTheirRuns,
         NEW c \in DOMAIN executions, ORC!StartWorkflow(c)
  PROVE  ORC!TypeOK' /\ CallsHaveTheirRuns' /\ CallsAreKept /\ RunsAreKept
<1> DEFINE SameRun(i) == /\ runs'[i].journey = executions[c].request.journey
                         /\ runs'[i].second = executions[c].began
           started(i) == [ORC!To(c, "transfer") EXCEPT !.run = i]
<1>1. /\ executions[c] \in ORC!Execution /\ executions[c].at = "start"
      /\ executions \in Seq(ORC!Execution) /\ runs \in Seq(ORC!Run)
  BY DEF ORC!TypeOK, ORC!StartWorkflow, ORC!At
<1>2. ORC!NewRun(c) \in ORC!Run
  BY <1>1 DEF CallsHaveTheirRuns, ORC!NewRun, ORC!Caller, ORC!Run, ORC!Execution, ORC!Request
<1>3. ORC!To(c, "failed") \in ORC!Execution
  BY <1>1 DEF ORC!To, ORC!Execution, ORC!Ends
<1>4. ASSUME NEW i \in Nat PROVE started(i) \in ORC!Execution
  BY <1>1 DEF ORC!To, ORC!Execution, ORC!Ends
<1>5. /\ UNCHANGED <<second, resultCache, transfers>> /\ outages' \in 0..MaxEvents
      /\ runs' = runs \/ runs' = Append(runs, ORC!NewRun(c))
  BY OutagesAreBounded DEF ORC!StartWorkflow
<1>6. runs' \in Seq(ORC!Run) /\ RunsAreKept
  <2>1. CASE runs' = runs
    BY <1>1, <2>1 DEF RunsAreKept
  <2>2. CASE runs' = Append(runs, ORC!NewRun(c))
    <3>1. /\ runs' \in Seq(ORC!Run) /\ DOMAIN runs \subseteq DOMAIN runs'
          /\ \A i \in DOMAIN runs : runs'[i] = runs[i]
      BY <1>1, <1>2, <2>2
    <3>. QED
      BY <3>1 DEF RunsAreKept
  <2>. QED
    BY <1>5, <2>1, <2>2
<1>7. PICK e \in ORC!Execution :
        /\ \/ e = ORC!To(c, "failed")
           \/ \E i \in DOMAIN runs' : SameRun(i) /\ e = started(i)
        /\ ORC!Goes(c, e)
  <2>1. \/ ORC!Goes(c, ORC!To(c, "failed"))
        \/ \E i \in DOMAIN runs' : SameRun(i) /\ ORC!Goes(c, started(i))
    <3>1. CASE runs' = Append(runs, ORC!NewRun(c)) /\ ORC!Goes(c, started(Len(runs) + 1))
      <4>1. Len(runs) + 1 \in DOMAIN runs' /\ runs'[Len(runs) + 1] = ORC!NewRun(c)
        BY <1>1, <1>2, <3>1
      <4>2. SameRun(Len(runs) + 1)
        BY <4>1 DEF ORC!NewRun
      <4>. QED
        BY <3>1, <4>1, <4>2
    <3>2. ASSUME NEW i \in ORC!OpenRuns(c), UNCHANGED runs, ORC!Goes(c, started(i))
          PROVE  \E j \in DOMAIN runs' : SameRun(j) /\ ORC!Goes(c, started(j))
      BY <3>2 DEF ORC!OpenRuns, ORC!SameWorkflow
    <3>. QED
      BY <3>1, <3>2 DEF ORC!StartWorkflow
  <2>2. \A i \in DOMAIN runs' : i \in Nat
    BY <1>6
  <2>. QED
    BY <1>3, <1>4, <2>1, <2>2
<1>8. e.request = executions[c].request /\ e.began = executions[c].began
      /\ e.hit = executions[c].hit
      /\ e.moved = executions[c].moved /\ e.excused = executions[c].excused
  BY <1>1, <1>7 DEF ORC!To, ORC!Execution
<1>9. /\ executions' \in Seq(ORC!Execution) /\ DOMAIN executions' = DOMAIN executions
      /\ executions'[c] = e
      /\ \A d \in DOMAIN executions \ {c} : executions'[d] = executions[d]
  BY <1>7, OneCallGoes
<1>10. \/ e.at = "failed" /\ e.run = executions[c].run
       \/ e.at = "transfer" /\ e.run \in DOMAIN runs' /\ SameRun(e.run) /\ e.run # 0
  <2>1. \A i \in DOMAIN runs' : i # 0
    BY <1>6
  <2>. QED
    BY <1>1, <1>7, <2>1 DEF ORC!To, ORC!Execution
<1>11. \A d \in DOMAIN executions \ {c} :
         executions[d].run # 0 /\ ~ executions[d].hit => ORC!SameWorkflow(d, executions[d].run)'
  BY <1>6, <1>9 DEF CallsHaveTheirRuns, RunsAreKept, ORC!SameWorkflow
<1>12. executions'[c].run # 0 /\ ~ executions'[c].hit =>
         /\ SameRun(executions'[c].run) /\ executions'[c].began = executions[c].began
         /\ executions'[c].request = executions[c].request
  BY <1>1, <1>8, <1>9, <1>10 DEF CallsHaveTheirRuns
<1>13. CallsHaveTheirRuns'
  BY <1>1, <1>6, <1>8, <1>9, <1>10, <1>11, <1>12 DEF CallsHaveTheirRuns, RunsAreKept, ORC!SameWorkflow
<1>. QED
  BY <1>1, <1>5, <1>6, <1>8, <1>9, <1>13 DEF ORC!TypeOK, CallsAreKept, RunsAreKept

LEMMA CreateTransferKeepsCalls ==
  ASSUME ORC!ConstantsAssumption, ORC!TypeOK, CallsHaveTheirRuns,
         NEW c \in DOMAIN executions, ORC!CreateTransfer(c)
  PROVE  ORC!TypeOK' /\ CallsHaveTheirRuns' /\ CallsAreKept /\ RunsAreKept
<1> DEFINE moved == [ORC!To(c, "await") EXCEPT !.moved = second]
           refused == [ORC!To(c, "await") EXCEPT !.moved = second, !.excused = TRUE]
<1>1. /\ executions[c] \in ORC!Execution /\ executions[c].at = "transfer"
      /\ executions \in Seq(ORC!Execution) /\ second \in Nat
  BY DEF ORC!TypeOK, ORC!CreateTransfer, ORC!At, ORC!ConstantsAssumption
<1>2. moved \in ORC!Execution /\ refused \in ORC!Execution /\ ORC!To(c, "await") \in ORC!Execution
  <2>1. ORC!To(c, "await") \in ORC!Execution
    BY <1>1 DEF ORC!To, ORC!Execution
  <2>. QED
    BY <1>1, <2>1 DEF ORC!Execution
<1>3. /\ UNCHANGED <<second, runs, resultCache>> /\ outages' \in 0..MaxEvents
      /\ transfers' \in [0..MaxSecond -> {NoRow} \cup DOMAIN executions]
  BY <1>1 DEF ORC!CreateTransfer, ORC!TypeOK, ORC!Breaks, ORC!Budget, ORC!ConstantsAssumption
<1>4. PICK e \in {moved, refused, ORC!To(c, "await")} : ORC!Goes(c, e)
  BY DEF ORC!CreateTransfer
<1>5. /\ e.request = executions[c].request /\ e.began = executions[c].began
      /\ e.hit = executions[c].hit /\ e.run = executions[c].run /\ e.at = "await"
  BY <1>1, <1>4 DEF ORC!To, ORC!Execution
<1>6. /\ executions' \in Seq(ORC!Execution) /\ DOMAIN executions' = DOMAIN executions
      /\ executions'[c] = e
      /\ \A d \in DOMAIN executions \ {c} : executions'[d] = executions[d]
  BY <1>2, <1>4, OneCallGoes
<1>7. CallsHaveTheirRuns'
  BY <1>1, <1>3, <1>5, <1>6 DEF CallsHaveTheirRuns, ORC!SameWorkflow
<1>. QED
  BY <1>1, <1>3, <1>5, <1>6, <1>7 DEF ORC!TypeOK, CallsAreKept, RunsAreKept

LEMMA GetWorkflowResultKeepsCalls ==
  ASSUME ORC!ConstantsAssumption, ORC!TypeOK, CallsHaveTheirRuns,
         NEW c \in DOMAIN executions, ORC!GetWorkflowResult(c)
  PROVE  ORC!TypeOK' /\ CallsHaveTheirRuns' /\ CallsAreKept /\ RunsAreKept
<1>1. /\ executions[c] \in ORC!Execution /\ executions[c].at = "await"
      /\ executions \in Seq(ORC!Execution) /\ executions[c].run \in DOMAIN runs
  BY DEF ORC!TypeOK, ORC!GetWorkflowResult, ORC!At, CallsHaveTheirRuns
<1>2. {ORC!To(c, "answered"), ORC!To(c, "failed")} \subseteq ORC!Execution
  BY <1>1 DEF ORC!To, ORC!Execution, ORC!Ends
<1>3. /\ UNCHANGED <<second, runs, transfers>> /\ outages' \in 0..MaxEvents
      /\ resultCache' \in [ORC!Keys -> {NoRow} \cup ((DOMAIN runs) \X (0..second))]
  <2>1. UNCHANGED <<second, runs, transfers>> /\ outages' \in 0..MaxEvents
    BY OutagesAreBounded DEF ORC!GetWorkflowResult
  <2>2. /\ second \in 0..second
        /\ resultCache \in [ORC!Keys -> {NoRow} \cup ((DOMAIN runs) \X (0..second))]
    BY DEF ORC!TypeOK, ORC!ConstantsAssumption
  <2>3. \/ resultCache' = resultCache
        \/ resultCache' = [resultCache EXCEPT ![ORC!CacheKey(c)] = <<executions[c].run, second>>]
    BY DEF ORC!GetWorkflowResult
  <2>. QED
    BY <1>1, <2>1, <2>2, <2>3
<1>4. PICK e \in {ORC!To(c, "answered"), ORC!To(c, "failed")} : ORC!Goes(c, e)
  BY DEF ORC!GetWorkflowResult
<1>5. /\ e.request = executions[c].request /\ e.began = executions[c].began
      /\ e.hit = executions[c].hit /\ e.run = executions[c].run
      /\ e.moved = executions[c].moved /\ e.excused = executions[c].excused
      /\ e.at \in {"answered", "failed"}
  BY <1>1, <1>4 DEF ORC!To, ORC!Execution
<1>6. /\ executions' \in Seq(ORC!Execution) /\ DOMAIN executions' = DOMAIN executions
      /\ executions'[c] = e
      /\ \A d \in DOMAIN executions \ {c} : executions'[d] = executions[d]
  BY <1>2, <1>4, OneCallGoes
<1>7. CallsHaveTheirRuns'
  BY <1>1, <1>3, <1>5, <1>6 DEF CallsHaveTheirRuns, ORC!SameWorkflow
<1>. QED
  BY <1>1, <1>3, <1>5, <1>6, <1>7 DEF ORC!TypeOK, CallsAreKept, RunsAreKept

LEMMA OutsideKeepsCalls ==
  ASSUME ORC!ConstantsAssumption, ORC!TypeOK, CallsHaveTheirRuns,
         \/ ORC!Crash \/ ORC!Tick
         \/ \E i \in DOMAIN runs : ORC!WorkflowEnds(i)
         \/ \E k \in ORC!Keys : ORC!EntryExpires(k)
  PROVE  ORC!TypeOK' /\ CallsHaveTheirRuns' /\ CallsAreKept /\ RunsAreKept
<1>1. CASE ORC!Crash
  <2>1. \A c \in DOMAIN executions : ORC!To(c, "lost") \in ORC!Execution
    <3>1. \A c \in DOMAIN executions : executions[c] \in ORC!Execution
      BY DEF ORC!TypeOK
    <3>. QED
      BY <3>1 DEF ORC!To, ORC!Execution, ORC!Ends
  <2>2. /\ executions' \in Seq(ORC!Execution) /\ DOMAIN executions' = DOMAIN executions
        /\ \A c \in DOMAIN executions : executions'[c] \in {executions[c], ORC!To(c, "lost")}
    <3>1. executions' = [c \in DOMAIN executions |->
                           IF c \in ORC!Running THEN ORC!To(c, "lost") ELSE executions[c]]
      BY <1>1 DEF ORC!Crash
    <3>2. /\ DOMAIN executions' = DOMAIN executions
          /\ \A c \in DOMAIN executions :
               executions'[c] \in {executions[c], ORC!To(c, "lost")}
      BY <3>1
    <3>3. /\ Len(executions) \in Nat /\ DOMAIN executions = 1..Len(executions)
          /\ \A c \in DOMAIN executions : executions[c] \in ORC!Execution
      BY DEF ORC!TypeOK
    <3>4. \A c \in DOMAIN executions : executions'[c] \in ORC!Execution
      BY <2>1, <3>2, <3>3
    <3>5. executions' \in [1..Len(executions) -> ORC!Execution]
      BY <3>1, <3>3, <3>4
    <3>. QED
      BY <3>2, <3>3, <3>5
  <2>3. UNCHANGED <<second, runs, resultCache, transfers>> /\ outages' \in 0..MaxEvents
    BY <1>1, OutagesAreBounded DEF ORC!Crash
  <2>4. CallsAreKept
    <3>1. \A c \in DOMAIN executions : executions[c] \in ORC!Execution
      BY DEF ORC!TypeOK
    <3>. QED
      BY <2>2, <3>1 DEF CallsAreKept, ORC!To, ORC!Execution
  <2>5. CallsHaveTheirRuns'
    <3>1. \A c \in DOMAIN executions :
             /\ executions[c] \in ORC!Execution
             /\ executions'[c] # executions[c] => executions[c].at \notin ORC!Ends
      BY <1>1 DEF ORC!TypeOK, ORC!Crash, ORC!Running
    <3>2. \A c \in DOMAIN executions :
             \/ executions'[c] = executions[c]
             \/ /\ executions'[c].at = "lost" /\ executions'[c].request = executions[c].request
                /\ executions'[c].hit = executions[c].hit /\ executions'[c].run = executions[c].run
                /\ executions'[c].began = executions[c].began
                /\ executions[c].at # "answered"
      BY <2>2, <3>1 DEF ORC!To, ORC!Execution, ORC!Ends
    <3>. QED
      BY <2>2, <2>3, <3>2 DEF CallsHaveTheirRuns, ORC!SameWorkflow
  <2>. QED
    BY <2>2, <2>3, <2>4, <2>5 DEF ORC!TypeOK, RunsAreKept
<1>2. CASE ORC!Tick
  BY <1>2 DEF ORC!Tick, ORC!TypeOK, CallsHaveTheirRuns, ORC!SameWorkflow, CallsAreKept, RunsAreKept,
              ORC!ConstantsAssumption
<1>3. ASSUME NEW i \in DOMAIN runs, ORC!WorkflowEnds(i) PROVE ORC!TypeOK' /\ CallsHaveTheirRuns' /\ CallsAreKept /\ RunsAreKept
  <2>1. runs \in Seq(ORC!Run) /\ runs[i] \in ORC!Run /\ runs[i].state = "open"
    BY <1>3 DEF ORC!TypeOK, ORC!WorkflowEnds
  <2>2. PICK s \in {"failed"} \cup WorkflowStatuses : runs' = [runs EXCEPT ![i].state = s]
    BY <1>3 DEF ORC!WorkflowEnds
  <2>3. [runs[i] EXCEPT !.state = s] \in ORC!Run
    BY <2>1 DEF ORC!Run
  <2>4. /\ runs' \in Seq(ORC!Run) /\ DOMAIN runs' = DOMAIN runs
        /\ \A j \in DOMAIN runs \ {i} : runs'[j] = runs[j]
        /\ runs'[i] = [runs[i] EXCEPT !.state = s]
    BY <2>1, <2>2, <2>3
  <2>. QED
    <3>1. RunsAreKept
      BY <2>1, <2>4 DEF RunsAreKept, ORC!Run
    <3>. QED
      BY <1>3, <2>4, <3>1
      DEF ORC!WorkflowEnds, ORC!TypeOK, CallsHaveTheirRuns, ORC!SameWorkflow, CallsAreKept, RunsAreKept
<1>4. CASE \E k \in ORC!Keys : ORC!EntryExpires(k)
  BY <1>4
  DEF ORC!EntryExpires, ORC!TypeOK, CallsHaveTheirRuns, ORC!SameWorkflow, CallsAreKept, RunsAreKept
<1>. QED
  BY <1>1, <1>2, <1>3, <1>4

(* Every step keeps the types, what calls and runs are, and who has a run. *)
LEMMA OrchestratorKeepsCalls ==
  ASSUME ORC!ConstantsAssumption, ORC!TypeOK, CallsHaveTheirRuns, ORC!Next
  PROVE  ORC!TypeOK' /\ CallsHaveTheirRuns' /\ CallsAreKept /\ RunsAreKept
BY ReceiveKeepsCalls, ReadCacheKeepsCalls, StartWorkflowKeepsCalls, CreateTransferKeepsCalls,
   GetWorkflowResultKeepsCalls, OutsideKeepsCalls
DEF ORC!Next, ORC!Execute

(* Who waited for a run has waited for it ever after.                      *)
LEMMA WaitingStays ==
  ASSUME CallsHaveTheirRuns, CallsAreKept, NEW user, NEW i, i # 0, WaitedFor(user, i)
  PROVE  WaitedFor(user, i)'
<1>1. PICK d \in DOMAIN executions :
        ~ executions[d].hit /\ executions[d].run = i /\ executions[d].request.subject = user
  BY DEF WaitedFor, ORC!Caller
<1>2. executions[d].at \notin {"cache", "start"}
  BY <1>1 DEF CallsHaveTheirRuns
<1>3. /\ d \in DOMAIN executions' /\ ~ executions'[d].hit /\ executions'[d].run = i
      /\ executions'[d].request.subject = user
  BY <1>1, <1>2 DEF CallsAreKept
<1>. QED
  BY <1>3 DEF WaitedFor, ORC!Caller

(* An entry is written by a call that waited, and is else kept or gone.    *)
LEMMA EntriesStayWaitedFor ==
  ASSUME ORC!ConstantsAssumption, OrchestratorInv, ORC!Next, CallsAreKept, RunsAreKept
  PROVE  EntriesWereWaitedFor'
<1> SUFFICES ASSUME NEW k \in ORC!Keys, resultCache'[k] # NoRow,
                    NEW i, i = resultCache'[k][1]
             PROVE  runs'[i].journey = k[1] /\ WaitedFor(k[2], i)'
  BY DEF EntriesWereWaitedFor, ORC!Keys, WaitedFor, ORC!Caller
<1>1. ORC!TypeOK /\ CallsHaveTheirRuns
  BY DEF OrchestratorInv
<1>2. CASE resultCache'[k] = resultCache[k]
  <2>1. i \in DOMAIN runs /\ i # 0
    BY <1>1, <1>2 DEF ORC!TypeOK
  <2>2. runs[i].journey = k[1] /\ WaitedFor(k[2], i)
    BY <1>2 DEF OrchestratorInv, EntriesWereWaitedFor, WaitedFor, ORC!Caller
  <2>3. WaitedFor(k[2], i)'
    BY <1>1, <2>1, <2>2, WaitingStays
  <2>. QED
    BY <2>1, <2>2, <2>3 DEF RunsAreKept
<1>3. ASSUME NEW c \in DOMAIN executions, ORC!GetWorkflowResult(c), resultCache'[k] # resultCache[k]
      PROVE  runs'[i].journey = k[1] /\ WaitedFor(k[2], i)'
  <2>1. /\ k = ORC!CacheKey(c) /\ i = executions[c].run /\ UNCHANGED runs
        /\ executions[c].at = "await"
    BY <1>1, <1>3 DEF ORC!GetWorkflowResult, ORC!At, ORC!TypeOK
  <2>2. ~ executions[c].hit /\ i # 0 /\ ORC!SameWorkflow(c, i)
    BY <1>1, <2>1 DEF CallsHaveTheirRuns
  <2>3. runs[i].journey = k[1] /\ k[2] = executions[c].request.subject
    BY <2>1, <2>2 DEF ORC!SameWorkflow, ORC!CacheKey, ORC!Caller
  <2>4. WaitedFor(k[2], i)
    BY <2>1, <2>2, <2>3 DEF WaitedFor, ORC!Caller
  <2>. QED
    BY <1>1, <2>1, <2>2, <2>3, <2>4, WaitingStays
<1>4. ASSUME NEW l \in ORC!Keys, ORC!EntryExpires(l) PROVE resultCache'[k] = resultCache[k]
  BY <1>1, <1>4 DEF ORC!EntryExpires, ORC!TypeOK
<1>5. \/ UNCHANGED resultCache
      \/ \E c \in DOMAIN executions : ORC!GetWorkflowResult(c)
      \/ \E l \in ORC!Keys : ORC!EntryExpires(l)
  BY DEF ORC!Next, ORC!Execute, ORC!Receive, ORC!ReadCache, ORC!StartWorkflow,
         ORC!CreateTransfer, ORC!Crash, ORC!WorkflowEnds, ORC!Tick
<1>. QED
  BY <1>2, <1>3, <1>4, <1>5

(* A call that is new is no hit; one that becomes a hit reads an entry.     *)
LEMMA HitsAreRead ==
  ASSUME OrchestratorInv, ORC!Next, NEW c \in DOMAIN executions', executions'[c].hit
  PROVE  /\ c \in DOMAIN executions
         /\ executions[c].hit \/ ORC!ReadCache(c)
<1>1. executions \in Seq(ORC!Execution) /\ DOMAIN executions = 1..Len(executions)
  BY DEF OrchestratorInv, ORC!TypeOK
<1>2. ASSUME NEW r \in JourneyRequests, ORC!Receive(r)
      PROVE  c \in DOMAIN executions /\ executions[c].hit
  BY <1>1, <1>2 DEF ORC!Receive
<1>3. ASSUME NEW d \in DOMAIN executions, ORC!Execute(d)
      PROVE  c \in DOMAIN executions /\ (executions[c].hit \/ ORC!ReadCache(c))
  <2>1. PICK e : executions' = [executions EXCEPT ![d] = e]
    BY <1>3 DEF ORC!Execute, ORC!ReadCache, ORC!StartWorkflow, ORC!CreateTransfer,
                ORC!GetWorkflowResult, ORC!Goes
  <2>2. CASE c # d
    BY <2>1, <2>2
  <2>3. CASE c = d /\ ~ ORC!ReadCache(d)
    <3>1. executions[d] \in ORC!Execution
      BY <1>1
    <3>2. CASE ORC!StartWorkflow(d)
      BY <2>3, <3>1, <3>2 DEF ORC!StartWorkflow, ORC!Goes, ORC!To, ORC!Execution
    <3>3. CASE ORC!CreateTransfer(d)
      BY <2>3, <3>1, <3>3 DEF ORC!CreateTransfer, ORC!Goes, ORC!To, ORC!Execution
    <3>4. CASE ORC!GetWorkflowResult(d)
      <4>1. ORC!Goes(d, ORC!To(d, "answered")) \/ ORC!Goes(d, ORC!To(d, "failed"))
        BY <3>4 DEF ORC!GetWorkflowResult
      <4>. QED
        BY <2>3, <3>1, <4>1 DEF ORC!Goes, ORC!To, ORC!Execution
    <3>. QED
      BY <1>3, <2>3, <3>2, <3>3, <3>4 DEF ORC!Execute
  <2>. QED
    BY <1>3, <2>2, <2>3
<1>4. CASE ORC!Crash
  <2>1. \A d \in DOMAIN executions : executions[d] \in ORC!Execution
    BY <1>1
  <2>. QED
    BY <1>4, <2>1 DEF ORC!Crash, ORC!To, ORC!Execution
<1>5. CASE UNCHANGED executions
  BY <1>5
<1>. QED
  BY <1>2, <1>3, <1>4, <1>5 DEF ORC!Next, ORC!WorkflowEnds, ORC!EntryExpires, ORC!Tick

(* An answer from the cache is given when the entry's run is complete, and *)
(* a run that is complete stays so.                                        *)
LEMMA HitsStayWaitedFor ==
  ASSUME ORC!ConstantsAssumption, OrchestratorInv, ORC!Next, CallsAreKept, RunsAreKept
  PROVE  HitsWereWaitedFor'
<1> SUFFICES ASSUME NEW c \in DOMAIN executions', executions'[c].hit,
                    NEW i, i = executions'[c].run, NEW user, user = executions'[c].request.subject
             PROVE  /\ runs'[i].state = "completed"
                    /\ runs'[i].journey = executions'[c].request.journey
                    /\ WaitedFor(user, i)'
  BY DEF HitsWereWaitedFor, WaitedFor, ORC!Caller
<1>1. ORC!TypeOK /\ CallsHaveTheirRuns
  BY DEF OrchestratorInv
<1>2. CASE c \in DOMAIN executions /\ executions[c].hit
  <2>1. /\ executions[c].at = "answered" /\ executions[c].run # 0
        /\ executions[c].run \in DOMAIN runs
    BY <1>1, <1>2 DEF CallsHaveTheirRuns
  <2>2. /\ i = executions[c].run /\ user = executions[c].request.subject
        /\ executions'[c].request = executions[c].request
    BY <1>2, <2>1 DEF CallsAreKept
  <2>3. /\ runs[i].state = "completed" /\ runs[i].journey = executions[c].request.journey
        /\ WaitedFor(user, i)
    BY <1>2, <2>2 DEF OrchestratorInv, HitsWereWaitedFor, WaitedFor, ORC!Caller
  <2>4. WaitedFor(user, i)'
    BY <1>1, <2>1, <2>2, <2>3, WaitingStays
  <2>. QED
    BY <2>1, <2>2, <2>3, <2>4 DEF RunsAreKept
<1>3. CASE c \in DOMAIN executions /\ ~ executions[c].hit
  <2>1. ORC!ReadCache(c) /\ executions \in Seq(ORC!Execution) /\ executions[c] \in ORC!Execution
    BY <1>1, <1>3, HitsAreRead DEF ORC!TypeOK
  <2>2. /\ ORC!Usable(resultCache[ORC!CacheKey(c)]) /\ UNCHANGED runs
        /\ i = resultCache[ORC!CacheKey(c)][1]
        /\ user = executions[c].request.subject
    BY <1>3, <2>1 DEF ORC!ReadCache, ORC!Goes, ORC!To, ORC!Execution, CallsAreKept
  <2>3. /\ ORC!CacheKey(c) \in ORC!Keys
        /\ i \in DOMAIN runs /\ i # 0 /\ runs[i].state = "completed"
    <3>1. ORC!CacheKey(c) \in ORC!Keys
      BY <1>1, <1>3, <2>1
      DEF CallsHaveTheirRuns, ORC!CacheKey, ORC!Caller, ORC!Keys, ORC!Execution, ORC!Request
    <3>. QED
      BY <1>1, <2>2, <3>1 DEF ORC!TypeOK, ORC!Usable
  <2>4. runs[i].journey = executions[c].request.journey /\ WaitedFor(user, i)
    BY <2>2, <2>3
    DEF OrchestratorInv, EntriesWereWaitedFor, WaitedFor, ORC!CacheKey, ORC!Caller, ORC!Usable
  <2>. QED
    BY <1>1, <1>3, <2>2, <2>3, <2>4, WaitingStays DEF CallsAreKept
<1>. QED
  BY <1>2, <1>3, HitsAreRead

(* A call makes its transfer once, at a second of which it becomes the     *)
(* owner unless there is one.                                              *)
LEMMA TransfersStayOfTheirSecond ==
  ASSUME ORC!ConstantsAssumption, OrchestratorInv, ORC!Next, ORC!TypeOK', CallsAreKept
  PROVE  TransfersAreOfTheirSecond'
<1>1. /\ ORC!TypeOK /\ CallsHaveTheirRuns /\ TransfersAreOfTheirSecond
      /\ executions \in Seq(ORC!Execution) /\ second \in 0..MaxSecond
      /\ \A c \in DOMAIN executions : executions[c] \in ORC!Execution
  BY DEF OrchestratorInv, ORC!TypeOK
<1>2. ASSUME NEW c \in DOMAIN executions, ORC!CreateTransfer(c)
      PROVE  TransfersAreOfTheirSecond'
  <2>1. executions[c].moved = -1 /\ ~ executions[c].excused /\ executions[c].at = "transfer"
    BY <1>1, <1>2 DEF ORC!CreateTransfer, ORC!At, CallsHaveTheirRuns
  <2>2. \A s \in 0..MaxSecond : transfers[s] # c
    BY <1>1, <2>1 DEF TransfersAreOfTheirSecond, ORC!TypeOK, ORC!ConstantsAssumption
  <2>3. PICK e : executions' = [executions EXCEPT ![c] = e]
    BY <1>2 DEF ORC!CreateTransfer, ORC!Goes
  <2>4. /\ DOMAIN executions' = DOMAIN executions
        /\ \A d \in DOMAIN executions \ {c} : executions'[d] = executions[d]
    BY <2>3
  <2>5. c # NoRow
    BY <1>1 DEF ORC!ConstantsAssumption
  <2>6. CASE /\ ORC!Goes(c, [ORC!To(c, "await") EXCEPT !.moved = second])
             /\ transfers' = [transfers EXCEPT ![second] = IF @ = NoRow THEN c ELSE @]
    <3>1. executions'[c].moved = second /\ executions'[c].excused = executions[c].excused
      BY <1>1, <2>6 DEF ORC!Goes, ORC!To, ORC!Execution
    <3>2. \A s \in 0..MaxSecond :
            \/ transfers'[s] = transfers[s] /\ (s = second => transfers[s] # NoRow)
            \/ s = second /\ transfers'[s] = c
      BY <1>1, <2>5, <2>6 DEF ORC!TypeOK
    <3>3. ASSUME NEW s \in 0..MaxSecond, transfers'[s] # NoRow
          PROVE  executions'[transfers'[s]].moved = s
      <4>1. CASE transfers'[s] = transfers[s]
        <5>1. transfers[s] \in DOMAIN executions \ {c}
          BY <1>1, <2>2, <3>3, <4>1 DEF ORC!TypeOK
        <5>. QED
          BY <1>1, <2>4, <3>3, <4>1, <5>1 DEF TransfersAreOfTheirSecond
      <4>. QED
        BY <3>1, <3>2, <4>1
    <3>4. ASSUME NEW d \in DOMAIN executions, executions'[d].moved # -1
          PROVE  /\ executions'[d].moved \in 0..MaxSecond
                 /\ ~ executions'[d].excused => transfers'[executions'[d].moved] # NoRow
      <4>1. CASE d = c
        BY <1>1, <2>5, <3>1, <3>2, <4>1
      <4>2. CASE d # c
        BY <1>1, <2>4, <2>5, <3>2, <3>4, <4>2 DEF TransfersAreOfTheirSecond
      <4>. QED
        BY <4>1, <4>2
    <3>. QED
      BY <2>4, <3>3, <3>4 DEF TransfersAreOfTheirSecond
  <2>7. CASE /\ ORC!Goes(c, [ORC!To(c, "await") EXCEPT !.moved = second, !.excused = TRUE])
             /\ UNCHANGED transfers
    <3>1. executions'[c].moved = second /\ executions'[c].excused
      BY <1>1, <2>7 DEF ORC!Goes, ORC!To, ORC!Execution
    <3>. QED
      BY <1>1, <2>2, <2>4, <2>7, <3>1 DEF TransfersAreOfTheirSecond, ORC!TypeOK
  <2>8. CASE ORC!Goes(c, ORC!To(c, "await")) /\ UNCHANGED transfers
    <3>1. executions'[c].moved = -1
      BY <1>1, <2>1, <2>8 DEF ORC!Goes, ORC!To, ORC!Execution
    <3>. QED
      BY <1>1, <2>2, <2>4, <2>8, <3>1 DEF TransfersAreOfTheirSecond, ORC!TypeOK
  <2>. QED
    BY <1>2, <2>6, <2>7, <2>8 DEF ORC!CreateTransfer, ORC!TransferId
<1>3. ASSUME UNCHANGED transfers,
             \A c \in DOMAIN executions' :
               \/ executions'[c].moved = -1
               \/ /\ c \in DOMAIN executions
                  /\ executions'[c].moved = executions[c].moved
                  /\ executions'[c].excused = executions[c].excused,
             \A c \in DOMAIN executions : executions'[c].moved = executions[c].moved
      PROVE  TransfersAreOfTheirSecond'
  BY <1>1, <1>3 DEF TransfersAreOfTheirSecond, ORC!TypeOK
<1>4. ASSUME ~ \E c \in DOMAIN executions : ORC!CreateTransfer(c)
      PROVE  /\ UNCHANGED transfers
             /\ \A c \in DOMAIN executions' :
                  \/ executions'[c].moved = -1
                  \/ /\ c \in DOMAIN executions
                     /\ executions'[c].moved = executions[c].moved
                     /\ executions'[c].excused = executions[c].excused
             /\ \A c \in DOMAIN executions : executions'[c].moved = executions[c].moved
  <2> DEFINE Kept == \A c \in DOMAIN executions' :
                       IF c \in DOMAIN executions
                       THEN /\ executions'[c].moved = executions[c].moved
                            /\ executions'[c].excused = executions[c].excused
                       ELSE executions'[c].moved = -1
  <2>1. UNCHANGED transfers
    BY <1>4 DEF ORC!Next, ORC!Execute, ORC!Receive, ORC!ReadCache, ORC!StartWorkflow,
                ORC!GetWorkflowResult, ORC!Crash, ORC!WorkflowEnds, ORC!EntryExpires, ORC!Tick
  <2>2. ASSUME NEW r \in JourneyRequests, ORC!Receive(r)
        PROVE  Kept
    <3>1. PICK new : executions' = Append(executions, new) /\ new.moved = -1
      BY <2>2 DEF ORC!Receive
    <3>2. \A c \in DOMAIN executions' :
            \/ c \in DOMAIN executions /\ executions'[c] = executions[c]
            \/ c \notin DOMAIN executions /\ executions'[c] = new
      BY <1>1, <3>1
    <3>. QED
      BY <3>1, <3>2
  <2>3. ASSUME NEW d \in DOMAIN executions, ORC!Execute(d)
        PROVE  Kept
    <3>1. executions[d].at # "transfer"
      BY <1>4, <2>3 DEF ORC!Execute, ORC!ReadCache, ORC!StartWorkflow, ORC!GetWorkflowResult, ORC!At
    <3>2. PICK e : executions' = [executions EXCEPT ![d] = e]
      BY <1>4, <2>3
      DEF ORC!Execute, ORC!ReadCache, ORC!StartWorkflow, ORC!GetWorkflowResult, ORC!Goes
    <3>. QED
      BY <3>1, <3>2 DEF CallsAreKept
  <2>4. ASSUME ORC!Crash PROVE Kept
    <3>1. DOMAIN executions' = DOMAIN executions
      BY <2>4 DEF ORC!Crash
    <3>2. \A c \in DOMAIN executions :
            /\ executions'[c].moved = executions[c].moved
            /\ executions'[c].excused = executions[c].excused
      BY <1>1, <2>4 DEF ORC!Crash, ORC!To, ORC!Execution
    <3>. QED
      BY <3>1, <3>2
  <2>5. ASSUME UNCHANGED executions PROVE Kept
    BY <2>5
  <2>6. Kept
    BY <2>2, <2>3, <2>4, <2>5 DEF ORC!Next, ORC!WorkflowEnds, ORC!EntryExpires, ORC!Tick
  <2>7. DOMAIN executions \subseteq DOMAIN executions'
    BY DEF CallsAreKept
  <2>. QED
    BY <2>1, <2>6, <2>7
<1>. QED
  BY <1>2, <1>3, <1>4

LEMMA OrchestratorStep ==
  ASSUME ORC!ConstantsAssumption, OrchestratorInv, [ORC!Next]_(ORC!vars)
  PROVE  OrchestratorInv'
<1>1. CASE ORC!Next
  <2>1. ORC!TypeOK' /\ CallsHaveTheirRuns' /\ CallsAreKept /\ RunsAreKept
    BY <1>1, OrchestratorKeepsCalls DEF OrchestratorInv
  <2>. QED
    BY <1>1, <2>1, EntriesStayWaitedFor, HitsStayWaitedFor, TransfersStayOfTheirSecond
    DEF OrchestratorInv
<1>2. CASE UNCHANGED ORC!vars
  BY <1>2
  DEF ORC!vars, OrchestratorInv, ORC!TypeOK, CallsHaveTheirRuns, EntriesWereWaitedFor,
      HitsWereWaitedFor, TransfersAreOfTheirSecond, WaitedFor, ORC!Caller, ORC!SameWorkflow
<1>. QED
  BY <1>1, <1>2

(* The orchestrator's invariant holds of the journeys.                     *)
LEMMA OrchestratorInvHolds == Spec => []OrchestratorInv
<1>1. Init => OrchestratorInv
  BY OrchestratorInit, OrchestratorAssumption DEF Init
<1>2. OrchestratorInv /\ [Next]_vars => OrchestratorInv'
  <2>1. [Next]_vars => [ORC!Next]_(ORC!vars)
    BY DEF Next, vars, OthersThanAllocation, OthersThanBooking, OthersThanSteps,
           OthersThanOrchestrator, orchestratorVars, ORC!vars
  <2>. QED
    BY <2>1, OrchestratorStep, OrchestratorAssumption
<1>. QED
  BY <1>1, <1>2, PTL DEF Spec

(* A user who is answered with the decision about another has a call of the*)
(* same second and journey that waited for it, whatever is cached, expires,*)
(* is lost or crashes; and the cache answers with completed runs of the    *)
(* journey only, which the user has waited for (cacheKey, workflowID).     *)
THEOREM OthersDecisionsNeedASharedSecond == Spec => []DecisionsAreTheUsersOwn
<1>1. OrchestratorInv => DecisionsAreTheUsersOwn
  <2> SUFFICES ASSUME OrchestratorInv PROVE DecisionsAreTheUsersOwn
    OBVIOUS
  <2>1. ORC!HitsAreCompletedRuns
    BY DEF OrchestratorInv, HitsWereWaitedFor, WaitedFor, ORC!HitsAreCompletedRuns, ORC!Answered,
           ORC!Caller
  <2>2. ASSUME NEW c \in ORC!Answered
        PROVE  \E d \in DOMAIN executions :
                 /\ ORC!Caller(d) = ORC!Caller(c) /\ executions[d].run = executions[c].run
                 /\ ~ executions[d].hit /\ ORC!SameWorkflow(d, executions[c].run)
    <3>1. c \in DOMAIN executions /\ executions[c].run # 0
      BY DEF ORC!Answered, OrchestratorInv, CallsHaveTheirRuns
    <3>2. PICK d \in DOMAIN executions :
            /\ ORC!Caller(d) = ORC!Caller(c) /\ executions[d].run = executions[c].run
            /\ ~ executions[d].hit
      BY <3>1 DEF OrchestratorInv, HitsWereWaitedFor, WaitedFor, ORC!Caller
    <3>. QED
      BY <3>1, <3>2 DEF OrchestratorInv, CallsHaveTheirRuns
  <2>3. ORC!ForeignDecisionsShareASecond
    BY <2>2 DEF ORC!ForeignDecisionsShareASecond
  <2>. QED
    BY <2>1, <2>3 DEF DecisionsAreTheUsersOwn, ORC!DecisionsAreTheUsersOwn
<1>. QED
  BY <1>1, OrchestratorInvHolds, PTL

(* A call has at most one transfer; one that is missing although the call  *)
(* went on met an outage, or another call has the second that names it.    *)
THEOREM TransfersGoMissingForACause == Spec => []MissingTransfersHaveACause
<1>1. OrchestratorInv => MissingTransfersHaveACause
  <2> SUFFICES ASSUME OrchestratorInv, NEW c \in DOMAIN executions
               PROVE  LET e == executions[c]
                          made == {s \in DOMAIN transfers : transfers[s] = c}
                      IN /\ Cardinality(made) <= 1
                         /\ e.moved # -1 /\ made = {} =>
                              \/ e.excused
                              \/ \E d \in DOMAIN executions \ {c} :
                                   executions[d].moved = e.moved /\ transfers[e.moved] = d
    BY DEF MissingTransfersHaveACause, ORC!MissingTransfersHaveACause, ORC!Cardinality, Cardinality
  <2> DEFINE made == {s \in DOMAIN transfers : transfers[s] = c}
             m == executions[c].moved
  <2>1. /\ transfers \in [0..MaxSecond -> {NoRow} \cup DOMAIN executions]
        /\ executions \in Seq(ORC!Execution) /\ c # NoRow
        /\ TransfersAreOfTheirSecond
    BY OrchestratorAssumption DEF OrchestratorInv, ORC!TypeOK, ORC!ConstantsAssumption
  <2>2. made \subseteq {m}
    BY <2>1 DEF TransfersAreOfTheirSecond
  <2>3. Cardinality(made) <= 1
    <3>1. IsFiniteSet({m}) /\ Cardinality({m}) = 1
      BY FS_Singleton
    <3>. QED
      BY <2>2, <3>1, FS_Subset
  <2>4. ASSUME m # -1, made = {}, ~ executions[c].excused
        PROVE  \E d \in DOMAIN executions \ {c} :
                 executions[d].moved = m /\ transfers[m] = d
    BY <2>1, <2>4 DEF TransfersAreOfTheirSecond
  <2>. QED
    BY <2>3, <2>4
<1>. QED
  BY <1>1, OrchestratorInvHolds, PTL

-----------------------------------------------------------------------------
(* The booking of a consultation.  A set of numbers has a least one.       *)
BelowInNat == {ss \in Nat \X Nat : ss[1] < ss[2]}

LEMMA LeastNat ==
  ASSUME NEW S \in SUBSET Nat, S # {}
  PROVE  \E x \in S : \A y \in S : x <= y
<1>1. IsWellFoundedOn(BelowInNat, Nat)
  BY NatLessThanWellFounded DEF OpToRel, BelowInNat
<1>2. PICK x \in S : \A y \in S : <<y, x>> \notin BelowInNat
  BY <1>1, WFMin
<1>3. \A y \in S : ~ (y < x)
  BY <1>2 DEF BelowInNat
<1>. QED
  BY <1>2, <1>3

LEMMA MinIsLeast ==
  ASSUME NEW S \in SUBSET Nat, S # {}
  PROVE  J37!Min(S) \in S /\ \A y \in S : J37!Min(S) <= y
BY LeastNat DEF J37!Min

(* Nothing the professional offered matches, or there was no answer.       *)
Passed(j, p) ==
  \/ p \in j.unanswered
  \/ \A k \in DOMAIN Slots : <<p, k>> \in j.offers => k \notin J37!Matching(j.input, DOMAIN Slots)

(* Who is chosen suits, offered the slot, and is the first to do so.       *)
ChoiceIsFirst(j) ==
  /\ J37!Suits(j.input, Directory[j.chosen])
  /\ <<j.chosen, j.slot>> \in j.offers
  /\ j.slot \in J37!Matching(j.input, DOMAIN Slots)
  /\ \A p \in 1..(j.chosen - 1) : J37!Suits(j.input, Directory[p]) => Passed(j, p)

(* What is booked for u that a journey with this id does not answer with.  *)
Orphans(u, id, booked) == {b \in booked : b.user = u /\ b.id # id}

(* The journey j of u beside what is booked: those asked before the next   *)
(* one had nothing; a chosen one is the first; the id names the booking;   *)
(* each attempt leaves at most one booking that is not answered with.      *)
JourneyOK(u, j, booked) ==
  /\ j.stage \in J37!Stages => j.attempt \in 1..J37!Limit(j.stage)
  /\ j.chosen = 0 => j.id = << >> /\ j.repeats = 0 /\ \A b \in booked : b.user # u
  /\ j.stage \in {"validate", "search"} => j.chosen = 0 /\ j.offers = {}
  /\ j.stage = "availability" =>
       /\ j.chosen = 0 /\ j.next \in j.found
       /\ j.found = {p \in DOMAIN Directory : J37!Suits(j.input, Directory[p])}
       /\ \A o \in j.offers : o[1] < j.next
       /\ \A p \in j.found : p < j.next => Passed(j, p)
  /\ j.chosen # 0 => ChoiceIsFirst(j) /\ j.slot # 0
  /\ j.stage \in {"create", "notify"} => j.chosen # 0
  /\ j.stage = "create" => j.id = << >> /\ j.repeats < j.attempt
  /\ j.id # << >> =>
       [id |-> j.id, user |-> u, professional |-> j.chosen, slot |-> j.slot] \in booked
  /\ j.repeats <= DefaultAttempts
  /\ Cardinality(Orphans(u, j.id, booked)) <= j.repeats

BookingInv ==
  /\ J37!TypeOK /\ IsFiniteSet(bookings)
  /\ \A u \in Bookers : JourneyOK(u, journeys[u], bookings)

LEMMA BookingInit ==
  ASSUME J37!ConstantsAssumption, J37!Init PROVE BookingInv
<1>1. bookings = {} /\ IsFiniteSet(bookings) /\ \A u, id : Orphans(u, id, bookings) = {}
  BY FS_EmptySet DEF J37!Init, Orphans
<1>2. PICK inputs \in [Bookers -> UNION {Inputs[u] : u \in Bookers}] :
        journeys = [u \in Bookers |->
          [input |-> inputs[u], stage |-> "validate", attempt |-> 1, found |-> {},
           next |-> 0, offers |-> {}, unanswered |-> {}, chosen |-> 0, slot |-> 0,
           id |-> << >>, repeats |-> 0, confirmationSent |-> FALSE]]
  BY DEF J37!Init
<1>3. \A u \in Bookers : journeys[u] \in J37!Journey
  BY <1>2 DEF J37!Journey, J37!Stages, J37!Ends
<1>4. J37!TypeOK
  <2>1. MaxTime \in Nat /\ MaxCalendarChanges \in Nat
    BY DEF J37!ConstantsAssumption
  <2>2. now \in 0..MaxTime /\ calendarChanges \in 0..MaxCalendarChanges
    BY <2>1 DEF J37!Init
  <2>3. calendar \in [DOMAIN Directory -> SUBSET DOMAIN Slots]
    BY DEF J37!Init
  <2>4. DOMAIN journeys = Bookers
    BY <1>2
  <2>. QED
    BY <1>1, <1>3, <2>2, <2>3, <2>4 DEF J37!TypeOK
<1>5. Cardinality({}) = 0 /\ 0 \in 0..DefaultAttempts /\ 1 \in 1..DefaultAttempts
  BY FS_EmptySet DEF J37!ConstantsAssumption
<1>6. ASSUME NEW u \in Bookers PROVE JourneyOK(u, journeys[u], bookings)
  <2>1. /\ journeys[u].stage = "validate" /\ journeys[u].attempt = 1 /\ journeys[u].offers = {}
        /\ journeys[u].chosen = 0 /\ journeys[u].id = << >> /\ journeys[u].repeats = 0
    BY <1>2
  <2>2. Cardinality(Orphans(u, journeys[u].id, bookings)) = 0
    BY <1>1, <1>5
  <2>. QED
    BY <1>1, <1>5, <2>1, <2>2 DEF JourneyOK, J37!Limit
<1>. QED
  BY <1>1, <1>4, <1>6 DEF BookingInv

(* A journey that moves on as it should, and books at most what it chose.  *)
LEMMA JourneyMoves ==
  ASSUME J37!ConstantsAssumption, BookingInv, NEW u \in Bookers, NEW n \in J37!Journey,
         J37!Moves(u, n), UNCHANGED <<now, calendar, calendarChanges>>,
         \/ UNCHANGED bookings
         \/ journeys[u].stage = "create" /\ bookings' = bookings \cup {J37!Booking(u)},
         JourneyOK(u, n, bookings')
  PROVE  BookingInv'
<1>1. /\ J37!TypeOK /\ IsFiniteSet(bookings) /\ JourneyOK(u, journeys[u], bookings)
      /\ journeys[u] \in J37!Journey /\ Bookers = DOMAIN journeys
  BY DEF BookingInv, J37!TypeOK
<1>2. /\ DOMAIN journeys' = Bookers /\ journeys'[u] = n
      /\ \A v \in Bookers \ {u} : journeys'[v] = journeys[v]
  BY <1>1 DEF J37!Moves
<1>3. IsFiniteSet(bookings')
  BY <1>1, FS_AddElement
<1>4. J37!Booking(u).user = u
  BY DEF J37!Booking
<1>5. ASSUME NEW v \in Bookers \ {u} PROVE JourneyOK(v, journeys[v], bookings')
  <2>1. JourneyOK(v, journeys[v], bookings)
    BY DEF BookingInv
  <2>2. \A id : Orphans(v, id, bookings') = Orphans(v, id, bookings)
    BY <1>4 DEF Orphans
  <2>. QED
    BY <1>4, <2>1, <2>2 DEF JourneyOK
<1>6. ASSUME journeys[u].stage = "create"
      PROVE  /\ J37!Booking(u).professional \in DOMAIN Directory
             /\ J37!Booking(u).slot \in DOMAIN Slots
             /\ J37!Booking(u).id \in Nat \X (0..now)
  <2>1. journeys[u].chosen \in DOMAIN Directory /\ journeys[u].slot \in DOMAIN Slots
    BY <1>1, <1>6 DEF JourneyOK, J37!Journey
  <2>2. Slots[journeys[u].slot].date \in Nat /\ now \in 0..now
    <3>1. Slots \in Seq(J37!Slot) /\ MaxTime \in Nat /\ now \in 0..MaxTime
      BY <1>1 DEF J37!ConstantsAssumption, J37!TypeOK
    <3>2. Slots[journeys[u].slot] \in J37!Slot
      BY <2>1, <3>1
    <3>. QED
      BY <3>1, <3>2 DEF J37!Slot
  <2>. QED
    BY <2>1, <2>2 DEF J37!Booking
<1>7. J37!TypeOK'
  BY <1>1, <1>2, <1>4, <1>6 DEF J37!TypeOK
<1>. QED
  BY <1>2, <1>3, <1>5, <1>7 DEF BookingInv

(* The one to ask next is the first in the directory of those left.        *)
LEMMA AfterIsNext ==
  ASSUME J37!ConstantsAssumption, NEW j \in J37!Journey
  PROVE  /\ J37!After(j) = 0 => \A p \in j.found : p <= j.next
         /\ J37!After(j) # 0 =>
              /\ J37!After(j) \in j.found /\ J37!After(j) > j.next
              /\ \A p \in j.found : p < J37!After(j) => p <= j.next
         /\ J37!After(j) \in {0} \cup DOMAIN Directory
<1> DEFINE left == {p \in j.found : p > j.next}
<1>1. /\ j.found \subseteq DOMAIN Directory /\ j.next \in {0} \cup DOMAIN Directory
      /\ DOMAIN Directory \subseteq Nat \ {0}
  BY DEF J37!Journey, J37!ConstantsAssumption
<1>2. left \in SUBSET Nat
  BY <1>1
<1>3. CASE left = {}
  BY <1>1, <1>3 DEF J37!After, J37!First
<1>4. CASE left # {}
  <2>1. J37!After(j) \in left /\ \A p \in left : J37!After(j) <= p
    BY <1>2, <1>4, MinIsLeast DEF J37!After, J37!First
  <2>. QED
    BY <1>1, <2>1
<1>. QED
  BY <1>3, <1>4

LEMMA FirstIsFirst ==
  ASSUME NEW S \in SUBSET (Nat \ {0}), S # {}
  PROVE  J37!First(S) \in S /\ \A p \in S : J37!First(S) <= p
BY MinIsLeast DEF J37!First

LEMMA FailedAttemptIsOK ==
  ASSUME J37!ConstantsAssumption, NEW u, NEW j \in J37!Journey, NEW booked,
         JourneyOK(u, j, booked), j.stage \in J37!Stages
  PROVE  /\ J37!AttemptFails(j) \in J37!Journey
         /\ JourneyOK(u, J37!AttemptFails(j), booked)
<1>1. CASE j.attempt < J37!Limit(j.stage)
  <2>1. J37!AttemptFails(j) = [j EXCEPT !.attempt = @ + 1]
    BY <1>1 DEF J37!AttemptFails
  <2>2. J37!Limit(j.stage) \in Nat \ {0} /\ j.attempt \in Nat
    BY DEF J37!Limit, J37!ConstantsAssumption, J37!Journey
  <2>. QED
    BY <1>1, <2>1, <2>2 DEF J37!Journey, JourneyOK, ChoiceIsFirst, Passed
<1>2. CASE ~ (j.attempt < J37!Limit(j.stage)) /\ j.stage = "availability"
  <2> DEFINE failed == [j EXCEPT !.unanswered = @ \cup {j.next}, !.next = J37!After(j), !.attempt = 1]
  <2>1. J37!AttemptFails(j) =
          IF J37!After(j) = 0 THEN [failed EXCEPT !.stage = "no_availability"] ELSE failed
    BY <1>2 DEF J37!AttemptFails, J37!AfterFailure, J37!Settled, J37!Journey
  <2>2. /\ j.next \in DOMAIN Directory /\ j.found \subseteq DOMAIN Directory
        /\ DOMAIN Directory \subseteq Nat
    BY <1>2 DEF JourneyOK, J37!Journey, J37!ConstantsAssumption
  <2>3. failed \in J37!Journey
    BY <2>2, AfterIsNext DEF J37!Journey
  <2>4. J37!AttemptFails(j) \in J37!Journey
    <3>1. \A f \in J37!Journey : [f EXCEPT !.stage = "no_availability"] \in J37!Journey
      BY DEF J37!Journey, J37!Ends
    <3>. QED
      BY <2>1, <2>3, <3>1
  <2>5. 1 \in 1..J37!Limit("availability")
    BY DEF J37!Limit, J37!ConstantsAssumption
  <2>6. CASE J37!After(j) = 0
    <3>1. /\ J37!AttemptFails(j).stage = "no_availability" /\ J37!AttemptFails(j).chosen = j.chosen
          /\ J37!AttemptFails(j).id = j.id /\ J37!AttemptFails(j).repeats = j.repeats
      BY <2>1, <2>6 DEF J37!Journey
    <3>. QED
      BY <1>2, <2>4, <3>1 DEF JourneyOK, J37!Stages
  <2>7. CASE J37!After(j) # 0
    <3>1. J37!AttemptFails(j) = failed
      BY <2>1, <2>7
    <3>2. /\ failed.stage = "availability" /\ failed.chosen = j.chosen /\ failed.attempt = 1
          /\ failed.id = j.id /\ failed.repeats = j.repeats /\ failed.input = j.input
          /\ failed.found = j.found /\ failed.offers = j.offers /\ failed.next = J37!After(j)
          /\ failed.unanswered = j.unanswered \cup {j.next}
      BY <1>2 DEF J37!Journey
    <3>3. ASSUME NEW p \in failed.found, p < failed.next PROVE Passed(failed, p)
      <4>1. p = j.next \/ p < j.next
        BY <2>2, <2>7, <3>2, <3>3, AfterIsNext
      <4>. QED
        BY <1>2, <3>2, <3>3, <4>1 DEF Passed, JourneyOK
    <3>4. \A o \in failed.offers : o[1] < failed.next
      <4>1. \A o \in j.offers : o[1] \in Nat /\ o[1] < j.next
        BY <1>2, <2>2 DEF JourneyOK, J37!Journey
      <4>. QED
        BY <2>2, <2>7, <3>2, <4>1, AfterIsNext
    <3>5. failed.next \in failed.found
      BY <2>7, <3>2, AfterIsNext
    <3>. QED
      BY <1>2, <2>4, <2>5, <3>1, <3>2, <3>3, <3>4, <3>5 DEF JourneyOK
  <2>. QED
    BY <2>6, <2>7
<1>3. CASE ~ (j.attempt < J37!Limit(j.stage)) /\ j.stage \in {"validate", "search"}
  <2> DEFINE failed == [j EXCEPT !.stage = "failed", !.attempt = 1]
  <2>1. J37!AttemptFails(j) = failed
    BY <1>3 DEF J37!AttemptFails, J37!AfterFailure, J37!Settled, J37!Journey
  <2>2. failed \in J37!Journey
    BY DEF J37!Journey, J37!Ends
  <2>. QED
    BY <1>3, <2>1, <2>2 DEF JourneyOK, J37!Stages, J37!Journey
<1>4. CASE ~ (j.attempt < J37!Limit(j.stage)) /\ j.stage = "create"
  <2> DEFINE failed == [j EXCEPT !.stage = "booking_failed", !.attempt = 1]
  <2>1. J37!AttemptFails(j) = failed
    BY <1>4 DEF J37!AttemptFails, J37!AfterFailure, J37!Settled, J37!Journey
  <2>2. failed \in J37!Journey
    BY DEF J37!Journey, J37!Ends
  <2>. QED
    BY <1>4, <2>1, <2>2 DEF JourneyOK, J37!Stages, J37!Journey, ChoiceIsFirst, Passed
<1>5. CASE ~ (j.attempt < J37!Limit(j.stage)) /\ j.stage = "notify"
  <2> DEFINE failed == [j EXCEPT !.stage = "completed", !.attempt = 1]
  <2>1. J37!AttemptFails(j) = failed
    BY <1>5 DEF J37!AttemptFails, J37!AfterFailure, J37!Settled, J37!Journey
  <2>2. failed \in J37!Journey
    BY DEF J37!Journey, J37!Ends
  <2>. QED
    BY <1>5, <2>1, <2>2 DEF JourneyOK, J37!Stages, J37!Journey, ChoiceIsFirst, Passed
<1>. QED
  BY <1>1, <1>2, <1>3, <1>4, <1>5 DEF J37!Stages

LEMMA FailAttemptKeeps ==
  ASSUME J37!ConstantsAssumption, BookingInv, NEW u \in Bookers, J37!FailAttempt(u)
  PROVE  BookingInv'
<1>1. /\ journeys[u] \in J37!Journey /\ JourneyOK(u, journeys[u], bookings)
      /\ journeys[u].stage \in J37!Stages
  BY DEF BookingInv, J37!TypeOK, J37!FailAttempt
<1>2. /\ J37!AttemptFails(journeys[u]) \in J37!Journey
      /\ JourneyOK(u, J37!AttemptFails(journeys[u]), bookings)
  BY <1>1, FailedAttemptIsOK
<1>. QED
  BY <1>2, JourneyMoves DEF J37!FailAttempt

LEMMA LoseBookingAnswerKeeps ==
  ASSUME J37!ConstantsAssumption, BookingInv, NEW u \in Bookers, J37!LoseBookingAnswer(u)
  PROVE  BookingInv'
<1> DEFINE j == journeys[u]
           f == J37!AttemptFails(j)
           n == [f EXCEPT !.repeats = @ + 1]
<1>1. j \in J37!Journey /\ JourneyOK(u, j, bookings) /\ j.stage = "create"
  BY DEF BookingInv, J37!TypeOK, J37!LoseBookingAnswer, J37!At
<1>2. f \in J37!Journey /\ JourneyOK(u, f, bookings)
  BY <1>1, FailedAttemptIsOK DEF J37!Stages
<1>3. /\ f.repeats = j.repeats /\ f.id = << >> /\ f.chosen = j.chosen /\ j.chosen # 0
      /\ f.stage \in {"create", "booking_failed"}
      /\ j.repeats < j.attempt /\ j.attempt <= DefaultAttempts
      /\ f.stage = "create" => f.attempt = j.attempt + 1
  <2>1. CASE j.attempt < J37!Limit(j.stage)
    BY <1>1, <2>1 DEF J37!AttemptFails, J37!Journey, JourneyOK, J37!Limit, J37!Stages
  <2>2. CASE ~ (j.attempt < J37!Limit(j.stage))
    BY <1>1, <2>2
    DEF J37!AttemptFails, J37!AfterFailure, J37!Settled, J37!Journey, JourneyOK, J37!Limit, J37!Stages
  <2>. QED
    BY <2>1, <2>2
<1>4. /\ n \in J37!Journey /\ n.repeats = j.repeats + 1 /\ n.id = << >> /\ n.chosen = f.chosen
      /\ n.stage = f.stage /\ n.attempt = f.attempt /\ n.offers = f.offers /\ n.slot = f.slot
      /\ n.input = f.input /\ n.unanswered = f.unanswered
  BY <1>2, <1>3 DEF J37!Journey
<1>5. bookings' = bookings \cup {J37!Booking(u)}
  BY DEF J37!LoseBookingAnswer
<1>6. Cardinality(Orphans(u, n.id, bookings')) <= n.repeats
  <2>1. IsFiniteSet(Orphans(u, << >>, bookings))
    BY FS_Subset DEF Orphans, BookingInv
  <2>2. /\ IsFiniteSet(Orphans(u, << >>, bookings) \cup {J37!Booking(u)})
        /\ Cardinality(Orphans(u, << >>, bookings) \cup {J37!Booking(u)})
             <= Cardinality(Orphans(u, << >>, bookings)) + 1
    BY <2>1, FS_AddElement, FS_CardinalityType
  <2>3. Orphans(u, << >>, bookings') \subseteq Orphans(u, << >>, bookings) \cup {J37!Booking(u)}
    BY <1>5 DEF Orphans
  <2>4. /\ Cardinality(Orphans(u, << >>, bookings')) <= Cardinality(Orphans(u, << >>, bookings) \cup {J37!Booking(u)})
        /\ IsFiniteSet(Orphans(u, << >>, bookings'))
    BY <2>2, <2>3, FS_Subset
  <2>5. Cardinality(Orphans(u, << >>, bookings)) <= j.repeats
    BY <1>2, <1>3 DEF JourneyOK
  <2>6. /\ Cardinality(Orphans(u, << >>, bookings)) \in Nat
        /\ Cardinality(Orphans(u, << >>, bookings')) \in Nat
        /\ Cardinality(Orphans(u, << >>, bookings) \cup {J37!Booking(u)}) \in Nat
        /\ j.repeats \in Nat
    BY <1>1, <2>1, <2>2, <2>4, FS_CardinalityType DEF J37!Journey
  <2>. QED
    BY <1>4, <2>2, <2>4, <2>5, <2>6
<1>7. n.repeats <= DefaultAttempts /\ (n.stage = "create" => n.repeats < n.attempt)
  BY <1>1, <1>3, <1>4 DEF J37!Journey, J37!ConstantsAssumption
<1>8. JourneyOK(u, n, bookings')
  BY <1>2, <1>3, <1>4, <1>6, <1>7 DEF JourneyOK, ChoiceIsFirst, Passed
<1>. QED
  BY <1>1, <1>4, <1>5, <1>8, JourneyMoves DEF J37!LoseBookingAnswer

LEMMA CreateBookingKeeps ==
  ASSUME J37!ConstantsAssumption, BookingInv, NEW u \in Bookers, J37!CreateBooking(u)
  PROVE  BookingInv'
<1> DEFINE j == journeys[u]
           n == [j EXCEPT !.stage = "notify", !.attempt = 1, !.id = J37!Booking(u).id]
<1>1. j \in J37!Journey /\ JourneyOK(u, j, bookings) /\ j.stage = "create"
  BY DEF BookingInv, J37!TypeOK, J37!CreateBooking, J37!At
<1>2. j.chosen # 0 /\ j.slot \in DOMAIN Slots /\ j.repeats < j.attempt /\ j.id = << >>
  BY <1>1 DEF JourneyOK, J37!Journey
<1>3. J37!Booking(u).id \in Nat \X Nat
  <2>1. Slots[j.slot] \in J37!Slot /\ now \in Nat
    BY <1>2 DEF BookingInv, J37!TypeOK, J37!ConstantsAssumption
  <2>. QED
    BY <2>1 DEF J37!Booking, J37!Slot
<1>4. /\ n \in J37!Journey /\ n.stage = "notify" /\ n.attempt = 1 /\ n.id = J37!Booking(u).id
      /\ n.chosen = j.chosen /\ n.slot = j.slot /\ n.offers = j.offers /\ n.input = j.input
      /\ n.unanswered = j.unanswered /\ n.repeats = j.repeats
  BY <1>1, <1>3 DEF J37!Journey, J37!Stages
<1>5. /\ bookings' = bookings \cup {J37!Booking(u)}
      /\ [id |-> n.id, user |-> u, professional |-> n.chosen, slot |-> n.slot] \in bookings'
  BY <1>4 DEF J37!CreateBooking, J37!Booking
<1>6. Cardinality(Orphans(u, n.id, bookings')) <= n.repeats
  <2>1. IsFiniteSet(Orphans(u, << >>, bookings))
    BY FS_Subset DEF Orphans, BookingInv
  <2>2. \A b \in bookings : b.id # << >>
    <3>1. \A b \in bookings : b.id \in Nat \X (0..now)
      BY DEF BookingInv, J37!TypeOK
    <3>2. ASSUME NEW S, NEW T, NEW p \in S \X T PROVE p # << >>
      <4>1. p = <<p[1], p[2]>>
        OBVIOUS
      <4>2. <<p[1], p[2]>> # << >>
        OBVIOUS
      <4>. QED
        BY <4>1, <4>2
    <3>. QED
      BY <3>1, <3>2
  <2>3. Orphans(u, n.id, bookings') \subseteq Orphans(u, << >>, bookings)
    BY <1>4, <1>5, <2>2 DEF Orphans
  <2>4. /\ Cardinality(Orphans(u, n.id, bookings')) <= Cardinality(Orphans(u, << >>, bookings))
        /\ IsFiniteSet(Orphans(u, n.id, bookings'))
    BY <2>1, <2>3, FS_Subset
  <2>5. Cardinality(Orphans(u, << >>, bookings)) <= j.repeats
    BY <1>1, <1>2 DEF JourneyOK
  <2>6. /\ Cardinality(Orphans(u, << >>, bookings)) \in Nat /\ j.repeats \in Nat
        /\ Cardinality(Orphans(u, n.id, bookings')) \in Nat
    BY <1>1, <2>1, <2>4, FS_CardinalityType DEF J37!Journey
  <2>. QED
    BY <1>4, <2>4, <2>5, <2>6
<1>7. 1 \in 1..J37!Limit("notify")
  BY DEF J37!Limit, J37!ConstantsAssumption
<1>8. JourneyOK(u, n, bookings')
  BY <1>1, <1>2, <1>4, <1>5, <1>6, <1>7 DEF JourneyOK, ChoiceIsFirst, Passed
<1>. QED
  BY <1>1, <1>4, <1>5, <1>8, JourneyMoves DEF J37!CreateBooking

LEMMA SendBookingNotificationsKeeps ==
  ASSUME J37!ConstantsAssumption, BookingInv, NEW u \in Bookers, J37!SendBookingNotifications(u)
  PROVE  BookingInv'
<1> DEFINE j == journeys[u]
           n == [j EXCEPT !.stage = "completed", !.attempt = 1, !.confirmationSent = TRUE]
<1>1. j \in J37!Journey /\ JourneyOK(u, j, bookings) /\ j.stage = "notify"
  BY DEF BookingInv, J37!TypeOK, J37!SendBookingNotifications, J37!At
<1>2. /\ n \in J37!Journey /\ n.stage = "completed" /\ n.id = j.id
      /\ n.chosen = j.chosen /\ n.slot = j.slot /\ n.offers = j.offers /\ n.input = j.input
      /\ n.unanswered = j.unanswered /\ n.repeats = j.repeats
  BY <1>1 DEF J37!Journey, J37!Stages, J37!Ends
<1>3. JourneyOK(u, n, bookings)
  BY <1>1, <1>2 DEF JourneyOK, ChoiceIsFirst, Passed, J37!Stages
<1>. QED
  BY <1>2, <1>3, JourneyMoves DEF J37!SendBookingNotifications

LEMMA ValidateBookingRequestKeeps ==
  ASSUME J37!ConstantsAssumption, BookingInv, NEW u \in Bookers, J37!ValidateBookingRequest(u)
  PROVE  BookingInv'
<1> DEFINE j == journeys[u]
           n == [j EXCEPT !.stage = IF J37!Valid(j.input) THEN "search" ELSE "failed", !.attempt = 1]
<1>1. j \in J37!Journey /\ JourneyOK(u, j, bookings) /\ j.stage = "validate"
  BY DEF BookingInv, J37!TypeOK, J37!ValidateBookingRequest, J37!At
<1>2. /\ n \in J37!Journey /\ n.stage \in {"search", "failed"} /\ n.id = j.id /\ n.attempt = 1
      /\ n.chosen = j.chosen /\ n.offers = j.offers /\ n.repeats = j.repeats
  <2>1. \A s \in {"search", "failed"} : [j EXCEPT !.stage = s, !.attempt = 1] \in J37!Journey
    BY <1>1 DEF J37!Journey, J37!Stages, J37!Ends
  <2>2. PICK s \in {"search", "failed"} : n = [j EXCEPT !.stage = s, !.attempt = 1]
    OBVIOUS
  <2>. QED
    BY <1>1, <2>1, <2>2 DEF J37!Journey
<1>3. 1 \in 1..J37!Limit("search")
  BY DEF J37!Limit, J37!ConstantsAssumption
<1>4. JourneyOK(u, n, bookings)
  BY <1>1, <1>2, <1>3 DEF JourneyOK, J37!Stages
<1>. QED
  BY <1>2, <1>4, JourneyMoves DEF J37!ValidateBookingRequest

LEMMA SearchProfessionalDirectoryKeeps ==
  ASSUME J37!ConstantsAssumption, BookingInv, NEW u \in Bookers, J37!SearchProfessionalDirectory(u)
  PROVE  BookingInv'
<1> DEFINE j == journeys[u]
           found == {p \in DOMAIN Directory : J37!Suits(j.input, Directory[p])}
           n == [j EXCEPT !.found = found, !.next = J37!First(found), !.attempt = 1,
                          !.stage = IF found = {} THEN "no_professionals_found" ELSE "availability"]
<1>1. j \in J37!Journey /\ JourneyOK(u, j, bookings) /\ j.stage = "search"
  BY DEF BookingInv, J37!TypeOK, J37!SearchProfessionalDirectory, J37!At
<1>2. found \in SUBSET (Nat \ {0}) /\ found \subseteq DOMAIN Directory
  BY DEF J37!ConstantsAssumption
<1>3. /\ found = {} => J37!First(found) = 0
      /\ found # {} => J37!First(found) \in found /\ \A p \in found : J37!First(found) <= p
  BY <1>2, FirstIsFirst DEF J37!First
<1>4. n \in J37!Journey
  <2>1. \A s \in {"no_professionals_found", "availability"}, p \in {0} \cup DOMAIN Directory :
          [j EXCEPT !.found = found, !.next = p, !.attempt = 1, !.stage = s] \in J37!Journey
    BY <1>1, <1>2 DEF J37!Journey, J37!Stages, J37!Ends
  <2>2. J37!First(found) \in {0} \cup DOMAIN Directory
    BY <1>2, <1>3
  <2>3. PICK s \in {"no_professionals_found", "availability"} :
          n = [j EXCEPT !.found = found, !.next = J37!First(found), !.attempt = 1, !.stage = s]
    OBVIOUS
  <2>. QED
    BY <2>1, <2>2, <2>3
<1>5. /\ n.stage = IF found = {} THEN "no_professionals_found" ELSE "availability"
      /\ n.id = j.id /\ n.attempt = 1 /\ n.found = found /\ n.next = J37!First(found)
      /\ n.chosen = j.chosen /\ n.offers = j.offers /\ n.repeats = j.repeats /\ n.input = j.input
  BY <1>1 DEF J37!Journey
<1>6. 1 \in 1..J37!Limit("availability")
  BY DEF J37!Limit, J37!ConstantsAssumption
<1>7. \A p \in found : ~ (p < n.next)
  BY <1>2, <1>3, <1>5
<1>8. JourneyOK(u, n, bookings)
  <2>1. CASE found = {}
    BY <1>1, <1>5, <2>1 DEF JourneyOK, J37!Stages
  <2>2. CASE found # {}
    <3>1. /\ n.stage = "availability" /\ n.chosen = 0 /\ n.next \in n.found /\ n.offers = {}
          /\ n.found = {p \in DOMAIN Directory : J37!Suits(n.input, Directory[p])}
          /\ \A p \in n.found : ~ (p < n.next)
      BY <1>1, <1>3, <1>5, <1>7, <2>2 DEF JourneyOK
    <3>2. /\ n.id = << >> /\ n.repeats = 0 /\ \A b \in bookings : b.user # u
          /\ n.repeats <= DefaultAttempts /\ Cardinality(Orphans(u, n.id, bookings)) <= n.repeats
      BY <1>1, <1>5 DEF JourneyOK
    <3>. QED
      BY <1>5, <1>6, <3>1, <3>2 DEF JourneyOK
  <2>. QED
    BY <2>1, <2>2
<1>. QED
  BY <1>4, <1>8, JourneyMoves DEF J37!SearchProfessionalDirectory

LEMMA CheckProfessionalAvailabilityKeeps ==
  ASSUME J37!ConstantsAssumption, BookingInv, NEW u \in Bookers,
         J37!CheckProfessionalAvailability(u)
  PROVE  BookingInv'
<1> DEFINE j == journeys[u]
           p == j.next
           matching == J37!Matching(j.input, calendar[p])
           asked == [j EXCEPT !.offers = @ \cup ({p} \X calendar[p]), !.attempt = 1]
           passed == [asked EXCEPT !.next = J37!After(j)]
           chosen == [asked EXCEPT !.stage = "create", !.chosen = p, !.slot = J37!Min(matching)]
<1>1. j \in J37!Journey /\ JourneyOK(u, j, bookings) /\ j.stage = "availability"
  BY DEF BookingInv, J37!TypeOK, J37!CheckProfessionalAvailability, J37!At
<1>2. /\ p \in j.found /\ p \in DOMAIN Directory /\ DOMAIN Directory \subseteq Nat \ {0}
      /\ calendar[p] \subseteq DOMAIN Slots /\ DOMAIN Slots \subseteq Nat \ {0}
      /\ j.found \subseteq DOMAIN Directory
  <2>1. DOMAIN Directory \subseteq Nat \ {0} /\ DOMAIN Slots \subseteq Nat \ {0}
    BY DEF J37!ConstantsAssumption
  <2>2. p \in j.found /\ j.found \subseteq DOMAIN Directory
    BY <1>1 DEF JourneyOK, J37!Journey
  <2>3. calendar \in [DOMAIN Directory -> SUBSET DOMAIN Slots]
    BY DEF BookingInv, J37!TypeOK
  <2>. QED
    BY <2>1, <2>2, <2>3
<1>3. /\ asked \in J37!Journey /\ asked.stage = "availability" /\ asked.id = j.id
      /\ asked.found = j.found /\ asked.next = p /\ asked.chosen = j.chosen /\ asked.input = j.input
      /\ asked.offers = j.offers \cup ({p} \X calendar[p]) /\ asked.unanswered = j.unanswered
      /\ asked.repeats = j.repeats /\ asked.attempt = 1
  BY <1>1, <1>2 DEF J37!Journey
<1>4. \A o \in j.offers : o[1] \in Nat /\ o[1] < p
  BY <1>1, <1>2 DEF JourneyOK, J37!Journey
<1>5. \A q \in DOMAIN Directory : q < p /\ J37!Suits(j.input, Directory[q]) => Passed(asked, q)
  <2>1. ASSUME NEW q \in DOMAIN Directory, q < p, J37!Suits(j.input, Directory[q])
        PROVE  Passed(j, q)
    BY <1>1, <2>1 DEF JourneyOK
  <2>2. \A q, k : q # p /\ <<q, k>> \in asked.offers => <<q, k>> \in j.offers
    BY <1>3
  <2>. QED
    BY <1>2, <1>3, <2>1, <2>2 DEF Passed
<1>6. CASE matching = {}
  <2>1. Passed(asked, p)
    <3>1. ASSUME NEW k \in DOMAIN Slots, <<p, k>> \in asked.offers
          PROVE  k \notin J37!Matching(j.input, DOMAIN Slots)
      <4>1. k \in calendar[p]
        BY <1>2, <1>3, <1>4, <3>1
      <4>. QED
        BY <1>6, <4>1 DEF J37!Matching
    <3>. QED
      BY <1>3, <3>1 DEF Passed
  <2>2. J37!After(j) \in {0} \cup DOMAIN Directory
    BY <1>1, AfterIsNext
  <2>3. /\ passed \in J37!Journey /\ passed.stage = "availability" /\ passed.id = j.id
        /\ passed.found = j.found /\ passed.next = J37!After(j) /\ passed.chosen = 0
        /\ passed.input = j.input /\ passed.offers = asked.offers /\ passed.unanswered = j.unanswered
        /\ passed.repeats = j.repeats /\ passed.attempt = 1
    BY <1>1, <1>3, <2>2 DEF J37!Journey, JourneyOK
  <2>4. J37!Moves(u, J37!Settled(passed))
    BY <1>6 DEF J37!CheckProfessionalAvailability
  <2>5. CASE J37!After(j) = 0
    <3> DEFINE n == [passed EXCEPT !.stage = "no_availability"]
    <3>1. J37!Settled(passed) = n
      BY <2>3, <2>5 DEF J37!Settled
    <3>2. /\ n \in J37!Journey /\ n.stage = "no_availability" /\ n.id = j.id /\ n.chosen = 0
          /\ n.repeats = j.repeats
      BY <2>3 DEF J37!Journey, J37!Ends
    <3>3. JourneyOK(u, n, bookings)
      BY <1>1, <3>2 DEF JourneyOK, J37!Stages
    <3>. QED
      BY <2>4, <3>1, <3>2, <3>3, JourneyMoves DEF J37!CheckProfessionalAvailability
  <2>6. CASE J37!After(j) # 0
    <3>1. J37!Settled(passed) = passed
      BY <2>3, <2>6 DEF J37!Settled
    <3>2. /\ J37!After(j) \in j.found /\ J37!After(j) > p
          /\ \A q \in j.found : q < J37!After(j) => q <= p
      BY <1>1, <2>6, AfterIsNext
    <3>3. \A o \in passed.offers : o[1] < passed.next
      <4>1. \A o \in passed.offers : o[1] \in Nat /\ o[1] <= p
        BY <1>2, <1>3, <1>4, <2>3
      <4>. QED
        BY <1>2, <2>2, <2>3, <3>2, <4>1
    <3>4. ASSUME NEW q \in passed.found, q < passed.next PROVE Passed(passed, q)
      <4>1. q \in DOMAIN Directory /\ J37!Suits(j.input, Directory[q]) /\ q \in j.found
        BY <1>1, <2>3 DEF JourneyOK
      <4>2. Passed(asked, q)
        BY <1>2, <1>5, <2>1, <2>3, <3>2, <3>4, <4>1
      <4>. QED
        BY <1>3, <2>3, <4>2 DEF Passed
    <3>5. passed.found = {q \in DOMAIN Directory : J37!Suits(passed.input, Directory[q])}
      BY <1>1, <2>3 DEF JourneyOK
    <3>6. 1 \in 1..J37!Limit("availability")
      BY DEF J37!Limit, J37!ConstantsAssumption
    <3>7. JourneyOK(u, passed, bookings)
      BY <1>1, <2>3, <3>2, <3>3, <3>4, <3>5, <3>6 DEF JourneyOK
    <3>. QED
      BY <2>3, <2>4, <3>1, <3>7, JourneyMoves DEF J37!CheckProfessionalAvailability
  <2>. QED
    BY <2>5, <2>6
<1>7. CASE matching # {}
  <2>1. matching \subseteq calendar[p]
    BY DEF J37!Matching
  <2>2. J37!Min(matching) \in matching
    BY <1>2, <1>7, <2>1, MinIsLeast
  <2>3. /\ chosen \in J37!Journey /\ chosen.stage = "create" /\ chosen.id = j.id
        /\ chosen.chosen = p /\ chosen.slot = J37!Min(matching)
        /\ chosen.input = j.input /\ chosen.offers = asked.offers /\ chosen.unanswered = j.unanswered
        /\ chosen.repeats = j.repeats /\ chosen.attempt = 1
    BY <1>2, <1>3, <2>1, <2>2 DEF J37!Journey, J37!Stages
  <2>4. J37!Moves(u, chosen)
    BY <1>7 DEF J37!CheckProfessionalAvailability
  <2>5. ChoiceIsFirst(chosen)
    <3>1. <<p, chosen.slot>> \in chosen.offers
      BY <1>3, <2>1, <2>2, <2>3
    <3>2. chosen.slot \in J37!Matching(chosen.input, DOMAIN Slots)
      BY <1>2, <2>1, <2>2, <2>3 DEF J37!Matching
    <3>3. J37!Suits(chosen.input, Directory[p])
      BY <1>1, <1>2, <2>3 DEF JourneyOK
    <3>4. ASSUME NEW q \in 1..(p - 1), J37!Suits(chosen.input, Directory[q]) PROVE Passed(chosen, q)
      <4>1. q \in DOMAIN Directory /\ q < p
        BY <1>2 DEF J37!ConstantsAssumption
      <4>. QED
        BY <1>3, <1>5, <2>3, <3>4, <4>1 DEF Passed
    <3>. QED
      BY <2>3, <3>1, <3>2, <3>3, <3>4 DEF ChoiceIsFirst
  <2>6. 1 \in 1..J37!Limit("create") /\ p # 0 /\ chosen.slot # 0
    BY <1>2, <2>1, <2>2, <2>3 DEF J37!Limit, J37!ConstantsAssumption
  <2>7. JourneyOK(u, chosen, bookings)
    BY <1>1, <2>3, <2>5, <2>6 DEF JourneyOK
  <2>. QED
    BY <2>3, <2>4, <2>7, JourneyMoves DEF J37!CheckProfessionalAvailability
<1>. QED
  BY <1>6, <1>7

LEMMA BookingStep ==
  ASSUME J37!ConstantsAssumption, BookingInv, [J37!Next]_(J37!bookingVars)
  PROVE  BookingInv'
<1>1. ASSUME NEW u \in Bookers, J37!Work(u) PROVE BookingInv'
  BY <1>1, FailAttemptKeeps, ValidateBookingRequestKeeps, SearchProfessionalDirectoryKeeps,
     CheckProfessionalAvailabilityKeeps, CreateBookingKeeps, LoseBookingAnswerKeeps,
     SendBookingNotificationsKeeps
  DEF J37!Work
<1>2. CASE J37!Tick
  <2>1. now' \in 0..MaxTime /\ \A t \in 0..now : t \in 0..now'
    BY <1>2 DEF J37!Tick, BookingInv, J37!TypeOK, J37!ConstantsAssumption
  <2>2. \A b \in bookings : b.id \in Nat \X (0..now')
    BY <2>1 DEF BookingInv, J37!TypeOK
  <2>. QED
    BY <1>2, <2>1, <2>2 DEF J37!Tick, BookingInv, J37!TypeOK
<1>3. CASE J37!CalendarChanges
  <2>1. calendarChanges' \in 0..MaxCalendarChanges
    BY <1>3 DEF J37!CalendarChanges, BookingInv, J37!TypeOK, J37!ConstantsAssumption
  <2>2. calendar' \in [DOMAIN Directory -> SUBSET DOMAIN Slots]
    BY <1>3 DEF J37!CalendarChanges, BookingInv, J37!TypeOK
  <2>. QED
    BY <1>3, <2>1, <2>2 DEF J37!CalendarChanges, BookingInv, J37!TypeOK
<1>4. CASE UNCHANGED J37!bookingVars
  BY <1>4 DEF J37!bookingVars, BookingInv, J37!TypeOK
<1>. QED
  BY <1>1, <1>2, <1>3, <1>4 DEF J37!Next

LEMMA BookingInvHolds == Spec => []BookingInv
<1>1. Init => BookingInv
  BY BookingInit, BookingAssumption DEF Init
<1>2. BookingInv /\ [Next]_vars => BookingInv'
  <2>1. [Next]_vars => [J37!Next]_(J37!bookingVars)
    BY DEF Next, vars, OthersThanAllocation, OthersThanBooking, OthersThanSteps,
           OthersThanOrchestrator, bookingVars, J37!bookingVars
  <2>. QED
    BY <2>1, BookingStep, BookingAssumption
<1>. QED
  BY <1>1, <1>2, PTL DEF Spec

(* What a user is told is booked, with the first of the directory who could*)
(* be had, and what else is booked for the user are attempts whose answers *)
(* were lost, at most as many as attempts: whoever fails or books besides. *)
THEOREM AnswersAreBooked == Spec => []BookingsMatchAnswers
<1>1. BookingInv => BookingsMatchAnswers
  <2> SUFFICES ASSUME BookingInv PROVE BookingsMatchAnswers
    OBVIOUS
  <2>1. \A u \in Bookers : journeys[u] \in J37!Journey /\ JourneyOK(u, journeys[u], bookings)
    BY DEF BookingInv, J37!TypeOK
  <2>2. J37!AnsweredBookingExists
    BY <2>1 DEF JourneyOK, J37!AnsweredBookingExists
  <2>3. J37!OrphansAreLostAnswers
    BY <2>1 DEF JourneyOK, Orphans, J37!OrphansAreLostAnswers, J37!Cardinality, Cardinality
  <2>4. J37!ChosenIsFirstMatch
    <3> SUFFICES ASSUME NEW u \in Bookers, journeys[u].chosen # 0
                 PROVE  LET j == journeys[u]
                        IN /\ J37!Suits(j.input, Directory[j.chosen])
                           /\ <<j.chosen, j.slot>> \in j.offers
                           /\ Slots[j.slot].type = j.input.meeting
                           /\ j.input.date \in {NoDate, Slots[j.slot].date}
                           /\ \A p \in 1..(j.chosen - 1) :
                                J37!Suits(j.input, Directory[p]) =>
                                  \/ p \in j.unanswered
                                  \/ ~ \E k \in DOMAIN Slots :
                                         /\ <<p, k>> \in j.offers /\ Slots[k].type = j.input.meeting
                                         /\ j.input.date \in {NoDate, Slots[k].date}
      BY DEF J37!ChosenIsFirstMatch
    <3>1. ChoiceIsFirst(journeys[u])
      BY <2>1 DEF JourneyOK
    <3>2. \A k \in DOMAIN Slots :
            k \in J37!Matching(journeys[u].input, DOMAIN Slots) <=>
              /\ Slots[k].type = journeys[u].input.meeting
              /\ journeys[u].input.date \in {NoDate, Slots[k].date}
      BY DEF J37!Matching
    <3>3. journeys[u].slot \in DOMAIN Slots
      BY <3>1 DEF ChoiceIsFirst, J37!Matching
    <3>. QED
      BY <3>1, <3>2, <3>3 DEF ChoiceIsFirst, Passed
  <2>. QED
    BY <2>2, <2>3, <2>4 DEF BookingsMatchAnswers, J37!BookingsMatchAnswers
<1>. QED
  BY <1>1, BookingInvHolds, PTL

-----------------------------------------------------------------------------
(* The types of the four components hold together, whatever the constants. *)
THEOREM JourneyTypesHold == Spec => []TypeOK
<1>1. OrchestratorInv => ORC!TypeOK
  BY DEF OrchestratorInv
<1>2. BookingInv => J37!TypeOK
  BY DEF BookingInv
<1>3. J34!TypeOK /\ J37!TypeOK /\ STEPS!TypeOK /\ ORC!TypeOK => TypeOK
  BY DEF TypeOK
<1>. QED
  BY <1>1, <1>2, <1>3, OrchestratorInvHolds, BookingInvHolds, StepsTypesOfJourneys,
     AllocationTypesOfJourneys, PTL

=============================================================================
