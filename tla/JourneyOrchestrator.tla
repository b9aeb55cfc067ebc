------------------------ MODULE JourneyOrchestrator ------------------------
(***************************************************************************)
(* ExecuteJourney of the orchestrator: a request is authorised, answered   *)
(* from the cache if it can be, and else by a Temporal workflow, with      *)
(* events and a ledger transfer on the way whose failures are dropped.     *)
(* Executions, workflows and transfers are named by the second they are    *)
(* made in.  Redis, Permify, Temporal, Kafka and TigerBeetle are outside.  *)
(***************************************************************************)
EXTENDS Integers, FiniteSets, Sequences

CONSTANTS
  NoRow,
  Callers, JourneyIds, TenantIds,
  JourneyRequests,    \* what may be posted
  Permitted,          \* <<tenant, user, journey>> of which Permify says yes
  WorkflowStatuses,   \* a workflow's result may have one of these
  TTL,                \* of a cache entry in seconds, an hour in the code
  MaxSecond,          \* bound: the clock
  MaxEvents,          \* bound: requests, failing calls and crashes, together
  Parallel            \* bound: requests in execution

(* subject: of the validated token, NoRow for an invalid token; user: the  *)
(* user_id of the body, NoRow if empty; amount: the body carries one.      *)
Request ==
  [subject : Callers \cup {NoRow}, user : Callers \cup {NoRow}, journey : JourneyIds,
   tenant : TenantIds \cup {NoRow}, amount : BOOLEAN]

ConstantsAssumption ==
  /\ NoRow \notin Callers \cup TenantIds \cup Nat
  /\ \A r \in JourneyRequests : r \in Request
  /\ Permitted \subseteq TenantIds \X Callers \X JourneyIds
  /\ "completed" \in WorkflowStatuses
  /\ {MaxSecond, MaxEvents} \subseteq Nat /\ {TTL, Parallel} \subseteq Nat \ {0}

VARIABLES
  second,
  runs,         \* Temporal's workflow runs, in the order of their start
  resultCache,  \* Redis: for each key the run whose result is kept and since when, or NoRow
  transfers,    \* TigerBeetle: for each id, the call that made it
  executions,
  outages

vars == <<second, runs, resultCache, transfers, executions, outages>>

Keys == JourneyIds \X Callers

(* A run carries the input of the call that started it.                    *)
Run ==
  [journey : JourneyIds, second : Nat, user : Callers, tenant : TenantIds,
   state : {"open", "failed"} \cup WorkflowStatuses]

Ends == {"answered", "failed", "lost"}

(* began: the second of the executionID; run: the run awaited or answered  *)
(* with; hit: the answer came from the cache; moved: the second of the     *)
(* transfer; excused: the transfer's call failed.                          *)
Execution ==
  [request : Request, at : {"cache", "start", "transfer", "await"}
                           \cup Ends,
   began : Nat, run : Nat, hit : BOOLEAN, moved : Nat \cup {-1}, excused : BOOLEAN]

(* The types of the tables and of the executions.                          *)
TypeOK ==
  /\ second \in 0..MaxSecond /\ outages \in 0..MaxEvents
  /\ runs \in Seq(Run)
  /\ resultCache \in [Keys -> {NoRow} \cup ((DOMAIN runs) \X (0..second))]
  /\ transfers \in [0..MaxSecond -> {NoRow} \cup DOMAIN executions]
  /\ executions \in Seq(Execution)

Init ==
  /\ second = 0 /\ outages = 0
  /\ runs = << >> /\ executions = << >>
  /\ resultCache = [k \in Keys |-> NoRow]
  /\ transfers = [s \in 0..MaxSecond |-> NoRow]

-----------------------------------------------------------------------------
Running == {c \in DOMAIN executions : executions[c].at \notin Ends}

At(c, stage) == executions[c].at = stage

Goes(c, e) == executions' = [executions EXCEPT ![c] = e]

To(c, stage) == [executions[c] EXCEPT !.at = stage]

Budget == Len(executions) + outages < MaxEvents

Breaks == Budget /\ outages' = outages + 1

(* handleExecuteJourney: the token's subject is the user, and a body may   *)
(* name nobody else; the execution is named, then Permify is asked, where  *)
(* anything but a yes denies.  What is refused leaves nothing behind.      *)
Accepted(r) ==
  /\ r.subject # NoRow /\ r.user \in {NoRow, r.subject}
  /\ r.tenant # NoRow

CheckPermission(r) == <<r.tenant, r.subject, r.journey>> \in Permitted

Receive(r) ==
  /\ Accepted(r) /\ CheckPermission(r)
  /\ Budget /\ Cardinality(Running) < Parallel
  /\ executions' = Append(executions,
       [request |-> r, at |-> "cache", began |-> second, run |-> 0, hit |-> FALSE,
        moved |-> -1, excused |-> FALSE])
  /\ UNCHANGED <<second, runs, resultCache, transfers, outages>>

Caller(c) == executions[c].request.subject

(* Mutant of CacheKey: the user is left out.                               *)
KeyOfJourney(c) == <<executions[c].request.journey, CHOOSE u \in Callers : TRUE>>

(* The key leaves out the tenant and the data of the request.              *)
CacheKey(c) == <<executions[c].request.journey, Caller(c)>>

(* Mutant of Usable: the status is not tested.                             *)
AnyEntry(entry) == entry # NoRow

Usable(entry) == entry # NoRow /\ runs[entry[1]].state = "completed"

ReadCache(c) ==
  /\ At(c, "cache")
  /\ LET entry == resultCache[CacheKey(c)]
     IN \/ /\ Usable(entry)
           /\ Goes(c, [To(c, "answered") EXCEPT !.run = entry[1], !.hit = TRUE])
           /\ UNCHANGED outages
        \/ ~ Usable(entry) /\ Goes(c, To(c, "start")) /\ UNCHANGED outages
        \/ Breaks /\ Goes(c, To(c, "start"))
  /\ UNCHANGED <<second, runs, resultCache, transfers>>

(* The workflow is named by journey and second.  Temporal gives the open   *)
(* run of that name if there is one.                                       *)
SameWorkflow(c, i) ==
  /\ runs[i].journey = executions[c].request.journey
  /\ runs[i].second = executions[c].began

OpenRuns(c) == {i \in DOMAIN runs : SameWorkflow(c, i) /\ runs[i].state = "open"}

NewRun(c) ==
  [journey |-> executions[c].request.journey, second |-> executions[c].began,
   user |-> Caller(c), tenant |-> executions[c].request.tenant, state |-> "open"]

StartWorkflow(c) ==
  /\ At(c, "start")
  /\ \/ /\ OpenRuns(c) = {}
        /\ runs' = Append(runs, NewRun(c))
        /\ \/ Goes(c, [To(c, "transfer") EXCEPT !.run = Len(runs) + 1]) /\ UNCHANGED outages
           \/ Breaks /\ Goes(c, To(c, "failed"))    \* started, the answer lost
     \/ \E i \in OpenRuns(c) :
          /\ Goes(c, [To(c, "transfer") EXCEPT !.run = i])
          /\ UNCHANGED <<runs, outages>>
     \/ Breaks /\ Goes(c, To(c, "failed")) /\ UNCHANGED runs
  /\ UNCHANGED <<second, resultCache, transfers>>

(* Mutant of TransferId: always the same.                                  *)
FixedId == 0

(* The transfer's id is the second it is made in; an id that is taken is an*)
(* error, and all errors are dropped.  Publishing the start, the stream,   *)
(* the KYC call and the route change nothing that is decided here.         *)
TransferId == second

CreateTransfer(c) ==
  /\ At(c, "transfer")
  /\ IF executions[c].request.amount
     THEN \/ /\ Goes(c, [To(c, "await") EXCEPT !.moved = second])
             /\ transfers' = [transfers EXCEPT ![TransferId] = IF @ = NoRow THEN c ELSE @]
             /\ UNCHANGED outages
          \/ /\ Breaks /\ UNCHANGED transfers
             /\ Goes(c, [To(c, "await") EXCEPT !.moved = second, !.excused = TRUE])
     ELSE Goes(c, To(c, "await")) /\ UNCHANGED <<transfers, outages>>
  /\ UNCHANGED <<second, runs, resultCache>>

(* The result of the awaited run.  SetJSON keeps it whatever its status;   *)
(* the error of this is dropped, as is that of the completion event, and   *)
(* the caller is answered.                                                 *)
GetWorkflowResult(c) ==
  /\ At(c, "await")
  /\ LET state == runs[executions[c].run].state
     IN \/ /\ state \in WorkflowStatuses /\ Goes(c, To(c, "answered"))
           /\ resultCache' = [resultCache EXCEPT ![CacheKey(c)] = <<executions[c].run, second>>]
           /\ UNCHANGED outages
        \/ /\ state \in WorkflowStatuses /\ Breaks /\ Goes(c, To(c, "answered"))
           /\ UNCHANGED resultCache
        \/ state = "failed" /\ Goes(c, To(c, "failed")) /\ UNCHANGED <<resultCache, outages>>
        \/ Breaks /\ Goes(c, To(c, "failed")) /\ UNCHANGED resultCache
  /\ UNCHANGED <<second, runs, transfers>>

Crash ==
  /\ Running # {} /\ Breaks
  /\ executions' = [c \in DOMAIN executions |-> IF c \in Running THEN To(c, "lost") ELSE executions[c]]
  /\ UNCHANGED <<second, runs, resultCache, transfers>>

(* The workflows and the hour of the cache are outside.                    *)
WorkflowEnds(i) ==
  /\ runs[i].state = "open"
  /\ \E s \in {"failed"} \cup WorkflowStatuses : runs' = [runs EXCEPT ![i].state = s]
  /\ UNCHANGED <<second, resultCache, transfers, executions, outages>>

EntryExpires(k) ==
  /\ resultCache[k] # NoRow /\ second >= resultCache[k][2] + TTL
  /\ resultCache' = [resultCache EXCEPT ![k] = NoRow]
  /\ UNCHANGED <<second, runs, transfers, executions, outages>>

Tick ==
  /\ second < MaxSecond /\ second' = second + 1
  /\ UNCHANGED <<runs, resultCache, transfers, executions, outages>>

Execute(c) ==
  \/ ReadCache(c) \/ StartWorkflow(c) \/ CreateTransfer(c)
  \/ GetWorkflowResult(c)

Next ==
  \/ \E r \in JourneyRequests : Receive(r)
  \/ \E c \in DOMAIN executions : Execute(c)
  \/ Crash
  \/ \E i \in DOMAIN runs : WorkflowEnds(i)
  \/ \E k \in Keys : EntryExpires(k)
  \/ Tick

-----------------------------------------------------------------------------
Answered == {c \in DOMAIN executions : executions[c].at = "answered"}

(* A user gets the decision about another only where both journeys were    *)
(* begun in one second: some execution of this user, this one or one that  *)
(* filled the cache, joined the other's run (workflowID, cacheKey).        *)
ForeignDecisionsShareASecond ==
  \A c \in Answered :
    LET r == executions[c].run
    IN runs[r].user # Caller(c) =>
         \E d \in DOMAIN executions :
           /\ Caller(d) = Caller(c) /\ executions[d].run = r
           /\ ~ executions[d].hit /\ SameWorkflow(d, r)

(* Only a completed journey is answered from the cache, and only to a user *)
(* who has waited for that very run before: other results are computed     *)
(* again (the test of cachedResult.Status, the key).                       *)
HitsAreCompletedRuns ==
  \A c \in Answered :
    LET e == executions[c]
    IN e.hit =>
         /\ runs[e.run].state = "completed"
         /\ runs[e.run].journey = e.request.journey
         /\ \E d \in DOMAIN executions :
              ~ executions[d].hit /\ executions[d].run = e.run /\ Caller(d) = Caller(c)

(* Whose decision a user is answered with, computed or from the cache.     *)
DecisionsAreTheUsersOwn == ForeignDecisionsShareASecond /\ HitsAreCompletedRuns

(* A transfer that is missing from the ledger although the journey went on *)
(* was refused by an outage, or its second had been taken by another; and  *)
(* no call has two (CreateTransfer).                                       *)
MissingTransfersHaveACause ==
  \A c \in DOMAIN executions :
    LET e == executions[c]
        made == {s \in DOMAIN transfers : transfers[s] = c}
    IN /\ Cardinality(made) <= 1
       /\ e.moved # -1 /\ made = {} =>
            \/ e.excused
            \/ \E d \in DOMAIN executions \ {c} :
                 executions[d].moved = e.moved /\ transfers[e.moved] = d

=============================================================================
