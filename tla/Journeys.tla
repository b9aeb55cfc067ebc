------------------------------ MODULE Journeys ------------------------------
(***************************************************************************)
(* The journeys: the orchestrator that runs a journey's workflow, the      *)
(* worker's workflow of steps, and the two workflows written for a journey *)
(* each (land sold twice, booking a consultation).  The workflows share    *)
(* Temporal's way of repeating activities and no state, so a behaviour is  *)
(* one of the component it starts with, the others standing still.         *)
(***************************************************************************)
EXTENDS Integers, FiniteSets, Sequences

CONSTANTS
  Components,  \* the components whose behaviours are wanted
  DefaultAttempts, NotificationAttempts,
  \* journey_34_double_allocation.go
  Persons, NoName, Lands, MaxRecordChanges,
  \* journey_37_professional_consultation.go
  Bookers, NoDate, Inputs, Directory, Slots, ServedStates, MaxTime, MaxCalendarChanges,
  \* temporal-orchestrator/main.go
  Plans, NoPolicy, Endless,
  \* cmd/orchestrator/main.go
  NoRow, Callers, JourneyIds, TenantIds, JourneyRequests, Permitted, WorkflowStatuses,
  TTL, MaxSecond, MaxEvents, Parallel

VARIABLES
  component,
  land, past, allocationStep, allocationAttempt, heard, output,
  now, calendar, calendarChanges, bookings, journeys,
  plan, planStep, planAttempt, effects, sent, results, context, planStatus,
  second, runs, resultCache, transfers, executions, outages

J34 == INSTANCE DoubleAllocation
       WITH MaximumAttempts <- DefaultAttempts, MaxChanges <- MaxRecordChanges,
            step <- allocationStep, attempt <- allocationAttempt

J37 == INSTANCE ConsultationBooking
       WITH MaximumAttempts <- DefaultAttempts, changes <- calendarChanges

STEPS == INSTANCE JourneySteps
         WITH at <- planStep, attempt <- planAttempt, status <- planStatus

ORC == INSTANCE JourneyOrchestrator

ASSUME AllocationAssumption == J34!ConstantsAssumption
ASSUME BookingAssumption == J37!ConstantsAssumption
ASSUME StepsAssumption == STEPS!ConstantsAssumption
ASSUME OrchestratorAssumption == ORC!ConstantsAssumption
ASSUME ComponentsAssumption ==
  Components \subseteq {"allocation", "booking", "steps", "orchestrator"}

allocationVars == <<land, past, allocationStep, allocationAttempt, heard, output>>
bookingVars == <<now, calendar, calendarChanges, bookings, journeys>>
stepsVars == <<plan, planStep, planAttempt, effects, sent, results, context, planStatus>>
orchestratorVars == <<second, runs, resultCache, transfers, executions, outages>>

vars == <<component, allocationVars, bookingVars, stepsVars, orchestratorVars>>

(* What stands still keeps one input.                                      *)
Init ==
  /\ component \in Components
  /\ J34!Init /\ J37!Init /\ STEPS!Init /\ ORC!Init
  /\ component # "allocation" => land = CHOOSE l \in Lands : TRUE
  /\ component # "booking" => \A u \in Bookers : journeys[u].input = CHOOSE i \in Inputs[u] : TRUE
  /\ component # "steps" => plan = CHOOSE p \in Plans : TRUE

OthersThanAllocation == UNCHANGED <<component, bookingVars, stepsVars, orchestratorVars>>
OthersThanBooking == UNCHANGED <<component, allocationVars, stepsVars, orchestratorVars>>
OthersThanSteps == UNCHANGED <<component, allocationVars, bookingVars, orchestratorVars>>
OthersThanOrchestrator == UNCHANGED <<component, allocationVars, bookingVars, stepsVars>>

Next ==
  \/ component = "allocation" /\ J34!Next /\ OthersThanAllocation
  \/ component = "booking" /\ J37!Next /\ OthersThanBooking
  \/ component = "steps" /\ STEPS!Next /\ OthersThanSteps
  \/ component = "orchestrator" /\ ORC!Next /\ OthersThanOrchestrator

Spec == Init /\ [][Next]_vars

(* Temporal keeps a workflow and its retries through a worker's crash: an  *)
(* activity that can be attempted is attempted, with whatever outcome.     *)
WorkflowsGoOn ==
  /\ WF_vars(component = "allocation" /\ J34!Workflow /\ OthersThanAllocation)
  /\ \A u \in Bookers :
       WF_vars(component = "booking" /\ J37!Work(u) /\ OthersThanBooking)
  /\ WF_vars(component = "steps" /\ STEPS!Next /\ OthersThanSteps)

FairSpec == Spec /\ WorkflowsGoOn

-----------------------------------------------------------------------------
(* The properties of the components, each stated in its module.            *)

(* The types of all components.                                            *)
TypeOK == J34!TypeOK /\ J37!TypeOK /\ STEPS!TypeOK /\ ORC!TypeOK

(* Behind "fraud" and behind "legitimate" there are records that were so   *)
(* during the journey, or look-ups that were not answered.                 *)
VerdictsHaveGrounds == J34!VerdictsHaveGrounds

(* "Multiple claimants: +0.4" (journey_34_double_allocation.go).           *)
ScoreCountsClaimants == J34!ScoreCountsClaimants

(* A user who is told of an appointment has it, with the first of the      *)
(* directory who could be had; other bookings come from lost answers.      *)
BookingsMatchAnswers == J37!BookingsMatchAnswers

(* A step gets the results of the earlier steps it names, required steps   *)
(* are done, services act within the policy (ExecuteJourneyWorkflow).      *)
StepsFollowThePlan == STEPS!StepsFollowThePlan

(* The decision about another is answered only by way of a shared second,  *)
(* and from the cache only what the user has waited for (ExecuteJourney).  *)
DecisionsAreTheUsersOwn == ORC!DecisionsAreTheUsersOwn

(* A missing transfer met an outage or a taken id (CreateTransfer).        *)
MissingTransfersHaveACause == ORC!MissingTransfersHaveACause

(* The workflows end whatever the services do, the generic one unless it   *)
(* has a step without limit or came without a context.                     *)
JourneysEnd ==
  /\ component = "allocation" => J34!AllocationJourneyEnds
  /\ component = "booking" => J37!BookingJourneysEnd
  /\ component = "steps" => STEPS!StepsJourneyEnds

=============================================================================
