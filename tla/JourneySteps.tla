--------------------------- MODULE JourneySteps ---------------------------
(***************************************************************************)
(* ExecuteJourneyWorkflow of the temporal orchestrator: the steps of a plan*)
(* are executed in order, each as an activity that calls a service.  The   *)
(* results go into a context that the parameters of later steps refer to,  *)
(* as ${step}.  A required step that fails ends the journey.               *)
(***************************************************************************)
EXTENDS Integers, Sequences

CONSTANTS
  Plans,            \* journeys that may be submitted
  NoPolicy,
  DefaultAttempts,  \* 3 in the code
  Endless           \* bound: attempts counted where the policy sets no limit

(* refers: the number of the step named by a parameter, 0 for none; policy:*)
(* RetryPolicy.MaxAttempts, 0 meaning no limit; configured: the service has*)
(* a base URL.                                                             *)
JourneyStep(n) ==
  [type : {"SEQUENTIAL", "PARALLEL", "CONDITIONAL"}, required : BOOLEAN, condition : BOOLEAN,
   refers : 0..n, policy : Nat \cup {NoPolicy}, configured : BOOLEAN]

(* context: the journey came with a Context that is not null.              *)
ConstantsAssumption ==
  /\ NoPolicy \notin Nat
  /\ \A p \in Plans : p.context \in BOOLEAN /\ p.steps \in Seq(JourneyStep(Len(p.steps)))
  /\ {DefaultAttempts, Endless} \subseteq Nat \ {0}

VARIABLES
  plan, at, attempt,
  effects,  \* for each step, the calls its service has acted on
  sent,     \* for each step, what its parameter carried in the last call
  results,  \* the results map
  context,  \* journeyContext: the steps it holds a value for
  status

vars == <<plan, at, attempt, effects, sent, results, context, status>>

Numbers == DOMAIN plan.steps
Step == plan.steps[at]

(* A step without limit is counted up to Endless.                          *)
TypeOK ==
  /\ plan \in Plans /\ at \in 1..(Len(plan.steps) + 1) /\ attempt \in Nat
  /\ effects \in [Numbers -> Nat]
  /\ sent \in [Numbers -> {"nothing", "literal", "value", "nil"}]
  /\ results \in [Numbers -> {"none", "value", "nil", "error"}]
  /\ context \subseteq Numbers
  /\ status \in {"running", "completed", "failed", "panicked"}

Init ==
  /\ plan \in Plans /\ at = 1 /\ attempt = 1
  /\ effects = [i \in Numbers |-> 0]
  /\ sent = [i \in Numbers |-> "nothing"]
  /\ results = [i \in Numbers |-> "none"]
  /\ context = {} /\ status = IF plan.steps = << >> THEN "completed" ELSE "running"

-----------------------------------------------------------------------------
(* Mutant of MaximumAttempts: the step's policy is not read.               *)
DefaultForAll(s) == DefaultAttempts

(* A sequential step may have a retry policy of its own, a parallel one is *)
(* tried three times.                                                      *)
MaximumAttempts(s) ==
  IF s.type # "PARALLEL" /\ s.policy # NoPolicy THEN s.policy ELSE DefaultAttempts

Exhausted == MaximumAttempts(Step) # 0 /\ attempt >= MaximumAttempts(Step)

(* evaluateCondition is true of every condition; a CONDITIONAL step without*)
(* one is not executed and has nil as its result.                          *)
Executes(s) == s.type # "CONDITIONAL" \/ s.condition

(* Mutant of Resolve: the result of the step before is not there yet.      *)
ResolveFromSnapshot(known, stored) ==
  CASE Step.refers = 0 -> "nothing"
    [] Step.refers \in known \ {at - 1} -> stored[Step.refers]
    [] OTHER -> "literal"

(* resolveVariable: a reference the context does not know stays as it is.  *)
Resolve(known, stored) ==
  CASE Step.refers = 0 -> "nothing"
    [] Step.refers \in known -> stored[Step.refers]
    [] OTHER -> "literal"

Called == sent' = [sent EXCEPT ![at] = Resolve(context, results)]
Acted == effects' = [effects EXCEPT ![at] = IF @ < Endless THEN @ + 1 ELSE @]

(* Mutant of Record: a nil result panics.                                  *)
RecordUnlessNil(result) ==
  /\ results' = [results EXCEPT ![at] = result]
  /\ IF plan.context /\ result # "nil"
     THEN /\ context' = context \cup {at} /\ at' = at + 1
          /\ status' = IF at = Len(plan.steps) THEN "completed" ELSE status
     ELSE /\ status' = "panicked" /\ UNCHANGED <<context, at>>
  /\ attempt' = 1
  /\ UNCHANGED plan

(* The result is kept, then written to the context, which panics when the  *)
(* journey brought none: Temporal then repeats the workflow task, for ever.*)
Record(result) ==
  /\ results' = [results EXCEPT ![at] = result]
  /\ IF plan.context
     THEN /\ context' = context \cup {at} /\ at' = at + 1
          /\ status' = IF at = Len(plan.steps) THEN "completed" ELSE status
     ELSE /\ status' = "panicked" /\ UNCHANGED <<context, at>>
  /\ attempt' = 1
  /\ UNCHANGED plan

Running == status = "running" /\ at \in Numbers

SkipStep ==
  /\ Running /\ ~ Executes(Step)
  /\ Record("nil")
  /\ UNCHANGED <<effects, sent>>

(* callPythonService answers with what the service answered.               *)
StepSucceeds ==
  /\ Running /\ Executes(Step) /\ Step.configured
  /\ Called /\ Acted /\ Record("value")

(* No URL, no connection, a status outside 2xx, a malformed body: the      *)
(* service may have acted all the same.                                    *)
CallFails ==
  /\ Called
  /\ (Step.configured /\ Acted) \/ UNCHANGED effects

StepRetried ==
  /\ Running /\ Executes(Step) /\ ~ Exhausted
  /\ CallFails
  /\ attempt' = IF attempt < Endless THEN attempt + 1 ELSE attempt
  /\ UNCHANGED <<plan, at, results, context, status>>

(* Mutant of StepFails: required steps may fail too.                       *)
FailureIsAResult ==
  /\ Running /\ Executes(Step) /\ Exhausted
  /\ CallFails
  /\ results' = [results EXCEPT ![at] = "error"] /\ at' = at + 1 /\ attempt' = 1
  /\ status' = IF at = Len(plan.steps) THEN "completed" ELSE status
  /\ UNCHANGED <<plan, context>>

(* A failed optional step leaves its error in the results and nothing in   *)
(* the context; a failed required one drops all results.                   *)
StepFails ==
  /\ Running /\ Executes(Step) /\ Exhausted
  /\ CallFails
  /\ IF Step.required
     THEN /\ status' = "failed" /\ results' = [i \in Numbers |-> "none"]
          /\ UNCHANGED <<at, attempt>>
     ELSE /\ results' = [results EXCEPT ![at] = "error"] /\ at' = at + 1 /\ attempt' = 1
          /\ status' = IF at = Len(plan.steps) THEN "completed" ELSE status
  /\ UNCHANGED <<plan, context>>

Next == SkipStep \/ StepSucceeds \/ StepRetried \/ StepFails

-----------------------------------------------------------------------------

(* A call carries a literal ${step} only where the plan cannot do better:  *)
(* the step it names is not an earlier one, or was optional and failed     *)
(* (resolveVariable, and the order of the context's updates).              *)
EarlierResultsArrive ==
  \A i \in Numbers :
    sent[i] = "literal" =>
      LET r == plan.steps[i].refers
      IN r >= i \/ (~ plan.steps[r].required /\ results[r] \in {"error", "none"})

(* A journey that completed has done its required steps: the service of    *)
(* each acted, and its answer is in the results.                           *)
CompletedDidRequiredSteps ==
  status = "completed" =>
    \A i \in Numbers :
      plan.steps[i].required /\ Executes(plan.steps[i]) => effects[i] > 0 /\ results[i] = "value"

(* A service acts on a step at most as often as the policy that counts for *)
(* it allows attempts; a panic of the workflow does not repeat the call.   *)
ActsWithinPolicy ==
  \A i \in Numbers :
    LET s == plan.steps[i]
        limit == IF s.type = "PARALLEL" \/ s.policy = NoPolicy THEN DefaultAttempts ELSE s.policy
    IN limit # 0 => effects[i] <= limit

(* Steps run as the plan says: with the results of earlier ones, none that *)
(* is required left out, none acting more often than its policy allows.    *)
StepsFollowThePlan == EarlierResultsArrive /\ CompletedDidRequiredSteps /\ ActsWithinPolicy

(* A journey ends, unless it waits for a step without limit or came without*)
(* a context.                                                              *)
StepsJourneyEnds ==
  <>(\/ status \in {"completed", "failed"}
     \/ status = "panicked" /\ ~ plan.context
     \/ status = "running" /\ MaximumAttempts(Step) = 0)

=============================================================================
