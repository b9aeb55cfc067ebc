------------------------ MODULE JourneySteps_proofs ------------------------
(***************************************************************************)
(* Theorems about JourneySteps, for plans of any length, with any retry    *)
(* policies and any references between their steps.                        *)
(***************************************************************************)
EXTENDS JourneySteps, TLAPS

Limit == [i \in Numbers |-> MaximumAttempts(plan.steps[i])]

Done == status \in {"running", "completed"}

(* The position says how the journey ended: it runs while there are steps. *)
PositionIsStatus ==
  /\ status = "running" => at \in Numbers
  /\ status = "completed" => at = Len(plan.steps) + 1

(* What lies behind the position: a step has its value or nil in results   *)
(* and context, or was optional and failed.                                *)
PastIsRecorded ==
  /\ \A i \in context : Done => i < at /\ results[i] \in {"value", "nil"}
  /\ \A i \in Numbers :
       /\ Done /\ i < at /\ plan.steps[i].required /\ Executes(plan.steps[i])
            => effects[i] > 0 /\ results[i] = "value"
       /\ i < at /\ i \notin context
            => ~ plan.steps[i].required /\ results[i] \in {"error", "none"}

(* A literal went out for a step that is ahead, or failed for good.        *)
LiteralsAreExplained ==
  \A i \in Numbers :
    sent[i] = "literal" =>
      LET r == plan.steps[i].refers
      IN r >= i \/ (r \in Numbers /\ r < at /\ r \notin context)

(* A step acts at most once per attempt.  An attempt beyond Endless is not *)
(* counted, and neither is what the service does in it.                    *)
ActsAreAttempts ==
  \A i \in Numbers :
    /\ effects[i] <= Endless
    /\ i > at => effects[i] = 0
    /\ Limit[i] # 0 /\ Limit[i] <= Endless =>
         /\ effects[i] <= Limit[i]
         /\ i = at /\ status = "running" => effects[i] < attempt /\ attempt <= Limit[i]

IInv ==
  TypeOK /\ PositionIsStatus /\ PastIsRecorded /\ LiteralsAreExplained /\ ActsAreAttempts

-----------------------------------------------------------------------------
(* Every step of a plan is one, and its attempts are counted in numbers.   *)
LEMMA StepsOfPlans ==
  ASSUME ConstantsAssumption, plan \in Plans
  PROVE  /\ plan.context \in BOOLEAN /\ Len(plan.steps) \in Nat
         /\ Numbers = 1..Len(plan.steps)
         /\ (plan.steps = << >>) <=> (Len(plan.steps) = 0)
         /\ \A i \in Numbers :
              /\ plan.steps[i] \in JourneyStep(Len(plan.steps))
              /\ plan.steps[i].refers \in 0..Len(plan.steps)
              /\ plan.steps[i].required \in BOOLEAN
         /\ Limit \in [Numbers -> Nat]
<1>1. plan.context \in BOOLEAN /\ plan.steps \in Seq(JourneyStep(Len(plan.steps)))
  BY DEF ConstantsAssumption
<1>2. Len(plan.steps) \in Nat /\ Numbers = 1..Len(plan.steps)
  BY <1>1 DEF Numbers
<1>3. (plan.steps = << >>) <=> (Len(plan.steps) = 0)
  BY <1>1
<1>4. \A i \in Numbers : plan.steps[i] \in JourneyStep(Len(plan.steps))
  BY <1>1, <1>2
<1>5. ASSUME NEW i \in Numbers
      PROVE  /\ plan.steps[i].refers \in 0..Len(plan.steps)
             /\ plan.steps[i].required \in BOOLEAN
             /\ MaximumAttempts(plan.steps[i]) \in Nat
  <2>1. plan.steps[i] \in JourneyStep(Len(plan.steps))
    BY <1>4
  <2> QED BY <2>1 DEF JourneyStep, MaximumAttempts, ConstantsAssumption
<1>6. Limit \in [Numbers -> Nat]
  BY <1>5 DEF Limit, MaximumAttempts
<1> QED BY <1>1, <1>2, <1>3, <1>4, <1>5, <1>6

LEMMA InitIsFine == ASSUME ConstantsAssumption, Init PROVE IInv
<1> USE DEF Init
<1>1. /\ Len(plan.steps) \in Nat /\ Numbers = 1..Len(plan.steps)
      /\ (plan.steps = << >>) <=> (Len(plan.steps) = 0)
      /\ Limit \in [Numbers -> Nat]
  BY StepsOfPlans
<1>2. Endless \in Nat \ {0}
  BY DEF ConstantsAssumption
<1>3. TypeOK
  BY <1>1 DEF TypeOK
<1>4. PositionIsStatus
  BY <1>1 DEF PositionIsStatus
<1>5. PastIsRecorded
  BY <1>1 DEF PastIsRecorded
<1>6. LiteralsAreExplained
  BY DEF LiteralsAreExplained
<1>7. ActsAreAttempts
  BY <1>1, <1>2 DEF ActsAreAttempts
<1> QED BY <1>3, <1>4, <1>5, <1>6, <1>7 DEF IInv

-----------------------------------------------------------------------------
(* What a call carries is explained by what lies behind the position.      *)
LEMMA CallsAreExplained ==
  ASSUME ConstantsAssumption, IInv, Running, Called \/ sent' = sent, plan' = plan,
         at' \in {at, at + 1}, context' \in {context, context \cup {at}}
  PROVE  LiteralsAreExplained' /\ sent' \in [Numbers -> {"nothing", "literal", "value", "nil"}]
<1>1. /\ at \in Numbers /\ Numbers = 1..Len(plan.steps) /\ Len(plan.steps) \in Nat
      /\ \A i \in Numbers : plan.steps[i].refers \in 0..Len(plan.steps)
  BY StepsOfPlans DEF IInv, TypeOK, Running
<1>2. /\ sent \in [Numbers -> {"nothing", "literal", "value", "nil"}]
      /\ \A i \in context : results[i] \in {"value", "nil"}
  BY DEF IInv, TypeOK, PastIsRecorded, Running, Done
<1>3. Resolve(context, results) \in {"nothing", "literal", "value", "nil"}
  BY <1>2 DEF Resolve
<1>4. sent' \in [Numbers -> {"nothing", "literal", "value", "nil"}]
  BY <1>2, <1>3 DEF Called
<1>5. Numbers' = Numbers
  BY DEF Numbers
<1>6. ASSUME NEW i \in Numbers, sent'[i] = "literal"
      PROVE  \/ plan.steps[i].refers >= i
             \/ /\ plan.steps[i].refers \in Numbers /\ plan.steps[i].refers < at
                /\ plan.steps[i].refers \notin context
  <2>1. CASE sent'[i] = sent[i]
    BY <1>6, <2>1 DEF IInv, LiteralsAreExplained
  <2>2. CASE i = at /\ Called
    <3>1. Resolve(context, results) = "literal"
      BY <1>1, <1>2, <1>6, <2>2 DEF Called
    <3>2. Step.refers # 0 /\ Step.refers \notin context
      BY <1>2, <3>1 DEF Resolve
    <3> QED BY <1>1, <2>2, <3>2 DEF Step
  <2> QED BY <1>1, <1>2, <2>1, <2>2 DEF Called
<1>7. \A i \in Numbers :
        sent'[i] = "literal" =>
          \/ plan.steps[i].refers >= i
          \/ /\ plan.steps[i].refers \in Numbers /\ plan.steps[i].refers < at'
             /\ plan.steps[i].refers \notin context'
  <2> SUFFICES ASSUME NEW i \in Numbers, sent'[i] = "literal", ~ (plan.steps[i].refers >= i)
               PROVE  /\ plan.steps[i].refers \in Numbers /\ plan.steps[i].refers < at'
                      /\ plan.steps[i].refers \notin context'
    OBVIOUS
  <2> QED BY <1>1, <1>6
<1>8. LiteralsAreExplained'
  BY <1>5, <1>7 DEF LiteralsAreExplained
<1> QED BY <1>4, <1>8

(* A call may act once; the attempt after it is one more, or a new step's. *)
LEMMA CallsAreCounted ==
  ASSUME ConstantsAssumption, IInv, Running, Acted \/ effects' = effects, plan' = plan,
         \/ at' = at + 1
         \/ at' = at /\ status' # "running"
         \/ at' = at /\ ~ Exhausted /\ attempt' = IF attempt < Endless THEN attempt + 1 ELSE attempt,
         at' = at + 1 => attempt' = 1
  PROVE  ActsAreAttempts' /\ effects' \in [Numbers -> Nat]
<1>1. /\ at \in Numbers /\ Numbers = 1..Len(plan.steps) /\ Len(plan.steps) \in Nat
      /\ Limit \in [Numbers -> Nat]
  BY StepsOfPlans DEF IInv, TypeOK, Running
<1>2. effects \in [Numbers -> Nat] /\ attempt \in Nat /\ Endless \in Nat \ {0}
  BY DEF IInv, TypeOK, ConstantsAssumption
<1>3. effects' \in [Numbers -> Nat]
  BY <1>1, <1>2 DEF Acted
<1>4. /\ Numbers' = Numbers
      /\ Limit' = Limit
  BY DEF Numbers, Limit, MaximumAttempts
<1>5. /\ \A i \in Numbers \ {at} : effects'[i] = effects[i]
      /\ \/ effects'[at] = effects[at]
         \/ effects[at] < Endless /\ effects'[at] = effects[at] + 1
  BY <1>1, <1>2 DEF Acted
<1>6. Exhausted <=> Limit[at] # 0 /\ attempt >= Limit[at]
  BY <1>1 DEF Exhausted, Limit, Step
<1> HIDE DEF Limit
<1>7. ASSUME NEW i \in Numbers
      PROVE  /\ effects'[i] <= Endless
             /\ i > at' => effects'[i] = 0
             /\ Limit[i] # 0 /\ Limit[i] <= Endless =>
                  /\ effects'[i] <= Limit[i]
                  /\ i = at' /\ status' = "running" => effects'[i] < attempt' /\ attempt' <= Limit[i]
  <2>1. /\ effects[i] <= Endless
        /\ i > at => effects[i] = 0
        /\ Limit[i] # 0 /\ Limit[i] <= Endless =>
             /\ effects[i] <= Limit[i]
             /\ i = at => effects[i] < attempt /\ attempt <= Limit[i]
    BY DEF IInv, ActsAreAttempts, Running
  <2>2. effects[i] \in Nat /\ effects'[i] \in Nat /\ Limit[i] \in Nat /\ i \in Nat /\ at \in Nat
    BY <1>1, <1>2, <1>3
  <2>3. CASE i = at
    <3>1. \/ effects'[i] = effects[i]
          \/ effects[i] < Endless /\ effects'[i] = effects[i] + 1
      BY <1>5, <2>3
    <3>2. effects'[i] <= Endless
      BY <1>2, <2>1, <2>2, <3>1
    <3>3. i <= at'
      BY <2>2, <2>3
    <3>4. ASSUME Limit[i] # 0, Limit[i] <= Endless
          PROVE  /\ effects'[i] <= Limit[i]
                 /\ i = at' /\ status' = "running"
                      => effects'[i] < attempt' /\ attempt' <= Limit[i]
      <4>1. effects[i] < attempt /\ attempt <= Limit[i]
        BY <2>1, <2>3, <3>4
      <4>2. effects'[i] <= attempt
        BY <1>2, <2>2, <3>1, <4>1
      <4>3. CASE i = at' /\ status' = "running"
        <5>1. at' = at
          BY <2>3, <4>3
        <5>2. at' # at + 1 /\ status' = "running"
          BY <2>2, <4>3, <5>1
        <5>3. /\ ~ Exhausted
              /\ attempt' = IF attempt < Endless THEN attempt + 1 ELSE attempt
          BY <5>2
        <5>4. ~ (attempt >= Limit[i])
          BY <1>6, <2>3, <3>4, <5>3
        <5>5. attempt' = attempt + 1 /\ attempt + 1 <= Limit[i]
          BY <1>2, <2>2, <3>4, <5>3, <5>4
        <5> QED BY <1>2, <2>2, <4>2, <5>5
      <4> QED BY <1>2, <2>2, <4>1, <4>2, <4>3
    <3> QED BY <2>2, <3>2, <3>3, <3>4
  <2>4. CASE i # at
    <3>1. effects'[i] = effects[i]
      BY <1>5, <2>4
    <3>2. i = at' => i > at /\ attempt' = 1
      BY <1>1, <2>2, <2>4
    <3>3. i > at' => i > at
      BY <1>1, <2>2
    <3> QED BY <1>2, <2>1, <2>2, <3>1, <3>2, <3>3
  <2> QED BY <2>3, <2>4
<1>8. ActsAreAttempts'
  BY <1>4, <1>7 DEF ActsAreAttempts
<1> QED BY <1>3, <1>8

(* What a result changes.                                                  *)
LEMMA RecordsAreKept ==
  ASSUME ConstantsAssumption, IInv, Running, NEW result \in {"value", "nil"}, Record(result),
         Acted \/ effects' = effects,
         Step.required /\ Executes(Step) => result = "value" /\ Acted
  PROVE  /\ PositionIsStatus' /\ PastIsRecorded'
         /\ at' \in 1..(Len(plan.steps) + 1) /\ attempt' \in Nat
         /\ results' \in [Numbers -> {"none", "value", "nil", "error"}]
         /\ context' \subseteq Numbers
         /\ status' \in {"running", "completed", "failed", "panicked"}
<1>1. /\ at \in Numbers /\ Numbers = 1..Len(plan.steps) /\ Len(plan.steps) \in Nat
      /\ plan.context \in BOOLEAN
  BY StepsOfPlans DEF IInv, TypeOK, Running
<1>2. /\ plan' = plan /\ Numbers' = Numbers /\ attempt' = 1
      /\ results' = [results EXCEPT ![at] = result]
  BY DEF Record, Numbers
<1>3. /\ results \in [Numbers -> {"none", "value", "nil", "error"}] /\ context \subseteq Numbers
      /\ effects \in [Numbers -> Nat] /\ status = "running" /\ Endless \in Nat \ {0}
  BY DEF IInv, TypeOK, Running, ConstantsAssumption
<1>4. /\ results'[at] = result /\ \A i \in Numbers \ {at} : results'[i] = results[i]
      /\ results' \in [Numbers -> {"none", "value", "nil", "error"}]
  BY <1>1, <1>2, <1>3
<1>5. /\ \A i \in Numbers \ {at} : effects'[i] = effects[i]
      /\ Acted => effects'[at] > 0
  BY <1>1, <1>3 DEF Acted
<1>6. /\ \A i \in context : i < at /\ results[i] \in {"value", "nil"}
      /\ \A i \in Numbers :
           /\ i < at /\ plan.steps[i].required /\ Executes(plan.steps[i])
                => effects[i] > 0 /\ results[i] = "value"
           /\ i < at /\ i \notin context
                => ~ plan.steps[i].required /\ results[i] \in {"error", "none"}
  BY DEF IInv, PastIsRecorded, Done, Running
<1>7. CASE plan.context
  <2>1. /\ context' = context \cup {at} /\ at' = at + 1
        /\ status' = IF at = Len(plan.steps) THEN "completed" ELSE "running"
    BY <1>3, <1>7 DEF Record
  <2>2. PositionIsStatus'
    BY <1>1, <1>2, <2>1 DEF PositionIsStatus
  <2>3. \A i \in context' : i < at' /\ results'[i] \in {"value", "nil"}
    BY <1>1, <1>3, <1>4, <1>6, <2>1
  <2>4. ASSUME NEW i \in Numbers, i < at'
        PROVE  /\ plan.steps[i].required /\ Executes(plan.steps[i])
                    => effects'[i] > 0 /\ results'[i] = "value"
               /\ i \notin context'
                    => ~ plan.steps[i].required /\ results'[i] \in {"error", "none"}
    <3>1. CASE i = at
      BY <1>4, <1>5, <2>1, <3>1 DEF Step
    <3>2. CASE i < at
      BY <1>1, <1>4, <1>5, <1>6, <2>1, <3>2
    <3> QED BY <1>1, <2>1, <2>4, <3>1, <3>2
  <2>5. PastIsRecorded'
    <3>1. plan' = plan /\ Numbers' = Numbers
      BY <1>2
    <3> QED BY <2>3, <2>4, <3>1 DEF PastIsRecorded, Executes
  <2> QED BY <1>1, <1>2, <1>3, <1>4, <2>1, <2>2, <2>5
<1>8. CASE ~ plan.context
  <2>1. context' = context /\ at' = at /\ status' = "panicked"
    BY <1>8 DEF Record
  <2>2. PositionIsStatus'
    BY <2>1 DEF PositionIsStatus
  <2>3. PastIsRecorded'
    <3>1. \A i \in Numbers : i < at /\ i \notin context
            => ~ plan.steps[i].required /\ results'[i] \in {"error", "none"}
      BY <1>1, <1>4, <1>6
    <3> QED BY <1>2, <2>1, <3>1 DEF PastIsRecorded, Done
  <2> QED BY <1>1, <1>2, <1>3, <1>4, <2>1, <2>2, <2>3
<1> QED BY <1>1, <1>7, <1>8

-----------------------------------------------------------------------------
(* One lemma for each action.                                              *)
LEMMA ResultKeepsInvariant ==
  ASSUME ConstantsAssumption, IInv, SkipStep \/ StepSucceeds PROVE IInv'
<1>1. /\ Running /\ plan' = plan
      /\ \/ Record("nil") /\ ~ Executes(Step) /\ effects' = effects /\ sent' = sent
         \/ Record("value") /\ Executes(Step) /\ Acted /\ Called
  BY DEF SkipStep, StepSucceeds, Record
<1>2. /\ PositionIsStatus' /\ PastIsRecorded'
      /\ at' \in 1..(Len(plan.steps) + 1) /\ attempt' \in Nat
      /\ results' \in [Numbers -> {"none", "value", "nil", "error"}]
      /\ context' \subseteq Numbers
      /\ status' \in {"running", "completed", "failed", "panicked"}
  <2>1. CASE Record("nil") /\ ~ Executes(Step) /\ effects' = effects
    BY <1>1, <2>1, RecordsAreKept
  <2>2. CASE Record("value") /\ Executes(Step) /\ Acted
    BY <1>1, <2>2, RecordsAreKept
  <2> QED BY <1>1, <2>1, <2>2
<1>3. /\ attempt' = 1
      /\ \/ at' = at + 1 /\ context' = context \cup {at}
         \/ at' = at /\ context' = context /\ status' = "panicked"
  BY <1>1 DEF Record
<1>4. LiteralsAreExplained' /\ sent' \in [Numbers -> {"nothing", "literal", "value", "nil"}]
  BY <1>1, <1>3, CallsAreExplained
<1>5. ActsAreAttempts' /\ effects' \in [Numbers -> Nat]
  BY <1>1, <1>3, CallsAreCounted
<1>6. TypeOK'
  BY <1>1, <1>2, <1>4, <1>5 DEF IInv, TypeOK, Numbers
<1> QED BY <1>2, <1>4, <1>5, <1>6 DEF IInv

LEMMA RetryKeepsInvariant ==
  ASSUME ConstantsAssumption, IInv, StepRetried PROVE IInv'
<1>1. /\ Running /\ ~ Exhausted /\ Called /\ (Acted \/ effects' = effects)
      /\ attempt' = IF attempt < Endless THEN attempt + 1 ELSE attempt
      /\ plan' = plan /\ at' = at /\ results' = results /\ context' = context /\ status' = status
  BY DEF StepRetried, CallFails
<1>2. LiteralsAreExplained' /\ sent' \in [Numbers -> {"nothing", "literal", "value", "nil"}]
  BY <1>1, CallsAreExplained
<1>3. /\ at \in Numbers /\ Numbers = 1..Len(plan.steps) /\ Len(plan.steps) \in Nat
      /\ effects \in [Numbers -> Nat]
  <2>1. plan \in Plans /\ at \in Numbers /\ effects \in [Numbers -> Nat]
    BY <1>1 DEF IInv, TypeOK, Running
  <2> QED BY <2>1, StepsOfPlans
<1>4. ActsAreAttempts' /\ effects' \in [Numbers -> Nat]
  <2>1. at' # at + 1
    BY <1>1, <1>3
  <2> QED BY <1>1, <2>1, CallsAreCounted
<1>5. PositionIsStatus'
  BY <1>1 DEF IInv, PositionIsStatus, Numbers
<1>6. \A i \in Numbers : effects'[i] = effects[i] \/ i = at
  BY <1>1, <1>3 DEF Acted
<1>7. PastIsRecorded'
  <2>1. \A i \in Numbers : i < at => effects'[i] = effects[i]
    BY <1>3, <1>6
  <2> QED BY <1>1, <2>1 DEF IInv, PastIsRecorded, Numbers, Done, Executes
<1>8. TypeOK'
  <2>1. attempt' \in Nat
    BY <1>1 DEF IInv, TypeOK
  <2> QED BY <1>1, <1>2, <1>4, <2>1 DEF IInv, TypeOK, Numbers
<1> QED BY <1>2, <1>4, <1>5, <1>7, <1>8 DEF IInv

LEMMA FailureKeepsInvariant ==
  ASSUME ConstantsAssumption, IInv, StepFails PROVE IInv'
<1>1. /\ Running /\ Called /\ (Acted \/ effects' = effects)
      /\ plan' = plan /\ context' = context
  BY DEF StepFails, CallFails
<1>2. /\ at \in Numbers /\ Numbers = 1..Len(plan.steps) /\ Len(plan.steps) \in Nat
      /\ effects \in [Numbers -> Nat] /\ status = "running" /\ attempt \in Nat
      /\ results \in [Numbers -> {"none", "value", "nil", "error"}] /\ context \subseteq Numbers
  <2>1. /\ plan \in Plans /\ at \in Numbers /\ effects \in [Numbers -> Nat]
        /\ status = "running" /\ attempt \in Nat /\ context \subseteq Numbers
        /\ results \in [Numbers -> {"none", "value", "nil", "error"}]
    BY <1>1 DEF IInv, TypeOK, Running
  <2> QED BY <2>1, StepsOfPlans
<1>3. /\ \A i \in context : i < at /\ results[i] \in {"value", "nil"}
      /\ \A i \in Numbers :
           /\ i < at /\ plan.steps[i].required /\ Executes(plan.steps[i])
                => effects[i] > 0 /\ results[i] = "value"
           /\ i < at /\ i \notin context
                => ~ plan.steps[i].required /\ results[i] \in {"error", "none"}
  BY <1>2 DEF IInv, PastIsRecorded, Done
<1>4. \A i \in Numbers : i < at => effects'[i] = effects[i]
  <2>1. \A i \in Numbers : effects'[i] = effects[i] \/ i = at
    BY <1>1, <1>2 DEF Acted
  <2> QED BY <1>2, <2>1
<1>5. CASE Step.required
  <2>1. /\ status' = "failed" /\ results' = [i \in Numbers |-> "none"]
        /\ at' = at /\ attempt' = attempt
    BY <1>5 DEF StepFails
  <2>2. LiteralsAreExplained' /\ sent' \in [Numbers -> {"nothing", "literal", "value", "nil"}]
    BY <1>1, <2>1, CallsAreExplained
  <2>3. ActsAreAttempts' /\ effects' \in [Numbers -> Nat]
    <3>1. at' # at + 1
      BY <1>2, <2>1
    <3> QED BY <1>1, <2>1, <3>1, CallsAreCounted
  <2>4. PastIsRecorded' /\ PositionIsStatus'
    <3>1. \A i \in Numbers : i < at /\ i \notin context
            => ~ plan.steps[i].required /\ results'[i] \in {"error", "none"}
      BY <1>3, <2>1
    <3> QED BY <1>1, <2>1, <3>1 DEF PastIsRecorded, PositionIsStatus, Numbers, Done
  <2>5. TypeOK'
    BY <1>1, <2>1, <2>2, <2>3 DEF IInv, TypeOK, Numbers
  <2> QED BY <2>2, <2>3, <2>4, <2>5 DEF IInv
<1>6. CASE ~ Step.required
  <2>1. /\ results' = [results EXCEPT ![at] = "error"] /\ at' = at + 1 /\ attempt' = 1
        /\ status' = IF at = Len(plan.steps) THEN "completed" ELSE "running"
    BY <1>2, <1>6 DEF StepFails
  <2>2. LiteralsAreExplained' /\ sent' \in [Numbers -> {"nothing", "literal", "value", "nil"}]
    BY <1>1, <2>1, CallsAreExplained
  <2>3. ActsAreAttempts' /\ effects' \in [Numbers -> Nat]
    BY <1>1, <2>1, CallsAreCounted
  <2>4. PositionIsStatus'
    BY <1>1, <1>2, <2>1 DEF PositionIsStatus, Numbers
  <2>5. PastIsRecorded'
    <3>1. \A i \in context : i < at' /\ results'[i] \in {"value", "nil"}
      BY <1>2, <1>3, <2>1
    <3>2. at \notin context
      BY <1>2, <1>3
    <3>3. ASSUME NEW i \in Numbers, i < at'
          PROVE  /\ plan.steps[i].required /\ Executes(plan.steps[i])
                      => effects'[i] > 0 /\ results'[i] = "value"
                 /\ i \notin context'
                      => ~ plan.steps[i].required /\ results'[i] \in {"error", "none"}
      <4>1. CASE i = at
        BY <1>2, <1>6, <2>1, <4>1 DEF Step
      <4>2. CASE i < at
        BY <1>1, <1>2, <1>3, <1>4, <2>1, <4>2
      <4> QED BY <1>2, <2>1, <3>3, <4>1, <4>2
    <3>4. plan' = plan /\ Numbers' = Numbers /\ context' = context
      BY <1>1 DEF Numbers
    <3> QED BY <3>1, <3>3, <3>4 DEF PastIsRecorded, Executes
  <2>6. TypeOK'
    <3>1. /\ results' \in [Numbers -> {"none", "value", "nil", "error"}]
          /\ at' \in 1..(Len(plan.steps) + 1) /\ attempt' \in Nat
          /\ status' \in {"running", "completed", "failed", "panicked"}
      BY <1>2, <2>1
    <3> QED BY <1>1, <2>2, <2>3, <3>1 DEF IInv, TypeOK, Numbers
  <2> QED BY <2>2, <2>3, <2>4, <2>5, <2>6 DEF IInv
<1> QED BY <1>5, <1>6

-----------------------------------------------------------------------------
LEMMA InvariantImpliesPlan ==
  ASSUME ConstantsAssumption, IInv PROVE StepsFollowThePlan
<1>1. /\ Numbers = 1..Len(plan.steps) /\ Len(plan.steps) \in Nat
      /\ \A i \in Numbers : plan.steps[i].refers \in 0..Len(plan.steps)
      /\ Limit \in [Numbers -> Nat]
  BY StepsOfPlans DEF IInv, TypeOK
<1>2. EarlierResultsArrive
  <2>1. ASSUME NEW i \in Numbers, sent[i] = "literal"
        PROVE  \/ plan.steps[i].refers >= i
               \/ /\ ~ plan.steps[plan.steps[i].refers].required
                  /\ results[plan.steps[i].refers] \in {"error", "none"}
    BY <2>1 DEF IInv, LiteralsAreExplained, PastIsRecorded
  <2> QED BY <2>1 DEF EarlierResultsArrive
<1>3. CompletedDidRequiredSteps
  <2>1. status = "completed" => \A i \in Numbers : i < at
    BY <1>1 DEF IInv, PositionIsStatus
  <2> QED BY <2>1 DEF IInv, PastIsRecorded, Done, CompletedDidRequiredSteps
<1>4. ActsWithinPolicy
  <2>1. ASSUME NEW i \in Numbers, Limit[i] # 0 PROVE effects[i] <= Limit[i]
    <3>1. /\ effects[i] <= Endless /\ effects[i] \in Nat
          /\ Limit[i] <= Endless => effects[i] <= Limit[i]
      BY <2>1 DEF IInv, ActsAreAttempts, TypeOK
    <3>2. Limit[i] \in Nat /\ Endless \in Nat
      BY <1>1 DEF ConstantsAssumption
    <3> QED BY <3>1, <3>2
  <2>2. \A i \in Numbers :
          Limit[i] = IF plan.steps[i].type = "PARALLEL" \/ plan.steps[i].policy = NoPolicy
                     THEN DefaultAttempts ELSE plan.steps[i].policy
    BY DEF Limit, MaximumAttempts
  <2> QED BY <2>1, <2>2 DEF ActsWithinPolicy
<1> QED BY <1>2, <1>3, <1>4 DEF StepsFollowThePlan

(* The invariant holds in all behaviours.                                  *)
LEMMA InvariantHolds ==
  ASSUME ConstantsAssumption PROVE Init /\ [][Next]_vars => []IInv
<1>1. Init => IInv
  BY InitIsFine
<1>2. IInv /\ [Next]_vars => IInv'
  <2> SUFFICES ASSUME IInv, [Next]_vars PROVE IInv'
    OBVIOUS
  <2>1. CASE UNCHANGED vars
    BY <2>1 DEF vars, IInv, TypeOK, PositionIsStatus, PastIsRecorded, LiteralsAreExplained,
                ActsAreAttempts, Numbers, Done, Executes, Limit, MaximumAttempts
  <2> QED BY <2>1, ResultKeepsInvariant, RetryKeepsInvariant, FailureKeepsInvariant DEF Next
<1> QED BY <1>1, <1>2, PTL

(* The types of the journey of steps.                                      *)
LEMMA StepsTypesHold ==
  ASSUME ConstantsAssumption PROVE Init /\ [][Next]_vars => []TypeOK
<1>1. IInv => TypeOK
  BY DEF IInv
<1> QED BY <1>1, InvariantHolds, PTL

(* Steps run as the plan says: with the results of earlier ones, none that *)
(* is required left out, none acting more often than its policy allows.    *)
THEOREM PlansAreFollowed ==
  ASSUME ConstantsAssumption PROVE Init /\ [][Next]_vars => []StepsFollowThePlan
<1>1. IInv => StepsFollowThePlan
  BY InvariantImpliesPlan
<1> QED BY <1>1, InvariantHolds, PTL

=============================================================================
