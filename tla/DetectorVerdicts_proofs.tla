----------------------- MODULE DetectorVerdicts_proofs -----------------------
(***************************************************************************)
(* More theorems about the detectors: the verdicts on investment schemes,  *)
(* the answers about insiders and the decisions about chargebacks, and the *)
(* types of all that the seven services store.                             *)
(***************************************************************************)
EXTENDS Detectors_proofs

-----------------------------------------------------------------------------
(* investment-fraud-detector.                                              *)

KnownOf(call) ==
  {verdict[1] : verdict \in {v \in call.known : v[2].promoter = call.req.facts.promoter}}

(* What holds of a call.  What was known when it began is known; one that  *)
(* has counted without a fault has all that was known in its count, and    *)
(* until it is stored no more than is on record.                           *)
INVCallIsFine(call) ==
  /\ call.known \subseteq condemned
  /\ call.at \in {"registered", "history", "store"} => call.req.kind = "analyze"
  /\ call.at \in {"row", "scheme", "losses"} => call.req.kind # "analyze"
  /\ ~ INV!Uncertain(call.req.facts.promoter) =>
       /\ call.at = "store" => call.scams <= INV!PreviousScams(call.req.facts.promoter)
       /\ call.at \in {"store", "done"} /\ call.req.kind = "analyze" =>
            call.scams >= Cardinality(KnownOf(call))
  /\ call.says = "clean" =>
       \A verdict \in call.known :
         call.req.scheme = verdict[1] => INV!Uncertain(verdict[2].promoter)

(* What its promoter has on record condemns a scheme of its own accord: it *)
(* stays condemned although the register is asked again.                   *)
StaysPonzi(facts) ==
  INV!IsPonzi(INV!RiskScore(facts, TRUE, INV!PreviousScams(facts.promoter)), facts)

SchemesAreJudged ==
  \A s \in Schemes :
    LET row == schemes[s]
    IN row # NoRow =>
         /\ row \in INV!Row
         /\ \/ row.promoter = row.judged.promoter
            \/ INV!Uncertain(row.promoter) /\ INV!Uncertain(row.judged.promoter)
         /\ row.isPonzi => row.risk >= 70
         /\ row.isPonzi /\ ~ INV!Uncertain(row.judged.promoter) => StaysPonzi(row.judged)

CondemnedAreOnRecord ==
  \A verdict \in condemned :
    \/ INV!Uncertain(verdict[2].promoter)
    \/ /\ schemes[verdict[1]] # NoRow
       /\ schemes[verdict[1]].isPonzi /\ schemes[verdict[1]].judged = verdict[2]

INVTables ==
  /\ schemes = [s \in Schemes |-> schemes[s]]
  /\ registry \subseteq Names \cup Promoters
  /\ condemned \subseteq Schemes \X INV!Facts /\ excused \subseteq Promoters \X INV!Causes

INVInv ==
  /\ schemeCalls \in Seq(INV!Call)
  /\ INVTables
  /\ SchemesAreJudged
  /\ CondemnedAreOnRecord
  /\ \A c \in DOMAIN schemeCalls : INVCallIsFine(schemeCalls[c])

LEMMA INVConstants ==
  /\ \A req \in SchemeRequests : req \in INV!Request
  /\ IsFiniteSet(Schemes) /\ NoRow \notin INV!Row
  /\ Registered \subseteq Names \cup Promoters
BY InvestmentAssumption DEF INV!ConstantsAssumption, IsFiniteSet, INV!IsFiniteSet

LEMMA INVInit == Init => INVInv
<1> SUFFICES ASSUME Init PROVE INVInv
  OBVIOUS
<1>1. INV!Init
  BY DEF Init
<1>2. schemeCalls = << >> /\ schemeCalls \in Seq(INV!Call) /\ DOMAIN schemeCalls = {}
  BY <1>1 DEF INV!Init
<1>3. INVTables
  BY <1>1, INVConstants DEF INV!Init, INVTables
<1>4. SchemesAreJudged /\ CondemnedAreOnRecord
  BY <1>1 DEF INV!Init, SchemesAreJudged, CondemnedAreOnRecord
<1> QED BY <1>2, <1>3, <1>4 DEF INVInv

LEMMA INVFacts ==
  ASSUME INVInv
  PROVE  /\ schemeCalls \in Seq(INV!Call)
         /\ \A k \in DOMAIN schemeCalls : schemeCalls[k] \in INV!Call /\ INVCallIsFine(schemeCalls[k])
         /\ INVTables /\ SchemesAreJudged /\ CondemnedAreOnRecord
BY Domain DEF INVInv

LEMMA ScamsCount ==
  \A p : /\ IsFiniteSet(INV!ScamsOf(p)) /\ INV!ScamsOf(p) \subseteq Schemes
         /\ INV!PreviousScams(p) = Cardinality(INV!ScamsOf(p)) /\ INV!PreviousScams(p) \in Nat
<1> TAKE p
<1>1. INV!ScamsOf(p) \subseteq Schemes
  BY DEF INV!ScamsOf
<1>2. IsFiniteSet(INV!ScamsOf(p))
  BY <1>1, INVConstants, FS_Subset
<1> QED BY <1>1, <1>2, FS_CardinalityType DEF INV!PreviousScams, INV!Cardinality, Cardinality

(* More schemes on record weigh more, and one more outweighs a registration*)
(* found: scores are multiples of five and 35 is not one a scheme can have.*)
LEMMA ScoresAdd ==
  ASSUME NEW facts \in INV!Facts, NEW sec \in BOOLEAN, NEW few \in Nat, NEW many \in Nat
  PROVE  /\ INV!RiskScore(facts, sec, few) \in Nat
         /\ few <= many /\ INV!IsPonzi(INV!RiskScore(facts, TRUE, few), facts)
              => INV!IsPonzi(INV!RiskScore(facts, sec, many), facts)
         /\ few < many /\ INV!IsPonzi(INV!RiskScore(facts, sec, few), facts)
              => INV!IsPonzi(INV!RiskScore(facts, TRUE, many), facts)
         /\ INV!IsPonzi(INV!RiskScore(facts, sec, few), facts)
              => INV!RiskScore(facts, sec, few) >= 70
<1> DEFINE worth == INV!Points(facts.returns # "low", 30) + INV!Points(facts.returns = "extreme", 40)
                    + facts.points
<1>1. facts.points \in {0, 10, 15, 25, 50, 60, 65, 75}
  BY DEF INV!Facts
<1>2. PICK n \in {0, 10, 15, 25, 30, 40, 45, 50, 55, 60, 65, 75, 80, 90, 95, 105}
                 \cup {70, 85, 120, 130, 135, 145, 95} :
        /\ n = worth /\ (facts.returns = "extreme" => n >= 70)
  <2>1. facts.returns \in {"low", "high", "extreme"}
    BY DEF INV!Facts
  <2>2. CASE facts.returns = "low"
    BY <1>1, <2>2 DEF INV!Points
  <2>3. CASE facts.returns = "high"
    BY <1>1, <2>3 DEF INV!Points
  <2>4. CASE facts.returns = "extreme"
    BY <1>1, <2>4 DEF INV!Points
  <2> QED BY <2>1, <2>2, <2>3, <2>4
<1>3. /\ \A k \in Nat : INV!RiskScore(facts, TRUE, k) = n + 30 * k
      /\ \A k \in Nat : INV!RiskScore(facts, FALSE, k) = n + 35 + 30 * k
  <2>1. facts.points \in Nat
    BY <1>1
  <2> QED BY <1>2, <2>1 DEF INV!RiskScore, INV!Points
<1>4. /\ n \in Nat
      /\ n + 35 >= 70 => n >= 40
      /\ n + 65 >= 70 => n >= 10
  BY <1>2
<1>5. facts.returns = "extreme" => n >= 70
  BY <1>2
<1> HIDE DEF worth
<1>6. \A k \in Nat : INV!RiskScore(facts, sec, k) \in {n + 30 * k, n + 35 + 30 * k}
  BY <1>3
<1>7. /\ INV!RiskScore(facts, sec, few) \in {n + 30 * few, n + 35 + 30 * few}
      /\ INV!RiskScore(facts, sec, many) \in {n + 30 * many, n + 35 + 30 * many}
      /\ INV!RiskScore(facts, TRUE, few) = n + 30 * few
      /\ INV!RiskScore(facts, TRUE, many) = n + 30 * many
  BY <1>3, <1>6
<1>8. few < many /\ n + 35 + 30 * few >= 70 => n + 30 * many >= 70
  <2>1. CASE few = 0
    BY <1>4, <2>1
  <2>2. CASE few = 1
    BY <1>4, <2>2
  <2>3. CASE few >= 2
    BY <1>4, <2>3
  <2> QED BY <2>1, <2>2, <2>3
<1>9. \A k : INV!IsPonzi(k, facts) <=> k >= 70 \/ facts.returns = "extreme"
  BY DEF INV!IsPonzi
<1>10. PICK lower, upper, first, second :
         /\ lower = INV!RiskScore(facts, sec, few) /\ upper = INV!RiskScore(facts, sec, many)
         /\ first = INV!RiskScore(facts, TRUE, few) /\ second = INV!RiskScore(facts, TRUE, many)
  OBVIOUS
<1>11. /\ lower \in Nat
       /\ few <= many /\ first >= 70 => upper >= 70
       /\ few < many /\ lower >= 70 => second >= 70
       /\ facts.returns = "extreme" => lower >= 70 /\ upper >= 70 /\ second >= 70
  <2>1. /\ lower \in {n + 30 * few, n + 35 + 30 * few}
        /\ upper \in {n + 30 * many, n + 35 + 30 * many}
        /\ first = n + 30 * few /\ second = n + 30 * many /\ n \in Nat
    BY <1>4, <1>7, <1>10
  <2>2. few < many /\ lower >= 70 => second >= 70
    BY <1>8, <2>1
  <2>3. lower \in Nat /\ (few <= many /\ first >= 70 => upper >= 70)
    BY <2>1
  <2>4. facts.returns = "extreme" => lower >= 70 /\ upper >= 70 /\ second >= 70
    BY <1>5, <2>1
  <2> QED BY <2>2, <2>3, <2>4, Zenon
<1>12. few <= many /\ INV!IsPonzi(first, facts) => INV!IsPonzi(upper, facts)
  BY <1>11 DEF INV!IsPonzi
<1>13. few < many /\ INV!IsPonzi(lower, facts) => INV!IsPonzi(second, facts)
  BY <1>11 DEF INV!IsPonzi
<1>14. lower \in Nat /\ (INV!IsPonzi(lower, facts) => lower >= 70)
  BY <1>11 DEF INV!IsPonzi
<1> QED BY <1>10, <1>12, <1>13, <1>14

(* What is on record and not excused only grows: other calls keep what     *)
(* holds of them.                                                          *)
RecordGrows ==
  /\ condemned \subseteq condemned' /\ excused \subseteq excused'
  /\ \A p : INV!Uncertain(p)' \/ INV!ScamsOf(p) \subseteq INV!ScamsOf(p)'

LEMMA UncertainStays ==
  ASSUME excused \subseteq excused'
  PROVE  \A p : INV!Uncertain(p) => INV!Uncertain(p)'
BY DEF INV!Uncertain, INV!Causes

LEMMA ScamsGrow ==
  ASSUME RecordGrows
  PROVE  \A p : INV!Uncertain(p)' \/ INV!PreviousScams(p) <= INV!PreviousScams(p)'
<1> TAKE p
<1> SUFFICES ASSUME ~ INV!Uncertain(p)' PROVE INV!PreviousScams(p) <= INV!PreviousScams(p)'
  OBVIOUS
<1>1. PICK few, many : few = INV!ScamsOf(p) /\ many = INV!ScamsOf(p)'
  OBVIOUS
<1>2. few \subseteq many /\ many \subseteq Schemes
  BY <1>1 DEF RecordGrows, INV!ScamsOf
<1>3. Cardinality(few) <= Cardinality(many)
  BY <1>2, INVConstants, FS_Subset
<1> QED BY <1>1, <1>3 DEF INV!PreviousScams, INV!Cardinality, Cardinality

LEMMA INVOthersKeep ==
  ASSUME NEW call \in INV!Call, INVCallIsFine(call), RecordGrows
  PROVE  INVCallIsFine(call)'
<1>1. PICK p : p = call.req.facts.promoter
  OBVIOUS
<1>2. call.known \subseteq condemned'
  BY DEF INVCallIsFine, RecordGrows
<1>3. \A q : INV!Uncertain(q) => INV!Uncertain(q)'
  BY UncertainStays DEF RecordGrows
<1>4. ASSUME ~ INV!Uncertain(p)'
      PROVE  /\ call.at = "store" => call.scams <= INV!PreviousScams(p)'
             /\ call.at \in {"store", "done"} /\ call.req.kind = "analyze" =>
                  call.scams >= Cardinality(KnownOf(call))
  <2>1. ~ INV!Uncertain(p)
    BY <1>3, <1>4
  <2>2. INV!PreviousScams(p) <= INV!PreviousScams(p)'
    BY <1>4, ScamsGrow
  <2>3. INV!PreviousScams(p) \in Nat /\ call.scams \in Nat
    BY ScamsCount DEF INV!Call
  <2>4. INV!PreviousScams(p)' \in Nat
    <3>1. INV!ScamsOf(p)' \subseteq Schemes
      BY DEF INV!ScamsOf
    <3>2. PICK many : many = INV!ScamsOf(p)' /\ many \subseteq Schemes
      BY <3>1
    <3>3. Cardinality(many) \in Nat
      BY <3>2, INVConstants, FS_Subset, FS_CardinalityType
    <3> QED BY <3>2, <3>3 DEF INV!PreviousScams, INV!Cardinality, Cardinality
  <2>5. /\ call.at = "store" => call.scams <= INV!PreviousScams(p)
        /\ call.at \in {"store", "done"} /\ call.req.kind = "analyze" =>
             call.scams >= Cardinality(KnownOf(call))
    BY <1>1, <2>1 DEF INVCallIsFine
  <2> QED BY <2>2, <2>3, <2>4, <2>5
<1>5. KnownOf(call)' = KnownOf(call)
  BY DEF KnownOf
<1> QED BY <1>1, <1>2, <1>3, <1>4, <1>5 DEF INVCallIsFine, Cardinality

(* A step of one call.                                                     *)
LEMMA INVCallGoesOn ==
  ASSUME INVInv, NEW c \in DOMAIN schemeCalls, NEW call \in INV!Call,
         schemeCalls' = [schemeCalls EXCEPT ![c] = call],
         INVTables', RecordGrows, SchemesAreJudged', CondemnedAreOnRecord',
         INVCallIsFine(call)'
  PROVE  INVInv'
<1>1. /\ schemeCalls' \in Seq(INV!Call) /\ DOMAIN schemeCalls' = DOMAIN schemeCalls
      /\ schemeCalls'[c] = call
      /\ \A k \in DOMAIN schemeCalls : k # c => schemeCalls'[k] = schemeCalls[k]
  BY INVFacts, Replaced
<1>2. ASSUME NEW k \in DOMAIN schemeCalls
      PROVE  INVCallIsFine(schemeCalls[k])'
  <2>1. CASE k = c
    BY <1>1, <2>1
  <2>2. CASE k # c
    <3>1. PICK other \in INV!Call : other = schemeCalls[k] /\ schemeCalls'[k] = other
      BY <1>1, <2>2, INVFacts
    <3>2. INVCallIsFine(other)'
      BY <3>1, INVFacts, INVOthersKeep
    <3> QED BY <3>1, <3>2
  <2> QED BY <2>1, <2>2
<1> QED BY <1>1, <1>2 DEF INVInv

(* What a step keeps that leaves the schemes and what was condemned alone. *)
LEMMA INVRecordStays ==
  ASSUME INVInv, UNCHANGED <<schemes, condemned>>, excused \subseteq excused',
         excused' \subseteq Promoters \X INV!Causes, registry' \subseteq Names \cup Promoters
  PROVE  INVTables' /\ RecordGrows /\ SchemesAreJudged' /\ CondemnedAreOnRecord'
<1>1. INVTables'
  BY INVFacts DEF INVTables, INV!Causes
<1>2. RecordGrows /\ \A q : INV!ScamsOf(q)' = INV!ScamsOf(q)
  BY DEF RecordGrows, INV!ScamsOf
<1>3. \A q : INV!Uncertain(q) => INV!Uncertain(q)'
  BY UncertainStays
<1>4. \A facts : StaysPonzi(facts) = StaysPonzi(facts)'
  BY <1>2 DEF StaysPonzi, INV!PreviousScams, INV!ScamsOf
<1>5. SchemesAreJudged'
  <2> SUFFICES ASSUME NEW s \in Schemes, NEW row, row = schemes[s], row # NoRow
      PROVE  /\ row \in INV!Row
             /\ \/ row.promoter = row.judged.promoter
                \/ INV!Uncertain(row.promoter)' /\ INV!Uncertain(row.judged.promoter)'
             /\ row.isPonzi => row.risk >= 70
             /\ row.isPonzi /\ ~ INV!Uncertain(row.judged.promoter)' => StaysPonzi(row.judged)'
    BY DEF SchemesAreJudged, INV!Row, INV!Facts
  <2> QED BY <1>3, <1>4, INVFacts DEF SchemesAreJudged
<1>6. CondemnedAreOnRecord'
  BY <1>3, INVFacts DEF CondemnedAreOnRecord
<1> QED BY <1>1, <1>2, <1>5, <1>6

LEMMA INVReceiveKeeps ==
  ASSUME INVInv, NEW req \in SchemeRequests, INV!Receive(req)
  PROVE  INVInv'
<1>1. PICK call : call =
        [req |-> req, at |-> IF req.token THEN INV!FirstStage[req.kind] ELSE "unauthorized",
         sec |-> FALSE, scams |-> 0, risk |-> 0, says |-> "nothing", known |-> condemned]
  OBVIOUS
<1>2. schemeCalls' = Append(schemeCalls, call)
      /\ UNCHANGED <<schemes, registry, schemeFaults, condemned, excused>>
  BY <1>1 DEF INV!Receive
<1>3. /\ call \in INV!Call /\ call.known = condemned /\ call.says = "nothing"
      /\ call.at \in {"registered", "row", "scheme", "unauthorized"}
      /\ call.at = "registered" => call.req.kind = "analyze"
      /\ call.at \in {"row", "scheme"} => call.req.kind # "analyze"
  <2>1. req \in INV!Request
    BY INVConstants
  <2>2. PICK stage : stage = IF req.token THEN INV!FirstStage[req.kind] ELSE "unauthorized"
    OBVIOUS
  <2>3. /\ stage \in {"registered", "row", "scheme", "unauthorized"}
        /\ stage = "registered" => req.kind = "analyze"
        /\ stage \in {"row", "scheme"} => req.kind # "analyze"
    BY <2>1, <2>2 DEF INV!Request, INV!FirstStage
  <2>4. condemned \in SUBSET (Schemes \X INV!Facts)
    BY INVFacts DEF INVTables
  <2> QED BY <1>1, <2>1, <2>2, <2>3, <2>4 DEF INV!Call, INV!Stages, INV!Ends
<1>4. INVCallIsFine(call)'
  BY <1>2, <1>3 DEF INVCallIsFine
<1>5. INVTables' /\ RecordGrows /\ SchemesAreJudged' /\ CondemnedAreOnRecord'
  BY <1>2, INVFacts, INVRecordStays DEF INVTables
<1>6. /\ schemeCalls' \in Seq(INV!Call)
      /\ DOMAIN schemeCalls' = DOMAIN schemeCalls \cup {Len(schemeCalls) + 1}
      /\ schemeCalls'[Len(schemeCalls) + 1] = call
      /\ \A k \in DOMAIN schemeCalls : schemeCalls'[k] = schemeCalls[k]
  BY <1>2, <1>3, INVFacts, Appended
<1>7. ASSUME NEW k \in DOMAIN schemeCalls'
      PROVE  INVCallIsFine(schemeCalls[k])'
  <2>1. CASE k = Len(schemeCalls) + 1
    BY <1>4, <1>6, <2>1
  <2>2. CASE k \in DOMAIN schemeCalls
    <3>1. PICK other \in INV!Call : other = schemeCalls[k] /\ schemeCalls'[k] = other
      BY <1>6, <2>2, INVFacts
    <3>2. INVCallIsFine(other)'
      BY <1>5, <2>2, <3>1, INVFacts, INVOthersKeep
    <3> QED BY <3>1, <3>2
  <2> QED BY <1>6, <2>1, <2>2
<1> QED BY <1>5, <1>6, <1>7 DEF INVInv

(* A handler's look-ups: the register, the history, the rows asked for.    *)
LEMMA CheckSECRegistrationKeeps ==
  ASSUME INVInv, NEW c \in DOMAIN schemeCalls, INV!CheckSECRegistration(c)
  PROVE  INVInv'
<1>1. PICK old \in INV!Call : old = schemeCalls[c]
  BY INVFacts
<1>2. INVCallIsFine(old) /\ old.at = "registered" /\ old.req.facts.promoter \in Promoters
  BY <1>1, INVFacts DEF INV!CheckSECRegistration, INV!Call, INV!Request, INV!Facts
<1>3. PICK sec \in BOOLEAN :
        /\ schemeCalls' = [schemeCalls EXCEPT ![c].sec = sec, ![c].at = "history"]
        /\ UNCHANGED <<schemes, registry, condemned>>
        /\ \/ excused' = excused
           \/ excused' = excused \cup ({old.req.facts.promoter} \X {"fault"})
  <2>1. INV!OnRegister(old.req.facts) \in BOOLEAN
    BY DEF INV!OnRegister
  <2>2. PICK sec \in BOOLEAN : sec = INV!OnRegister(old.req.facts)
    BY <2>1
  <2>3. CASE schemeCalls' = [schemeCalls EXCEPT ![c].sec = INV!OnRegister(schemeCalls[c].req.facts),
                                                ![c].at = "history"] /\ UNCHANGED excused
    BY <1>1, <2>2, <2>3 DEF INV!CheckSECRegistration
  <2>4. CASE schemeCalls' = [schemeCalls EXCEPT ![c].at = "history"]
             /\ INV!Excuse({schemeCalls[c].req.facts.promoter}, "fault")
    <3>1. old.sec \in BOOLEAN /\ old = [old EXCEPT !.sec = old.sec]
      BY DEF INV!Call
    <3>2. [old EXCEPT !.at = "history"] = [old EXCEPT !.sec = old.sec, !.at = "history"]
      BY DEF INV!Call
    <3>3. schemeCalls' = [schemeCalls EXCEPT ![c].sec = old.sec, ![c].at = "history"]
      BY <1>1, <2>4, <3>2
    <3> QED BY <1>1, <2>4, <3>1, <3>3 DEF INV!CheckSECRegistration, INV!Excuse
  <2> QED BY <2>3, <2>4 DEF INV!CheckSECRegistration
<1>4. PICK call : call = [old EXCEPT !.sec = sec, !.at = "history"]
  OBVIOUS
<1>5. /\ call \in INV!Call /\ call.at = "history" /\ call.req = old.req /\ call.known = old.known
      /\ call.says = old.says
  BY <1>4 DEF INV!Call, INV!Stages
<1>6. schemeCalls' = [schemeCalls EXCEPT ![c] = call]
  BY <1>1, <1>3, <1>4
<1>7. INVTables' /\ RecordGrows /\ SchemesAreJudged' /\ CondemnedAreOnRecord'
  BY <1>2, <1>3, INVFacts, INVRecordStays DEF INVTables, INV!Causes
<1>8. INVCallIsFine(call)'
  <2>1. INVCallIsFine(old)'
    BY <1>2, <1>7, INVOthersKeep
  <2> QED BY <1>2, <1>5, <2>1 DEF INVCallIsFine
<1> QED BY <1>5, <1>6, <1>7, <1>8, INVCallGoesOn

(* What was condemned of a promoter whose verdicts are certain counts.     *)
LEMMA KnownCount ==
  ASSUME INVInv, NEW call \in INV!Call, call.known \subseteq condemned,
         ~ INV!Uncertain(call.req.facts.promoter)
  PROVE  Cardinality(KnownOf(call)) <= INV!PreviousScams(call.req.facts.promoter)
<1>1. KnownOf(call) \subseteq INV!ScamsOf(call.req.facts.promoter)
  <2> SUFFICES ASSUME NEW v \in call.known, v[2].promoter = call.req.facts.promoter
      PROVE  v[1] \in INV!ScamsOf(call.req.facts.promoter)
    BY DEF KnownOf
  <2>1. v \in condemned /\ v[1] \in Schemes
    BY INVFacts DEF INVTables
  <2>2. /\ schemes[v[1]] # NoRow
        /\ schemes[v[1]].isPonzi /\ schemes[v[1]].judged = v[2]
    BY <2>1, INVFacts DEF CondemnedAreOnRecord
  <2>3. schemes[v[1]].promoter = call.req.facts.promoter
    BY <2>1, <2>2, INVFacts DEF SchemesAreJudged
  <2> QED BY <2>1, <2>2, <2>3 DEF INV!ScamsOf
<1> QED BY <1>1, ScamsCount, FS_Subset

LEMMA CheckPromoterHistoryKeeps ==
  ASSUME INVInv, NEW c \in DOMAIN schemeCalls, INV!CheckPromoterHistory(c)
  PROVE  INVInv'
<1>1. PICK old \in INV!Call : old = schemeCalls[c]
  BY INVFacts
<1>2. INVCallIsFine(old) /\ old.at = "history" /\ old.req.facts.promoter \in Promoters
  BY <1>1, INVFacts DEF INV!CheckPromoterHistory, INV!Call, INV!Request, INV!Facts
<1>3. PICK p : p = old.req.facts.promoter
  OBVIOUS
<1>4. PICK scams \in Nat :
        /\ schemeCalls' = [schemeCalls EXCEPT ![c].scams = scams, ![c].at = "store"]
        /\ UNCHANGED <<schemes, registry, condemned>>
        /\ \/ scams = INV!PreviousScams(p) /\ excused' = excused
           \/ excused' = excused \cup ({p} \X {"fault"})
  <2>1. CASE schemeCalls' = [schemeCalls EXCEPT ![c].scams = INV!PreviousScams(p), ![c].at = "store"]
             /\ UNCHANGED excused
    BY <2>1, ScamsCount DEF INV!CheckPromoterHistory
  <2>2. CASE schemeCalls' = [schemeCalls EXCEPT ![c].at = "store"] /\ INV!Excuse({p}, "fault")
    <3>1. old.scams \in Nat
      BY DEF INV!Call
    <3>2. [old EXCEPT !.at = "store"] = [old EXCEPT !.scams = old.scams, !.at = "store"]
      BY DEF INV!Call
    <3>3. schemeCalls' = [schemeCalls EXCEPT ![c].scams = old.scams, ![c].at = "store"]
      BY <1>1, <2>2, <3>2
    <3> QED BY <2>2, <3>1, <3>3 DEF INV!CheckPromoterHistory, INV!Excuse
  <2> QED BY <1>1, <1>3, <2>1, <2>2 DEF INV!CheckPromoterHistory
<1>5. PICK call : call = [old EXCEPT !.scams = scams, !.at = "store"]
  OBVIOUS
<1>6. /\ call \in INV!Call /\ call.at = "store" /\ call.req = old.req /\ call.known = old.known
      /\ call.says = old.says /\ call.scams = scams
  BY <1>5 DEF INV!Call, INV!Stages
<1>7. schemeCalls' = [schemeCalls EXCEPT ![c] = call]
  BY <1>1, <1>4, <1>5
<1>8. INVTables' /\ RecordGrows /\ SchemesAreJudged' /\ CondemnedAreOnRecord'
  BY <1>2, <1>3, <1>4, INVFacts, INVRecordStays DEF INVTables, INV!Causes
<1>9. INVCallIsFine(call)'
  <2>1. INVCallIsFine(old)'
    BY <1>2, <1>8, INVOthersKeep
  <2>2. ASSUME ~ INV!Uncertain(p)'
        PROVE  scams <= INV!PreviousScams(p)' /\ scams >= Cardinality(KnownOf(call))'
    <3>1. scams = INV!PreviousScams(p) /\ ~ INV!Uncertain(p)
      <4>1. <<p, "fault">> \notin excused'
        BY <2>2 DEF INV!Uncertain, INV!Causes
      <4>2. ~ INV!Uncertain(p)
        BY <1>8, <2>2, UncertainStays DEF RecordGrows
      <4> QED BY <1>4, <4>1, <4>2
    <3>2. INV!PreviousScams(p)' = INV!PreviousScams(p)
      BY <1>4 DEF INV!PreviousScams, INV!ScamsOf
    <3>3. Cardinality(KnownOf(call)) <= INV!PreviousScams(p)
      BY <1>2, <1>3, <1>6, <3>1, KnownCount DEF INVCallIsFine
    <3>4. Cardinality(KnownOf(call)) \in Nat
      <4>1. KnownOf(call) \subseteq Schemes
        BY <1>6 DEF KnownOf, INV!Call
      <4> QED BY <4>1, INVConstants, FS_Subset, FS_CardinalityType
    <3>5. KnownOf(call)' = KnownOf(call) /\ INV!PreviousScams(p) \in Nat
      BY ScamsCount DEF KnownOf
    <3> QED BY <3>1, <3>2, <3>3, <3>4, <3>5 DEF Cardinality
  <2> QED BY <1>2, <1>3, <1>6, <2>1, <2>2 DEF INVCallIsFine, Cardinality
<1> QED BY <1>6, <1>7, <1>8, <1>9, INVCallGoesOn

(* A condemned scheme of a promoter whose verdicts are certain is on       *)
(* record as one, with the risk of one.                                    *)
LEMMA KnownIsSeen ==
  ASSUME INVInv, NEW call \in INV!Call, call.known \subseteq condemned,
         NEW v \in call.known, ~ INV!Uncertain(v[2].promoter), call.req.scheme = v[1]
  PROVE  schemes[call.req.scheme] # NoRow /\ schemes[call.req.scheme].risk >= 70
<1>1. v \in condemned /\ v[1] \in Schemes
  BY INVFacts DEF INVTables
<1> QED BY <1>1, INVFacts DEF CondemnedAreOnRecord, SchemesAreJudged

LEMMA GetSchemeRiskKeeps ==
  ASSUME INVInv, NEW c \in DOMAIN schemeCalls, INV!GetSchemeRisk(c)
  PROVE  INVInv'
<1>1. PICK old \in INV!Call : old = schemeCalls[c]
  BY INVFacts
<1>2. INVCallIsFine(old) /\ old.at = "row" /\ old.req.scheme \in Schemes
  BY <1>1, INVFacts DEF INV!GetSchemeRisk, INV!Call, INV!Request
<1>3. UNCHANGED <<schemes, registry, condemned, excused>>
  BY DEF INV!GetSchemeRisk
<1>4. INVTables' /\ RecordGrows /\ SchemesAreJudged' /\ CondemnedAreOnRecord'
  BY <1>3, INVFacts, INVRecordStays DEF INVTables
<1>5. INVCallIsFine(old)'
  BY <1>2, <1>4, INVOthersKeep
<1>6. PICK row : row = schemes[old.req.scheme]
  OBVIOUS
<1>7. CASE row # NoRow /\ schemeCalls' = [schemeCalls EXCEPT ![c].risk = row.risk,
             ![c].sec = row.sec, ![c].at = "done",
             ![c].says = IF INV!Legitimate(row) THEN "clean" ELSE "warned"]
  <2>1. row \in INV!Row
    BY <1>2, <1>6, <1>7, INVFacts DEF SchemesAreJudged
  <2>2. PICK says \in {"clean", "warned"} : says = IF INV!Legitimate(row) THEN "clean" ELSE "warned"
    OBVIOUS
  <2>3. PICK call : call = [old EXCEPT !.risk = row.risk, !.sec = row.sec, !.at = "done",
                                       !.says = says]
    OBVIOUS
  <2>a. row.risk \in Nat /\ row.sec \in BOOLEAN
    BY <2>1 DEF INV!Row
  <2>4. /\ call \in INV!Call /\ call.at = "done" /\ call.req = old.req /\ call.known = old.known
        /\ call.says = says
    BY <2>a, <2>3 DEF INV!Call, INV!Ends
  <2>5. schemeCalls' = [schemeCalls EXCEPT ![c] = call]
    BY <1>1, <1>7, <2>2, <2>3
  <2>6. ASSUME says = "clean", NEW v \in call.known, call.req.scheme = v[1]
        PROVE  INV!Uncertain(v[2].promoter)'
    <3>1. row.risk < 40 /\ row.risk \in Nat
      BY <2>1, <2>2, <2>6 DEF INV!Legitimate, INV!Row
    <3>2. old.known \subseteq condemned
      BY <1>2 DEF INVCallIsFine
    <3>3. INV!Uncertain(v[2].promoter)
      BY <1>6, <2>4, <2>6, <3>1, <3>2, KnownIsSeen
    <3> QED BY <1>3, <3>3 DEF INV!Uncertain
  <2>7. INVCallIsFine(call)'
    BY <1>2, <1>5, <2>4, <2>6 DEF INVCallIsFine
  <2> QED BY <1>4, <2>4, <2>5, <2>7, INVCallGoesOn
<1>8. ASSUME NEW stage \in {"missing", "error"}, schemeCalls' = [schemeCalls EXCEPT ![c].at = stage]
      PROVE  INVInv'
  <2>1. PICK call : call = [old EXCEPT !.at = stage]
    OBVIOUS
  <2>2. /\ call \in INV!Call /\ call.at = stage /\ call.req = old.req /\ call.known = old.known
        /\ call.says = old.says
    BY <2>1 DEF INV!Call, INV!Ends
  <2>3. schemeCalls' = [schemeCalls EXCEPT ![c] = call]
    BY <1>1, <1>8, <2>1
  <2>4. INVCallIsFine(call)'
    BY <1>5, <2>2 DEF INVCallIsFine
  <2> QED BY <1>4, <2>2, <2>3, <2>4, INVCallGoesOn
<1> QED BY <1>1, <1>6, <1>7, <1>8 DEF INV!GetSchemeRisk

LEMMA AskSchemeKeeps ==
  ASSUME INVInv, NEW c \in DOMAIN schemeCalls, INV!AskScheme(c)
  PROVE  INVInv'
<1>1. PICK old \in INV!Call : old = schemeCalls[c]
  BY INVFacts
<1>2. INVCallIsFine(old) /\ old.at = "scheme" /\ old.req.scheme \in Schemes
  BY <1>1, INVFacts DEF INV!AskScheme, INV!Call, INV!Request
<1>3. UNCHANGED <<schemes, registry, condemned, excused>>
  BY DEF INV!AskScheme
<1>4. INVTables' /\ RecordGrows /\ SchemesAreJudged' /\ CondemnedAreOnRecord'
  BY <1>3, INVFacts, INVRecordStays DEF INVTables
<1>5. INVCallIsFine(old)'
  BY <1>2, <1>4, INVOthersKeep
<1>6. PICK row : row = schemes[old.req.scheme]
  OBVIOUS
<1>a. PICK warned \in BOOLEAN : warned = (row # NoRow /\ INV!HighRisk(row.risk))
  <2>1. (row # NoRow /\ INV!HighRisk(row.risk)) \in BOOLEAN
    OBVIOUS
  <2> QED BY <2>1
<1>7. PICK says \in {"clean", "warned", "unknown"}, risk \in Nat :
        /\ schemeCalls' = [schemeCalls EXCEPT ![c].says = says, ![c].risk = risk, ![c].at = "losses"]
        /\ says = "clean" => ~ warned
  <2>1. CASE schemeCalls' = [schemeCalls EXCEPT ![c].says = IF warned THEN "warned" ELSE "clean",
                                ![c].risk = INV!Points(warned, 40), ![c].at = "losses"]
    BY <2>1 DEF INV!Points
  <2>2. CASE schemeCalls' = [schemeCalls EXCEPT ![c].says = "unknown", ![c].at = "losses"]
    <3>1. old.risk \in Nat
      BY DEF INV!Call
    <3>2. [old EXCEPT !.says = "unknown", !.at = "losses"]
            = [old EXCEPT !.says = "unknown", !.risk = old.risk, !.at = "losses"]
      BY DEF INV!Call
    <3>3. schemeCalls' = [schemeCalls EXCEPT ![c].says = "unknown", ![c].risk = old.risk,
                                             ![c].at = "losses"]
      BY <1>1, <2>2, <3>2
    <3> QED BY <3>1, <3>3
  <2> QED BY <1>1, <1>6, <1>a, <2>1, <2>2 DEF INV!AskScheme
<1>8. PICK call : call = [old EXCEPT !.says = says, !.risk = risk, !.at = "losses"]
  OBVIOUS
<1>9. /\ call \in INV!Call /\ call.at = "losses" /\ call.req = old.req /\ call.known = old.known
      /\ call.says = says
  BY <1>8 DEF INV!Call, INV!Stages
<1>10. schemeCalls' = [schemeCalls EXCEPT ![c] = call]
  BY <1>1, <1>7, <1>8
<1>11. ASSUME says = "clean", NEW v \in call.known, call.req.scheme = v[1]
       PROVE  INV!Uncertain(v[2].promoter)'
  <2>1. row = NoRow \/ ~ (row.risk >= 70)
    BY <1>a, <1>7, <1>11 DEF INV!HighRisk
  <2>2. old.known \subseteq condemned
    BY <1>2 DEF INVCallIsFine
  <2>3. INV!Uncertain(v[2].promoter)
    BY <1>6, <1>9, <1>11, <2>1, <2>2, KnownIsSeen
  <2> QED BY <1>3, <2>3 DEF INV!Uncertain
<1>12. INVCallIsFine(call)'
  BY <1>2, <1>5, <1>7, <1>9, <1>11 DEF INVCallIsFine
<1> QED BY <1>4, <1>9, <1>10, <1>12, INVCallGoesOn

LEMMA AskLossesKeeps ==
  ASSUME INVInv, NEW c \in DOMAIN schemeCalls, INV!AskLosses(c)
  PROVE  INVInv'
<1>1. PICK old \in INV!Call : old = schemeCalls[c]
  BY INVFacts
<1>2. INVCallIsFine(old) /\ old.at = "losses" /\ old.risk \in Nat
  BY <1>1, INVFacts DEF INV!AskLosses, INV!Call
<1>3. UNCHANGED <<schemes, registry, condemned, excused>>
  BY DEF INV!AskLosses
<1>4. INVTables' /\ RecordGrows /\ SchemesAreJudged' /\ CondemnedAreOnRecord'
  BY <1>3, INVFacts, INVRecordStays DEF INVTables
<1>5. INVCallIsFine(old)'
  BY <1>2, <1>4, INVOthersKeep
<1>6. PICK risk \in Nat :
        schemeCalls' = [schemeCalls EXCEPT ![c].risk = risk, ![c].at = "done"]
  <2>1. PICK loses \in BOOLEAN :
          schemeCalls' = [schemeCalls EXCEPT
            ![c].risk = @ + INV!Points(old.req.large, 20) + INV!Points(loses, 15), ![c].at = "done"]
    <3>1. (old.req.investor \in Losers) \in BOOLEAN /\ FALSE \in BOOLEAN
      OBVIOUS
    <3>2. \/ schemeCalls' = [schemeCalls EXCEPT ![c].risk = @ + INV!Points(old.req.large, 20)
                + INV!Points(old.req.investor \in Losers, 15), ![c].at = "done"]
          \/ schemeCalls' = [schemeCalls EXCEPT ![c].risk = @ + INV!Points(old.req.large, 20)
                + INV!Points(FALSE, 15), ![c].at = "done"]
      BY <1>1 DEF INV!AskLosses
    <3> QED BY <3>1, <3>2
  <2>2. PICK risk \in Nat : risk = old.risk + INV!Points(old.req.large, 20) + INV!Points(loses, 15)
    BY <1>2 DEF INV!Points
  <2> QED BY <1>1, <2>1, <2>2
<1>7. PICK call : call = [old EXCEPT !.risk = risk, !.at = "done"]
  OBVIOUS
<1>8. /\ call \in INV!Call /\ call.at = "done" /\ call.req = old.req /\ call.known = old.known
      /\ call.says = old.says
  BY <1>7 DEF INV!Call, INV!Ends
<1>9. schemeCalls' = [schemeCalls EXCEPT ![c] = call]
  BY <1>1, <1>6, <1>7
<1>10. INVCallIsFine(call)'
  BY <1>2, <1>5, <1>8 DEF INVCallIsFine
<1> QED BY <1>4, <1>8, <1>9, <1>10, INVCallGoesOn

(* Steps that touch no call: the SEC's, those of other services.           *)
LEMMA INVBesideCalls ==
  ASSUME INVInv, UNCHANGED <<schemes, schemeCalls, condemned, excused>>,
         registry' \subseteq Names \cup Promoters
  PROVE  INVInv'
<1>1. INVTables' /\ RecordGrows /\ SchemesAreJudged' /\ CondemnedAreOnRecord'
  BY INVFacts, INVRecordStays DEF INVTables
<1>2. ASSUME NEW k \in DOMAIN schemeCalls
      PROVE  INVCallIsFine(schemeCalls[k])'
  <2>1. PICK other \in INV!Call : other = schemeCalls[k] /\ schemeCalls'[k] = other
    BY INVFacts
  <2>2. INVCallIsFine(other)'
    BY <1>1, <2>1, INVFacts, INVOthersKeep
  <2> QED BY <2>1, <2>2
<1> QED BY <1>1, <1>2 DEF INVInv

LEMMA INVStopKeeps ==
  ASSUME INVInv, INV!Stop
  PROVE  INVInv'
<1>1. UNCHANGED <<schemes, registry, condemned, excused>>
  BY DEF INV!Stop
<1>2. INVTables' /\ RecordGrows /\ SchemesAreJudged' /\ CondemnedAreOnRecord'
  BY <1>1, INVFacts, INVRecordStays DEF INVTables
<1>3. DOMAIN schemeCalls' = DOMAIN schemeCalls /\ schemeCalls' = [k \in DOMAIN schemeCalls |-> schemeCalls'[k]]
  BY DEF INV!Stop
<1>4. ASSUME NEW k \in DOMAIN schemeCalls
      PROVE  schemeCalls'[k] \in INV!Call /\ INVCallIsFine(schemeCalls[k])'
  <2>1. PICK old \in INV!Call : old = schemeCalls[k]
    BY INVFacts
  <2>2. PICK call : call = [old EXCEPT !.at = "lost"]
    OBVIOUS
  <2>3. /\ call \in INV!Call /\ call.at = "lost" /\ call.req = old.req /\ call.known = old.known
        /\ call.says = old.says
    BY <2>2 DEF INV!Call, INV!Ends
  <2>4. schemeCalls'[k] = old \/ schemeCalls'[k] = call
    BY <2>1, <2>2 DEF INV!Stop
  <2>5. INVCallIsFine(old)'
    BY <1>2, <2>1, INVFacts, INVOthersKeep
  <2>6. INVCallIsFine(call)'
    BY <2>3, <2>5 DEF INVCallIsFine
  <2> QED BY <2>1, <2>3, <2>4, <2>5, <2>6
<1>5. schemeCalls' \in Seq(INV!Call)
  BY <1>3, <1>4, INVFacts, Mapped
<1> QED BY <1>2, <1>3, <1>4, <1>5 DEF INVInv

(* storeSchemeAnalysis.  What it may make uncertain it excuses: a scheme   *)
(* that had other facts, and a count that another analysis has overtaken.  *)
LEMMA StoreSchemeAnalysisKeeps ==
  ASSUME INVInv, NEW c \in DOMAIN schemeCalls, INV!StoreSchemeAnalysis(c)
  PROVE  INVInv'
<1>1. PICK old \in INV!Call : old = schemeCalls[c]
  BY INVFacts
<1>2. PICK s, facts, p, was :
        s = old.req.scheme /\ facts = old.req.facts /\ p = facts.promoter /\ was = schemes[s]
  OBVIOUS
<1>3. /\ INVCallIsFine(old) /\ old.at = "store" /\ old.req.kind = "analyze"
      /\ s \in Schemes /\ facts \in INV!Facts /\ p \in Promoters
      /\ old.sec \in BOOLEAN /\ old.scams \in Nat
  <2>1. /\ INVCallIsFine(old) /\ old.at = "store" /\ old.req \in INV!Request
        /\ old.sec \in BOOLEAN /\ old.scams \in Nat
    BY <1>1, INVFacts DEF INV!StoreSchemeAnalysis, INV!Call
  <2>2. old.req.kind = "analyze"
    BY <2>1 DEF INVCallIsFine
  <2>3. s \in Schemes /\ facts \in INV!Facts
    BY <1>2, <2>1 DEF INV!Request
  <2> QED BY <1>2, <2>1, <2>2, <2>3 DEF INV!Facts
<1>4. PICK score \in Nat : score = INV!RiskScore(facts, old.sec, old.scams)
  BY <1>3, ScoresAdd
<1>5. INV!Score(c) = score /\ INV!Verdict(c) = INV!IsPonzi(score, facts)
  BY <1>1, <1>2, <1>4 DEF INV!Score, INV!Verdict
<1>6. PICK ponzi \in BOOLEAN : ponzi = INV!IsPonzi(score, facts)
  <2>1. INV!IsPonzi(score, facts) \in BOOLEAN
    BY DEF INV!IsPonzi
  <2> QED BY <2>1
<1>7. PICK risk \in 0..100 : risk = INV!AtMost(score, 100)
  BY DEF INV!AtMost
<1>8. PICK row : row = [promoter |-> p, judged |-> facts, risk |-> risk, isPonzi |-> ponzi,
                        sec |-> old.sec]
  OBVIOUS
<1>9. PICK new : new = INV!Upsert(was, row)
  OBVIOUS
<1>10. was # NoRow => was \in INV!Row
  BY <1>2, <1>3, INVFacts DEF SchemesAreJudged
<1>11. /\ new \in INV!Row /\ new # NoRow
       /\ new.judged = facts /\ new.risk = risk /\ new.isPonzi = ponzi
       /\ new.promoter = IF was = NoRow THEN p ELSE was.promoter
  <2>1. row \in INV!Row
    BY <1>3, <1>8 DEF INV!Row
  <2>2. IF was = NoRow THEN new = row ELSE new = [row EXCEPT !.promoter = was.promoter]
    BY <1>9 DEF INV!Upsert
  <2>3. new \in INV!Row /\ new.judged = row.judged /\ new.risk = row.risk /\ new.isPonzi = row.isPonzi
        /\ new.promoter = IF was = NoRow THEN p ELSE was.promoter
    <3>1. CASE was = NoRow
      BY <1>8, <2>1, <2>2, <3>1
    <3>2. CASE was # NoRow
      <4>1. PICK q \in Promoters : q = was.promoter
        BY <1>10, <3>2 DEF INV!Row
      <4>2. new = [row EXCEPT !.promoter = q]
        BY <2>2, <3>2, <4>1
      <4>3. new \in INV!Row /\ new.judged = row.judged /\ new.risk = row.risk
            /\ new.isPonzi = row.isPonzi /\ new.promoter = q
        BY <2>1, <4>2 DEF INV!Row
      <4> QED BY <3>2, <4>1, <4>3
    <3> QED BY <3>1, <3>2
  <2> QED BY <1>8, <2>3, INVConstants
<1>12. PICK call : call = [old EXCEPT !.risk = risk, !.at = "done"]
  OBVIOUS
<1>13. /\ call \in INV!Call /\ call.at = "done" /\ call.req = old.req /\ call.known = old.known
       /\ call.says = old.says /\ call.scams = old.scams
  <2>1. risk \in Nat
    BY <1>7
  <2> QED BY <1>12, <2>1 DEF INV!Call, INV!Ends
<1>14. schemeCalls' = [schemeCalls EXCEPT ![c] = call]
  BY <1>1, <1>2, <1>5, <1>7, <1>12 DEF INV!StoreSchemeAnalysis
<1>15. /\ registry' = registry
       /\ condemned' = IF ponzi THEN condemned \cup {<<s, facts>>} ELSE condemned
  BY <1>1, <1>2, <1>5, <1>6 DEF INV!StoreSchemeAnalysis
<1>16. PICK other \in BOOLEAN, stale \in BOOLEAN :
         /\ other = (was # NoRow /\ was.judged # facts)
         /\ stale = (INV!PreviousScams(p) > old.scams)
  <2>1. (was # NoRow /\ was.judged # facts) \in BOOLEAN
        /\ (INV!PreviousScams(p) > old.scams) \in BOOLEAN
    OBVIOUS
  <2> QED BY <2>1
<1>17. \/ /\ schemes' = [schemes EXCEPT ![s] = new]
          /\ excused' = excused \cup (IF other THEN {p, was.promoter} \X {"facts"} ELSE {})
                                \cup (IF stale THEN {<<p, "race">>} ELSE {})
       \/ excused' = excused \cup ({p} \X {"fault"}) /\ schemes' = schemes
  BY <1>1, <1>2, <1>5, <1>6, <1>7, <1>8, <1>9, <1>16
     DEF INV!StoreSchemeAnalysis, INV!Excuse
<1>18. excused \subseteq excused' /\ condemned \subseteq condemned'
  BY <1>15, <1>17
<1>19. \A q : INV!Uncertain(q) => INV!Uncertain(q)'
  BY <1>18, UncertainStays
<1>20. INVTables'
  <2>1. condemned' \subseteq Schemes \X INV!Facts
    BY <1>3, <1>15, INVFacts DEF INVTables
  <2>2. other => was.promoter \in Promoters
    BY <1>10, <1>16 DEF INV!Row
  <2>3. excused' \subseteq Promoters \X INV!Causes
    BY <1>3, <1>17, <2>2, INVFacts DEF INVTables, INV!Causes
  <2>4. schemes' = [t \in Schemes |-> schemes'[t]]
    BY <1>17, INVFacts DEF INVTables
  <2>5. condemned' \subseteq Schemes \X INV!Facts' /\ INV!Causes' = INV!Causes
    BY <2>1 DEF INV!Facts, INV!Causes
  <2> QED BY <1>15, <2>3, <2>4, <2>5, INVFacts DEF INVTables, INV!Facts
(* What the upsert does for promoters whose verdicts stay certain.         *)
<1>21. ASSUME schemes' = [schemes EXCEPT ![s] = new],
              excused' = excused \cup (IF other THEN {p, was.promoter} \X {"facts"} ELSE {})
                                 \cup (IF stale THEN {<<p, "race">>} ELSE {})
       PROVE  RecordGrows /\ SchemesAreJudged' /\ CondemnedAreOnRecord'
  <2>1. schemes'[s] = new /\ \A t \in Schemes : t # s => schemes'[t] = schemes[t]
    BY <1>3, <1>21, INVFacts DEF INVTables
  <2>2. /\ other => INV!Uncertain(p)' /\ INV!Uncertain(was.promoter)'
        /\ stale => INV!Uncertain(p)'
    BY <1>21 DEF INV!Uncertain, INV!Causes
  <2>3. ASSUME NEW q, ~ INV!Uncertain(q)', was # NoRow, was.promoter = q \/ was.judged.promoter = q
        PROVE  /\ q = p /\ was.promoter = p /\ was.judged = facts /\ ~ INV!Uncertain(p)
    <3>1. ~ INV!Uncertain(q)
      BY <1>19, <2>3
    <3>2. was.promoter = was.judged.promoter
      BY <1>2, <1>3, <2>3, <3>1, INVFacts DEF SchemesAreJudged
    <3>3. ~ other
      BY <2>2, <2>3, <3>2
    <3>4. was.judged = facts
      BY <1>16, <2>3, <3>3
    <3> QED BY <1>2, <2>3, <3>1, <3>2, <3>4
  <2>4. ASSUME ~ INV!Uncertain(p)'
        PROVE  /\ old.scams = INV!PreviousScams(p) /\ ~ INV!Uncertain(p)
    <3>1. ~ INV!Uncertain(p) /\ ~ stale
      BY <1>19, <2>2, <2>4
    <3>2. old.scams <= INV!PreviousScams(p)
      BY <1>2, <1>3, <3>1 DEF INVCallIsFine
    <3>3. PICK n \in Nat : n = INV!PreviousScams(p)
      BY ScamsCount
    <3>4. ~ (n > old.scams) /\ old.scams <= n
      BY <1>16, <3>1, <3>2, <3>3
    <3>5. old.scams = n
      BY <1>3, <3>4
    <3> QED BY <3>1, <3>3, <3>5
  <2>5. ASSUME ~ INV!Uncertain(p)', was # NoRow, was.isPonzi, was.judged = facts
        PROVE  ponzi
    <3>1. INV!IsPonzi(INV!RiskScore(facts, TRUE, old.scams), facts)
      BY <1>2, <1>3, <2>4, <2>5, INVFacts DEF SchemesAreJudged, StaysPonzi
    <3>2. old.scams <= old.scams
      BY <1>3
    <3>3. INV!IsPonzi(INV!RiskScore(facts, old.sec, old.scams), facts)
      BY <1>3, <3>1, <3>2, ScoresAdd
    <3> QED BY <1>4, <1>6, <3>3
  <2>6. RecordGrows
    <3> SUFFICES ASSUME NEW q, ~ INV!Uncertain(q)', NEW t \in INV!ScamsOf(q)
        PROVE  t \in INV!ScamsOf(q)'
      BY <1>18 DEF RecordGrows
    <3>1. t \in Schemes /\ schemes[t] # NoRow /\ schemes[t].promoter = q /\ schemes[t].isPonzi
      BY DEF INV!ScamsOf
    <3>2. CASE t # s
      BY <2>1, <3>1, <3>2 DEF INV!ScamsOf
    <3>3. CASE t = s
      <4>1. q = p /\ was.promoter = p /\ was.judged = facts /\ was # NoRow /\ was.isPonzi
        BY <1>2, <2>3, <3>1, <3>3
      <4>2. ponzi
        BY <2>5, <4>1
      <4> QED BY <1>11, <2>1, <3>1, <3>3, <4>1, <4>2 DEF INV!ScamsOf
    <3> QED BY <3>2, <3>3
  <2>7. \A q : /\ INV!Uncertain(q)' \/ INV!PreviousScams(q) <= INV!PreviousScams(q)'
               /\ INV!PreviousScams(q)' \in Nat
    <3> TAKE q
    <3>1. PICK many : many = INV!ScamsOf(q)' /\ many \subseteq Schemes
      <4>1. INV!ScamsOf(q)' \subseteq Schemes
        BY DEF INV!ScamsOf
      <4> QED BY <4>1
    <3>2. Cardinality(many) \in Nat
      BY <3>1, INVConstants, FS_Subset, FS_CardinalityType
    <3>3. INV!PreviousScams(q)' \in Nat
      BY <3>1, <3>2 DEF INV!PreviousScams, INV!Cardinality, Cardinality
    <3> QED BY <2>6, <3>3, ScamsGrow
  <2>8. ASSUME NEW f \in INV!Facts, ~ INV!Uncertain(f.promoter)', StaysPonzi(f)
        PROVE  StaysPonzi(f)'
    <3>1. PICK few \in Nat, many \in Nat :
            /\ few = INV!PreviousScams(f.promoter) /\ many = INV!PreviousScams(f.promoter)'
            /\ few <= many
      BY <2>7, <2>8, ScamsCount
    <3>2. INV!IsPonzi(INV!RiskScore(f, TRUE, few), f)
      BY <2>8, <3>1 DEF StaysPonzi
    <3>3. INV!IsPonzi(INV!RiskScore(f, TRUE, many), f)
      BY <3>1, <3>2, ScoresAdd
    <3> QED BY <3>1, <3>3 DEF StaysPonzi, INV!IsPonzi, INV!RiskScore, INV!Points
  <2>9. ASSUME ponzi, ~ INV!Uncertain(p)'
        PROVE  StaysPonzi(facts)'
    <3>1. was # NoRow => was.judged = facts
      BY <1>16, <2>2, <2>9
    <3>2. CASE was # NoRow /\ was.isPonzi
      <4>1. StaysPonzi(facts)
        BY <1>2, <1>3, <2>4, <2>9, <3>1, <3>2, INVFacts DEF SchemesAreJudged
      <4> QED BY <1>2, <1>3, <2>8, <2>9, <4>1
    <3>3. CASE ~ (was # NoRow /\ was.isPonzi)
      <4>1. s \notin INV!ScamsOf(p)
        BY <1>2, <3>3 DEF INV!ScamsOf
      <4>2. was # NoRow => was.promoter = p
        BY <1>2, <2>3, <2>9, <3>1
      <4>3. s \in INV!ScamsOf(p)'
        BY <1>3, <1>11, <2>1, <2>9, <4>2 DEF INV!ScamsOf
      <4>4. PICK few, many : few = INV!ScamsOf(p) /\ many = INV!ScamsOf(p)'
        OBVIOUS
      <4>5. IsFiniteSet(few) /\ few \cup {s} \subseteq many /\ s \notin few /\ many \subseteq Schemes
        BY <2>6, <2>9, <4>1, <4>3, <4>4, ScamsCount DEF RecordGrows, INV!ScamsOf
      <4>6. IsFiniteSet(many) /\ Cardinality(few \cup {s}) <= Cardinality(many)
        BY <4>5, INVConstants, FS_Subset
      <4>7. Cardinality(few \cup {s}) = Cardinality(few) + 1 /\ Cardinality(few) \in Nat
        BY <4>5, FS_AddElement, FS_CardinalityType
      <4>8. PICK n \in Nat, m \in Nat : n = Cardinality(few) /\ m = Cardinality(many)
        BY <4>6, <4>7, FS_CardinalityType
      <4>9. n < m /\ n = old.scams
        BY <2>4, <2>9, <4>4, <4>6, <4>7, <4>8 DEF INV!PreviousScams, INV!Cardinality, Cardinality
      <4>10. m = INV!PreviousScams(p)'
        BY <4>4, <4>8 DEF INV!PreviousScams, INV!Cardinality, Cardinality
      <4>11. INV!IsPonzi(INV!RiskScore(facts, TRUE, m), facts)
        BY <1>3, <1>4, <1>6, <2>9, <4>9, ScoresAdd
      <4> QED BY <1>2, <4>10, <4>11 DEF StaysPonzi, INV!IsPonzi, INV!RiskScore, INV!Points
    <3> QED BY <3>2, <3>3
  <2>10. SchemesAreJudged'
    <3> SUFFICES ASSUME NEW t \in Schemes, NEW r, r = schemes'[t], r # NoRow
        PROVE  /\ r \in INV!Row
               /\ \/ r.promoter = r.judged.promoter
                  \/ INV!Uncertain(r.promoter)' /\ INV!Uncertain(r.judged.promoter)'
               /\ r.isPonzi => r.risk >= 70
               /\ r.isPonzi /\ ~ INV!Uncertain(r.judged.promoter)' => StaysPonzi(r.judged)'
      BY DEF SchemesAreJudged, INV!Row, INV!Facts
    <3>1. CASE t # s
      <4>1. /\ r \in INV!Row
            /\ \/ r.promoter = r.judged.promoter
               \/ INV!Uncertain(r.promoter) /\ INV!Uncertain(r.judged.promoter)
            /\ r.isPonzi => r.risk >= 70
            /\ r.isPonzi /\ ~ INV!Uncertain(r.judged.promoter) => StaysPonzi(r.judged)
        BY <2>1, <3>1, INVFacts DEF SchemesAreJudged
      <4>2. r.judged \in INV!Facts
        BY <4>1 DEF INV!Row
      <4> QED BY <1>19, <2>8, <4>1, <4>2
    <3>2. CASE t = s
      <4>1. r = new
        BY <2>1, <3>2
      <4>2. ponzi => risk >= 70
        <5>1. ponzi => score >= 70
          BY <1>3, <1>4, <1>6, ScoresAdd
        <5> QED BY <1>7, <5>1 DEF INV!AtMost
      <4>3. \/ r.promoter = r.judged.promoter
            \/ INV!Uncertain(r.promoter)' /\ INV!Uncertain(r.judged.promoter)'
        <5>1. CASE was = NoRow
          BY <1>2, <1>11, <4>1, <5>1
        <5>2. CASE was # NoRow /\ ~ other
          <6>1. was.judged = facts
            BY <1>16, <5>2
          <6>2. \/ was.promoter = was.judged.promoter
                \/ INV!Uncertain(was.promoter) /\ INV!Uncertain(was.judged.promoter)
            BY <1>2, <1>3, <5>2, INVFacts DEF SchemesAreJudged
          <6> QED BY <1>11, <1>19, <4>1, <5>2, <6>1, <6>2
        <5>3. CASE was # NoRow /\ other
          BY <1>2, <1>11, <2>2, <4>1, <5>3
        <5> QED BY <5>1, <5>2, <5>3
      <4> QED BY <1>2, <1>11, <2>9, <4>1, <4>2, <4>3
    <3> QED BY <3>1, <3>2
  <2>11. CondemnedAreOnRecord'
    <3> SUFFICES ASSUME NEW v \in condemned', ~ INV!Uncertain(v[2].promoter)'
        PROVE  /\ schemes'[v[1]] # NoRow
               /\ schemes'[v[1]].isPonzi /\ schemes'[v[1]].judged = v[2]
      BY DEF CondemnedAreOnRecord
    <3>1. CASE v \in condemned
      <4>1. /\ schemes[v[1]] # NoRow /\ v[1] \in Schemes
            /\ schemes[v[1]].isPonzi /\ schemes[v[1]].judged = v[2]
        BY <1>19, <3>1, INVFacts DEF CondemnedAreOnRecord, INVTables
      <4>2. CASE v[1] # s
        BY <2>1, <4>1, <4>2
      <4>3. CASE v[1] = s
        <5>1. was # NoRow /\ was.isPonzi /\ was.judged = v[2]
          BY <1>2, <4>1, <4>3
        <5>2. was.judged = facts /\ v[2].promoter = p
          BY <2>3, <5>1
        <5>3. ponzi
          BY <2>5, <5>1, <5>2
        <5> QED BY <1>11, <2>1, <4>3, <5>1, <5>2, <5>3
      <4> QED BY <4>2, <4>3
    <3>2. CASE v \notin condemned
      <4>1. ponzi /\ v[1] = s /\ v[2] = facts
        BY <1>15, <3>2
      <4> QED BY <1>11, <2>1, <4>1
    <3> QED BY <3>1, <3>2
  <2> QED BY <2>6, <2>10, <2>11
<1>22. ASSUME excused' = excused \cup ({p} \X {"fault"}), schemes' = schemes
       PROVE  RecordGrows /\ SchemesAreJudged' /\ CondemnedAreOnRecord'
  <2>1. INV!Uncertain(p)'
    BY <1>22 DEF INV!Uncertain, INV!Causes
  <2>2. RecordGrows
    BY <1>18, <1>22 DEF RecordGrows, INV!ScamsOf
  <2>3. SchemesAreJudged'
    <3> SUFFICES ASSUME NEW t \in Schemes, NEW r, r = schemes[t], r # NoRow
        PROVE  /\ r \in INV!Row
               /\ \/ r.promoter = r.judged.promoter
                  \/ INV!Uncertain(r.promoter)' /\ INV!Uncertain(r.judged.promoter)'
               /\ r.isPonzi => r.risk >= 70
               /\ r.isPonzi /\ ~ INV!Uncertain(r.judged.promoter)' => StaysPonzi(r.judged)'
      BY <1>22 DEF SchemesAreJudged, INV!Row, INV!Facts
    <3>1. \A f : StaysPonzi(f) = StaysPonzi(f)'
      BY <1>22 DEF StaysPonzi, INV!PreviousScams, INV!ScamsOf
    <3> QED BY <1>19, <3>1, INVFacts DEF SchemesAreJudged
  <2>4. CondemnedAreOnRecord'
    <3> SUFFICES ASSUME NEW v \in condemned', ~ INV!Uncertain(v[2].promoter)'
        PROVE  /\ schemes[v[1]] # NoRow
               /\ schemes[v[1]].isPonzi /\ schemes[v[1]].judged = v[2]
      BY <1>22 DEF CondemnedAreOnRecord
    <3>1. v \in condemned
      BY <1>2, <1>15, <2>1
    <3> QED BY <1>19, <3>1, INVFacts DEF CondemnedAreOnRecord
  <2> QED BY <2>2, <2>3, <2>4
<1>23. RecordGrows /\ SchemesAreJudged' /\ CondemnedAreOnRecord'
  BY <1>17, <1>21, <1>22
<1>24. INVCallIsFine(call)'
  <2>1. INVCallIsFine(old)'
    BY <1>3, <1>23, INVOthersKeep
  <2>2. KnownOf(call) = KnownOf(old)
    BY <1>13 DEF KnownOf
  <2> QED BY <1>3, <1>13, <2>1, <2>2 DEF INVCallIsFine, KnownOf, Cardinality
<1> QED BY <1>13, <1>14, <1>20, <1>23, <1>24, INVCallGoesOn

LEMMA INVInvHolds == Spec => []INVInv
<1>1. INVInv /\ [Next]_vars => INVInv'
  <2> SUFFICES ASSUME INVInv, [Next]_vars PROVE INVInv'
    OBVIOUS
  <2>1. CASE INV!Next
    <3>1. ASSUME NEW entity \in Names \cup Promoters, INV!Registers(entity)
          PROVE  INVInv'
      BY <3>1, INVFacts, INVBesideCalls DEF INV!Registers, INVTables
    <3>2. ASSUME NEW c \in DOMAIN schemeCalls, INV!Handle(c)
          PROVE  INVInv'
      BY <3>2, CheckSECRegistrationKeeps, CheckPromoterHistoryKeeps, StoreSchemeAnalysisKeeps,
         GetSchemeRiskKeeps, AskSchemeKeeps, AskLossesKeeps DEF INV!Handle
    <3> QED BY <2>1, <3>1, <3>2, INVReceiveKeeps, INVStopKeeps DEF INV!Next
  <2>2. CASE UNCHANGED schemeVars
    BY <2>2, INVFacts, INVBesideCalls DEF schemeVars, INVTables
  <2> QED BY <2>1, <2>2, ServicesStep
<1> QED BY <1>1, INVInit, PTL DEF Spec

(* A verdict that a scheme is a Ponzi scheme is kept, told to whoever asks *)
(* afterwards and counted against the next scheme of its promoter, unless  *)
(* a statement failed, the scheme's facts changed or an analysis was       *)
(* overtaken (storeSchemeAnalysis, checkPromoterHistory).                  *)
THEOREM VerdictsOutliveAnalyses == Spec => []CondemnedSchemesStayKnown
<1>1. INVInv => CondemnedSchemesStayKnown
  <2> SUFFICES ASSUME INVInv PROVE CondemnedSchemesStayKnown
    OBVIOUS
  <2>1. INV!VerdictsAreKept
    BY INVFacts DEF INV!VerdictsAreKept, CondemnedAreOnRecord
  <2>2. INV!InvestorsAreWarned
    BY INVFacts DEF INV!InvestorsAreWarned, INVCallIsFine
  <2>3. INV!HistoryIsCounted
    BY INVFacts DEF INV!HistoryIsCounted, INVCallIsFine, KnownOf, INV!Cardinality, Cardinality
  <2> QED BY <2>1, <2>2, <2>3 DEF CondemnedSchemesStayKnown, INV!CondemnedSchemesStayKnown
<1> QED BY <1>1, INVInvHolds, PTL

LEMMA INVTypes == INVInv => INV!TypeOK
BY INVFacts DEF INV!TypeOK, INVTables, SchemesAreJudged

-----------------------------------------------------------------------------
(* insider-fraud-detector.                                                 *)

(* The employees that the record and the alerts of a call name.            *)
RecordedBy(c) == {e.employee : e \in {e \in staffEvents : e.call = c}}
AlertedBy(c) == {a.employee : a \in {a \in staffAlerts : a.call = c}}

SevereGrounds(call) ==
  LET req == call.req
  IN call.score >= 60 =>
       /\ req.kind = "abuse" =>
            Cardinality(INS!OfPrivileged(INS!Recent(req.tenant, INS!Employee(req)))) >= 5
       /\ req.kind = "transfer" =>
            req.large /\ (req.external
                          \/ Cardinality(INS!Attempts(req.tenant, INS!Employee(req))) >= 3)

(* What holds of a call.  It is at a statement of its handler; a transfer  *)
(* is stored before it is counted and alerted once it is done; the first   *)
(* employees of the request are on record, up to the next one.             *)
INSCallIsFine(c, call) ==
  /\ call.at = "log" => call.req.kind \in {"access", "abuse"}
  /\ call.at = "attempt" => call.req.kind = "transfer"
  /\ call.at = "report" => call.req.kind # "risk"
  /\ call.next \in 1..(Len(call.req.employees) + 1)
  /\ call.at \in {"log", "attempt", "count", "forbidden"} => call.next = 1
  /\ call.at = "report" => call.next <= Len(call.req.employees)
  /\ call.at = "done" /\ call.req.kind = "collusion" => call.next = Len(call.req.employees) + 1
  /\ call.req.kind = "transfer" /\ call.at \in {"count", "report", "done"} => c \in attempts
  /\ call.at \in {"report", "done"} => SevereGrounds(call)
  /\ call.req.kind = "transfer" /\ call.at = "done" /\ call.score >= 50 =>
       \E a \in staffAlerts : a.call = c
  /\ call.req.kind = "collusion" =>
       /\ RecordedBy(c) = {call.req.employees[i] : i \in 1..(call.next - 1)}
       /\ AlertedBy(c) \subseteq RecordedBy(c)
       /\ call.score >= 50 => AlertedBy(c) = RecordedBy(c)

(* Of two large transfers of one employee that have counted, the later     *)
(* count has both.                                                         *)
LargeTransfer(call) ==
  call.req.kind = "transfer" /\ call.req.large /\ call.at \in {"report", "done"}

OneOfTwoCounts ==
  \A c, k \in DOMAIN staffCalls :
    LET one == staffCalls[c]
        other == staffCalls[k]
    IN /\ c # k /\ LargeTransfer(one) /\ LargeTransfer(other)
       /\ one.req.tenant = other.req.tenant
       /\ INS!Employee(one.req) = INS!Employee(other.req)
       => one.score >= 50 \/ other.score >= 50

INSTables ==
  /\ staffAccesses \in Seq(INS!Access)
  /\ staffEvents \subseteq INS!Event /\ staffAlerts \subseteq INS!Alert
  /\ IsFiniteSet(staffEvents)
  /\ attempts \cup {e.call : e \in staffEvents} \cup {a.call : a \in staffAlerts} \subseteq
       {c \in DOMAIN staffCalls : staffCalls[c].at # "forbidden"}

INSInv ==
  /\ staffCalls \in Seq(INS!Call) /\ Len(staffCalls) <= MaxStaffCalls
  /\ INSTables
  /\ OneOfTwoCounts
  /\ \A c \in DOMAIN staffCalls : INSCallIsFine(c, staffCalls[c])

LEMMA INSBounds == StaffLog \in Seq(INS!Access) /\ MaxStaffCalls \in Nat
BY InsiderAssumption DEF INS!ConstantsAssumption

LEMMA INSRequest == \A req \in StaffRequests : req \in INS!Request /\ req.employees # << >>
BY InsiderAssumption DEF INS!ConstantsAssumption

LEMMA INSKinds == ASSUME NEW req \in StaffRequests PROVE req.kind \in INS!Kinds
BY INSRequest DEF INS!Request

LEMMA INSPlaces ==
  ASSUME NEW req \in StaffRequests
  PROVE  req.tenant \in Tenants /\ req.resource \in Resources /\ req.address \in Addresses
BY INSRequest DEF INS!Request

LEMMA INSEmployees == ASSUME NEW req \in StaffRequests PROVE req.employees \in Seq(Employees)
BY INSRequest DEF INS!Request

LEMMA INSFlags ==
  ASSUME NEW req \in StaffRequests
  PROVE  /\ req.lateUTC \in BOOLEAN /\ req.recent \in BOOLEAN
         /\ req.large \in BOOLEAN /\ req.external \in BOOLEAN /\ req.late \in BOOLEAN
BY INSRequest DEF INS!Request

LEMMA INSNames ==
  ASSUME NEW req \in StaffRequests
  PROVE  Len(req.employees) \in Nat \ {0} /\ INS!Employee(req) \in Employees
<1>1. ASSUME NEW s \in Seq(Employees), s # << >>
      PROVE  Len(s) \in Nat \ {0} /\ s[1] \in Employees
  BY <1>1
<1>2. req.employees \in Seq(Employees) /\ req.employees # << >>
  BY INSRequest, INSEmployees
<1> QED BY <1>1, <1>2 DEF INS!Employee

(* The place of a handler's statement, and the one after it.               *)
LEMMA Placed ==
  ASSUME NEW s, NEW n \in Nat, DOMAIN s = 1..n, NEW i \in 1..n,
         \A j \in 1..n : s[j] = s[i] => j = i
  PROVE  (CHOOSE j \in DOMAIN s : s[j] = s[i]) = i
<1>1. \E j \in DOMAIN s : s[j] = s[i]
  OBVIOUS
<1> QED BY <1>1

LEMMA INSAfter ==
  ASSUME NEW call \in INS!Call, call.at \in INS!Stages,
         call.at = "log" => call.req.kind \in {"access", "abuse"},
         call.at = "attempt" => call.req.kind = "transfer",
         call.at = "report" => call.req.kind # "risk"
  PROVE  /\ call.at \in {"log", "attempt"} => INS!After(call) = "count"
         /\ call.at = "count" => INS!After(call) = IF call.req.kind = "risk" THEN "done" ELSE "report"
<1>1. call.req.kind \in INS!Kinds
  BY INSKinds DEF INS!Call
<1>2. PICK todo : todo = INS!Statements[call.req.kind]
  OBVIOUS
<1>3. INS!After(call) = IF call.at = todo[Len(todo)] THEN "done"
                        ELSE todo[1 + CHOOSE i \in DOMAIN todo : todo[i] = call.at]
  BY <1>2 DEF INS!After, INS!Last
<1>4. CASE call.req.kind \in {"access", "abuse"}
  <2>1. todo = <<"log", "count", "report">>
    BY <1>2, <1>4 DEF INS!Statements, INS!MonitorAccess, INS!DetectAuthorizationAbuse
  <2>2. DOMAIN todo = 1..3 /\ todo[1] = "log" /\ todo[2] = "count" /\ todo[3] = "report"
        /\ Len(todo) = 3
    BY <2>1
  <2>3. (CHOOSE j \in DOMAIN todo : todo[j] = todo[1]) = 1
    BY <2>2, Placed
  <2>4. (CHOOSE j \in DOMAIN todo : todo[j] = todo[2]) = 2
    BY <2>2, Placed
  <2> QED BY <1>3, <1>4, <2>2, <2>3, <2>4
<1>5. CASE call.req.kind = "transfer"
  <2>1. todo = <<"attempt", "count", "report">>
    BY <1>2, <1>5 DEF INS!Statements, INS!DetectDataExfiltration
  <2>2. DOMAIN todo = 1..3 /\ todo[1] = "attempt" /\ todo[2] = "count" /\ todo[3] = "report"
        /\ Len(todo) = 3
    BY <2>1
  <2>3. (CHOOSE j \in DOMAIN todo : todo[j] = todo[1]) = 1
    BY <2>2, Placed
  <2>4. (CHOOSE j \in DOMAIN todo : todo[j] = todo[2]) = 2
    BY <2>2, Placed
  <2> QED BY <1>3, <1>5, <2>2, <2>3, <2>4
<1>6. CASE call.req.kind \in {"unusual", "collusion"}
  <2>1. todo = <<"count", "report">>
    BY <1>2, <1>6 DEF INS!Statements, INS!DetectUnusualActivity, INS!DetectCollusion
  <2>2. DOMAIN todo = 1..2 /\ todo[1] = "count" /\ todo[2] = "report" /\ Len(todo) = 2
    BY <2>1
  <2>3. (CHOOSE j \in DOMAIN todo : todo[j] = todo[1]) = 1
    BY <2>2, Placed
  <2> QED BY <1>3, <1>6, <2>2, <2>3
<1>7. CASE call.req.kind = "risk"
  <2>1. todo = <<"count">>
    BY <1>2, <1>7 DEF INS!Statements, INS!GetEmployeeRiskScore
  <2>2. todo[1] = "count" /\ Len(todo) = 1
    BY <2>1
  <2> QED BY <1>3, <1>7, <2>2
<1> QED BY <1>1, <1>4, <1>5, <1>6, <1>7 DEF INS!Kinds

(* The handlers' first statements.                                         *)
LEMMA INSFirst ==
  ASSUME NEW kind \in INS!Kinds
  PROVE  Head(INS!Statements[kind]) =
           CASE kind \in {"access", "abuse"} -> "log" [] kind = "transfer" -> "attempt"
             [] OTHER -> "count"
BY DEF INS!Kinds, INS!Statements, INS!MonitorAccess, INS!DetectUnusualActivity,
       INS!DetectDataExfiltration, INS!DetectAuthorizationAbuse, INS!DetectCollusion,
       INS!GetEmployeeRiskScore

(* What is counted is finite, and only grows.                              *)
LEMMA INSCounts ==
  ASSUME staffAccesses \in Seq(INS!Access), attempts \subseteq DOMAIN staffCalls,
         staffCalls \in Seq(INS!Call)
  PROVE  \A tenant, employee :
           /\ IsFiniteSet(INS!Recent(tenant, employee))
           /\ IsFiniteSet(INS!OfPrivileged(INS!Recent(tenant, employee)))
           /\ IsFiniteSet(INS!Attempts(tenant, employee))
<1> TAKE tenant, employee
<1>1. IsFiniteSet(DOMAIN staffAccesses) /\ IsFiniteSet(DOMAIN staffCalls)
  BY Domain
<1> QED BY <1>1, FS_Subset DEF INS!Recent, INS!OfPrivileged, INS!Attempts

LEMMA AbuseNeedsAccesses ==
  ASSUME NEW req \in StaffRequests, INS!AbuseRisk(req) >= 60,
         IsFiniteSet(INS!OfPrivileged(INS!Recent(req.tenant, INS!Employee(req))))
  PROVE  Cardinality(INS!OfPrivileged(INS!Recent(req.tenant, INS!Employee(req)))) >= 5
<1>1. PICK rows : rows = INS!OfPrivileged(INS!Recent(req.tenant, INS!Employee(req)))
  OBVIOUS
<1>2. Cardinality(rows) \in Nat
  BY <1>1, FS_CardinalityType
<1>3. PICK sources \in BOOLEAN :
        INS!AbuseRisk(req) = INS!Least(100, INS!Points(Cardinality(rows) >= 5, 50)
          + INS!Points(sources, 25) + INS!Points(req.late, 20))
  <2>1. (INS!Cardinality({staffAccesses[i].address : i \in rows}) > 2) \in BOOLEAN
    OBVIOUS
  <2> QED BY <1>1, <2>1 DEF INS!AbuseRisk, INS!Cardinality, Cardinality
<1> QED BY <1>1, <1>2, <1>3 DEF INS!Least, INS!Points

LEMMA ExfiltrationScores ==
  ASSUME NEW req \in StaffRequests,
         IsFiniteSet(INS!Attempts(req.tenant, INS!Employee(req)))
  PROVE  LET n == Cardinality(INS!Attempts(req.tenant, INS!Employee(req)))
         IN /\ INS!ExfiltrationRisk(req) \in 0..100
            /\ INS!ExfiltrationRisk(req) >= 60 => req.large /\ (req.external \/ n >= 3)
            /\ req.large /\ n >= 2 => INS!ExfiltrationRisk(req) >= 50
<1>1. PICK n \in Nat : n = Cardinality(INS!Attempts(req.tenant, INS!Employee(req)))
  BY FS_CardinalityType
<1>2. INS!ExfiltrationRisk(req) =
        INS!Least(100, INS!Points(req.large, 45) + INS!Points(req.external, 35)
                       + INS!Points(n > 1, INS!Least(20, 10 * (n - 1))))
  BY <1>1 DEF INS!ExfiltrationRisk, INS!Cardinality, Cardinality
<1>3. PICK large \in BOOLEAN, external \in BOOLEAN : large = req.large /\ external = req.external
  BY INSFlags
<1>4. CASE n <= 1
  BY <1>1, <1>2, <1>3, <1>4 DEF INS!Least, INS!Points
<1>5. CASE n = 2
  BY <1>1, <1>2, <1>3, <1>5 DEF INS!Least, INS!Points
<1>6. CASE n >= 3
  BY <1>1, <1>2, <1>3, <1>6 DEF INS!Least, INS!Points
<1> QED BY <1>1, <1>4, <1>5, <1>6

(* Every score is a percentage.                                            *)
LEMMA PointsAdd ==
  /\ \A holds, points \in Nat : INS!Points(holds, points) \in 0..points
  /\ \A a \in Nat, b \in Nat : INS!Least(a, b) \in Nat /\ INS!Least(a, b) <= a
BY DEF INS!Points, INS!Least

LEMMA EmployeeRiskInRange ==
  ASSUME staffEvents \subseteq INS!Event, IsFiniteSet(staffEvents), NEW req
  PROVE  INS!EmployeeRisk(req) \in 0..100
<1>1. PICK own : own = {e \in staffEvents : e.tenant = req.tenant /\ e.employee = INS!Employee(req)}
  OBVIOUS
<1>2. own \subseteq staffEvents /\ IsFiniteSet(own) /\ Cardinality(own) \in Nat
  BY <1>1, FS_Subset, FS_CardinalityType
<1>3. PICK n \in Nat : n = Cardinality(own)
  BY <1>2
<1>4. PICK score : score = [e \in own |-> e.score]
  OBVIOUS
<1>5. score \in [own -> Nat] /\ \A e \in own : score[e] <= 100
  BY <1>2, <1>4 DEF INS!Event
<1>6. PICK g \in [SUBSET own -> Nat] : SumsUp(score, SUBSET own, g)
  BY <1>2, <1>5, SumsExist
<1>7. PICK total \in Nat : total = g[own] /\ total <= 100 * n
  BY <1>2, <1>3, <1>5, <1>6, SumIsBounded
<1>8. INS!MapThenSumSet(LAMBDA e : e.score, own) = total
  <2> DEFINE Adds(i) == i = [s \in SUBSET own |-> IF s = {} THEN 0
                              ELSE (CHOOSE x \in s : TRUE).score + i[s \ {CHOOSE x \in s : TRUE}]]
  <2>1. PICK iter : /\ iter = CHOOSE i : Adds(i)
                    /\ INS!MapThenSumSet(LAMBDA e : e.score, own) = iter[own]
    BY DEF INS!MapThenSumSet, INS!MapThenFoldSet
  <2>2. Adds(g)
    <3>1. ASSUME NEW s \in SUBSET own, s # {}
          PROVE  score[CHOOSE x \in s : TRUE] = (CHOOSE x \in s : TRUE).score
      BY <1>4, <3>1
    <3>2. g = [s \in SUBSET own |-> IF s = {} THEN 0
                 ELSE score[CHOOSE x \in s : TRUE] + g[s \ {CHOOSE x \in s : TRUE}]]
      BY <1>6 DEF SumsUp, OneOf
    <3> QED BY <3>1, <3>2
  <2>3. Adds(iter)
    <3> HIDE DEF Adds
    <3> QED BY <2>1, <2>2
  <2>4. SumsUp(score, SUBSET own, iter)
    <3>1. ASSUME NEW s \in SUBSET own, s # {}
          PROVE  score[CHOOSE x \in s : TRUE] = (CHOOSE x \in s : TRUE).score
      BY <1>4, <3>1
    <3> QED BY <2>3, <3>1 DEF SumsUp, OneOf
  <2>5. g[own] = iter[own]
    <3>1. own \in SUBSET own
      OBVIOUS
    <3>2. PICK h : h = score
      OBVIOUS
    <3>3. SumsUp(h, SUBSET own, iter) /\ \A x \in own : score[x] = h[x]
      BY <2>4, <3>2
    <3> QED BY <1>2, <1>6, <3>1, <3>3, SumsAgree
  <2> QED BY <1>7, <2>1, <2>5
<1>9. INS!EmployeeRisk(req) = IF n = 0 THEN 0 ELSE (2 * total + n) \div (2 * n)
  BY <1>1, <1>3, <1>8 DEF INS!EmployeeRisk, INS!Cardinality, Cardinality
<1>10. CASE n # 0
  <2>1. PICK a \in Nat, b \in Nat \ {0} : a = 2 * total + n /\ b = 2 * n
    BY <1>10
  <2>2. a < 101 * b
    BY <1>7, <2>1, <1>10
  <2>3. a \div b \in 0..100
    BY <2>2
  <2> QED BY <1>9, <1>10, <2>1, <2>3
<1> QED BY <1>9, <1>10

LEMMA ScoreInRange ==
  ASSUME staffAccesses \in Seq(INS!Access), attempts \subseteq DOMAIN staffCalls,
         staffCalls \in Seq(INS!Call), staffEvents \subseteq INS!Event, IsFiniteSet(staffEvents),
         NEW req \in StaffRequests
  PROVE  INS!Score(req) \in 0..100
<1>1. PICK rows : rows = INS!Recent(req.tenant, INS!Employee(req)) /\ IsFiniteSet(rows)
  BY INSCounts
<1>2. /\ IsFiniteSet({i \in rows : staffAccesses[i].lateUTC}) /\ IsFiniteSet(INS!OfPrivileged(rows))
  BY <1>1, FS_Subset DEF INS!OfPrivileged
<1>3. PICK total \in Nat, late \in Nat, privileged \in Nat :
        /\ total = INS!Cardinality(rows)
        /\ late = INS!Cardinality({i \in rows : staffAccesses[i].lateUTC})
        /\ privileged = INS!Cardinality(INS!OfPrivileged(rows))
  BY <1>1, <1>2, FS_CardinalityType DEF INS!Cardinality, Cardinality
<1>4. INS!AccessHistory(req) = [total |-> total, afterHours |-> late, privileged |-> privileged]
  BY <1>1, <1>3 DEF INS!AccessHistory
<1>5. req.kind = "access" => INS!Score(req) \in 0..100
  <2>1. INS!AccessRisk(req) \in 0..100
    BY <1>4 DEF INS!AccessRisk, INS!Points, INS!Least
  <2> QED BY <2>1 DEF INS!Score
<1>6. req.kind = "unusual" => INS!Score(req) \in 0..100
  <2>1. PICK often \in 0..35, few \in Nat, many \in Nat :
          INS!UnusualRisk(req) = INS!Least(100, often + few + many)
    <3>1. PICK often \in 0..35 :
            often = INS!Points(total >= INS!UnusualAccessThreshold(req.hours), 35)
      BY DEF INS!Points
    <3>2. PICK few \in Nat, many \in Nat :
            few = INS!Least(25, 5 * late) /\ many = INS!Least(30, 5 * privileged)
      BY DEF INS!Least
    <3>3. PICK h : /\ h = INS!AccessHistory(req) /\ h.total = total
                   /\ h.afterHours = late /\ h.privileged = privileged
      BY <1>4
    <3> QED BY <3>1, <3>2, <3>3 DEF INS!UnusualRisk
  <2>2. INS!UnusualRisk(req) \in 0..100
    BY <2>1 DEF INS!Least
  <2> QED BY <2>2 DEF INS!Score
<1>7. req.kind = "transfer" => INS!Score(req) \in 0..100
  BY INSCounts, ExfiltrationScores DEF INS!Score
<1>8. req.kind = "abuse" => INS!Score(req) \in 0..100
  <2>1. INS!AbuseRisk(req) \in 0..100
    BY DEF INS!AbuseRisk, INS!Points, INS!Least
  <2> QED BY <2>1 DEF INS!Score
<1>9. req.kind = "collusion" => INS!Score(req) \in 0..100
  <2>1. PICK n \in Nat : n = INS!Cardinality(INS!SharedResources(req))
    <3>1. INS!SharedResources(req) \subseteq {staffAccesses[i].resource : i \in DOMAIN staffAccesses}
      <4> SUFFICES ASSUME NEW r \in INS!SharedResources(req)
          PROVE  \E i \in DOMAIN staffAccesses : staffAccesses[i].resource = r
        OBVIOUS
      <4>1. PICK users : /\ users = {e \in INS!ToSet(req.employees) :
                              \E i \in INS!Recent(req.tenant, e) : staffAccesses[i].resource = r}
                         /\ Cardinality(users) >= 2
        BY DEF INS!SharedResources, INS!Cardinality, Cardinality
      <4>2. users # {}
        <5>1. Cardinality({}) = 0 /\ ~ (0 >= 2)
          BY FS_EmptySet
        <5> QED BY <4>1, <5>1
      <4> QED BY <4>1, <4>2 DEF INS!Recent
    <3>2. IsFiniteSet(DOMAIN staffAccesses)
      BY Domain
    <3>3. IsFiniteSet({staffAccesses[i].resource : i \in DOMAIN staffAccesses})
      <4>1. [i \in DOMAIN staffAccesses |-> staffAccesses[i].resource]
              \in Surjection(DOMAIN staffAccesses,
                             {staffAccesses[i].resource : i \in DOMAIN staffAccesses})
        BY DEF Surjection
      <4> QED BY <3>2, <4>1, FS_Surjection
    <3>4. Cardinality(INS!SharedResources(req)) \in Nat
      BY <3>1, <3>3, FS_Subset, FS_CardinalityType
    <3> QED BY <3>4 DEF INS!Cardinality, Cardinality
  <2>2. INS!CollusionRisk(req) \in 0..100
    <3>1. INS!CollusionRisk(req) = INS!Least(100, 35 * n)
      BY <2>1 DEF INS!CollusionRisk
    <3> QED BY <3>1 DEF INS!Least
  <2> QED BY <2>2 DEF INS!Score
<1>10. req.kind = "risk" => INS!Score(req) \in 0..100
  BY EmployeeRiskInRange DEF INS!Score
<1>11. req.kind \in {"access", "unusual", "transfer", "abuse", "collusion", "risk"}
  BY INSKinds DEF INS!Kinds
<1> QED BY <1>5, <1>6, <1>7, <1>8, <1>9, <1>10, <1>11

LEMMA INSInit == Init => INSInv
<1> SUFFICES ASSUME Init PROVE INSInv
  OBVIOUS
<1>1. INS!Init
  BY DEF Init
<1>2. staffCalls = << >> /\ staffCalls \in Seq(INS!Call) /\ DOMAIN staffCalls = {}
      /\ Len(staffCalls) = 0
  BY <1>1 DEF INS!Init
<1>3. INSTables
  BY <1>1, INSBounds, FS_EmptySet DEF INS!Init, INSTables
<1> QED BY <1>2, <1>3, INSBounds DEF INSInv, OneOfTwoCounts

LEMMA INSFacts ==
  ASSUME INSInv
  PROVE  /\ staffCalls \in Seq(INS!Call) /\ Len(staffCalls) \in Nat /\ Len(staffCalls) <= MaxStaffCalls
         /\ DOMAIN staffCalls = 1..Len(staffCalls) /\ DOMAIN staffCalls \subseteq 1..MaxStaffCalls
         /\ \A k \in DOMAIN staffCalls : /\ staffCalls[k] \in INS!Call
                                         /\ staffCalls[k].req \in StaffRequests
                                         /\ INSCallIsFine(k, staffCalls[k])
         /\ INSTables /\ OneOfTwoCounts
         /\ attempts \subseteq DOMAIN staffCalls
         /\ \A e \in staffEvents : e.call \in DOMAIN staffCalls
         /\ \A a \in staffAlerts : a.call \in DOMAIN staffCalls
<1>1. staffCalls \in Seq(INS!Call) /\ INSTables /\ OneOfTwoCounts /\ Len(staffCalls) <= MaxStaffCalls
  BY DEF INSInv
<1>2. DOMAIN staffCalls = 1..Len(staffCalls) /\ Len(staffCalls) \in Nat
      /\ \A k \in DOMAIN staffCalls : staffCalls[k] \in INS!Call
  BY <1>1, Domain
<1>3. DOMAIN staffCalls \subseteq 1..MaxStaffCalls
  BY <1>1, <1>2, INSBounds
<1>4. /\ attempts \subseteq DOMAIN staffCalls
      /\ \A e \in staffEvents : e.call \in DOMAIN staffCalls
      /\ \A a \in staffAlerts : a.call \in DOMAIN staffCalls
  BY <1>1 DEF INSTables
<1> QED BY <1>1, <1>2, <1>3, <1>4 DEF INSInv, INS!Call

(* Rows are only added, and by a call for itself.                          *)
INSGrows(c) ==
  /\ \A i \in DOMAIN staffAccesses :
       i \in DOMAIN staffAccesses' /\ staffAccesses'[i] = staffAccesses[i]
  /\ staffAccesses' \in Seq(INS!Access)
  /\ attempts \subseteq attempts' /\ attempts' \subseteq attempts \cup {c}
  /\ staffEvents \subseteq staffEvents' /\ \A e \in staffEvents' \ staffEvents : e.call = c
  /\ staffAlerts \subseteq staffAlerts' /\ \A a \in staffAlerts' \ staffAlerts : a.call = c
  /\ staffEvents' \subseteq INS!Event /\ staffAlerts' \subseteq INS!Alert
  /\ IsFiniteSet(staffEvents')
  /\ \A k \in DOMAIN staffCalls : k \in DOMAIN staffCalls' /\ staffCalls'[k].req = staffCalls[k].req
  /\ staffCalls' \in Seq(INS!Call) /\ attempts' \subseteq DOMAIN staffCalls'

LEMMA INSCountsGrow ==
  ASSUME INSInv, NEW c, INSGrows(c)
  PROVE  \A tenant, employee :
           /\ Cardinality(INS!OfPrivileged(INS!Recent(tenant, employee)))
                <= Cardinality(INS!OfPrivileged(INS!Recent(tenant, employee)))'
           /\ Cardinality(INS!Attempts(tenant, employee)) <= Cardinality(INS!Attempts(tenant, employee))'
           /\ Cardinality(INS!OfPrivileged(INS!Recent(tenant, employee))) \in Nat
           /\ Cardinality(INS!Attempts(tenant, employee)) \in Nat
           /\ Cardinality(INS!OfPrivileged(INS!Recent(tenant, employee)))' \in Nat
           /\ Cardinality(INS!Attempts(tenant, employee))' \in Nat
<1> TAKE tenant, employee
<1>1. PICK few, many : /\ few = INS!OfPrivileged(INS!Recent(tenant, employee))
                       /\ many = INS!OfPrivileged(INS!Recent(tenant, employee))'
  OBVIOUS
<1>2. PICK one, other : /\ one = INS!Attempts(tenant, employee)
                        /\ other = INS!Attempts(tenant, employee)'
  OBVIOUS
<1>3. few \subseteq many
  BY <1>1 DEF INSGrows, INS!OfPrivileged, INS!Recent
<1>4. one \subseteq other
  <2> SUFFICES ASSUME NEW k \in one PROVE k \in other
    OBVIOUS
  <2>1. k \in attempts /\ k \in attempts' /\ k \in DOMAIN staffCalls
    BY <1>2, INSFacts DEF INS!Attempts, INSGrows
  <2>2. staffCalls'[k].req = staffCalls[k].req
    BY <2>1 DEF INSGrows
  <2> QED BY <1>2, <2>1, <2>2 DEF INS!Attempts, INS!Employee
<1>5. IsFiniteSet(DOMAIN staffAccesses') /\ IsFiniteSet(DOMAIN staffCalls')
  <2>1. PICK rows \in Seq(INS!Access), now \in Seq(INS!Call) : rows = staffAccesses' /\ now = staffCalls'
    BY DEF INSGrows
  <2> QED BY <2>1, Domain
<1>6. IsFiniteSet(many) /\ IsFiniteSet(other)
  <2>1. many \subseteq DOMAIN staffAccesses' /\ other \subseteq DOMAIN staffCalls'
    BY <1>1, <1>2 DEF INS!OfPrivileged, INS!Recent, INS!Attempts, INSGrows
  <2> QED BY <1>5, <2>1, FS_Subset
<1> QED BY <1>1, <1>2, <1>3, <1>4, <1>6, FS_Subset, FS_CardinalityType DEF Cardinality

LEMMA SevereGroundsStay ==
  ASSUME INSInv, NEW c, INSGrows(c), NEW call, SevereGrounds(call)
  PROVE  SevereGrounds(call)'
<1>1. PICK tenant, employee : tenant = call.req.tenant /\ employee = INS!Employee(call.req)
  OBVIOUS
<1>2. PICK few \in Nat, many \in Nat, one \in Nat, other \in Nat :
        /\ few = Cardinality(INS!OfPrivileged(INS!Recent(tenant, employee)))
        /\ many = Cardinality(INS!OfPrivileged(INS!Recent(tenant, employee)))'
        /\ one = Cardinality(INS!Attempts(tenant, employee))
        /\ other = Cardinality(INS!Attempts(tenant, employee))'
        /\ few <= many /\ one <= other
  BY INSCountsGrow
<1>3. few >= 5 => many >= 5
  BY <1>2
<1>4. one >= 3 => other >= 3
  BY <1>2
<1>5. INS!Employee(call.req)' = INS!Employee(call.req)
  BY DEF INS!Employee
<1> QED BY <1>1, <1>2, <1>3, <1>4, <1>5 DEF SevereGrounds

LEMMA INSOthersKeep ==
  ASSUME INSInv, NEW c, INSGrows(c), NEW k, k # c, NEW call, INSCallIsFine(k, call)
  PROVE  INSCallIsFine(k, call)'
<1>1. RecordedBy(k)' = RecordedBy(k) /\ AlertedBy(k)' = AlertedBy(k)
  BY DEF INSGrows, RecordedBy, AlertedBy
<1>2. k \in attempts => k \in attempts'
  BY DEF INSGrows
<1>3. (\E a \in staffAlerts : a.call = k) => (\E a \in staffAlerts' : a.call = k)
  BY DEF INSGrows
<1>4. SevereGrounds(call) => SevereGrounds(call)'
  BY SevereGroundsStay
<1> QED BY <1>1, <1>2, <1>3, <1>4 DEF INSCallIsFine

LEMMA INSCallGoesOn ==
  ASSUME INSInv, NEW c \in DOMAIN staffCalls, NEW call \in INS!Call,
         staffCalls' = [staffCalls EXCEPT ![c] = call],
         call.req = staffCalls[c].req, staffCalls[c].at # "forbidden", call.at # "forbidden",
         INSGrows(c),
         LargeTransfer(call) =>
           \/ LargeTransfer(staffCalls[c]) /\ call.score = staffCalls[c].score
           \/ call.score >= 50
           \/ \A k \in DOMAIN staffCalls :
                k # c /\ LargeTransfer(staffCalls[k])
                => \/ staffCalls[k].req.tenant # call.req.tenant
                   \/ INS!Employee(staffCalls[k].req) # INS!Employee(call.req),
         INSCallIsFine(c, call)'
  PROVE  INSInv'
<1>1. /\ staffCalls' \in Seq(INS!Call) /\ Len(staffCalls') = Len(staffCalls)
      /\ DOMAIN staffCalls' = DOMAIN staffCalls
      /\ staffCalls'[c] = call
      /\ \A k \in DOMAIN staffCalls : k # c => staffCalls'[k] = staffCalls[k]
  BY INSFacts, Replaced
<1>2. ASSUME NEW k \in DOMAIN staffCalls
      PROVE  INSCallIsFine(k, staffCalls[k])'
  <2>1. CASE k = c
    BY <1>1, <2>1
  <2>2. CASE k # c
    <3>1. PICK other \in INS!Call : other = staffCalls[k] /\ staffCalls'[k] = other
      BY <1>1, <2>2, INSFacts
    <3>2. INSCallIsFine(k, other)'
      BY <2>2, <3>1, INSFacts, INSOthersKeep
    <3> QED BY <3>1, <3>2
  <2> QED BY <2>1, <2>2
<1>3. INSTables'
  <2>1. \A k : k \in DOMAIN staffCalls /\ staffCalls[k].at # "forbidden"
               => k \in DOMAIN staffCalls' /\ staffCalls'[k].at # "forbidden"
    BY <1>1
  <2>2. /\ attempts' \subseteq {k \in DOMAIN staffCalls' : staffCalls'[k].at # "forbidden"}
    BY <1>1, <2>1, INSFacts DEF INSTables, INSGrows
  <2>3. \A e \in staffEvents' : e.call \in DOMAIN staffCalls' /\ staffCalls'[e.call].at # "forbidden"
    BY <1>1, <2>1, INSFacts DEF INSTables, INSGrows
  <2>4. \A a \in staffAlerts' : a.call \in DOMAIN staffCalls' /\ staffCalls'[a.call].at # "forbidden"
    BY <1>1, <2>1, INSFacts DEF INSTables, INSGrows
  <2>5. /\ staffAccesses' \in Seq(INS!Access)
        /\ staffEvents' \subseteq INS!Event /\ staffAlerts' \subseteq INS!Alert
        /\ IsFiniteSet(staffEvents')
    BY DEF INSGrows
  <2> QED BY <2>2, <2>3, <2>4, <2>5 DEF INSTables, INS!Access, INS!Event, INS!Alert, INS!CallIds
<1>4. OneOfTwoCounts'
  <2> SUFFICES ASSUME NEW i \in DOMAIN staffCalls, NEW j \in DOMAIN staffCalls, i # j,
                      LargeTransfer(staffCalls'[i]), LargeTransfer(staffCalls'[j]),
                      staffCalls'[i].req.tenant = staffCalls'[j].req.tenant,
                      INS!Employee(staffCalls'[i].req) = INS!Employee(staffCalls'[j].req)
      PROVE  staffCalls'[i].score >= 50 \/ staffCalls'[j].score >= 50
    BY <1>1 DEF OneOfTwoCounts, LargeTransfer, INS!Employee
  <2>1. CASE i # c /\ j # c
    <3>1. staffCalls'[i] = staffCalls[i] /\ staffCalls'[j] = staffCalls[j]
      BY <1>1, <2>1
    <3> QED BY <3>1, INSFacts DEF OneOfTwoCounts
  <2>2. ASSUME NEW k \in DOMAIN staffCalls, k # c, LargeTransfer(call), LargeTransfer(staffCalls[k]),
               staffCalls[k].req.tenant = call.req.tenant,
               INS!Employee(staffCalls[k].req) = INS!Employee(call.req)
        PROVE  call.score >= 50 \/ staffCalls[k].score >= 50
    BY <2>2, INSFacts DEF OneOfTwoCounts
  <2>3. CASE i = c
    BY <1>1, <2>2, <2>3
  <2>4. CASE j = c
    BY <1>1, <2>2, <2>4
  <2> QED BY <2>1, <2>3, <2>4
<1> QED BY <1>1, <1>2, <1>3, <1>4, INSFacts DEF INSInv

LEMMA TwoMembers ==
  ASSUME NEW S, IsFiniteSet(S)
  PROVE  Cardinality(S) >= 2 <=> \E f, g \in S : f # g
<1>1. ASSUME NEW f \in S, NEW g \in S, f # g
      PROVE  Cardinality(S) >= 2
  <2>1. IsFiniteSet({f}) /\ Cardinality({f}) = 1
    BY FS_Singleton
  <2>2. {f} \cup {g} = {f, g} /\ g \notin {f}
    BY <1>1
  <2>3. Cardinality({f, g}) = 2 /\ {f, g} \subseteq S
    BY <2>1, <2>2, FS_AddElement
  <2> QED BY <2>3, FS_Subset, FS_CardinalityType
<1>2. ASSUME Cardinality(S) >= 2
      PROVE  \E f, g \in S : f # g
  <2>1. PICK f \in S : TRUE
    <3>1. S # {}
      BY <1>2, FS_EmptySet
    <3> QED BY <3>1
  <2>2. CASE S = {f}
    BY <1>2, <2>2, FS_Singleton
  <2>3. CASE S # {f}
    BY <2>1, <2>3
  <2> QED BY <2>2, <2>3
<1> QED BY <1>1, <1>2

LEMMA INSReceiveKeeps ==
  ASSUME INSInv, NEW req \in StaffRequests, INS!Receive(req)
  PROVE  INSInv'
<1>1. PICK first : first = IF INS!Authenticated(req.token) /\ INS!TenantMatches(req)
                           THEN Head(INS!Statements[req.kind]) ELSE "forbidden"
  OBVIOUS
<1>2. PICK call : call = [req |-> req, at |-> first, score |-> 0, next |-> 1]
  OBVIOUS
<1>3. staffCalls' = Append(staffCalls, call) /\ Len(staffCalls) < MaxStaffCalls
      /\ UNCHANGED <<staffAccesses, attempts, staffEvents, staffAlerts>>
  BY <1>1, <1>2 DEF INS!Receive
<1>4. /\ first \in {"log", "attempt", "count", "forbidden"}
      /\ first = "log" => req.kind \in {"access", "abuse"}
      /\ first = "attempt" => req.kind = "transfer"
      /\ first = "count" => req.kind # "transfer"
  BY <1>1, INSKinds, INSFirst DEF INS!Kinds
<1>5. /\ call \in INS!Call /\ call.at = first /\ call.req = req /\ call.score = 0 /\ call.next = 1
  BY <1>2, <1>4 DEF INS!Call, INS!Stages, INS!Ends
<1>6. PICK c : c = Len(staffCalls) + 1
  OBVIOUS
<1>7. /\ staffCalls' \in Seq(INS!Call) /\ Len(staffCalls') = c
      /\ DOMAIN staffCalls' = DOMAIN staffCalls \cup {c} /\ c \notin DOMAIN staffCalls
      /\ staffCalls'[c] = call
      /\ \A k \in DOMAIN staffCalls : staffCalls'[k] = staffCalls[k]
  BY <1>3, <1>5, <1>6, INSFacts, Appended
<1>8. INSGrows(c)
  BY <1>3, <1>7, INSFacts DEF INSGrows, INSTables
<1>9. INSCallIsFine(c, call)'
  <2>1. RecordedBy(c)' = {} /\ AlertedBy(c)' = {} /\ c \notin attempts
    BY <1>3, <1>7, INSFacts DEF RecordedBy, AlertedBy
  <2>2. Len(call.req.employees) \in Nat \ {0}
    BY <1>5, INSNames
  <2> QED BY <1>4, <1>5, <2>1, <2>2 DEF INSCallIsFine
<1>10. ASSUME NEW k \in DOMAIN staffCalls'
       PROVE  INSCallIsFine(k, staffCalls[k])'
  <2>1. CASE k = c
    BY <1>7, <1>9, <2>1
  <2>2. CASE k # c
    <3>1. PICK other \in INS!Call : other = staffCalls[k] /\ staffCalls'[k] = other
      BY <1>7, <2>2, INSFacts
    <3>2. INSCallIsFine(k, other)'
      BY <1>7, <1>8, <2>2, <3>1, INSFacts, INSOthersKeep
    <3> QED BY <3>1, <3>2
  <2> QED BY <2>1, <2>2
<1>11. INSTables'
  BY <1>3, <1>7, INSFacts DEF INSTables
<1>12. OneOfTwoCounts'
  <2>1. ~ LargeTransfer(call)
    BY <1>4, <1>5 DEF LargeTransfer
  <2> SUFFICES ASSUME NEW i \in DOMAIN staffCalls', NEW j \in DOMAIN staffCalls', i # j,
                      LargeTransfer(staffCalls'[i]), LargeTransfer(staffCalls'[j]),
                      staffCalls'[i].req.tenant = staffCalls'[j].req.tenant,
                      INS!Employee(staffCalls'[i].req) = INS!Employee(staffCalls'[j].req)
      PROVE  staffCalls'[i].score >= 50 \/ staffCalls'[j].score >= 50
    BY DEF OneOfTwoCounts, LargeTransfer, INS!Employee
  <2>2. i \in DOMAIN staffCalls /\ j \in DOMAIN staffCalls
    BY <1>7, <2>1
  <2>3. staffCalls'[i] = staffCalls[i] /\ staffCalls'[j] = staffCalls[j]
    BY <1>7, <2>2
  <2> QED BY <2>2, <2>3, INSFacts DEF OneOfTwoCounts
<1>13. Len(staffCalls') <= MaxStaffCalls
  BY <1>3, <1>6, <1>7, INSFacts, INSBounds
<1> QED BY <1>7, <1>10, <1>11, <1>12, <1>13 DEF INSInv

LEMMA PersistAccessKeeps ==
  ASSUME INSInv, NEW c \in DOMAIN staffCalls, INS!PersistAccess(c)
  PROVE  INSInv'
<1>1. PICK old \in INS!Call : old = staffCalls[c] /\ old.req \in StaffRequests
  BY INSFacts
<1>2. INSCallIsFine(c, old) /\ old.at = "log"
  BY <1>1, INSFacts DEF INS!PersistAccess
<1>3. INS!After(old) = "count"
  BY <1>2, INSAfter DEF INSCallIsFine, INS!Stages
<1>4. PICK call : call = [old EXCEPT !.at = "count"]
  OBVIOUS
<1>5. /\ call \in INS!Call /\ call.at = "count" /\ call.req = old.req
      /\ call.score = old.score /\ call.next = old.next
  BY <1>4 DEF INS!Call, INS!Stages
<1>6. staffCalls' = [staffCalls EXCEPT ![c] = call]
      /\ UNCHANGED <<attempts, staffEvents, staffAlerts>>
  BY <1>1, <1>3, <1>4 DEF INS!PersistAccess
<1>7. PICK row \in INS!Access : staffAccesses' = Append(staffAccesses, row)
  <2>1. PICK row : row = [tenant |-> old.req.tenant, employee |-> INS!Employee(old.req),
                          resource |-> old.req.resource, address |-> old.req.address,
                          lateUTC |-> old.req.lateUTC, recent |-> old.req.recent]
    OBVIOUS
  <2>2. row \in INS!Access
    BY <1>1, <2>1, INSPlaces, INSFlags, INSNames DEF INS!Access
  <2> QED BY <1>1, <2>1, <2>2 DEF INS!PersistAccess
<1>8. /\ staffCalls' \in Seq(INS!Call) /\ DOMAIN staffCalls' = DOMAIN staffCalls
      /\ \A k \in DOMAIN staffCalls : staffCalls'[k].req = staffCalls[k].req
  BY <1>1, <1>5, <1>6, INSFacts, Replaced
<1>9. INSGrows(c)
  <2>1. /\ staffAccesses' \in Seq(INS!Access)
        /\ \A i \in DOMAIN staffAccesses :
             i \in DOMAIN staffAccesses' /\ staffAccesses'[i] = staffAccesses[i]
    BY <1>7, INSFacts, Appended DEF INSTables
  <2> QED BY <1>6, <1>8, <2>1, INSFacts DEF INSGrows, INSTables
<1>10. INSCallIsFine(c, call)'
  <2>1. RecordedBy(c)' = RecordedBy(c) /\ AlertedBy(c)' = AlertedBy(c)
    BY <1>6 DEF RecordedBy, AlertedBy
  <2> QED BY <1>2, <1>5, <1>6, <2>1 DEF INSCallIsFine
<1> QED BY <1>1, <1>2, <1>5, <1>6, <1>9, <1>10, INSCallGoesOn DEF LargeTransfer

LEMMA PersistAttemptKeeps ==
  ASSUME INSInv, NEW c \in DOMAIN staffCalls, INS!PersistAttempt(c)
  PROVE  INSInv'
<1>1. PICK old \in INS!Call : old = staffCalls[c] /\ old.req \in StaffRequests
  BY INSFacts
<1>2. INSCallIsFine(c, old) /\ old.at = "attempt"
  BY <1>1, INSFacts DEF INS!PersistAttempt
<1>3. INS!After(old) = "count"
  BY <1>2, INSAfter DEF INSCallIsFine, INS!Stages
<1>4. PICK call : call = [old EXCEPT !.at = "count"]
  OBVIOUS
<1>5. /\ call \in INS!Call /\ call.at = "count" /\ call.req = old.req
      /\ call.score = old.score /\ call.next = old.next
  BY <1>4 DEF INS!Call, INS!Stages
<1>6. /\ staffCalls' = [staffCalls EXCEPT ![c] = call]
      /\ attempts' = attempts \cup {c}
      /\ UNCHANGED <<staffAccesses, staffEvents, staffAlerts>>
  BY <1>1, <1>3, <1>4 DEF INS!PersistAttempt
<1>7. /\ staffCalls' \in Seq(INS!Call) /\ DOMAIN staffCalls' = DOMAIN staffCalls
      /\ \A k \in DOMAIN staffCalls : staffCalls'[k].req = staffCalls[k].req
  BY <1>1, <1>5, <1>6, INSFacts, Replaced
<1>8. INSGrows(c)
  BY <1>6, <1>7, INSFacts DEF INSGrows, INSTables
<1>9. INSCallIsFine(c, call)'
  <2>1. RecordedBy(c)' = RecordedBy(c) /\ AlertedBy(c)' = AlertedBy(c)
    BY <1>6 DEF RecordedBy, AlertedBy
  <2> QED BY <1>2, <1>5, <1>6, <2>1 DEF INSCallIsFine
<1> QED BY <1>1, <1>2, <1>5, <1>6, <1>8, <1>9, INSCallGoesOn DEF LargeTransfer

LEMMA INSFailKeeps ==
  ASSUME INSInv, NEW c \in DOMAIN staffCalls, INS!Fail(c)
  PROVE  INSInv'
<1>1. PICK old \in INS!Call : old = staffCalls[c]
  BY INSFacts
<1>2. INSCallIsFine(c, old) /\ old.at \in INS!Stages
  BY <1>1, INSFacts DEF INS!Fail
<1>3. PICK call : call = [old EXCEPT !.at = "error"]
  OBVIOUS
<1>4. /\ call \in INS!Call /\ call.at = "error" /\ call.req = old.req
      /\ call.score = old.score /\ call.next = old.next
  BY <1>3 DEF INS!Call, INS!Ends
<1>5. /\ staffCalls' = [staffCalls EXCEPT ![c] = call]
      /\ UNCHANGED <<staffAccesses, attempts, staffEvents, staffAlerts>>
  BY <1>1, <1>3 DEF INS!Fail
<1>6. /\ staffCalls' \in Seq(INS!Call) /\ DOMAIN staffCalls' = DOMAIN staffCalls
      /\ \A k \in DOMAIN staffCalls : staffCalls'[k].req = staffCalls[k].req
  BY <1>1, <1>4, <1>5, INSFacts, Replaced
<1>7. INSGrows(c)
  BY <1>5, <1>6, INSFacts DEF INSGrows, INSTables
<1>8. INSCallIsFine(c, call)'
  <2>1. RecordedBy(c)' = RecordedBy(c) /\ AlertedBy(c)' = AlertedBy(c)
    BY <1>5 DEF RecordedBy, AlertedBy
  <2> QED BY <1>2, <1>4, <1>5, <2>1 DEF INSCallIsFine
<1> QED BY <1>1, <1>2, <1>4, <1>5, <1>7, <1>8, INSCallGoesOn DEF LargeTransfer, INS!Stages

LEMMA INSCountKeeps ==
  ASSUME INSInv, NEW c \in DOMAIN staffCalls, INS!Count(c)
  PROVE  INSInv'
<1>1. PICK old \in INS!Call : old = staffCalls[c] /\ old.req \in StaffRequests
  BY INSFacts
<1>2. INSCallIsFine(c, old) /\ old.at = "count"
  BY <1>1, INSFacts DEF INS!Count
<1>3. PICK stage \in {"done", "report"} :
        /\ stage = INS!After(old)
        /\ stage = IF old.req.kind = "risk" THEN "done" ELSE "report"
  BY <1>2, INSAfter DEF INSCallIsFine, INS!Stages
<1>4. PICK score \in 0..100 : score = INS!Score(old.req)
  BY <1>1, INSFacts, ScoreInRange DEF INSTables
<1>5. PICK call : call = [old EXCEPT !.score = score, !.at = stage]
  OBVIOUS
<1>6. /\ call \in INS!Call /\ call.at = stage /\ call.req = old.req
      /\ call.score = score /\ call.next = old.next
  BY <1>5 DEF INS!Call, INS!Stages, INS!Ends
<1>7. /\ staffCalls' = [staffCalls EXCEPT ![c] = call]
      /\ UNCHANGED <<staffAccesses, attempts, staffEvents, staffAlerts>>
  BY <1>1, <1>3, <1>4, <1>5 DEF INS!Count
<1>8. /\ staffCalls' \in Seq(INS!Call) /\ DOMAIN staffCalls' = DOMAIN staffCalls
      /\ \A k \in DOMAIN staffCalls : staffCalls'[k].req = staffCalls[k].req
  BY <1>1, <1>6, <1>7, INSFacts, Replaced
<1>9. INSGrows(c)
  BY <1>7, <1>8, INSFacts DEF INSGrows, INSTables
<1>10. PICK tenant, employee : tenant = old.req.tenant /\ employee = INS!Employee(old.req)
  OBVIOUS
<1>11. /\ IsFiniteSet(INS!OfPrivileged(INS!Recent(tenant, employee)))
       /\ IsFiniteSet(INS!Attempts(tenant, employee))
  BY INSFacts, INSCounts DEF INSTables
<1>12. SevereGrounds(call)
  <2>1. ASSUME call.req.kind = "abuse", score >= 60
        PROVE  Cardinality(INS!OfPrivileged(INS!Recent(tenant, employee))) >= 5
    BY <1>1, <1>4, <1>6, <1>10, <1>11, <2>1, AbuseNeedsAccesses DEF INS!Score
  <2>2. ASSUME call.req.kind = "transfer", score >= 60
        PROVE  /\ old.req.large
               /\ old.req.external \/ Cardinality(INS!Attempts(tenant, employee)) >= 3
    <3>1. score = INS!ExfiltrationRisk(old.req)
      BY <1>4, <1>6, <2>2 DEF INS!Score
    <3> QED BY <1>1, <1>10, <1>11, <2>2, <3>1, ExfiltrationScores
  <2> QED BY <1>6, <1>10, <2>1, <2>2 DEF SevereGrounds
<1>13. INSCallIsFine(c, call)'
  <2>1. RecordedBy(c)' = RecordedBy(c) /\ AlertedBy(c)' = AlertedBy(c)
    BY <1>7 DEF RecordedBy, AlertedBy
  <2>2. SevereGrounds(call)'
    BY <1>9, <1>12, SevereGroundsStay
  <2>3. call.next = 1 /\ Len(call.req.employees) \in Nat \ {0}
    BY <1>1, <1>2, <1>6, INSNames DEF INSCallIsFine
  <2>4. ASSUME call.req.kind = "collusion"
        PROVE  /\ RecordedBy(c) = {call.req.employees[i] : i \in 1..(call.next - 1)}
               /\ AlertedBy(c) = RecordedBy(c)
    <3>1. /\ RecordedBy(c) = {call.req.employees[i] : i \in 1..(call.next - 1)}
          /\ AlertedBy(c) \subseteq RecordedBy(c)
      BY <1>2, <1>6, <2>4 DEF INSCallIsFine
    <3>2. RecordedBy(c) = {}
      BY <2>3, <3>1
    <3> QED BY <3>1, <3>2
  <2>5. call.req.kind = "transfer" => c \in attempts'
    BY <1>2, <1>6, <1>7 DEF INSCallIsFine
  <2>6. call.at = "done" => call.req.kind = "risk"
    BY <1>3, <1>6
  <2>7. call.at # "log" /\ call.at # "attempt" /\ call.at # "count" /\ call.at # "forbidden"
        /\ (call.at = "report" => call.req.kind # "risk")
    BY <1>3, <1>6
  <2>8. call.next \in 1..(Len(call.req.employees) + 1) /\ call.next <= Len(call.req.employees)
    BY <2>3
  <2> QED BY <2>1, <2>2, <2>4, <2>5, <2>6, <2>7, <2>8 DEF INSCallIsFine
<1>14. ASSUME LargeTransfer(call), NEW k \in DOMAIN staffCalls, k # c, LargeTransfer(staffCalls[k]),
              staffCalls[k].req.tenant = call.req.tenant,
              INS!Employee(staffCalls[k].req) = INS!Employee(call.req)
       PROVE  call.score >= 50
  <2>1. c \in attempts
    BY <1>2, <1>6, <1>14 DEF INSCallIsFine, LargeTransfer
  <2>2. k \in attempts
    BY <1>14, INSFacts DEF INSCallIsFine, LargeTransfer
  <2>3. c \in INS!Attempts(tenant, employee) /\ k \in INS!Attempts(tenant, employee)
    BY <1>1, <1>6, <1>10, <1>14, <2>1, <2>2 DEF INS!Attempts
  <2>4. Cardinality(INS!Attempts(tenant, employee)) >= 2
    BY <1>11, <1>14, <2>3, TwoMembers
  <2>5. score = INS!ExfiltrationRisk(old.req) /\ old.req.large
    BY <1>4, <1>6, <1>14 DEF INS!Score, LargeTransfer
  <2> QED BY <1>1, <1>6, <1>10, <1>11, <2>4, <2>5, ExfiltrationScores
<1> QED BY <1>1, <1>2, <1>3, <1>6, <1>7, <1>9, <1>13, <1>14, INSCallGoesOn

LEMMA PersistEventAndAlertKeeps ==
  ASSUME INSInv, NEW c \in DOMAIN staffCalls, INS!PersistEventAndAlert(c)
  PROVE  INSInv'
<1>1. PICK old \in INS!Call : old = staffCalls[c] /\ old.req \in StaffRequests
  BY INSFacts
<1>2. INSCallIsFine(c, old) /\ old.at = "report" /\ c \in 1..MaxStaffCalls
  BY <1>1, INSFacts DEF INS!PersistEventAndAlert
<1>3. /\ old.req.employees \in Seq(Employees) /\ Len(old.req.employees) \in Nat
      /\ old.score \in 0..100
  BY <1>1, INSEmployees, INSNames DEF INS!Call
<1>30. PICK named \in Seq(Employees) : named = old.req.employees
  BY <1>3
<1>31. PICK next \in 1..Len(named) : next = old.next
  <2>1. old.next \in 1..(Len(old.req.employees) + 1) /\ old.next <= Len(old.req.employees)
    BY <1>2 DEF INSCallIsFine
  <2> QED BY <1>3, <1>30, <2>1
<1>32. PICK score \in 0..100 : score = old.score
  BY <1>3
<1>4. PICK employee \in Employees : employee = named[next]
  BY <1>30, <1>31, <1>32
<1>5. PICK stage \in {"done", "report"} :
        stage = IF old.req.kind # "collusion" \/ next = Len(named) THEN "done" ELSE "report"
  OBVIOUS
<1>6. PICK later \in Nat : later = next + 1
  OBVIOUS
<1>7. PICK call : call = [old EXCEPT !.at = stage, !.next = later]
  OBVIOUS
<1>8. /\ call \in INS!Call /\ call.at = stage /\ call.req = old.req
      /\ call.score = score /\ call.next = later
  BY <1>30, <1>31, <1>32, <1>7 DEF INS!Call, INS!Stages, INS!Ends
<1>9. PICK event \in INS!Event : event = [call |-> c, tenant |-> old.req.tenant,
                                          employee |-> employee, score |-> score]
  <2>1. old.req.tenant \in Tenants
    BY <1>1, INSPlaces
  <2> QED BY <1>2, <2>1 DEF INS!Event, INS!CallIds
<1>10. PICK alert \in INS!Alert : alert = [call |-> c, tenant |-> old.req.tenant,
                                           employee |-> employee, level |-> INS!RiskLevel(score)]
  <2>1. old.req.tenant \in Tenants
    BY <1>1, INSPlaces
  <2>2. INS!RiskLevel(score) \in {"critical", "high", "medium", "low"}
    BY DEF INS!RiskLevel
  <2> QED BY <1>2, <2>1, <2>2 DEF INS!Alert, INS!CallIds
<1>11. /\ staffEvents' = staffEvents \cup {event}
       /\ staffAlerts' = staffAlerts \cup (IF score >= 50 THEN {alert} ELSE {})
       /\ UNCHANGED <<staffAccesses, attempts>>
  BY <1>1, <1>30, <1>31, <1>32, <1>4, <1>9, <1>10 DEF INS!PersistEventAndAlert, INS!Reported, INS!AlertDue
<1>12. staffCalls' = [staffCalls EXCEPT ![c] = call]
  <2>1. staffCalls' = [staffCalls EXCEPT ![c].at = stage, ![c].next = later]
    BY <1>1, <1>2, <1>30, <1>31, <1>32, <1>5, <1>6 DEF INS!PersistEventAndAlert
  <2> QED BY <1>1, <1>7, <2>1
<1>13. /\ staffCalls' \in Seq(INS!Call) /\ DOMAIN staffCalls' = DOMAIN staffCalls
       /\ \A k \in DOMAIN staffCalls : staffCalls'[k].req = staffCalls[k].req
  BY <1>1, <1>8, <1>12, INSFacts, Replaced
<1>14. INSGrows(c)
  <2>1. IsFiniteSet(staffEvents')
    BY <1>11, INSFacts, FS_AddElement DEF INSTables
  <2>2. event.call = c /\ alert.call = c
    BY <1>9, <1>10
  <2>3. /\ staffAccesses' \in Seq(INS!Access) /\ attempts' \subseteq DOMAIN staffCalls'
        /\ staffEvents' \subseteq INS!Event /\ staffAlerts' \subseteq INS!Alert
    BY <1>11, <1>13, INSFacts DEF INSTables
  <2> QED BY <1>11, <1>13, <2>1, <2>2, <2>3 DEF INSGrows
<1>15. RecordedBy(c)' = RecordedBy(c) \cup {employee}
  BY <1>9, <1>11 DEF RecordedBy
<1>16. AlertedBy(c)' = IF score >= 50 THEN AlertedBy(c) \cup {employee} ELSE AlertedBy(c)
  BY <1>10, <1>11 DEF AlertedBy
<1>17. INSCallIsFine(c, call)'
  <2>1. SevereGrounds(call)'
    <3>1. SevereGrounds(call)
      BY <1>2, <1>30, <1>31, <1>32, <1>8 DEF INSCallIsFine, SevereGrounds
    <3> QED BY <1>14, <3>1, SevereGroundsStay
  <2>2. ASSUME call.req.kind = "collusion"
        PROVE  /\ RecordedBy(c)' = {call.req.employees[i] : i \in 1..(call.next - 1)}
               /\ AlertedBy(c)' \subseteq RecordedBy(c)'
               /\ call.score >= 50 => AlertedBy(c)' = RecordedBy(c)'
    <3>1. /\ RecordedBy(c) = {named[i] : i \in 1..(next - 1)}
          /\ AlertedBy(c) \subseteq RecordedBy(c)
          /\ score >= 50 => AlertedBy(c) = RecordedBy(c)
      BY <1>2, <1>30, <1>31, <1>32, <1>8, <2>2 DEF INSCallIsFine
    <3>2. {named[i] : i \in 1..(next - 1)} \cup {named[next]} = {named[i] : i \in 1..(later - 1)}
      <4>1. 1..(later - 1) = 1..(next - 1) \cup {next}
        BY <1>30, <1>31, <1>32, <1>6
      <4> QED BY <4>1
    <3>3. RecordedBy(c)' = {named[i] : i \in 1..(later - 1)}
      BY <1>4, <1>15, <3>1, <3>2
    <3>4. call.req.employees = named /\ call.next = later
      BY <1>8, <1>30
    <3> QED BY <1>8, <1>15, <1>16, <3>1, <3>3, <3>4
  <2>3. ASSUME call.req.kind = "transfer", call.score >= 50
        PROVE  \E a \in staffAlerts' : a.call = c
    BY <1>8, <1>10, <1>11, <2>3
  <2>4. call.req.kind = "transfer" => c \in attempts'
    BY <1>2, <1>8, <1>11 DEF INSCallIsFine
  <2>5. /\ call.next \in 1..(Len(call.req.employees) + 1)
        /\ call.at = "report" => call.next <= Len(call.req.employees) /\ call.req.kind # "risk"
        /\ call.at = "done" /\ call.req.kind = "collusion" => call.next = Len(call.req.employees) + 1
    <3>1. Len(named) \in Nat
      OBVIOUS
    <3>2. old.req.kind # "risk"
      BY <1>2 DEF INSCallIsFine
    <3> QED BY <1>30, <1>31, <1>32, <1>5, <1>6, <1>8, <3>1, <3>2
  <2>6. call.at # "log" /\ call.at # "attempt" /\ call.at # "count" /\ call.at # "forbidden"
    BY <1>5, <1>8
  <2> QED BY <2>1, <2>2, <2>3, <2>4, <2>5, <2>6 DEF INSCallIsFine
<1>18. LargeTransfer(call) => LargeTransfer(old) /\ call.score = old.score
  BY <1>2, <1>30, <1>31, <1>32, <1>8 DEF LargeTransfer
<1> QED BY <1>1, <1>2, <1>5, <1>8, <1>12, <1>14, <1>17, <1>18, INSCallGoesOn

LEMMA INSInvHolds == Spec => []INSInv
<1>1. INSInv /\ [Next]_vars => INSInv'
  <2> SUFFICES ASSUME INSInv, [Next]_vars PROVE INSInv'
    OBVIOUS
  <2>1. CASE INS!Next
    BY <2>1, INSReceiveKeeps, PersistAccessKeeps, PersistAttemptKeeps, INSCountKeeps,
       PersistEventAndAlertKeeps, INSFailKeeps DEF INS!Next
  <2>2. CASE UNCHANGED staffVars
    <3>1. OneOfTwoCounts'
      BY <2>2, INSFacts DEF staffVars, OneOfTwoCounts, LargeTransfer, INS!Employee
    <3>2. INSTables'
      BY <2>2, INSFacts DEF staffVars, INSTables, INS!Access, INS!Event, INS!Alert, INS!CallIds
    <3>3. ASSUME NEW k \in DOMAIN staffCalls
          PROVE  INSCallIsFine(k, staffCalls[k])'
      <4>1. PICK call : call = staffCalls[k]
        OBVIOUS
      <4>2. INSCallIsFine(k, call) /\ staffCalls'[k] = call
        BY <2>2, <4>1, INSFacts DEF staffVars
      <4>3. /\ RecordedBy(k)' = RecordedBy(k) /\ AlertedBy(k)' = AlertedBy(k)
            /\ attempts' = attempts /\ staffAlerts' = staffAlerts
        BY <2>2 DEF staffVars, RecordedBy, AlertedBy
      <4>4. SevereGrounds(call)' = SevereGrounds(call)
        BY <2>2 DEF staffVars, SevereGrounds, INS!Attempts, INS!OfPrivileged, INS!Recent,
           INS!Employee
      <4>5. INSCallIsFine(k, call)'
        BY <4>2, <4>3, <4>4 DEF INSCallIsFine
      <4> QED BY <4>2, <4>5
    <3> QED BY <2>2, <3>1, <3>2, <3>3, INSFacts DEF INSInv, staffVars
  <2> QED BY <2>1, <2>2, ServicesStep
<1> QED BY <1>1, INSInit, PTL DEF Spec

(* Of two large transfers one is alerted, an answer of 60 and more has its *)
(* accesses, its volume or its attempts behind it, and a collusion is on   *)
(* the record of everybody it names, however the handlers interleave       *)
(* (detectDataExfiltration, detectAuthorizationAbuse, detectCollusion).    *)
THEOREM InsidersAreOnRecord == Spec => []AnswersMatchRecords
<1>1. INSInv => AnswersMatchRecords
  <2> SUFFICES ASSUME INSInv PROVE AnswersMatchRecords
    OBVIOUS
  <2>1. INS!RepeatedTransfersAreAlerted
    <3> SUFFICES ASSUME NEW tenant \in Tenants, NEW employee \in Employees, NEW large,
                        large = {c \in INS!Done("transfer", tenant, employee) : staffCalls[c].req.large},
                        Cardinality(large) >= 2
        PROVE  \E a \in staffAlerts : a.call \in large
      BY DEF INS!RepeatedTransfersAreAlerted, INS!Cardinality, Cardinality
    <3>1. large \subseteq DOMAIN staffCalls /\ IsFiniteSet(large)
      <4>1. IsFiniteSet(DOMAIN staffCalls)
        BY INSFacts, Domain
      <4> QED BY <4>1, FS_Subset DEF INS!Done
    <3>2. PICK c \in large, k \in large : c # k
      BY <3>1, TwoMembers
    <3>3. ASSUME NEW i \in large
          PROVE  /\ i \in DOMAIN staffCalls /\ LargeTransfer(staffCalls[i])
                 /\ staffCalls[i].at = "done" /\ staffCalls[i].req.kind = "transfer"
                 /\ staffCalls[i].req.tenant = tenant
                 /\ INS!Employee(staffCalls[i].req) = employee
      BY DEF INS!Done, LargeTransfer
    <3>4. staffCalls[c].score >= 50 \/ staffCalls[k].score >= 50
      BY <3>2, <3>3, INSFacts DEF OneOfTwoCounts
    <3>5. PICK i \in large : staffCalls[i].score >= 50
      BY <3>4
    <3>6. \E a \in staffAlerts : a.call = i
      BY <3>3, <3>5, INSFacts DEF INSCallIsFine
    <3> QED BY <3>6
  <2>2. INS!SevereAnswersHaveGrounds
    BY INSFacts DEF INS!SevereAnswersHaveGrounds, INSCallIsFine, SevereGrounds, INS!Cardinality,
       Cardinality
  <2>3. INS!CollusionIsOnRecord
    <3> SUFFICES ASSUME NEW c \in DOMAIN staffCalls, staffCalls[c].req.kind = "collusion",
                        NEW named, named = staffCalls[c].req.employees
        PROVE  /\ staffCalls[c].at = "done" => RecordedBy(c) = INS!ToSet(named)
               /\ RecordedBy(c) = INS!ToSet(SubSeq(named, 1, staffCalls[c].next - 1))
               /\ staffCalls[c].score >= 50 => AlertedBy(c) = RecordedBy(c)
      BY DEF INS!CollusionIsOnRecord, RecordedBy, AlertedBy, INS!AlertDue
    <3>1. PICK call \in INS!Call : call = staffCalls[c] /\ INSCallIsFine(c, call)
      BY INSFacts
    <3>2. named \in Seq(Employees) /\ Len(named) \in Nat
      BY INSFacts, INSEmployees
    <3>3. PICK n \in 0..Len(named) : n = call.next - 1
      BY <3>1, <3>2 DEF INSCallIsFine
    <3>4. RecordedBy(c) = {named[i] : i \in 1..n}
      BY <3>1, <3>3 DEF INSCallIsFine
    <3>5. DOMAIN SubSeq(named, 1, n) = 1..n /\ \A i \in 1..n : SubSeq(named, 1, n)[i] = named[i]
      BY <3>2
    <3>6. INS!ToSet(SubSeq(named, 1, n)) = {named[i] : i \in 1..n}
      BY <3>5 DEF INS!ToSet
    <3>7. call.at = "done" => n = Len(named)
      BY <3>1, <3>2, <3>3 DEF INSCallIsFine
    <3>8. INS!ToSet(named) = {named[i] : i \in 1..Len(named)}
      BY <3>2 DEF INS!ToSet
    <3>9. call.score >= 50 => AlertedBy(c) = RecordedBy(c)
      BY <3>1 DEF INSCallIsFine
    <3> QED BY <3>1, <3>3, <3>4, <3>6, <3>7, <3>8, <3>9
  <2> QED BY <2>1, <2>2, <2>3 DEF AnswersMatchRecords, INS!AnswersMatchRecords
<1> QED BY <1>1, INSInvHolds, PTL

LEMMA INSTypes == INSInv => INS!TypeOK
<1> SUFFICES ASSUME INSInv PROVE INS!TypeOK
  OBVIOUS
<1> QED BY INSFacts DEF INS!TypeOK, INSTables

-----------------------------------------------------------------------------
(* chargeback-fraud-detector.                                              *)

(* What holds of a call.  It is at a statement of its handler; past        *)
(* persistTransaction its facts are the stored ones, past the look-up of a *)
(* dispute its transaction is the customer's; once it has counted, the     *)
(* count and a severe verdict have their rows.                             *)
PersistedFacts(call) ==
  LET req == call.req
      row == payments[<<req.tenant, req.txn>>]
  IN call.req.kind \in {"risk", "predict", "friendly"}
     /\ call.at \in {"count", "record", "decide", "done"}
     => row # NoRow /\ CB!Facts(row) = CB!Facts(req)

FoundTransaction(call) ==
  call.req.kind = "dispute" /\ call.at \in {"count", "record", "decide", "done"}
  => /\ payments[<<call.req.tenant, call.req.txn>>] # NoRow
     /\ payments[<<call.req.tenant, call.req.txn>>].customer = call.req.customer

HonestCount(call) ==
  LET req == call.req
  IN call.verdict # "none" =>
       /\ Cardinality(call.seen \cap CB!DisputesOf(req.tenant, req.customer, CB!Window(req)))
            <= call.own
       /\ call.own <= Cardinality(CB!DisputesOf(req.tenant, req.customer, 366))

Grounds(c, call) ==
  LET req == call.req
      own == CB!DisputesOf(req.tenant, req.customer, 366)
      theirs == CB!MerchantDisputes(req.tenant, req.merchant, 366)
  IN /\ call.verdict = "friendly_fraud" =>
          \/ own # {}
          \/ /\ Cardinality(CB!CasesOf(req.tenant, req.customer) \ {c}) >= 2
             /\ req.amount \in HighValue /\ req.foreign
     /\ call.verdict = "decline_or_manual_review" => Cardinality(own \cup theirs) >= 2
     /\ call.verdict = "escalate_for_fraud_review" => Cardinality(own) >= 5

(* What was counted, and what it is compared with when it is judged.       *)
CountedWell(c, call) ==
  /\ call.seen \subseteq CB!DisputesOf(call.req.tenant, call.req.customer, 366)
  /\ HonestCount(call)
  /\ Grounds(c, call)

RefusedForACause(call) ==
  \/ StoredAs[call.req.amount] # call.req.amount
  \/ StoredPayments[<<call.req.tenant, call.req.txn>>] # NoRow
  \/ \E k \in DOMAIN cardCalls :
       /\ cardCalls[k].req.tenant = call.req.tenant /\ cardCalls[k].req.txn = call.req.txn
       /\ CB!Facts(cardCalls[k].req) # CB!Facts(call.req)

CBCallIsFine(c, call) ==
  /\ call.at = "persist" => call.req.kind \in {"risk", "predict", "friendly"}
  /\ call.at = "exists" => call.req.kind = "dispute"
  /\ call.at = "record" => call.req.kind \in {"friendly", "abuse", "dispute"}
  /\ call.at = "decide" => call.req.kind \notin {"customer", "merchant"}
  /\ call.at \in {"persist", "exists", "count", "conflict", "missing", "forbidden"} =>
       call.verdict = "none" /\ c \notin cases
  /\ call.at = "conflict" => RefusedForACause(call)
  /\ PersistedFacts(call)
  /\ FoundTransaction(call)
  /\ CountedWell(c, call)

(* A row of today was written by a request that named its transaction.     *)
PaymentsHaveAuthors ==
  \A tenant \in Tenants, txn \in Transactions :
    payments[<<tenant, txn>>] # NoRow =>
      \/ StoredPayments[<<tenant, txn>>] # NoRow
      \/ \E k \in DOMAIN cardCalls :
           /\ cardCalls[k].req.tenant = tenant /\ cardCalls[k].req.txn = txn
           /\ payments[<<tenant, txn>>] = CB!NewPayment(cardCalls[k].req)

CBTables ==
  /\ payments \in [Tenants \X Transactions -> CB!StoredPayment \cup {NoRow}]
  /\ disputes \in [Tenants \X DisputeIds -> CB!Dispute \cup {NoRow}]
  /\ cases \subseteq DOMAIN cardCalls
  /\ cases \cup patterns \cup cardDecisions \subseteq
       {c \in DOMAIN cardCalls : cardCalls[c].at # "forbidden"}
  /\ \A c \in cardDecisions : cardCalls[c].at = "done"

CBInv ==
  /\ \E n \in 0..MaxCardCalls : DOMAIN cardCalls = 1..n
  /\ \A c \in DOMAIN cardCalls : cardCalls[c] \in CB!Call /\ CBCallIsFine(c, cardCalls[c])
  /\ CBTables
  /\ CB!DisputesNameTheirTransaction
  /\ PaymentsHaveAuthors

LEMMA CBBounds ==
  /\ IsFiniteSet(Transactions) /\ IsFiniteSet(DisputeIds) /\ Ageing \subseteq DisputeIds
  /\ 0 \in DisputeAges /\ 366 \in DisputeAges /\ DisputeAges \subseteq 0..366
  /\ MaxCardCalls \in Nat
BY ChargebackAssumption DEF CB!ConstantsAssumption, CB!IsFiniteSet, IsFiniteSet

LEMMA CBRows == NoRow \notin CB!Payment /\ NoRow \notin CB!Dispute
BY ChargebackAssumption DEF CB!ConstantsAssumption

LEMMA CBAmounts ==
  StoredAs \in [Amounts -> Amounts] /\ \A a \in Amounts : StoredAs[StoredAs[a]] = StoredAs[a]
BY ChargebackAssumption DEF CB!ConstantsAssumption

LEMMA CBRequest == \A req \in CardRequests : req \in CB!Request
BY ChargebackAssumption DEF CB!ConstantsAssumption

LEMMA CBRequests ==
  ASSUME NEW req \in CardRequests
  PROVE  /\ req.kind \in CB!Kinds /\ req.tenant \in Tenants /\ req.customer \in Customers
         /\ req.merchant \in Merchants /\ req.txn \in Transactions /\ req.amount \in Amounts
         /\ req.dispute \in DisputeIds /\ req.window \in 1..3650
BY CBRequest DEF CB!Request

LEMMA CBFlags ==
  ASSUME NEW req \in CardRequests PROVE req.foreign \in BOOLEAN /\ req.brief \in BOOLEAN
BY CBRequest DEF CB!Request

LEMMA CBStored ==
  /\ StoredPayments \in [Tenants \X Transactions -> CB!StoredPayment \cup {NoRow}]
  /\ StoredDisputes \in [Tenants \X DisputeIds -> CB!Dispute \cup {NoRow}]
BY ChargebackAssumption DEF CB!ConstantsAssumption

LEMMA CBStoredDisputes ==
  ASSUME NEW tenant \in Tenants, NEW d \in DisputeIds, StoredDisputes[<<tenant, d>>] # NoRow
  PROVE  /\ StoredPayments[<<tenant, StoredDisputes[<<tenant, d>>].txn>>] # NoRow
         /\ StoredPayments[<<tenant, StoredDisputes[<<tenant, d>>].txn>>].customer
              = StoredDisputes[<<tenant, d>>].customer
<1>1. PICK at : at = <<tenant, d>>
  OBVIOUS
<1>2. at \in Tenants \X DisputeIds /\ at[1] = tenant /\ StoredDisputes[at] # NoRow
  BY <1>1
<1>3. /\ StoredPayments[<<at[1], StoredDisputes[at].txn>>] # NoRow
      /\ StoredPayments[<<at[1], StoredDisputes[at].txn>>].customer = StoredDisputes[at].customer
  BY <1>2, ChargebackAssumption DEF CB!ConstantsAssumption
<1> QED BY <1>1, <1>2, <1>3

(* The place of a handler's statement, and the one after it.               *)
LEMMA CBPlaced ==
  ASSUME NEW s, NEW n \in Nat, Len(s) = n, NEW i \in 1..n,
         \A j \in 1..n : s[j] = s[i] => j = i
  PROVE  (CHOOSE j \in 1..Len(s) : s[j] = s[i]) = i
<1>1. \E j \in 1..Len(s) : s[j] = s[i]
  OBVIOUS
<1> QED BY <1>1

LEMMA CBAfter ==
  ASSUME NEW call \in CB!Call, call.at \in CB!Stages,
         call.at = "persist" => call.req.kind \in {"risk", "predict", "friendly"},
         call.at = "exists" => call.req.kind = "dispute",
         call.at = "record" => call.req.kind \in {"friendly", "abuse", "dispute"},
         call.at = "decide" => call.req.kind \notin {"customer", "merchant"}
  PROVE  /\ call.at \in {"persist", "exists"} => CB!After(call) = "count"
         /\ call.at = "count" =>
              CB!After(call) = IF call.req.kind \in {"friendly", "abuse", "dispute"} THEN "record"
                               ELSE IF call.req.kind \in {"risk", "predict"} THEN "decide"
                               ELSE "done"
         /\ call.at = "record" => CB!After(call) = "decide"
         /\ call.at = "decide" => CB!After(call) = "done"
<1>1. call.req.kind \in CB!Kinds
  BY CBRequests DEF CB!Call
<1>2. PICK todo : todo = CB!Statements[call.req.kind]
  OBVIOUS
<1>3. CB!After(call) = IF call.at = todo[Len(todo)] THEN "done"
                       ELSE todo[1 + CHOOSE i \in 1..Len(todo) : todo[i] = call.at]
  BY <1>2 DEF CB!After
<1>4. CASE call.req.kind \in {"risk", "predict"}
  <2>1. todo = <<"persist", "count", "decide">>
    BY <1>2, <1>4 DEF CB!Statements, CB!AnalyzeTransaction, CB!PredictChargeback
  <2>2. Len(todo) = 3 /\ todo[1] = "persist" /\ todo[2] = "count" /\ todo[3] = "decide"
    BY <2>1
  <2>3. (CHOOSE j \in 1..Len(todo) : todo[j] = todo[1]) = 1
    BY <2>2, CBPlaced
  <2>4. (CHOOSE j \in 1..Len(todo) : todo[j] = todo[2]) = 2
    BY <2>2, CBPlaced
  <2> QED BY <1>3, <1>4, <2>2, <2>3, <2>4
<1>5. CASE call.req.kind = "friendly"
  <2>1. todo = <<"persist", "count", "record", "decide">>
    BY <1>2, <1>5 DEF CB!Statements, CB!DetectFriendlyFraud
  <2>2. Len(todo) = 4 /\ todo[1] = "persist" /\ todo[2] = "count" /\ todo[3] = "record"
        /\ todo[4] = "decide"
    BY <2>1
  <2>3. (CHOOSE j \in 1..Len(todo) : todo[j] = todo[1]) = 1
    BY <2>2, CBPlaced
  <2>4. (CHOOSE j \in 1..Len(todo) : todo[j] = todo[2]) = 2
    BY <2>2, CBPlaced
  <2>5. (CHOOSE j \in 1..Len(todo) : todo[j] = todo[3]) = 3
    BY <2>2, CBPlaced
  <2> QED BY <1>3, <1>5, <2>2, <2>3, <2>4, <2>5
<1>6. CASE call.req.kind = "dispute"
  <2>1. todo = <<"exists", "count", "record", "decide">>
    BY <1>2, <1>6 DEF CB!Statements, CB!AnalyzeDispute
  <2>2. Len(todo) = 4 /\ todo[1] = "exists" /\ todo[2] = "count" /\ todo[3] = "record"
        /\ todo[4] = "decide"
    BY <2>1
  <2>3. (CHOOSE j \in 1..Len(todo) : todo[j] = todo[1]) = 1
    BY <2>2, CBPlaced
  <2>4. (CHOOSE j \in 1..Len(todo) : todo[j] = todo[2]) = 2
    BY <2>2, CBPlaced
  <2>5. (CHOOSE j \in 1..Len(todo) : todo[j] = todo[3]) = 3
    BY <2>2, CBPlaced
  <2> QED BY <1>3, <1>6, <2>2, <2>3, <2>4, <2>5
<1>7. CASE call.req.kind = "abuse"
  <2>1. todo = <<"count", "record", "decide">>
    BY <1>2, <1>7 DEF CB!Statements, CB!DetectChargebackAbuse
  <2>2. Len(todo) = 3 /\ todo[1] = "count" /\ todo[2] = "record" /\ todo[3] = "decide"
    BY <2>1
  <2>3. (CHOOSE j \in 1..Len(todo) : todo[j] = todo[1]) = 1
    BY <2>2, CBPlaced
  <2>4. (CHOOSE j \in 1..Len(todo) : todo[j] = todo[2]) = 2
    BY <2>2, CBPlaced
  <2> QED BY <1>3, <1>7, <2>2, <2>3, <2>4
<1>8. CASE call.req.kind \in {"customer", "merchant"}
  <2>1. todo = <<"count">>
    BY <1>2, <1>8 DEF CB!Statements, CB!GetRiskScore
  <2>2. todo[1] = "count" /\ Len(todo) = 1
    BY <2>1
  <2> QED BY <1>3, <1>8, <2>2
<1> QED BY <1>1, <1>4, <1>5, <1>6, <1>7, <1>8 DEF CB!Kinds

(* The handlers' first statements.                                         *)
LEMMA CBFirst ==
  ASSUME NEW kind \in CB!Kinds
  PROVE  CB!Statements[kind][1] =
           IF kind \in {"risk", "predict", "friendly"} THEN "persist"
           ELSE IF kind = "dispute" THEN "exists" ELSE "count"
BY DEF CB!Kinds, CB!Statements, CB!AnalyzeTransaction, CB!DetectFriendlyFraud,
       CB!DetectChargebackAbuse, CB!PredictChargeback, CB!AnalyzeDispute, CB!GetRiskScore

LEMMA CBInit == Init => CBInv
<1> SUFFICES ASSUME Init PROVE CBInv
  OBVIOUS
<1>1. CB!Init
  BY DEF Init
<1>2. DOMAIN cardCalls = {} /\ DOMAIN cardCalls = 1..0 /\ cases = {} /\ patterns = {}
      /\ cardDecisions = {} /\ payments = StoredPayments /\ disputes = StoredDisputes
  BY <1>1 DEF CB!Init
<1>3. CBTables
  BY <1>2, CBStored DEF CBTables
<1>4. CB!DisputesNameTheirTransaction
  BY <1>2, CBStored, CBStoredDisputes DEF CB!DisputesNameTheirTransaction
<1>5. PaymentsHaveAuthors
  BY <1>2 DEF PaymentsHaveAuthors
<1>6. 0 \in 0..MaxCardCalls
  BY CBBounds
<1> QED BY <1>2, <1>3, <1>4, <1>5, <1>6 DEF CBInv

LEMMA CBFacts ==
  ASSUME CBInv
  PROVE  /\ \A k \in DOMAIN cardCalls : /\ k \in 1..MaxCardCalls
                                        /\ cardCalls[k] \in CB!Call
                                        /\ cardCalls[k].req \in CardRequests
                                        /\ CBCallIsFine(k, cardCalls[k])
         /\ IsFiniteSet(DOMAIN cardCalls) /\ CBTables
         /\ CB!DisputesNameTheirTransaction /\ PaymentsHaveAuthors
         /\ cases \subseteq DOMAIN cardCalls
         /\ \A tenant \in Tenants, txn \in Transactions :
              payments[<<tenant, txn>>] # NoRow => payments[<<tenant, txn>>] \in CB!StoredPayment
         /\ \A tenant \in Tenants, d \in DisputeIds :
              disputes[<<tenant, d>>] # NoRow => disputes[<<tenant, d>>] \in CB!Dispute
<1>1. PICK n \in 0..MaxCardCalls : DOMAIN cardCalls = 1..n
  BY DEF CBInv
<1>2. IsFiniteSet(DOMAIN cardCalls) /\ \A k \in DOMAIN cardCalls : k \in 1..MaxCardCalls
  BY <1>1, FS_Interval, CBBounds
<1>3. /\ \A k \in DOMAIN cardCalls : /\ cardCalls[k] \in CB!Call
                                     /\ cardCalls[k].req \in CardRequests
                                     /\ CBCallIsFine(k, cardCalls[k])
      /\ CBTables /\ CB!DisputesNameTheirTransaction /\ PaymentsHaveAuthors
  BY DEF CBInv, CB!Call
<1>4. cases \subseteq DOMAIN cardCalls
  BY <1>3 DEF CBTables
<1>5. ASSUME NEW tenant \in Tenants, NEW txn \in Transactions, payments[<<tenant, txn>>] # NoRow
      PROVE  payments[<<tenant, txn>>] \in CB!StoredPayment
  <2>1. <<tenant, txn>> \in Tenants \X Transactions
    OBVIOUS
  <2> QED BY <1>3, <1>5, <2>1 DEF CBTables
<1>6. ASSUME NEW tenant \in Tenants, NEW d \in DisputeIds, disputes[<<tenant, d>>] # NoRow
      PROVE  disputes[<<tenant, d>>] \in CB!Dispute
  <2>1. <<tenant, d>> \in Tenants \X DisputeIds
    OBVIOUS
  <2> QED BY <1>3, <1>6, <2>1 DEF CBTables
<1> QED BY <1>2, <1>3, <1>4, <1>5, <1>6

(* Payments never change, disputes only age and change their status, and a *)
(* step adds no case but that of its call.                                 *)
CBGrows(c) ==
  /\ \A tenant \in Tenants, txn \in Transactions :
       payments[<<tenant, txn>>] # NoRow => payments'[<<tenant, txn>>] = payments[<<tenant, txn>>]
  /\ \A tenant \in Tenants, d \in DisputeIds :
       disputes[<<tenant, d>>] # NoRow =>
         /\ disputes'[<<tenant, d>>] # NoRow
         /\ disputes'[<<tenant, d>>].customer = disputes[<<tenant, d>>].customer
         /\ disputes'[<<tenant, d>>].txn = disputes[<<tenant, d>>].txn
         /\ disputes'[<<tenant, d>>].age >= disputes[<<tenant, d>>].age
  /\ \A tenant \in Tenants, d \in DisputeIds :
       disputes'[<<tenant, d>>] # NoRow => disputes'[<<tenant, d>>] \in CB!Dispute
  /\ cases \subseteq cases' /\ cases' \subseteq cases \cup {c}
  /\ cases' \subseteq DOMAIN cardCalls' /\ IsFiniteSet(DOMAIN cardCalls')
  /\ \A k \in DOMAIN cardCalls : k \in DOMAIN cardCalls' /\ cardCalls'[k].req = cardCalls[k].req

LEMMA CBCountsGrow ==
  ASSUME CBInv, NEW c, CBGrows(c), NEW req \in CardRequests
  PROVE  /\ CB!DisputesOf(req.tenant, req.customer, 366)
              \subseteq CB!DisputesOf(req.tenant, req.customer, 366)'
         /\ CB!MerchantDisputes(req.tenant, req.merchant, 366)
              \subseteq CB!MerchantDisputes(req.tenant, req.merchant, 366)'
         /\ CB!CasesOf(req.tenant, req.customer) \subseteq CB!CasesOf(req.tenant, req.customer)'
         /\ IsFiniteSet(CB!CasesOf(req.tenant, req.customer)')
         /\ \A window \in Nat :
              CB!DisputesOf(req.tenant, req.customer, 366)
                \cap CB!DisputesOf(req.tenant, req.customer, window)'
              \subseteq CB!DisputesOf(req.tenant, req.customer, window)
<1>1. req.tenant \in Tenants
  BY CBRequests
<1>2. ASSUME NEW d \in DisputeIds, disputes[<<req.tenant, d>>] # NoRow
      PROVE  /\ disputes'[<<req.tenant, d>>] # NoRow
             /\ disputes[<<req.tenant, d>>].txn \in Transactions
             /\ disputes'[<<req.tenant, d>>].customer = disputes[<<req.tenant, d>>].customer
             /\ disputes'[<<req.tenant, d>>].txn = disputes[<<req.tenant, d>>].txn
             /\ disputes'[<<req.tenant, d>>].age \in 0..366 /\ disputes[<<req.tenant, d>>].age \in 0..366
             /\ disputes'[<<req.tenant, d>>].age >= disputes[<<req.tenant, d>>].age
             /\ disputes'[<<req.tenant, d>>].age <= 366
  <2>1. disputes[<<req.tenant, d>>] \in CB!Dispute /\ disputes'[<<req.tenant, d>>] # NoRow
    BY <1>1, <1>2, CBFacts DEF CBGrows
  <2>2. disputes'[<<req.tenant, d>>] \in CB!Dispute
    BY <1>1, <2>1 DEF CBGrows
  <2>3. /\ disputes[<<req.tenant, d>>].txn \in Transactions
        /\ disputes'[<<req.tenant, d>>].age \in 0..366 /\ disputes[<<req.tenant, d>>].age \in 0..366
    <3>1. /\ disputes[<<req.tenant, d>>].txn \in Transactions
          /\ disputes'[<<req.tenant, d>>].age \in DisputeAges
          /\ disputes[<<req.tenant, d>>].age \in DisputeAges
      BY <2>1, <2>2 DEF CB!Dispute
    <3>2. DisputeAges \subseteq 0..366
      BY CBBounds
    <3> QED BY <3>1, <3>2
  <2>4. disputes'[<<req.tenant, d>>].age <= 366
    BY <2>3
  <2> QED BY <1>1, <1>2, <2>1, <2>3, <2>4 DEF CBGrows
<1>3. ASSUME NEW d \in CB!DisputesOf(req.tenant, req.customer, 366)
      PROVE  d \in CB!DisputesOf(req.tenant, req.customer, 366)'
  BY <1>2 DEF CB!DisputesOf
<1>4. ASSUME NEW d \in CB!MerchantDisputes(req.tenant, req.merchant, 366)
      PROVE  d \in CB!MerchantDisputes(req.tenant, req.merchant, 366)'
  <2>1. /\ d \in DisputeIds /\ disputes[<<req.tenant, d>>] # NoRow
        /\ payments[<<req.tenant, disputes[<<req.tenant, d>>].txn>>] # NoRow
        /\ payments[<<req.tenant, disputes[<<req.tenant, d>>].txn>>].merchant = req.merchant
    BY DEF CB!MerchantDisputes
  <2>2. payments'[<<req.tenant, disputes[<<req.tenant, d>>].txn>>]
          = payments[<<req.tenant, disputes[<<req.tenant, d>>].txn>>]
    BY <1>1, <1>2, <2>1 DEF CBGrows
  <2>3. /\ disputes'[<<req.tenant, d>>] # NoRow /\ disputes'[<<req.tenant, d>>].age <= 366
        /\ disputes'[<<req.tenant, d>>].txn = disputes[<<req.tenant, d>>].txn
    BY <1>2, <2>1
  <2> QED BY <2>1, <2>2, <2>3 DEF CB!MerchantDisputes
<1>5. ASSUME NEW k \in CB!CasesOf(req.tenant, req.customer)
      PROVE  k \in CB!CasesOf(req.tenant, req.customer)'
  <2>1. k \in cases /\ k \in cases' /\ cardCalls'[k].req = cardCalls[k].req
    BY CBFacts DEF CB!CasesOf, CBGrows
  <2> QED BY <2>1 DEF CB!CasesOf
<1>6. IsFiniteSet(CB!CasesOf(req.tenant, req.customer)')
  BY FS_Subset DEF CB!CasesOf, CBGrows
<1>7. ASSUME NEW window \in Nat, NEW d \in CB!DisputesOf(req.tenant, req.customer, 366),
             d \in CB!DisputesOf(req.tenant, req.customer, window)'
      PROVE  d \in CB!DisputesOf(req.tenant, req.customer, window)
  <2>1. d \in DisputeIds /\ disputes[<<req.tenant, d>>] # NoRow
        /\ disputes[<<req.tenant, d>>].customer = req.customer
        /\ disputes'[<<req.tenant, d>>].age <= window
    BY <1>7 DEF CB!DisputesOf
  <2>2. PICK old \in 0..366, new \in 0..366 :
          old = disputes[<<req.tenant, d>>].age /\ new = disputes'[<<req.tenant, d>>].age /\ new >= old
    <3>1. /\ disputes[<<req.tenant, d>>].age \in 0..366 /\ disputes'[<<req.tenant, d>>].age \in 0..366
          /\ disputes'[<<req.tenant, d>>].age >= disputes[<<req.tenant, d>>].age
      BY <1>2, <2>1
    <3> QED BY <3>1
  <2>3. new <= window
    BY <2>1, <2>2, Zenon
  <2>4. old <= window
    BY <2>2, <2>3
  <2> QED BY <2>1, <2>2, <2>4 DEF CB!DisputesOf
<1> QED BY <1>3, <1>4, <1>5, <1>6, <1>7

LEMMA WindowIsNat ==
  ASSUME NEW req \in CardRequests
  PROVE  \E window \in Nat : window = CB!Window(req)
<1>1. PICK days \in Nat : days = req.window
  <2>1. PICK n \in Nat : n = 3650
    OBVIOUS
  <2>2. req.window \in 1..n
    BY <2>1, CBRequests
  <2> QED BY <2>2
<1>2. CASE req.kind = "abuse"
  <2>1. CB!Window(req) = days
    BY <1>1, <1>2 DEF CB!Window
  <2> WITNESS days \in Nat
  <2> QED BY <2>1
<1>3. CASE req.kind # "abuse"
  <2>1. CB!Window(req) = 365
    BY <1>3 DEF CB!Window
  <2> WITNESS 365 \in Nat
  <2> QED BY <2>1
<1> QED BY <1>2, <1>3

(* What a call has counted stays well counted, whatever stage it is at.    *)
LEMMA CountedWellStays ==
  ASSUME CBInv, NEW c, CBGrows(c), NEW k, NEW old, NEW call,
         old.req \in CardRequests, call.req = old.req, call.seen = old.seen, call.own = old.own,
         call.verdict = old.verdict, call.own \in Nat, CountedWell(k, old)
  PROVE  CountedWell(k, call)'
<1>1. PICK req \in CardRequests : req = old.req
  OBVIOUS
<1>2. PICK window \in Nat : window = CB!Window(req)
  BY WindowIsNat
<1>3. PICK own, more : /\ own = CB!DisputesOf(req.tenant, req.customer, 366)
                       /\ more = CB!DisputesOf(req.tenant, req.customer, 366)'
  OBVIOUS
<1>4. PICK recent, later : /\ recent = CB!DisputesOf(req.tenant, req.customer, window)
                           /\ later = CB!DisputesOf(req.tenant, req.customer, window)'
  OBVIOUS
<1>5. PICK theirs, others : /\ theirs = CB!MerchantDisputes(req.tenant, req.merchant, 366)
                            /\ others = CB!MerchantDisputes(req.tenant, req.merchant, 366)'
  OBVIOUS
<1>6. PICK few, many : /\ few = CB!CasesOf(req.tenant, req.customer)
                       /\ many = CB!CasesOf(req.tenant, req.customer)'
  OBVIOUS
<1>7. /\ own \subseteq more /\ theirs \subseteq others /\ few \subseteq many
      /\ IsFiniteSet(many) /\ own \cap later \subseteq recent
  BY <1>2, <1>3, <1>4, <1>5, <1>6, CBCountsGrow
<1>8. IsFiniteSet(own) /\ IsFiniteSet(more) /\ IsFiniteSet(recent)
      /\ IsFiniteSet(theirs) /\ IsFiniteSet(others)
  <2>1. /\ own \subseteq DisputeIds /\ more \subseteq DisputeIds /\ recent \subseteq DisputeIds
        /\ theirs \subseteq DisputeIds /\ others \subseteq DisputeIds
    BY <1>3, <1>4, <1>5 DEF CB!DisputesOf, CB!MerchantDisputes
  <2> QED BY <2>1, CBBounds, FS_Subset
<1>9. old.seen \subseteq own
  BY <1>1, <1>3 DEF CountedWell
<1>10. old.seen \subseteq more
  BY <1>7, <1>9
<1>11. HonestCount(call)'
  <2>1. CASE old.verdict = "none"
    BY <2>1 DEF HonestCount
  <2>2. CASE old.verdict # "none"
    <3>1. Cardinality(old.seen \cap recent) <= old.own /\ old.own <= Cardinality(own)
      BY <1>1, <1>2, <1>3, <1>4, <2>2 DEF CountedWell, HonestCount
    <3>2. old.seen \cap later \subseteq old.seen \cap recent
      BY <1>7, <1>9
    <3>3. IsFiniteSet(old.seen \cap recent)
      BY <1>8, FS_Subset
    <3>4. Cardinality(old.seen \cap later) <= Cardinality(old.seen \cap recent)
          /\ Cardinality(old.seen \cap later) \in Nat /\ Cardinality(old.seen \cap recent) \in Nat
      BY <3>2, <3>3, FS_Subset, FS_CardinalityType
    <3>5. Cardinality(own) <= Cardinality(more)
          /\ Cardinality(own) \in Nat /\ Cardinality(more) \in Nat
      BY <1>7, <1>8, FS_Subset, FS_CardinalityType
    <3>6. Cardinality(old.seen \cap later) <= call.own /\ call.own <= Cardinality(more)
      BY <3>1, <3>4, <3>5
    <3>7. CB!Window(req)' = window
      BY <1>2 DEF CB!Window
    <3> QED BY <1>1, <1>3, <1>4, <3>6, <3>7 DEF HonestCount
  <2> QED BY <2>1, <2>2
<1>12. Grounds(k, call)'
  <2>1. /\ old.verdict = "friendly_fraud" =>
             \/ own # {}
             \/ /\ Cardinality(few \ {k}) >= 2
                /\ req.amount \in HighValue /\ req.foreign
        /\ old.verdict = "decline_or_manual_review" => Cardinality(own \cup theirs) >= 2
        /\ old.verdict = "escalate_for_fraud_review" => Cardinality(own) >= 5
    BY <1>1, <1>3, <1>5, <1>6 DEF CountedWell, Grounds
  <2>2. /\ few \ {k} \subseteq many \ {k} /\ IsFiniteSet(many \ {k})
        /\ own \cup theirs \subseteq more \cup others /\ IsFiniteSet(more \cup others)
    BY <1>7, <1>8, FS_Subset, FS_Union
  <2>3. /\ Cardinality(few \ {k}) <= Cardinality(many \ {k})
        /\ Cardinality(few \ {k}) \in Nat /\ Cardinality(many \ {k}) \in Nat
    BY <2>2, FS_Subset, FS_CardinalityType
  <2>4. /\ Cardinality(own \cup theirs) <= Cardinality(more \cup others)
        /\ Cardinality(own \cup theirs) \in Nat /\ Cardinality(more \cup others) \in Nat
    BY <2>2, FS_Subset, FS_CardinalityType
  <2>5. Cardinality(own) <= Cardinality(more) /\ Cardinality(own) \in Nat /\ Cardinality(more) \in Nat
    BY <1>7, <1>8, FS_Subset, FS_CardinalityType
  <2>6. /\ Cardinality(few \ {k}) >= 2 => Cardinality(many \ {k}) >= 2
        /\ Cardinality(own \cup theirs) >= 2 => Cardinality(more \cup others) >= 2
        /\ Cardinality(own) >= 5 => Cardinality(more) >= 5
        /\ own # {} => more # {}
    BY <1>7, <2>3, <2>4, <2>5
  <2> QED BY <1>1, <1>3, <1>5, <1>6, <2>1, <2>6 DEF Grounds
<1> QED BY <1>1, <1>3, <1>10, <1>11, <1>12 DEF CountedWell

(* What a query counts is a number.                                        *)
LEMMA DisputesAreFinite ==
  \A tenant, customer, merchant, age :
    /\ IsFiniteSet(CB!DisputesOf(tenant, customer, age))
    /\ Cardinality(CB!DisputesOf(tenant, customer, age)) \in Nat
    /\ IsFiniteSet(CB!MerchantDisputes(tenant, merchant, age))
    /\ Cardinality(CB!MerchantDisputes(tenant, merchant, age)) \in Nat
<1> TAKE tenant, customer, merchant, age
<1>1. /\ CB!DisputesOf(tenant, customer, age) \subseteq DisputeIds
      /\ CB!MerchantDisputes(tenant, merchant, age) \subseteq DisputeIds
  BY DEF CB!DisputesOf, CB!MerchantDisputes
<1> QED BY <1>1, CBBounds, FS_Subset, FS_CardinalityType

LEMMA LeastOf ==
  ASSUME NEW a \in Nat, NEW b \in Nat
  PROVE  CB!Least(a, b) \in Nat /\ CB!Least(a, b) <= a /\ CB!Least(a, b) <= b
BY DEF CB!Least

LEMMA MerchantRiskInRange ==
  ASSUME NEW tenant, NEW merchant
  PROVE  CB!MerchantRisk(tenant, merchant) \in Nat
<1>1. PICK sold : sold = {t \in Transactions : /\ payments[<<tenant, t>>] # NoRow
                                               /\ payments[<<tenant, t>>].merchant = merchant}
  OBVIOUS
<1>2. PICK n \in Nat, m \in Nat :
        n = Cardinality(sold) /\ m = Cardinality(CB!MerchantDisputes(tenant, merchant, 366))
  <2>1. IsFiniteSet(sold)
    <3>1. sold \subseteq Transactions
      BY <1>1
    <3> QED BY <3>1, CBBounds, FS_Subset
  <2> QED BY <2>1, DisputesAreFinite, FS_CardinalityType
<1>3. CB!MerchantRisk(tenant, merchant)
        = IF n = 0 THEN 0 ELSE CB!Least(100, (200 * m + n) \div (2 * n))
  BY <1>1, <1>2 DEF CB!MerchantRisk, CB!Cardinality, Cardinality
<1>4. CASE n # 0
  <2>1. PICK a \in Nat, b \in Nat \ {0} : a = 200 * m + n /\ b = 2 * n
    BY <1>4
  <2>2. PICK part \in Nat : part = a \div b
    BY <2>1
  <2>3. CB!MerchantRisk(tenant, merchant) = CB!Least(100, part)
    BY <1>3, <1>4, <2>1, <2>2
  <2> QED BY <2>3, LeastOf
<1> QED BY <1>3, <1>4

LEMMA CustomerRiskInRange ==
  ASSUME CBInv, NEW tenant, NEW customer
  PROVE  CB!CustomerRisk(tenant, customer) \in Nat
<1>1. PICK about : about = CB!DecisionsAbout(tenant, customer)
  OBVIOUS
<1>2. about \subseteq DOMAIN cardCalls /\ IsFiniteSet(about)
  <2>1. about \subseteq DOMAIN cardCalls
    BY <1>1, CBFacts DEF CB!DecisionsAbout, CBTables
  <2> QED BY <2>1, CBFacts, FS_Subset
<1>3. PICK n \in Nat : n = Cardinality(about)
  BY <1>2, FS_CardinalityType
<1>4. PICK score : score = [k \in about |->
                      CB!RatioScore(cardCalls[k].own, CB!AbuseThreshold(cardCalls[k].req.window))]
  OBVIOUS
<1>5. score \in [about -> Nat]
  <2> SUFFICES ASSUME NEW k \in about PROVE score[k] \in Nat
    BY <1>4
  <2>1. PICK own \in Nat : own = cardCalls[k].own
    BY <1>2, CBFacts DEF CB!Call
  <2>2. PICK limit \in {3, 5, 8} : limit = CB!AbuseThreshold(cardCalls[k].req.window)
    BY DEF CB!AbuseThreshold
  <2>3. PICK part \in Nat : part = (own * 100) \div limit
    OBVIOUS
  <2>4. score[k] = CB!Least(100, part)
    BY <1>4, <2>1, <2>2, <2>3 DEF CB!RatioScore
  <2> QED BY <2>4, LeastOf
<1>6. PICK g \in [SUBSET about -> Nat] : SumsUp(score, SUBSET about, g)
  BY <1>2, <1>5, SumsExist
<1>7. PICK total \in Nat : total = g[about]
  <2>1. about \in SUBSET about
    OBVIOUS
  <2> QED BY <1>6, <2>1
<1>8. CB!MapThenSumSet(LAMBDA k : CB!RatioScore(cardCalls[k].own,
                                    CB!AbuseThreshold(cardCalls[k].req.window)), about) = total
  <2> DEFINE Points(k) == CB!RatioScore(cardCalls[k].own, CB!AbuseThreshold(cardCalls[k].req.window))
             Adds(i) == i = [s \in SUBSET about |-> IF s = {} THEN 0
                              ELSE Points(CHOOSE x \in s : TRUE) + i[s \ {CHOOSE x \in s : TRUE}]]
  <2>1. PICK iter : /\ iter = CHOOSE i : Adds(i)
                    /\ CB!MapThenSumSet(LAMBDA k : CB!RatioScore(cardCalls[k].own,
                         CB!AbuseThreshold(cardCalls[k].req.window)), about) = iter[about]
    BY DEF CB!MapThenSumSet, CB!MapThenFoldSet
  <2>2. \A s \in SUBSET about :
          s # {} => score[CHOOSE x \in s : TRUE] = Points(CHOOSE x \in s : TRUE)
    <3> SUFFICES ASSUME NEW s \in SUBSET about, s # {}
        PROVE  score[CHOOSE x \in s : TRUE] = Points(CHOOSE x \in s : TRUE)
      OBVIOUS
    <3>1. PICK one : one = CHOOSE x \in s : TRUE
      OBVIOUS
    <3>2. one \in about
      BY <3>1
    <3>3. score[one] = Points(one)
      BY <1>4, <3>2
    <3> QED BY <3>1, <3>3
  <2> HIDE DEF Points
  <2>3. Adds(g)
    <3>1. g = [s \in SUBSET about |-> IF s = {} THEN 0
                 ELSE score[CHOOSE x \in s : TRUE] + g[s \ {CHOOSE x \in s : TRUE}]]
      BY <1>6 DEF SumsUp, OneOf
    <3> QED BY <2>2, <3>1
  <2>4. Adds(iter)
    <3> HIDE DEF Adds
    <3> QED BY <2>1, <2>3
  <2>5. SumsUp(score, SUBSET about, iter)
    BY <2>2, <2>4 DEF SumsUp, OneOf
  <2>6. g[about] = iter[about]
    <3>1. about \in SUBSET about
      OBVIOUS
    <3>2. PICK h : h = score
      OBVIOUS
    <3>3. SumsUp(h, SUBSET about, iter) /\ \A x \in about : score[x] = h[x]
      BY <2>5, <3>2
    <3> QED BY <1>2, <1>6, <3>1, <3>3, SumsAgree
  <2> QED BY <1>7, <2>1, <2>6
<1>9. CB!CustomerRisk(tenant, customer)
        = IF n = 0 THEN 0 ELSE CB!Least(100, (2 * (total + 5 * n * n) + n) \div (2 * n))
  BY <1>1, <1>3, <1>8 DEF CB!CustomerRisk, CB!Cardinality, Cardinality
<1>10. CASE n # 0
  <2>1. PICK square \in Nat : square = 5 * n * n
    OBVIOUS
  <2>2. PICK a \in Nat, b \in Nat \ {0} : a = 2 * (total + square) + n /\ b = 2 * n
    BY <1>10
  <2>3. PICK part \in Nat : part = a \div b
    BY <2>2
  <2>4. CB!CustomerRisk(tenant, customer) = CB!Least(100, part)
    BY <1>9, <1>10, <2>1, <2>2, <2>3
  <2> QED BY <2>4, LeastOf
<1> QED BY <1>9, <1>10

(* What a severe verdict needs of the two counts.                          *)
LEMMA FriendlyNeeds ==
  ASSUME NEW req \in CardRequests, NEW own \in Nat, NEW other \in Nat,
         CB!FriendlyFraud(req, own, other), own = 0
  PROVE  other >= 2 /\ req.amount \in HighValue /\ req.foreign
<1>1. PICK high \in BOOLEAN, foreign \in BOOLEAN :
        high = (req.amount \in HighValue) /\ foreign = req.foreign
  <2>1. (req.amount \in HighValue) \in BOOLEAN /\ req.foreign \in BOOLEAN
    BY CBFlags
  <2> QED BY <2>1
<1>2. PICK few \in Nat : few = CB!Least(35, 18 * other)
  BY LeastOf
<1>3. few <= 35 /\ few <= 18 * other
  BY <1>2 DEF CB!Least
<1>4. /\ 5 + 0 + few + CB!Points(high, 15) + CB!Points(foreign, 5) >= 55
      /\ ~ (other >= 2 /\ high /\ ~ foreign)
  <2>1. CB!Least(45, 12 * own) = 0
    BY DEF CB!Least
  <2> QED BY <1>1, <1>2, <2>1 DEF CB!FriendlyFraud
<1>5. high /\ few >= 30
  BY <1>3, <1>4 DEF CB!Points
<1>6. other >= 2
  BY <1>3, <1>5
<1> QED BY <1>1, <1>4, <1>5, <1>6

LEMMA DeclineNeeds ==
  ASSUME NEW req \in CardRequests, NEW own \in Nat, NEW other \in Nat,
         CB!TransactionRisk(req, own, other) >= 70
  PROVE  own >= 2 \/ other >= 2
<1>1. PICK high \in BOOLEAN, foreign \in BOOLEAN :
        high = (req.amount \in HighValue) /\ foreign = req.foreign
  <2>1. (req.amount \in HighValue) \in BOOLEAN /\ req.foreign \in BOOLEAN
    BY CBFlags
  <2> QED BY <2>1
<1>2. PICK few \in Nat, some \in Nat :
        few = CB!Least(35, 10 * own) /\ some = CB!Least(25, 5 * other)
  <2>1. 10 * own \in Nat /\ 5 * other \in Nat
    OBVIOUS
  <2> QED BY <2>1, LeastOf
<1>3. few <= 10 * own /\ some <= 5 * other
  BY <1>2 DEF CB!Least
<1>4. CB!Points(high, 25) <= 25 /\ CB!Points(foreign, 15) <= 15
      /\ CB!Points(high, 25) \in Nat /\ CB!Points(foreign, 15) \in Nat
  BY DEF CB!Points
<1>5. PICK h \in Nat, f \in Nat : h = CB!Points(high, 25) /\ f = CB!Points(foreign, 15)
                                  /\ h <= 25 /\ f <= 15
  BY <1>4
<1>6. CB!Least(100, h + f + few + some) >= 70
  BY <1>1, <1>2, <1>5 DEF CB!TransactionRisk
<1>7. h + f + few + some >= 70
  BY <1>6 DEF CB!Least
<1> QED BY <1>3, <1>5, <1>7

LEMMA EscalationNeeds ==
  ASSUME NEW req \in CardRequests, NEW own \in Nat, CB!Likelihood(req, own) >= 70
  PROVE  own >= 5
<1>1. PICK brief \in BOOLEAN : brief = req.brief
  BY CBFlags
<1>2. CASE own <= 4
  BY <1>1, <1>2 DEF CB!Likelihood, CB!Least, CB!Points
<1> QED BY <1>2

LEMMA VerdictNeeds ==
  ASSUME NEW req \in CardRequests, NEW own \in Nat, NEW other \in Nat
  PROVE  LET verdict == CB!Verdict(req, own, other)
         IN /\ verdict \in CB!Verdicts
            /\ verdict = "friendly_fraud" =>
                 req.kind = "friendly" /\ CB!FriendlyFraud(req, own, other)
            /\ verdict = "decline_or_manual_review" =>
                 req.kind = "predict" /\ CB!TransactionRisk(req, own, other) >= 70
            /\ verdict = "escalate_for_fraud_review" =>
                 req.kind = "dispute" /\ CB!Likelihood(req, own) >= 70
<1>1. \A score : CB!RiskLevel(score) \in {"critical", "high", "medium", "low"}
  BY DEF CB!RiskLevel
<1>2. \A score, severe, middle, mild :
        /\ CB!Graded(score, severe, middle, mild) \in {severe, middle, mild}
        /\ ~ (score >= 70) => CB!Graded(score, severe, middle, mild) \in {middle, mild}
  BY DEF CB!Graded
<1>3. CASE req.kind = "risk"
  BY <1>1, <1>3 DEF CB!Verdict, CB!Verdicts
<1>4. CASE req.kind = "predict"
  <2>1. PICK score : score = CB!TransactionRisk(req, own, other)
    OBVIOUS
  <2>2. CB!Verdict(req, own, other)
          = CB!Graded(score, "decline_or_manual_review", "step_up_verification", "approve")
    BY <1>4, <2>1 DEF CB!Verdict
  <2> QED BY <1>2, <1>4, <2>1, <2>2 DEF CB!Verdicts
<1>5. CASE req.kind = "friendly"
  BY <1>5 DEF CB!Verdict, CB!Verdicts
<1>6. CASE req.kind = "abuse"
  BY <1>6 DEF CB!Verdict, CB!Verdicts
<1>7. CASE req.kind = "dispute"
  <2>1. PICK score : score = CB!Likelihood(req, own)
    OBVIOUS
  <2>2. CB!Verdict(req, own, other)
          = CB!Graded(score, "escalate_for_fraud_review", "request_additional_evidence",
                      "continue_standard_dispute_review")
    BY <1>7, <2>1 DEF CB!Verdict
  <2> QED BY <1>2, <1>7, <2>1, <2>2 DEF CB!Verdicts
<1>8. CASE req.kind \in {"customer", "merchant"}
  BY <1>1, <1>8 DEF CB!Verdict, CB!Verdicts
<1>9. req.kind \in CB!Kinds
  BY CBRequests
<1> QED BY <1>3, <1>4, <1>5, <1>6, <1>7, <1>8, <1>9 DEF CB!Kinds

LEMMA RecentDisputes ==
  ASSUME CBInv, NEW req \in CardRequests, NEW window
  PROVE  /\ CB!DisputesOf(req.tenant, req.customer, window)
              \subseteq CB!DisputesOf(req.tenant, req.customer, 366)
         /\ CB!MerchantDisputes(req.tenant, req.merchant, window)
              \subseteq CB!MerchantDisputes(req.tenant, req.merchant, 366)
<1>1. req.tenant \in Tenants
  BY CBRequests
<1>2. ASSUME NEW d \in DisputeIds, disputes[<<req.tenant, d>>] # NoRow
      PROVE  disputes[<<req.tenant, d>>].age <= 366
  <2>1. disputes[<<req.tenant, d>>].age \in DisputeAges
    BY <1>1, <1>2, CBFacts DEF CB!Dispute
  <2>2. DisputeAges \subseteq 0..366
    BY CBBounds
  <2>3. PICK age \in 0..366 : age = disputes[<<req.tenant, d>>].age
    BY <2>1, <2>2
  <2>4. age <= 366
    OBVIOUS
  <2> QED BY <2>3, <2>4
<1> QED BY <1>2 DEF CB!DisputesOf, CB!MerchantDisputes

(* What the counting statement leaves.                                     *)
LEMMA CountIsWell ==
  ASSUME CBInv, NEW c, c \notin cases, NEW req \in CardRequests, NEW own, NEW other, NEW call,
         own = CB!OwnCount(req), other = CB!OtherCount(req),
         call.req = req, call.own = own, call.verdict = CB!Verdict(req, own, other),
         call.seen \subseteq CB!DisputesOf(req.tenant, req.customer, 366)
  PROVE  own \in Nat /\ other \in Nat /\ call.verdict \in CB!Verdicts /\ CountedWell(c, call)
<1>1. PICK window : window = CB!Window(req)
  OBVIOUS
<1>2. PICK recent, all : /\ recent = CB!DisputesOf(req.tenant, req.customer, window)
                         /\ all = CB!DisputesOf(req.tenant, req.customer, 366)
  OBVIOUS
<1>3. PICK theirs : theirs = CB!MerchantDisputes(req.tenant, req.merchant, 366)
  OBVIOUS
<1>4. /\ recent \subseteq all /\ IsFiniteSet(recent) /\ IsFiniteSet(all) /\ IsFiniteSet(theirs)
  BY <1>2, <1>3, RecentDisputes, DisputesAreFinite
<1>5. own = Cardinality(recent) /\ own \in Nat
  <2>1. own = Cardinality(recent)
    BY <1>1, <1>2 DEF CB!OwnCount, CB!Cardinality, Cardinality
  <2> QED BY <1>4, <2>1, FS_CardinalityType
<1>6. Cardinality(all) \in Nat /\ own <= Cardinality(all)
  BY <1>4, <1>5, FS_Subset, FS_CardinalityType
<1>7. PICK few : few = CB!CasesOf(req.tenant, req.customer)
  OBVIOUS
<1>8. IsFiniteSet(few) /\ Cardinality(few) \in Nat /\ c \notin few
  <2>1. few \subseteq DOMAIN cardCalls /\ c \notin few
    BY <1>7, CBFacts DEF CB!CasesOf
  <2> QED BY <2>1, CBFacts, FS_Subset, FS_CardinalityType
<1>9. /\ req.kind = "friendly" => other = Cardinality(few)
      /\ req.kind \in {"risk", "predict"} =>
           other = Cardinality(CB!MerchantDisputes(req.tenant, req.merchant, 365))
      /\ req.kind = "merchant" => other = CB!MerchantRisk(req.tenant, req.merchant)
      /\ req.kind = "customer" => other = CB!CustomerRisk(req.tenant, req.customer)
      /\ req.kind \in {"abuse", "dispute"} => other = 0
  BY <1>7 DEF CB!OtherCount, CB!Cardinality, Cardinality
<1>10. other \in Nat
  <2>1. req.kind \in CB!Kinds
    BY CBRequests
  <2>2. Cardinality(CB!MerchantDisputes(req.tenant, req.merchant, 365)) \in Nat
    BY DisputesAreFinite
  <2>3. CB!MerchantRisk(req.tenant, req.merchant) \in Nat
    BY MerchantRiskInRange
  <2>4. CB!CustomerRisk(req.tenant, req.customer) \in Nat
    BY CustomerRiskInRange
  <2> QED BY <1>8, <1>9, <2>1, <2>2, <2>3, <2>4 DEF CB!Kinds
<1>11. PICK verdict \in CB!Verdicts :
         /\ verdict = call.verdict
         /\ verdict = "friendly_fraud" => req.kind = "friendly" /\ CB!FriendlyFraud(req, own, other)
         /\ verdict = "decline_or_manual_review" =>
              req.kind = "predict" /\ CB!TransactionRisk(req, own, other) >= 70
         /\ verdict = "escalate_for_fraud_review" =>
              req.kind = "dispute" /\ CB!Likelihood(req, own) >= 70
  BY <1>5, <1>10, VerdictNeeds
<1>12. HonestCount(call)
  <2>1. call.seen \cap recent \subseteq recent
    OBVIOUS
  <2>2. Cardinality(call.seen \cap recent) <= own
    BY <1>4, <1>5, <2>1, FS_Subset
  <2> QED BY <1>1, <1>2, <1>6, <2>2 DEF HonestCount
<1>13. Grounds(c, call)
  <2>1. ASSUME verdict = "friendly_fraud", all = {}
        PROVE  /\ Cardinality(few \ {c}) >= 2
               /\ req.amount \in HighValue /\ req.foreign
    <3>1. own = 0
      <4>1. recent = {}
        BY <1>4, <2>1
      <4> QED BY <1>5, <4>1, FS_EmptySet
    <3>2. other >= 2 /\ req.amount \in HighValue /\ req.foreign
      BY <1>5, <1>10, <1>11, <2>1, <3>1, FriendlyNeeds
    <3>3. few \ {c} = few /\ other = Cardinality(few)
      BY <1>8, <1>9, <1>11, <2>1
    <3> QED BY <3>2, <3>3
  <2>2. ASSUME verdict = "decline_or_manual_review"
        PROVE  Cardinality(all \cup theirs) >= 2
    <3>1. own >= 2 \/ other >= 2
      BY <1>5, <1>10, <1>11, <2>2, DeclineNeeds
    <3>2. PICK recently : recently = CB!MerchantDisputes(req.tenant, req.merchant, 365)
      OBVIOUS
    <3>3. recently \subseteq theirs /\ other = Cardinality(recently)
      BY <1>3, <1>9, <1>11, <2>2, <3>2, RecentDisputes
    <3>4. IsFiniteSet(all \cup theirs) /\ recent \subseteq all \cup theirs
          /\ recently \subseteq all \cup theirs
      BY <1>4, <3>3, FS_Union
    <3>5. Cardinality(all \cup theirs) \in Nat /\ own <= Cardinality(all \cup theirs)
          /\ other <= Cardinality(all \cup theirs)
      BY <1>5, <3>3, <3>4, FS_Subset, FS_CardinalityType
    <3> QED BY <1>5, <1>10, <3>1, <3>5
  <2>3. ASSUME verdict = "escalate_for_fraud_review"
        PROVE  Cardinality(all) >= 5
    <3>1. own >= 5
      BY <1>5, <1>11, <2>3, EscalationNeeds
    <3> QED BY <1>5, <1>6, <3>1
  <2> QED BY <1>2, <1>3, <1>7, <1>11, <2>1, <2>2, <2>3 DEF Grounds
<1>14. call.seen \subseteq CB!DisputesOf(call.req.tenant, call.req.customer, 366)
  OBVIOUS
<1> QED BY <1>5, <1>10, <1>11, <1>12, <1>13, <1>14 DEF CountedWell

(* The stored facts that a call was found to agree with stay.              *)
LEMMA FactsStay ==
  ASSUME CBInv, NEW c, CBGrows(c), NEW old, NEW call,
         old.req \in CardRequests, call.req = old.req,
         call.at \in {"count", "record", "decide", "done"} =>
           old.at \in {"count", "record", "decide", "done"},
         PersistedFacts(old), FoundTransaction(old)
  PROVE  PersistedFacts(call)' /\ FoundTransaction(call)'
<1>1. PICK tenant \in Tenants, txn \in Transactions : tenant = old.req.tenant /\ txn = old.req.txn
  <2>1. old.req.tenant \in Tenants /\ old.req.txn \in Transactions
    BY CBRequests
  <2> QED BY <2>1
<1>2. payments[<<tenant, txn>>] # NoRow => payments'[<<tenant, txn>>] = payments[<<tenant, txn>>]
  BY DEF CBGrows
<1>3. PersistedFacts(call)'
  BY <1>1, <1>2 DEF PersistedFacts, CB!Facts
<1>4. FoundTransaction(call)'
  BY <1>1, <1>2 DEF FoundTransaction
<1> QED BY <1>3, <1>4

LEMMA RefusalStays ==
  ASSUME NEW c, CBGrows(c), NEW call, RefusedForACause(call)
  PROVE  RefusedForACause(call)'
<1>1. CASE \E k \in DOMAIN cardCalls :
             /\ cardCalls[k].req.tenant = call.req.tenant /\ cardCalls[k].req.txn = call.req.txn
             /\ CB!Facts(cardCalls[k].req) # CB!Facts(call.req)
  <2>1. PICK k \in DOMAIN cardCalls :
             /\ cardCalls[k].req.tenant = call.req.tenant /\ cardCalls[k].req.txn = call.req.txn
             /\ CB!Facts(cardCalls[k].req) # CB!Facts(call.req)
    BY <1>1
  <2>2. k \in DOMAIN cardCalls' /\ cardCalls'[k].req = cardCalls[k].req
    BY DEF CBGrows
  <2> QED BY <2>1, <2>2 DEF RefusedForACause, CB!Facts
<1> QED BY <1>1 DEF RefusedForACause

LEMMA CBOthersKeep ==
  ASSUME CBInv, NEW c, CBGrows(c), NEW k, k # c, NEW call \in CB!Call, CBCallIsFine(k, call)
  PROVE  CBCallIsFine(k, call)'
<1>1. call.req \in CardRequests /\ call.own \in Nat
  BY DEF CB!Call
<1>2. CountedWell(k, call)'
  BY <1>1, CountedWellStays DEF CBCallIsFine
<1>3. PersistedFacts(call)' /\ FoundTransaction(call)'
  BY <1>1, FactsStay DEF CBCallIsFine
<1>4. k \notin cases => k \notin cases'
  BY DEF CBGrows
<1>5. call.at = "conflict" => RefusedForACause(call)'
  BY RefusalStays DEF CBCallIsFine
<1> QED BY <1>2, <1>3, <1>4, <1>5 DEF CBCallIsFine

LEMMA AgesCompare ==
  ASSUME CBInv
  PROVE  \A tenant \in Tenants, d \in DisputeIds :
           disputes[<<tenant, d>>] # NoRow =>
             /\ disputes[<<tenant, d>>] \in CB!Dispute
             /\ disputes[<<tenant, d>>].age \in 0..366
             /\ disputes[<<tenant, d>>].age >= disputes[<<tenant, d>>].age
<1> SUFFICES ASSUME NEW tenant \in Tenants, NEW d \in DisputeIds, disputes[<<tenant, d>>] # NoRow
    PROVE  /\ disputes[<<tenant, d>>] \in CB!Dispute
           /\ disputes[<<tenant, d>>].age \in 0..366
           /\ disputes[<<tenant, d>>].age >= disputes[<<tenant, d>>].age
  OBVIOUS
<1>1. disputes[<<tenant, d>>] \in CB!Dispute
  BY CBFacts
<1>2. PICK age \in 0..366 : age = disputes[<<tenant, d>>].age
  <2>1. disputes[<<tenant, d>>].age \in DisputeAges
    BY <1>1 DEF CB!Dispute
  <2>2. DisputeAges \subseteq 0..366
    BY CBBounds
  <2> QED BY <2>1, <2>2
<1>3. age >= age
  OBVIOUS
<1> QED BY <1>1, <1>2, <1>3

(* A step that leaves payments and disputes alone.                         *)
LEMMA CBTablesStay ==
  ASSUME CBInv, payments' = payments, disputes' = disputes,
         NEW c, cases \subseteq cases', cases' \subseteq cases \cup {c},
         cases' \subseteq DOMAIN cardCalls', IsFiniteSet(DOMAIN cardCalls'),
         \A k \in DOMAIN cardCalls :
           k \in DOMAIN cardCalls' /\ cardCalls'[k].req = cardCalls[k].req
  PROVE  /\ CBGrows(c)
         /\ payments' \in [Tenants \X Transactions -> CB!StoredPayment \cup {NoRow}]
         /\ disputes' \in [Tenants \X DisputeIds -> CB!Dispute \cup {NoRow}]
         /\ CB!DisputesNameTheirTransaction' /\ PaymentsHaveAuthors'
<1>1. /\ payments \in [Tenants \X Transactions -> CB!StoredPayment \cup {NoRow}]
      /\ disputes \in [Tenants \X DisputeIds -> CB!Dispute \cup {NoRow}]
  BY CBFacts DEF CBTables
<1>2. CB!DisputesNameTheirTransaction'
  BY CBFacts DEF CB!DisputesNameTheirTransaction
<1>3. PaymentsHaveAuthors'
  <2>1. ASSUME NEW tenant \in Tenants, NEW txn \in Transactions,
               payments[<<tenant, txn>>] # NoRow, StoredPayments[<<tenant, txn>>] = NoRow
        PROVE  \E k \in DOMAIN cardCalls' :
                 /\ cardCalls'[k].req.tenant = tenant /\ cardCalls'[k].req.txn = txn
                 /\ payments'[<<tenant, txn>>] = CB!NewPayment(cardCalls'[k].req)
    <3>1. PICK k \in DOMAIN cardCalls :
                 /\ cardCalls[k].req.tenant = tenant /\ cardCalls[k].req.txn = txn
                 /\ payments[<<tenant, txn>>] = CB!NewPayment(cardCalls[k].req)
      BY <2>1, CBFacts DEF PaymentsHaveAuthors
    <3>2. k \in DOMAIN cardCalls' /\ cardCalls'[k].req = cardCalls[k].req
      OBVIOUS
    <3> QED BY <3>1, <3>2
  <2>2. \A k \in DOMAIN cardCalls' :
          CB!NewPayment(cardCalls[k].req)' = CB!NewPayment(cardCalls'[k].req)
    BY DEF CB!NewPayment
  <2> QED BY <2>1, <2>2 DEF PaymentsHaveAuthors
<1>4. \A tenant \in Tenants, d \in DisputeIds :
        disputes[<<tenant, d>>] # NoRow =>
          /\ disputes[<<tenant, d>>] \in CB!Dispute
          /\ disputes[<<tenant, d>>].age >= disputes[<<tenant, d>>].age
  BY AgesCompare
<1>5. CBGrows(c)
  BY <1>4 DEF CBGrows
<1> QED BY <1>1, <1>2, <1>3, <1>5

LEMMA CBReplaced ==
  ASSUME CBInv, NEW c \in DOMAIN cardCalls, NEW call, call.req = cardCalls[c].req,
         cardCalls' = [cardCalls EXCEPT ![c] = call]
  PROVE  /\ DOMAIN cardCalls' = DOMAIN cardCalls /\ IsFiniteSet(DOMAIN cardCalls')
         /\ cardCalls'[c] = call
         /\ \A k \in DOMAIN cardCalls : k # c => cardCalls'[k] = cardCalls[k]
         /\ \A k \in DOMAIN cardCalls : cardCalls'[k].req = cardCalls[k].req
<1>1. /\ DOMAIN cardCalls' = DOMAIN cardCalls /\ cardCalls'[c] = call
      /\ \A k \in DOMAIN cardCalls : k # c => cardCalls'[k] = cardCalls[k]
  OBVIOUS
<1> QED BY <1>1, CBFacts

LEMMA CBCallGoesOn ==
  ASSUME CBInv, NEW c \in DOMAIN cardCalls, NEW call \in CB!Call, call.req = cardCalls[c].req,
         cardCalls' = [cardCalls EXCEPT ![c] = call],
         cardCalls[c].at \in CB!Stages, call.at # "forbidden",
         CBGrows(c),
         payments' \in [Tenants \X Transactions -> CB!StoredPayment \cup {NoRow}],
         disputes' \in [Tenants \X DisputeIds -> CB!Dispute \cup {NoRow}],
         CB!DisputesNameTheirTransaction', PaymentsHaveAuthors',
         patterns' \subseteq patterns \cup {c},
         \/ cardDecisions' = cardDecisions
         \/ cardDecisions' = cardDecisions \cup {c} /\ call.at = "done",
         CBCallIsFine(c, call)'
  PROVE  CBInv'
<1>1. /\ DOMAIN cardCalls' = DOMAIN cardCalls /\ cardCalls'[c] = call
      /\ \A k \in DOMAIN cardCalls : k # c => cardCalls'[k] = cardCalls[k]
  BY CBReplaced
<1>2. ASSUME NEW k \in DOMAIN cardCalls
      PROVE  cardCalls'[k] \in CB!Call /\ CBCallIsFine(k, cardCalls[k])'
  <2>1. CASE k = c
    BY <1>1, <2>1
  <2>2. CASE k # c
    <3>1. PICK other \in CB!Call :
            other = cardCalls[k] /\ cardCalls'[k] = other /\ CBCallIsFine(k, other)
      BY <1>1, <2>2, CBFacts
    <3>2. CBCallIsFine(k, other)'
      BY <2>2, <3>1, CBOthersKeep
    <3> QED BY <3>1, <3>2
  <2> QED BY <2>1, <2>2
<1>3. CBTables'
  <2>1. cardCalls[c].at # "forbidden" /\ cardCalls[c].at # "done"
    BY DEF CB!Stages
  <2>2. \A k \in DOMAIN cardCalls : cardCalls[k].at # "forbidden" => cardCalls'[k].at # "forbidden"
    BY <1>1
  <2>3. cases' \cup patterns' \cup cardDecisions' \subseteq cases \cup patterns \cup cardDecisions \cup {c}
    BY DEF CBGrows
  <2>4. cases' \cup patterns' \cup cardDecisions' \subseteq
          {k \in DOMAIN cardCalls' : cardCalls'[k].at # "forbidden"}
    BY <1>1, <2>2, <2>3, CBFacts DEF CBTables
  <2>5. \A k \in cardDecisions' : cardCalls'[k].at = "done"
    <3> SUFFICES ASSUME NEW k \in cardDecisions' PROVE cardCalls'[k].at = "done"
      OBVIOUS
    <3>1. CASE k \in cardDecisions
      <4>1. cardCalls[k].at = "done" /\ k \in DOMAIN cardCalls
        BY <3>1, CBFacts DEF CBTables
      <4> QED BY <1>1, <2>1, <4>1
    <3>2. CASE k \notin cardDecisions
      BY <1>1, <3>2
    <3> QED BY <3>1, <3>2
  <2> QED BY <1>1, <2>4, <2>5 DEF CBTables, CBGrows
<1>4. PICK n \in 0..MaxCardCalls : DOMAIN cardCalls' = 1..n
  BY <1>1 DEF CBInv
<1>5. \A k \in DOMAIN cardCalls' : cardCalls'[k] \in CB!Call /\ CBCallIsFine(k, cardCalls[k])'
  BY <1>1, <1>2
<1> QED BY <1>3, <1>4, <1>5 DEF CBInv

LEMMA CBReceiveKeeps ==
  ASSUME CBInv, NEW req \in CardRequests, CB!Receive(req)
  PROVE  CBInv'
<1>1. PICK n \in 0..MaxCardCalls : DOMAIN cardCalls = 1..n
  BY DEF CBInv
<1>2. Cardinality(DOMAIN cardCalls) = n /\ n \in Nat
  BY <1>1, FS_Interval, CBBounds
<1>3. PICK first : first = IF CB!Authenticated(req.token) /\ CB!TenantMatches(req)
                           THEN CB!Statements[req.kind][1] ELSE "forbidden"
  OBVIOUS
<1>4. PICK seen : seen = CB!DisputesOf(req.tenant, req.customer, 366)
  OBVIOUS
<1>5. PICK call : call = [req |-> req, own |-> 0, other |-> 0, verdict |-> "none",
                          seen |-> seen, at |-> first]
  OBVIOUS
<1>6. PICK c \in Nat : c = n + 1
  BY <1>2
<1>7. /\ c \in 1..MaxCardCalls
      /\ cardCalls' = [k \in 1..c |-> IF k = c THEN call ELSE cardCalls[k]]
      /\ UNCHANGED <<payments, disputes, cases, patterns, cardDecisions>>
  BY <1>2, <1>3, <1>4, <1>5, <1>6 DEF CB!Receive, CB!CallIds, CB!Cardinality, Cardinality
<1>8. /\ first \in {"persist", "exists", "count", "forbidden"}
      /\ first = "persist" => req.kind \in {"risk", "predict", "friendly"}
      /\ first = "exists" => req.kind = "dispute"
      /\ first = "count" => req.kind \notin {"risk", "predict", "friendly", "dispute"}
  BY <1>3, CBRequests, CBFirst
<1>9. seen \subseteq DisputeIds
  BY <1>4 DEF CB!DisputesOf
<1>10. /\ call \in CB!Call /\ call.req = req /\ call.at = first /\ call.verdict = "none"
       /\ call.seen = seen
  BY <1>5, <1>8, <1>9 DEF CB!Call, CB!Stages, CB!Ends, CB!Verdicts
<1>11. /\ DOMAIN cardCalls' = 1..c /\ cardCalls'[c] = call /\ c \notin DOMAIN cardCalls
       /\ DOMAIN cardCalls' = DOMAIN cardCalls \cup {c}
       /\ \A k \in DOMAIN cardCalls : k # c /\ cardCalls'[k] = cardCalls[k]
  BY <1>1, <1>2, <1>6, <1>7
<1>12. IsFiniteSet(DOMAIN cardCalls') /\ cases' \subseteq DOMAIN cardCalls'
  BY <1>7, <1>11, FS_Interval, CBFacts
<1>13. /\ CBGrows(c)
       /\ payments' \in [Tenants \X Transactions -> CB!StoredPayment \cup {NoRow}]
       /\ disputes' \in [Tenants \X DisputeIds -> CB!Dispute \cup {NoRow}]
       /\ CB!DisputesNameTheirTransaction' /\ PaymentsHaveAuthors'
  BY <1>7, <1>11, <1>12, CBTablesStay
<1>14. CBCallIsFine(c, call)'
  <2>1. seen = CB!DisputesOf(req.tenant, req.customer, 366)'
    BY <1>4, <1>7 DEF CB!DisputesOf
  <2>2. CountedWell(c, call)'
    BY <1>10, <2>1 DEF CountedWell, HonestCount, Grounds
  <2>3. c \notin cases'
    BY <1>7, <1>11, CBFacts
  <2>4. PersistedFacts(call)' /\ FoundTransaction(call)'
    BY <1>8, <1>10 DEF PersistedFacts, FoundTransaction
  <2> QED BY <1>8, <1>10, <2>2, <2>3, <2>4 DEF CBCallIsFine
<1>15. ASSUME NEW k \in DOMAIN cardCalls'
       PROVE  cardCalls'[k] \in CB!Call /\ CBCallIsFine(k, cardCalls[k])'
  <2>1. CASE k = c
    BY <1>10, <1>11, <1>14, <2>1
  <2>2. CASE k # c
    <3>1. PICK other \in CB!Call :
            other = cardCalls[k] /\ cardCalls'[k] = other /\ CBCallIsFine(k, other)
      BY <1>11, <2>2, CBFacts
    <3>2. CBCallIsFine(k, other)'
      BY <1>13, <2>2, <3>1, CBOthersKeep
    <3> QED BY <3>1, <3>2
  <2> QED BY <2>1, <2>2
<1>16. CBTables'
  <2>1. /\ cases' \cup patterns' \cup cardDecisions' \subseteq
             {k \in DOMAIN cardCalls' : cardCalls'[k].at # "forbidden"}
        /\ \A k \in cardDecisions' : cardCalls'[k].at = "done"
    BY <1>7, <1>11, CBFacts DEF CBTables
  <2> QED BY <1>12, <1>13, <2>1 DEF CBTables
<1>17. c \in 0..MaxCardCalls
  BY <1>7
<1> QED BY <1>11, <1>13, <1>15, <1>16, <1>17 DEF CBInv

(* A call moves on and nothing is written, or only what the call leaves in *)
(* the tables that are named after it.                                     *)
LEMMA CBMoves ==
  ASSUME CBInv, NEW c \in DOMAIN cardCalls, cardCalls[c].at \in CB!Stages,
         NEW stage \in {"count", "decide", "done", "conflict", "missing", "error"},
         cardCalls' = [cardCalls EXCEPT ![c].at = stage],
         UNCHANGED <<payments, disputes>>,
         cases' = cases \/ (cases' = cases \cup {c} /\ stage = "decide"),
         patterns' \subseteq patterns \cup {c},
         \/ cardDecisions' = cardDecisions
         \/ cardDecisions' = cardDecisions \cup {c} /\ stage = "done",
         stage = "decide" => cardCalls[c].at = "record",
         stage = "done" => cardCalls[c].at = "decide",
         stage \in {"count", "conflict", "missing"} => cardCalls[c].at \in {"persist", "exists"},
         stage = "conflict" => RefusedForACause(cardCalls[c]),
         stage = "count" =>
           /\ PersistedFacts([cardCalls[c] EXCEPT !.at = "count"])
           /\ FoundTransaction([cardCalls[c] EXCEPT !.at = "count"])
  PROVE  CBInv'
<1>1. PICK old \in CB!Call : old = cardCalls[c] /\ old.req \in CardRequests /\ CBCallIsFine(c, old)
  BY CBFacts
<1>2. PICK call : call = [old EXCEPT !.at = stage]
  OBVIOUS
<1>3. /\ call \in CB!Call /\ call.req = old.req /\ call.at = stage /\ call.own = old.own
      /\ call.verdict = old.verdict /\ call.seen = old.seen /\ call.own \in Nat
  BY <1>2 DEF CB!Call, CB!Stages, CB!Ends
<1>4. cardCalls' = [cardCalls EXCEPT ![c] = call]
  BY <1>1, <1>2
<1>5. /\ DOMAIN cardCalls' = DOMAIN cardCalls /\ IsFiniteSet(DOMAIN cardCalls')
      /\ \A k \in DOMAIN cardCalls : cardCalls'[k].req = cardCalls[k].req
  BY <1>1, <1>3, <1>4, CBReplaced
<1>6. /\ CBGrows(c)
      /\ payments' \in [Tenants \X Transactions -> CB!StoredPayment \cup {NoRow}]
      /\ disputes' \in [Tenants \X DisputeIds -> CB!Dispute \cup {NoRow}]
      /\ CB!DisputesNameTheirTransaction' /\ PaymentsHaveAuthors'
  BY <1>5, CBFacts, CBTablesStay
<1>7. CountedWell(c, call)'
  BY <1>1, <1>3, <1>6, CountedWellStays DEF CBCallIsFine
<1>8. PersistedFacts(call)' /\ FoundTransaction(call)'
  <2>1. CASE stage = "count"
    <3>1. PersistedFacts(call) /\ FoundTransaction(call)
      BY <1>1, <1>2, <2>1
    <3> QED BY <1>1, <1>3, <1>6, <3>1, FactsStay
  <2>2. CASE stage \in {"decide", "done"}
    <3>1. old.at \in {"record", "decide"}
      BY <1>1, <2>2
    <3> QED BY <1>1, <1>3, <1>6, <3>1, FactsStay DEF CBCallIsFine
  <2>3. CASE stage \in {"conflict", "missing", "error"}
    BY <1>3, <2>3 DEF PersistedFacts, FoundTransaction
  <2> QED BY <2>1, <2>2, <2>3
<1>9. /\ call.at \notin {"persist", "exists", "record"}
      /\ call.at = "decide" => call.req.kind \notin {"customer", "merchant"}
      /\ call.at \in {"persist", "exists", "count", "conflict", "missing", "forbidden"} =>
           call.verdict = "none" /\ c \notin cases'
  BY <1>1, <1>3 DEF CBCallIsFine
<1>10. call.at = "conflict" => RefusedForACause(call)'
  <2>1. stage = "conflict" => RefusedForACause(old)'
    BY <1>1, <1>6, RefusalStays
  <2>2. RefusedForACause(old)' => RefusedForACause(call)'
    BY <1>3 DEF RefusedForACause
  <2> QED BY <1>3, <2>1, <2>2
<1>11. CBCallIsFine(c, call)'
  BY <1>7, <1>8, <1>9, <1>10 DEF CBCallIsFine
<1> QED BY <1>1, <1>3, <1>4, <1>6, <1>11, CBCallGoesOn

LEMMA LookForTransactionKeeps ==
  ASSUME CBInv, NEW c \in DOMAIN cardCalls, CB!LookForTransaction(c)
  PROVE  CBInv'
<1>1. PICK old \in CB!Call : old = cardCalls[c] /\ old.req \in CardRequests /\ CBCallIsFine(c, old)
  BY CBFacts
<1>2. old.at = "exists" /\ old.at \in CB!Stages /\ old.req.kind = "dispute"
  BY <1>1 DEF CB!LookForTransaction, CBCallIsFine, CB!Stages
<1>3. CB!After(old) = "count"
  BY <1>2, CBAfter
<1>4. UNCHANGED <<payments, disputes, cases, patterns, cardDecisions>>
  BY DEF CB!LookForTransaction
<1>5. CASE CB!TransactionOf(old.req)
  <2>1. cardCalls' = [cardCalls EXCEPT ![c].at = "count"]
    BY <1>1, <1>3, <1>5 DEF CB!LookForTransaction, CB!MoveOn, CB!MoveTo
  <2>2. PICK call : call = [old EXCEPT !.at = "count"]
    OBVIOUS
  <2>3. call.req = old.req /\ call.at = "count"
    BY <2>2 DEF CB!Call
  <2>4. PersistedFacts(call) /\ FoundTransaction(call)
    BY <1>2, <1>5, <2>3 DEF PersistedFacts, FoundTransaction, CB!TransactionOf
  <2> QED BY <1>1, <1>2, <1>4, <2>1, <2>2, <2>4, CBMoves
<1>6. CASE ~ CB!TransactionOf(old.req)
  <2>1. cardCalls' = [cardCalls EXCEPT ![c].at = "missing"]
    BY <1>1, <1>6 DEF CB!LookForTransaction, CB!MoveTo
  <2> QED BY <1>1, <1>2, <1>4, <2>1, CBMoves
<1> QED BY <1>5, <1>6

LEMMA RecordCaseOrPatternKeeps ==
  ASSUME CBInv, NEW c \in DOMAIN cardCalls, CB!RecordCase(c) \/ CB!RecordPattern(c)
  PROVE  CBInv'
<1>1. PICK old \in CB!Call : old = cardCalls[c] /\ old.req \in CardRequests /\ CBCallIsFine(c, old)
  BY CBFacts
<1>2. old.at = "record" /\ old.at \in CB!Stages
  BY <1>1 DEF CB!RecordCase, CB!RecordPattern, CB!Stages
<1>3. CB!After(old) = "decide"
  BY <1>1, <1>2, CBAfter DEF CBCallIsFine
<1>4. cardCalls' = [cardCalls EXCEPT ![c].at = "decide"]
  BY <1>1, <1>3 DEF CB!RecordCase, CB!RecordPattern, CB!MoveOn, CB!MoveTo
<1>5. /\ UNCHANGED <<payments, disputes, cardDecisions>>
      /\ cases' = cases \/ cases' = cases \cup {c}
      /\ patterns' \subseteq patterns \cup {c}
  BY DEF CB!RecordCase, CB!RecordPattern
<1> QED BY <1>1, <1>2, <1>4, <1>5, CBMoves

LEMMA DecideKeeps ==
  ASSUME CBInv, NEW c \in DOMAIN cardCalls, CB!Decide(c)
  PROVE  CBInv'
<1>1. PICK old \in CB!Call : old = cardCalls[c] /\ old.req \in CardRequests /\ CBCallIsFine(c, old)
  BY CBFacts
<1>2. old.at = "decide" /\ old.at \in CB!Stages
  BY <1>1 DEF CB!Decide, CB!Stages
<1>3. CB!After(old) = "done"
  BY <1>1, <1>2, CBAfter DEF CBCallIsFine
<1>4. cardCalls' = [cardCalls EXCEPT ![c].at = "done"]
  BY <1>1, <1>3 DEF CB!Decide, CB!MoveOn, CB!MoveTo
<1>5. /\ UNCHANGED <<payments, disputes, cases, patterns>>
      /\ cardDecisions' = cardDecisions \cup {c}
  BY DEF CB!Decide
<1> QED BY <1>1, <1>2, <1>4, <1>5, CBMoves

LEMMA CBFailKeeps ==
  ASSUME CBInv, NEW c \in DOMAIN cardCalls, CB!Fail(c)
  PROVE  CBInv'
<1>1. /\ cardCalls[c].at \in CB!Stages
      /\ cardCalls' = [cardCalls EXCEPT ![c].at = "error"]
      /\ UNCHANGED <<payments, disputes, cases, patterns, cardDecisions>>
  BY DEF CB!Fail, CB!MoveTo
<1> QED BY <1>1, CBMoves

LEMMA CBCountKeeps ==
  ASSUME CBInv, NEW c \in DOMAIN cardCalls, CB!Count(c)
  PROVE  CBInv'
<1>1. PICK old \in CB!Call : old = cardCalls[c] /\ old.req \in CardRequests /\ CBCallIsFine(c, old)
  BY CBFacts
<1>2. old.at = "count" /\ old.at \in CB!Stages /\ c \notin cases
  BY <1>1 DEF CB!Count, CB!Stages, CBCallIsFine
<1>3. PICK stage \in {"record", "decide", "done"} :
        /\ stage = CB!After(old)
        /\ stage = "record" => old.req.kind \in {"friendly", "abuse", "dispute"}
        /\ stage = "decide" => old.req.kind \in {"risk", "predict"}
  BY <1>2, CBAfter
<1>4. PICK own, other : own = CB!OwnCount(old.req) /\ other = CB!OtherCount(old.req)
  OBVIOUS
<1>5. PICK verdict : verdict = CB!Verdict(old.req, own, other)
  OBVIOUS
<1>6. PICK call : call = [old EXCEPT !.own = own, !.other = other, !.verdict = verdict, !.at = stage]
  OBVIOUS
<1>7. /\ call.req = old.req /\ call.at = stage /\ call.own = own /\ call.other = other
      /\ call.verdict = verdict /\ call.seen = old.seen
  BY <1>6 DEF CB!Call
<1>8. old.seen \subseteq CB!DisputesOf(old.req.tenant, old.req.customer, 366)
  BY <1>1 DEF CBCallIsFine, CountedWell
<1>9. own \in Nat /\ other \in Nat /\ verdict \in CB!Verdicts /\ CountedWell(c, call)
  BY <1>1, <1>2, <1>4, <1>5, <1>7, <1>8, CountIsWell
<1>10. call \in CB!Call
  BY <1>6, <1>9 DEF CB!Call, CB!Stages, CB!Ends
<1>11. /\ cardCalls' = [cardCalls EXCEPT ![c] = call]
       /\ UNCHANGED <<payments, disputes, cases, patterns, cardDecisions>>
  BY <1>1, <1>3, <1>4, <1>5, <1>6 DEF CB!Count
<1>12. /\ DOMAIN cardCalls' = DOMAIN cardCalls /\ IsFiniteSet(DOMAIN cardCalls')
       /\ \A k \in DOMAIN cardCalls : cardCalls'[k].req = cardCalls[k].req
  BY <1>1, <1>7, <1>11, CBReplaced
<1>13. /\ CBGrows(c)
       /\ payments' \in [Tenants \X Transactions -> CB!StoredPayment \cup {NoRow}]
       /\ disputes' \in [Tenants \X DisputeIds -> CB!Dispute \cup {NoRow}]
       /\ CB!DisputesNameTheirTransaction' /\ PaymentsHaveAuthors'
  BY <1>11, <1>12, CBFacts, CBTablesStay
<1>14. CBCallIsFine(c, call)'
  <2>1. CountedWell(c, call)'
    BY <1>1, <1>7, <1>9, <1>13, CountedWellStays
  <2>2. PersistedFacts(call)' /\ FoundTransaction(call)'
    BY <1>1, <1>2, <1>7, <1>13, FactsStay DEF CBCallIsFine
  <2> QED BY <1>3, <1>7, <2>1, <2>2 DEF CBCallIsFine
<1> QED BY <1>1, <1>2, <1>3, <1>7, <1>10, <1>11, <1>13, <1>14, CBCallGoesOn

LEMMA StoredPaymentIs ==
  ASSUME NEW row \in CB!StoredPayment
  PROVE  /\ row.customer \in Customers /\ row.merchant \in Merchants /\ row.amount \in Amounts
         /\ row.foreign \in BOOLEAN /\ StoredAs[row.amount] = row.amount /\ row # NoRow
<1>1. row \in CB!Payment /\ StoredAs[row.amount] = row.amount
  BY DEF CB!StoredPayment
<1>2. row # NoRow
  BY <1>1, CBRows
<1> QED BY <1>1, <1>2 DEF CB!Payment

LEMMA NewPaymentIs ==
  ASSUME NEW req \in CardRequests
  PROVE  /\ CB!NewPayment(req) \in CB!StoredPayment
         /\ CB!Facts(CB!NewPayment(req)) = CB!Facts(req)
<1>1. PICK row : row = CB!NewPayment(req)
  OBVIOUS
<1>2. /\ row = [customer |-> req.customer, merchant |-> req.merchant,
                amount |-> StoredAs[req.amount], foreign |-> req.foreign]
      /\ row.customer = req.customer /\ row.merchant = req.merchant
      /\ row.amount = StoredAs[req.amount] /\ row.foreign = req.foreign
  BY <1>1 DEF CB!NewPayment
<1>3. StoredAs[req.amount] \in Amounts /\ StoredAs[row.amount] = row.amount
  <2>1. req.amount \in Amounts
    BY CBRequests
  <2> QED BY <1>2, <2>1, CBAmounts
<1>4. row \in CB!Payment
  <2>1. /\ req.customer \in Customers /\ req.merchant \in Merchants /\ req.foreign \in BOOLEAN
    BY CBRequests, CBFlags
  <2> QED BY <1>2, <1>3, <2>1 DEF CB!Payment
<1> QED BY <1>1, <1>2, <1>3, <1>4 DEF CB!StoredPayment, CB!Facts

LEMMA PersistKeeps ==
  ASSUME CBInv, NEW c \in DOMAIN cardCalls, CB!Persist(c)
  PROVE  CBInv'
<1>1. PICK old \in CB!Call : old = cardCalls[c] /\ old.req \in CardRequests /\ CBCallIsFine(c, old)
  BY CBFacts
<1>2. /\ old.at = "persist" /\ old.at \in CB!Stages
      /\ old.req.kind \in {"risk", "predict", "friendly"}
  BY <1>1 DEF CB!Persist, CBCallIsFine, CB!Stages
<1>3. CB!After(old) = "count"
  BY <1>2, CBAfter
<1>4. PICK req \in CardRequests : req = old.req
  BY <1>1
<1>5. PICK tenant \in Tenants, txn \in Transactions : tenant = req.tenant /\ txn = req.txn
  <2>1. req.tenant \in Tenants /\ req.txn \in Transactions
    BY CBRequests
  <2> QED BY <2>1
<1>6. PICK row : row = payments[<<tenant, txn>>]
  OBVIOUS
<1>7. UNCHANGED <<disputes, cases, patterns, cardDecisions>>
  BY DEF CB!Persist
<1>8. PICK call : call = [old EXCEPT !.at = "count"]
  OBVIOUS
<1>9. /\ call \in CB!Call /\ call.req = old.req /\ call.at = "count" /\ call.own = old.own
      /\ call.verdict = old.verdict /\ call.seen = old.seen /\ call.own \in Nat
  BY <1>8 DEF CB!Call, CB!Stages
<1>10. CASE row = NoRow
  <2>1. PICK new \in CB!StoredPayment : new = CB!NewPayment(req) /\ CB!Facts(new) = CB!Facts(req)
    BY NewPaymentIs
  <2>2. /\ payments' = [payments EXCEPT ![<<tenant, txn>>] = new]
        /\ cardCalls' = [cardCalls EXCEPT ![c] = call]
    BY <1>1, <1>3, <1>4, <1>5, <1>6, <1>8, <1>10, <2>1 DEF CB!Persist, CB!MoveOn, CB!MoveTo
  <2>3. new # NoRow
    BY StoredPaymentIs
  <2>4. payments \in [Tenants \X Transactions -> CB!StoredPayment \cup {NoRow}]
        /\ disputes \in [Tenants \X DisputeIds -> CB!Dispute \cup {NoRow}]
    BY CBFacts DEF CBTables
  <2>5. /\ payments' \in [Tenants \X Transactions -> CB!StoredPayment \cup {NoRow}]
        /\ payments'[<<tenant, txn>>] = new
        /\ \A t \in Tenants, x \in Transactions :
             <<t, x>> # <<tenant, txn>> => payments'[<<t, x>>] = payments[<<t, x>>]
    BY <2>2, <2>4
  <2>6. \A t \in Tenants, x \in Transactions :
          payments[<<t, x>>] # NoRow => payments'[<<t, x>>] = payments[<<t, x>>]
    BY <1>6, <1>10, <2>5
  <2>7. /\ DOMAIN cardCalls' = DOMAIN cardCalls /\ IsFiniteSet(DOMAIN cardCalls')
        /\ cardCalls'[c] = call
        /\ \A k \in DOMAIN cardCalls : cardCalls'[k].req = cardCalls[k].req
    BY <1>1, <1>9, <2>2, CBReplaced
  <2>8. CBGrows(c)
    <3>1. \A t \in Tenants, d \in DisputeIds :
            disputes[<<t, d>>] # NoRow =>
              /\ disputes[<<t, d>>] \in CB!Dispute
              /\ disputes[<<t, d>>].age >= disputes[<<t, d>>].age
      BY AgesCompare
    <3> QED BY <1>7, <2>6, <2>7, <3>1, CBFacts DEF CBGrows
  <2>9. CB!DisputesNameTheirTransaction'
    <3> SUFFICES ASSUME NEW t \in Tenants, NEW d \in DisputeIds, disputes[<<t, d>>] # NoRow
        PROVE  /\ payments'[<<t, disputes[<<t, d>>].txn>>] # NoRow
               /\ payments'[<<t, disputes[<<t, d>>].txn>>].customer = disputes[<<t, d>>].customer
      BY <1>7 DEF CB!DisputesNameTheirTransaction
    <3>1. disputes[<<t, d>>].txn \in Transactions
      BY CBFacts DEF CB!Dispute
    <3>2. /\ payments[<<t, disputes[<<t, d>>].txn>>] # NoRow
          /\ payments[<<t, disputes[<<t, d>>].txn>>].customer = disputes[<<t, d>>].customer
      BY CBFacts DEF CB!DisputesNameTheirTransaction
    <3> QED BY <2>6, <3>1, <3>2
  <2>10. PaymentsHaveAuthors'
    <3>1. ASSUME NEW t \in Tenants, NEW x \in Transactions,
                 payments'[<<t, x>>] # NoRow, StoredPayments[<<t, x>>] = NoRow
          PROVE  \E k \in DOMAIN cardCalls' :
                   /\ cardCalls'[k].req.tenant = t /\ cardCalls'[k].req.txn = x
                   /\ payments'[<<t, x>>] = CB!NewPayment(cardCalls'[k].req)
      <4>1. CASE <<t, x>> = <<tenant, txn>>
        <5>1. t = tenant /\ x = txn
          BY <4>1
        <5>2. cardCalls'[c].req = req
          BY <1>4, <1>9, <2>7
        <5> QED BY <1>5, <2>1, <2>5, <2>7, <5>1, <5>2
      <4>2. CASE <<t, x>> # <<tenant, txn>>
        <5>1. payments'[<<t, x>>] = payments[<<t, x>>] /\ payments[<<t, x>>] # NoRow
          BY <2>5, <3>1, <4>2
        <5>2. PICK k \in DOMAIN cardCalls :
                     /\ cardCalls[k].req.tenant = t /\ cardCalls[k].req.txn = x
                     /\ payments[<<t, x>>] = CB!NewPayment(cardCalls[k].req)
          BY <3>1, <5>1, CBFacts DEF PaymentsHaveAuthors
        <5>3. k \in DOMAIN cardCalls' /\ cardCalls'[k].req = cardCalls[k].req
          BY <2>7
        <5> QED BY <5>1, <5>2, <5>3
      <4> QED BY <4>1, <4>2
    <3>2. \A k \in DOMAIN cardCalls' :
            CB!NewPayment(cardCalls[k].req)' = CB!NewPayment(cardCalls'[k].req)
      BY DEF CB!NewPayment
    <3> QED BY <3>1, <3>2 DEF PaymentsHaveAuthors
  <2>11. CBCallIsFine(c, call)'
    <3>1. CountedWell(c, call)'
      BY <1>1, <1>9, <2>8, CountedWellStays DEF CBCallIsFine
    <3>2. PersistedFacts(call)'
      <4>1. CB!Facts(new)' = CB!Facts(new) /\ CB!Facts(req)' = CB!Facts(req)
        BY DEF CB!Facts
      <4>2. call.req.tenant = tenant /\ call.req.txn = txn /\ call.req = req
        BY <1>4, <1>5, <1>9
      <4> QED BY <2>1, <2>3, <2>5, <4>1, <4>2 DEF PersistedFacts
    <3>3. FoundTransaction(call)'
      BY <1>2, <1>9 DEF FoundTransaction
    <3>4. call.verdict = "none" /\ c \notin cases'
      BY <1>1, <1>2, <1>7, <1>9 DEF CBCallIsFine
    <3> QED BY <1>9, <3>1, <3>2, <3>3, <3>4 DEF CBCallIsFine
  <2> QED BY <1>1, <1>2, <1>7, <1>9, <2>2, <2>4, <2>5, <2>8, <2>9, <2>10, <2>11, CBCallGoesOn
<1>11. ASSUME row # NoRow, CB!SameFacts(row, req)
       PROVE  CBInv'
  <2>1. payments' = payments /\ cardCalls' = [cardCalls EXCEPT ![c].at = "count"]
    BY <1>1, <1>3, <1>4, <1>5, <1>6, <1>11 DEF CB!Persist, CB!MoveOn, CB!MoveTo
  <2>2. PersistedFacts(call) /\ FoundTransaction(call)
    <3>1. CB!Facts(row) = CB!Facts(req)
      BY <1>11 DEF CB!SameFacts, CB!Facts
    <3>2. call.req = req
      BY <1>4, <1>9
    <3> QED BY <1>2, <1>5, <1>6, <1>9, <1>11, <3>1, <3>2 DEF PersistedFacts, FoundTransaction
  <2> QED BY <1>1, <1>2, <1>7, <1>8, <2>1, <2>2, CBMoves
<1>12. ASSUME row # NoRow, ~ CB!SameFacts(row, req)
       PROVE  CBInv'
  <2>1. payments' = payments /\ cardCalls' = [cardCalls EXCEPT ![c].at = "conflict"]
    BY <1>1, <1>4, <1>5, <1>6, <1>12 DEF CB!Persist, CB!MoveTo
  <2>2. RefusedForACause(old)
    <3>1. ASSUME StoredAs[req.amount] = req.amount, StoredPayments[<<tenant, txn>>] = NoRow
          PROVE  \E k \in DOMAIN cardCalls :
                   /\ cardCalls[k].req.tenant = tenant /\ cardCalls[k].req.txn = txn
                   /\ CB!Facts(cardCalls[k].req) # CB!Facts(req)
      <4>1. PICK k \in DOMAIN cardCalls :
                   /\ cardCalls[k].req.tenant = tenant /\ cardCalls[k].req.txn = txn
                   /\ row = CB!NewPayment(cardCalls[k].req)
        BY <1>6, <1>12, <3>1, CBFacts DEF PaymentsHaveAuthors
      <4>2. PICK theirs : theirs = cardCalls[k].req
        OBVIOUS
      <4>3. /\ row.customer = theirs.customer /\ row.merchant = theirs.merchant
            /\ row.amount = StoredAs[theirs.amount] /\ row.foreign = theirs.foreign
        BY <4>1, <4>2 DEF CB!NewPayment
      <4>4. CB!Facts(theirs) # CB!Facts(req)
        BY <1>12, <3>1, <4>3 DEF CB!SameFacts, CB!Facts
      <4> QED BY <4>1, <4>2, <4>4
    <3> QED BY <1>4, <1>5, <3>1 DEF RefusedForACause
  <2> QED BY <1>1, <1>2, <1>7, <2>1, <2>2, CBMoves
<1> QED BY <1>10, <1>11, <1>12

(* A dispute is written: its row is new, or keeps its customer, its        *)
(* transaction and at least its age.                                       *)
LEMMA DisputeWritten ==
  ASSUME CBInv, NEW c, NEW tenant \in Tenants, NEW d \in DisputeIds, NEW row \in CB!Dispute,
         disputes' = [disputes EXCEPT ![<<tenant, d>>] = row],
         \/ disputes[<<tenant, d>>] = NoRow
         \/ /\ row.customer = disputes[<<tenant, d>>].customer
            /\ row.txn = disputes[<<tenant, d>>].txn
            /\ row.age >= disputes[<<tenant, d>>].age,
         payments[<<tenant, row.txn>>] # NoRow,
         payments[<<tenant, row.txn>>].customer = row.customer,
         UNCHANGED <<payments, cases>>,
         DOMAIN cardCalls' = DOMAIN cardCalls,
         \A k \in DOMAIN cardCalls : cardCalls'[k].req = cardCalls[k].req
  PROVE  /\ CBGrows(c)
         /\ payments' \in [Tenants \X Transactions -> CB!StoredPayment \cup {NoRow}]
         /\ disputes' \in [Tenants \X DisputeIds -> CB!Dispute \cup {NoRow}]
         /\ CB!DisputesNameTheirTransaction' /\ PaymentsHaveAuthors'
<1>1. payments \in [Tenants \X Transactions -> CB!StoredPayment \cup {NoRow}]
      /\ disputes \in [Tenants \X DisputeIds -> CB!Dispute \cup {NoRow}]
  BY CBFacts DEF CBTables
<1>2. /\ disputes' \in [Tenants \X DisputeIds -> CB!Dispute \cup {NoRow}]
      /\ disputes'[<<tenant, d>>] = row
      /\ \A t \in Tenants, i \in DisputeIds :
           <<t, i>> # <<tenant, d>> => disputes'[<<t, i>>] = disputes[<<t, i>>]
  BY <1>1
<1>3. row # NoRow
  BY CBRows
<1>4. ASSUME NEW t \in Tenants, NEW i \in DisputeIds, disputes[<<t, i>>] # NoRow
      PROVE  /\ disputes'[<<t, i>>] # NoRow
             /\ disputes'[<<t, i>>].customer = disputes[<<t, i>>].customer
             /\ disputes'[<<t, i>>].txn = disputes[<<t, i>>].txn
             /\ disputes'[<<t, i>>].age >= disputes[<<t, i>>].age
  <2>1. CASE <<t, i>> = <<tenant, d>>
    BY <1>2, <1>3, <1>4, <2>1
  <2>2. CASE <<t, i>> # <<tenant, d>>
    BY <1>2, <1>4, <2>2, AgesCompare
  <2> QED BY <2>1, <2>2
<1>5. ASSUME NEW t \in Tenants, NEW i \in DisputeIds, disputes'[<<t, i>>] # NoRow
      PROVE  disputes'[<<t, i>>] \in CB!Dispute
  <2>1. <<t, i>> \in Tenants \X DisputeIds
    OBVIOUS
  <2> QED BY <1>2, <1>5, <2>1
<1>6. CBGrows(c)
  BY <1>4, <1>5, CBFacts DEF CBGrows
<1>7. CB!DisputesNameTheirTransaction'
  <2> SUFFICES ASSUME NEW t \in Tenants, NEW i \in DisputeIds, disputes'[<<t, i>>] # NoRow
      PROVE  /\ payments[<<t, disputes'[<<t, i>>].txn>>] # NoRow
             /\ payments[<<t, disputes'[<<t, i>>].txn>>].customer = disputes'[<<t, i>>].customer
    BY DEF CB!DisputesNameTheirTransaction
  <2>1. CASE <<t, i>> = <<tenant, d>>
    <3>1. t = tenant
      BY <2>1
    <3> QED BY <1>2, <2>1, <3>1
  <2>2. CASE <<t, i>> # <<tenant, d>>
    <3>1. disputes'[<<t, i>>] = disputes[<<t, i>>]
      BY <1>2, <2>2
    <3> QED BY <3>1, CBFacts DEF CB!DisputesNameTheirTransaction
  <2> QED BY <2>1, <2>2
<1>8. PaymentsHaveAuthors'
  <2>1. ASSUME NEW t \in Tenants, NEW x \in Transactions,
               payments[<<t, x>>] # NoRow, StoredPayments[<<t, x>>] = NoRow
        PROVE  \E k \in DOMAIN cardCalls' :
                 /\ cardCalls'[k].req.tenant = t /\ cardCalls'[k].req.txn = x
                 /\ payments'[<<t, x>>] = CB!NewPayment(cardCalls'[k].req)
    <3>1. PICK k \in DOMAIN cardCalls :
                 /\ cardCalls[k].req.tenant = t /\ cardCalls[k].req.txn = x
                 /\ payments[<<t, x>>] = CB!NewPayment(cardCalls[k].req)
      BY <2>1, CBFacts DEF PaymentsHaveAuthors
    <3>2. k \in DOMAIN cardCalls' /\ cardCalls'[k].req = cardCalls[k].req
      OBVIOUS
    <3> QED BY <3>1, <3>2
  <2>2. \A k \in DOMAIN cardCalls' :
          CB!NewPayment(cardCalls[k].req)' = CB!NewPayment(cardCalls'[k].req)
    BY DEF CB!NewPayment
  <2> QED BY <2>1, <2>2 DEF PaymentsHaveAuthors
<1> QED BY <1>1, <1>2, <1>6, <1>7, <1>8

LEMMA RecordDisputeKeeps ==
  ASSUME CBInv, NEW c \in DOMAIN cardCalls, CB!RecordDispute(c)
  PROVE  CBInv'
<1>1. PICK old \in CB!Call : old = cardCalls[c] /\ old.req \in CardRequests /\ CBCallIsFine(c, old)
  BY CBFacts
<1>2. old.at = "record" /\ old.at \in CB!Stages /\ old.req.kind = "dispute"
  BY <1>1 DEF CB!RecordDispute, CB!Stages
<1>3. CB!After(old) = "decide"
  BY <1>1, <1>2, CBAfter DEF CBCallIsFine
<1>4. PICK call : call = [old EXCEPT !.at = "decide"]
  OBVIOUS
<1>5. /\ call \in CB!Call /\ call.req = old.req /\ call.at = "decide" /\ call.own = old.own
      /\ call.verdict = old.verdict /\ call.seen = old.seen /\ call.own \in Nat
  BY <1>4 DEF CB!Call, CB!Stages
<1>6. cardCalls' = [cardCalls EXCEPT ![c] = call]
      /\ UNCHANGED <<payments, cases, patterns, cardDecisions>>
  BY <1>1, <1>3, <1>4 DEF CB!RecordDispute, CB!MoveOn, CB!MoveTo
<1>7. PICK req \in CardRequests : req = old.req
  BY <1>1
<1>8. PICK tenant \in Tenants : tenant = req.tenant
  BY CBRequests
<1>9. PICK d \in DisputeIds : d = req.dispute
  BY CBRequests
<1>10. PICK row : row = disputes[<<tenant, d>>]
  OBVIOUS
<1>11. PICK status \in {"under_review", "high_risk_review"} :
         status = CB!DisputeStatus(CB!Likelihood(req, old.own))
  BY DEF CB!DisputeStatus
<1>12. PICK written : written = IF row = NoRow
                                THEN [customer |-> req.customer, txn |-> req.txn, age |-> 0,
                                      status |-> status]
                                ELSE [row EXCEPT !.status = status]
  OBVIOUS
<1>13. disputes' = [disputes EXCEPT ![<<tenant, d>>] = written]
  BY <1>1, <1>7, <1>8, <1>9, <1>10, <1>11, <1>12 DEF CB!RecordDispute
<1>14. /\ written \in CB!Dispute
       /\ \/ row = NoRow
          \/ written.customer = row.customer /\ written.txn = row.txn /\ written.age >= row.age
       /\ payments[<<tenant, written.txn>>] # NoRow
       /\ payments[<<tenant, written.txn>>].customer = written.customer
  <2>1. CASE row = NoRow
    <3>1. /\ req.customer \in Customers /\ req.txn \in Transactions /\ 0 \in DisputeAges
      BY CBRequests, CBBounds
    <3>2. /\ written = [customer |-> req.customer, txn |-> req.txn, age |-> 0, status |-> status]
          /\ written.txn = req.txn /\ written.customer = req.customer
      BY <1>12, <2>1
    <3>3. written \in CB!Dispute
      BY <3>1, <3>2 DEF CB!Dispute
    <3>4. /\ payments[<<tenant, req.txn>>] # NoRow
          /\ payments[<<tenant, req.txn>>].customer = req.customer
      BY <1>1, <1>2, <1>7, <1>8 DEF CBCallIsFine, FoundTransaction
    <3> QED BY <2>1, <3>2, <3>3, <3>4
  <2>2. CASE row # NoRow
    <3>1. row \in CB!Dispute /\ row.age >= row.age
      BY <1>10, <2>2, AgesCompare
    <3>2. /\ written \in CB!Dispute /\ written.customer = row.customer /\ written.txn = row.txn
          /\ written.age = row.age
      BY <1>12, <2>2, <3>1 DEF CB!Dispute
    <3>3. /\ payments[<<tenant, row.txn>>] # NoRow
          /\ payments[<<tenant, row.txn>>].customer = row.customer
      BY <1>10, <2>2, CBFacts DEF CB!DisputesNameTheirTransaction
    <3> QED BY <3>1, <3>2, <3>3
  <2> QED BY <2>1, <2>2
<1>15. /\ DOMAIN cardCalls' = DOMAIN cardCalls
       /\ \A k \in DOMAIN cardCalls : cardCalls'[k].req = cardCalls[k].req
  BY <1>1, <1>5, <1>6, CBReplaced
<1>16. /\ CBGrows(c)
       /\ payments' \in [Tenants \X Transactions -> CB!StoredPayment \cup {NoRow}]
       /\ disputes' \in [Tenants \X DisputeIds -> CB!Dispute \cup {NoRow}]
       /\ CB!DisputesNameTheirTransaction' /\ PaymentsHaveAuthors'
  BY <1>6, <1>10, <1>13, <1>14, <1>15, DisputeWritten
<1>17. CBCallIsFine(c, call)'
  <2>1. CountedWell(c, call)'
    BY <1>1, <1>5, <1>16, CountedWellStays DEF CBCallIsFine
  <2>2. PersistedFacts(call)' /\ FoundTransaction(call)'
    BY <1>1, <1>2, <1>5, <1>16, FactsStay DEF CBCallIsFine
  <2> QED BY <1>2, <1>5, <2>1, <2>2 DEF CBCallIsFine
<1> QED BY <1>1, <1>2, <1>5, <1>6, <1>16, <1>17, CBCallGoesOn

(* A step of no call.                                                      *)
LEMMA CBCallsWait ==
  ASSUME CBInv, UNCHANGED <<cases, patterns, cardDecisions, cardCalls>>, CBGrows(0),
         payments' \in [Tenants \X Transactions -> CB!StoredPayment \cup {NoRow}],
         disputes' \in [Tenants \X DisputeIds -> CB!Dispute \cup {NoRow}],
         CB!DisputesNameTheirTransaction', PaymentsHaveAuthors'
  PROVE  CBInv'
<1>1. ASSUME NEW k \in DOMAIN cardCalls
      PROVE  cardCalls'[k] \in CB!Call /\ CBCallIsFine(k, cardCalls[k])'
  <2>1. PICK call \in CB!Call :
          call = cardCalls[k] /\ cardCalls'[k] = call /\ CBCallIsFine(k, call)
    BY CBFacts
  <2>2. k # 0
    BY CBFacts
  <2>3. CBCallIsFine(k, call)'
    BY <2>1, <2>2, CBOthersKeep
  <2> QED BY <2>1, <2>3
<1>2. CBTables'
  BY CBFacts DEF CBTables
<1>3. PICK n \in 0..MaxCardCalls : DOMAIN cardCalls' = 1..n
  BY DEF CBInv
<1> QED BY <1>1, <1>2, <1>3 DEF CBInv

LEMMA AgeKeeps ==
  ASSUME CBInv, NEW tenant \in Tenants, NEW d \in Ageing, CB!Age(tenant, d)
  PROVE  CBInv'
<1>1. d \in DisputeIds
  BY CBBounds
<1>2. PICK old : old = disputes[<<tenant, d>>]
  OBVIOUS
<1>3. old # NoRow /\ old \in CB!Dispute
  BY <1>1, <1>2, CBFacts DEF CB!Age
<1>4. PICK age \in 0..366 : age = old.age /\ age < 366
  <2>1. old.age \in DisputeAges /\ old.age < 366
    BY <1>2, <1>3 DEF CB!Age, CB!Dispute
  <2>2. DisputeAges \subseteq 0..366
    BY CBBounds
  <2> QED BY <2>1, <2>2
<1>5. PICK later : later = {a \in DisputeAges : a > age}
  OBVIOUS
<1>6. later \in SUBSET Nat /\ later # {}
  <2>1. DisputeAges \subseteq 0..366 /\ 366 \in DisputeAges
    BY CBBounds
  <2>2. DisputeAges \subseteq Nat
    BY <2>1
  <2> QED BY <1>4, <1>5, <2>1, <2>2
<1>7. PICK next \in later : next = CB!Min(later)
  <2>1. \E x \in later : \A y \in later : x <= y
    BY <1>6, LeastNat
  <2>2. CB!Min(later) \in later
    BY <2>1 DEF CB!Min
  <2> QED BY <2>2
<1>8. next \in DisputeAges /\ next >= age
  <2>1. next \in Nat /\ next > age /\ next \in DisputeAges
    BY <1>5, <1>6, <1>7
  <2> QED BY <1>4, <2>1
<1>9. PICK row : row = [old EXCEPT !.age = next]
  OBVIOUS
<1>10. /\ row \in CB!Dispute /\ row.customer = old.customer /\ row.txn = old.txn
       /\ row.age >= old.age
  BY <1>3, <1>4, <1>8, <1>9 DEF CB!Dispute
<1>11. disputes' = [disputes EXCEPT ![<<tenant, d>>] = row]
       /\ UNCHANGED <<payments, cases, patterns, cardDecisions, cardCalls>>
  <2>1. disputes' = [disputes EXCEPT ![<<tenant, d>>].age = CB!Min({a \in DisputeAges : a > @})]
        /\ UNCHANGED <<payments, cases, patterns, cardDecisions, cardCalls>>
    BY DEF CB!Age
  <2>2. disputes' = [disputes EXCEPT ![<<tenant, d>>] = [old EXCEPT !.age = CB!Min(later)]]
    BY <1>2, <1>4, <1>5, <2>1
  <2> QED BY <1>7, <1>9, <2>1, <2>2
<1>12. /\ payments[<<tenant, row.txn>>] # NoRow
       /\ payments[<<tenant, row.txn>>].customer = row.customer
  BY <1>1, <1>2, <1>3, <1>10, CBFacts DEF CB!DisputesNameTheirTransaction
<1>13. /\ CBGrows(0)
       /\ payments' \in [Tenants \X Transactions -> CB!StoredPayment \cup {NoRow}]
       /\ disputes' \in [Tenants \X DisputeIds -> CB!Dispute \cup {NoRow}]
       /\ CB!DisputesNameTheirTransaction' /\ PaymentsHaveAuthors'
  BY <1>1, <1>2, <1>10, <1>11, <1>12, DisputeWritten
<1> QED BY <1>11, <1>13, CBCallsWait

LEMMA CBInvHolds == Spec => []CBInv
<1>1. CBInv /\ [Next]_vars => CBInv'
  <2> SUFFICES ASSUME CBInv, [Next]_vars PROVE CBInv'
    OBVIOUS
  <2>1. CASE CB!Next
    BY <2>1, CBReceiveKeeps, PersistKeeps, LookForTransactionKeeps, CBCountKeeps,
       RecordCaseOrPatternKeeps, RecordDisputeKeeps, DecideKeeps, CBFailKeeps, AgeKeeps DEF CB!Next
  <2>2. CASE UNCHANGED cardVars
    <3>1. UNCHANGED <<payments, disputes, cases, patterns, cardDecisions, cardCalls>>
      BY <2>2 DEF cardVars
    <3>2. /\ CBGrows(0)
          /\ payments' \in [Tenants \X Transactions -> CB!StoredPayment \cup {NoRow}]
          /\ disputes' \in [Tenants \X DisputeIds -> CB!Dispute \cup {NoRow}]
          /\ CB!DisputesNameTheirTransaction' /\ PaymentsHaveAuthors'
      <4>1. /\ DOMAIN cardCalls' = DOMAIN cardCalls /\ IsFiniteSet(DOMAIN cardCalls')
            /\ \A k \in DOMAIN cardCalls : cardCalls'[k].req = cardCalls[k].req
            /\ cases' = cases /\ cases' \subseteq DOMAIN cardCalls'
        BY <3>1, CBFacts
      <4> QED BY <3>1, <4>1, CBTablesStay
    <3> QED BY <3>1, <3>2, CBCallsWait
  <2> QED BY <2>1, <2>2, ServicesStep
<1> QED BY <1>1, CBInit, PTL DEF Spec

(* Requests that decide about one transaction agree on the facts that are  *)
(* stored of it, and a request that agrees with them is not refused,       *)
(* whatever the order of their statements (persistTransaction).            *)
THEOREM RequestsDecideFromOneRow == Spec => []RequestsAreIdempotent
<1>1. CBInv => RequestsAreIdempotent
  <2> SUFFICES ASSUME CBInv PROVE RequestsAreIdempotent
    OBVIOUS
  <2>1. CB!DecidedFromStoredFacts
    <3> SUFFICES ASSUME NEW c \in cardDecisions,
                        cardCalls[c].req.kind \in {"risk", "predict", "friendly"}
        PROVE  LET req == cardCalls[c].req
                   row == payments[<<req.tenant, req.txn>>]
               IN row # NoRow /\ CB!Facts(row) = CB!Facts(req)
      BY DEF CB!DecidedFromStoredFacts
    <3>1. c \in DOMAIN cardCalls /\ cardCalls[c].at = "done"
      BY CBFacts DEF CBTables
    <3>2. PersistedFacts(cardCalls[c])
      BY <3>1, CBFacts DEF CBCallIsFine
    <3> QED BY <3>1, <3>2 DEF PersistedFacts
  <2>2. CB!ConflictsAreReal
    BY CBFacts DEF CB!ConflictsAreReal, CBCallIsFine, RefusedForACause
  <2> QED BY <2>1, <2>2 DEF RequestsAreIdempotent, CB!RequestsAreIdempotent
<1> QED BY <1>1, CBInvHolds, PTL

(* What a verdict counted was on the customer's record, all that was there *)
(* when its request began and is still recent, and a severe verdict has    *)
(* the disputes or the cases of others behind it (lookupHistory,           *)
(* detectFriendlyFraud, analyzeDispute).                                   *)
THEOREM VerdictsHaveGrounds == Spec => []VerdictsRestOnRecords
<1>1. CBInv => VerdictsRestOnRecords
  <2> SUFFICES ASSUME CBInv PROVE VerdictsRestOnRecords
    OBVIOUS
  <2>1. \A c \in DOMAIN cardCalls : HonestCount(cardCalls[c]) /\ Grounds(c, cardCalls[c])
    BY CBFacts DEF CBCallIsFine, CountedWell
  <2>2. CB!CountsAreHonest
    BY <2>1 DEF CB!CountsAreHonest, HonestCount, CB!Cardinality, Cardinality
  <2>3. CB!SevereVerdictsHaveGrounds
    <3>1. ASSUME NEW S PROVE Cardinality(S) = CB!Cardinality(S)
      BY DEF CB!Cardinality, Cardinality
    <3>2. ASSUME NEW c \in DOMAIN cardCalls,
                 NEW call, call = cardCalls[c],
                 NEW own, own = CB!DisputesOf(call.req.tenant, call.req.customer, 366),
                 NEW theirs,
                 theirs = CB!MerchantDisputes(call.req.tenant, call.req.merchant, 366),
                 NEW others,
                 others = CB!CasesOf(call.req.tenant, call.req.customer) \ {c}
          PROVE  /\ call.verdict = "friendly_fraud" =>
                      \/ own # {}
                      \/ /\ CB!Cardinality(others) >= 2
                         /\ call.req.amount \in HighValue /\ call.req.foreign
                 /\ call.verdict = "decline_or_manual_review" => CB!Cardinality(own \cup theirs) >= 2
                 /\ call.verdict = "escalate_for_fraud_review" => CB!Cardinality(own) >= 5
      <4>1. Grounds(c, call)
        BY <2>1, <3>2
      <4>2. /\ call.verdict = "friendly_fraud" =>
                 \/ own # {}
                 \/ /\ Cardinality(others) >= 2
                    /\ call.req.amount \in HighValue /\ call.req.foreign
            /\ call.verdict = "decline_or_manual_review" => Cardinality(own \cup theirs) >= 2
            /\ call.verdict = "escalate_for_fraud_review" => Cardinality(own) >= 5
        BY <3>2, <4>1 DEF Grounds
      <4>3. /\ Cardinality(others) = CB!Cardinality(others)
            /\ Cardinality(own \cup theirs) = CB!Cardinality(own \cup theirs)
            /\ Cardinality(own) = CB!Cardinality(own)
        BY <3>1
      <4> QED BY <4>2, <4>3
    <3> QED BY <3>2 DEF CB!SevereVerdictsHaveGrounds
  <2> QED BY <2>2, <2>3, CBFacts DEF VerdictsRestOnRecords, CB!VerdictsRestOnRecords
<1> QED BY <1>1, CBInvHolds, PTL

LEMMA CBTypes == CBInv => CB!TypeOK
<1> SUFFICES ASSUME CBInv PROVE CB!TypeOK
  OBVIOUS
<1> QED BY CBFacts DEF CB!TypeOK, CBTables


-----------------------------------------------------------------------------
(* Whatever the services store and answer has its type: scores are         *)
(* percentages, rows name the calls and the requests they come from.       *)
THEOREM DetectorTypesHold == Spec => []TypeOK
<1>1. AMLInv /\ SIMInv /\ WALInv /\ ATOInv /\ INVInv /\ INSInv /\ CBInv => TypeOK
  BY AMLTypes, SIMTypes, WALTypes, ATOTypes, INVTypes, INSTypes, CBTypes DEF TypeOK
<1> QED BY <1>1, AMLInvHolds, SIMInvHolds, WALInvHolds, ATOInvHolds, INVInvHolds, INSInvHolds,
           CBInvHolds, PTL

=============================================================================
