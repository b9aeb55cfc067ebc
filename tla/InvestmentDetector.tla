------------------------- MODULE InvestmentDetector -------------------------
(***************************************************************************)
(* investment-fraud-detector: a scheme is scored from its facts, from the  *)
(* registry of the SEC and from how many schemes of its promoter are on    *)
(* record as Ponzi schemes, and is then put on record itself, with two     *)
(* look-ups and one upsert that are separate statements.  Investors ask    *)
(* what is on record.  An error of PostgreSQL reads as the zero value, and *)
(* one of the upsert is not noticed.                                       *)
(***************************************************************************)
EXTENDS Integers, FiniteSets, Sequences

CONSTANTS
  Schemes, Names, Promoters,
  Registered,   \* sec_registered_entities: names and promoters
  Losers,       \* investor_losses: the investors on it
  Investors,
  Requests,     \* the requests that may arrive
  NoRow,
  MaxCalls,     \* bound: requests received
  MaxFaults,    \* bound: failing statements, crashes
  Concurrency   \* bound: requests in flight

(* points: for words, for the minimum investment, for known scams.         *)
Facts ==
  [name : Names, promoter : Promoters, returns : {"low", "high", "extreme"},
   points : {0, 10, 15, 25, 50, 60, 65, 75}]

Request ==
  [kind : {"analyze", "risk", "investor"}, token : BOOLEAN, scheme : Schemes, facts : Facts,
   investor : Investors, large : BOOLEAN]

Row ==
  [promoter : Promoters, judged : Facts, risk : 0..100, isPonzi : BOOLEAN, sec : BOOLEAN]

ConstantsAssumption ==
  /\ Requests \subseteq Request
  /\ IsFiniteSet(Schemes) /\ NoRow \notin Row
  /\ Registered \subseteq Names \cup Promoters /\ Losers \subseteq Investors
  /\ {MaxCalls, MaxFaults} \subseteq Nat /\ Concurrency \in Nat \ {0}

VARIABLES
  schemes,    \* investment_schemes
  registry,   \* sec_registered_entities
  calls,
  faults,
  condemned,  \* what was answered to be a Ponzi scheme, kept for checking
  excused     \* the promoters whose verdicts may be lost, and why, kept for checking

vars == <<schemes, registry, calls, faults, condemned, excused>>

Stages == {"registered", "history", "store", "row", "scheme", "losses"}
Ends == {"done", "unauthorized", "missing", "error", "lost"}

(* known: what was condemned when the call began.                          *)
Call ==
  [req : Request, at : Stages \cup Ends, sec : BOOLEAN, scams : Nat, risk : Nat,
   says : {"nothing", "clean", "warned", "unknown"}, known : SUBSET (Schemes \X Facts)]

Causes == {"fault", "facts", "race"}

-----------------------------------------------------------------------------
Points(holds, points) == IF holds THEN points ELSE 0
AtMost(n, limit) == IF n < limit THEN n ELSE limit

(* performSchemeAnalysis.                                                  *)
RiskScore(facts, sec, scams) ==
  Points(facts.returns # "low", 30) + Points(facts.returns = "extreme", 40)
  + Points(~ sec, 35) + facts.points + 30 * scams

IsPonzi(score, facts) == score >= 70 \/ facts.returns = "extreme"

(* checkSECRegistration: by the name or by the promoter.                   *)
OnRegister(facts) == facts.name \in registry \/ facts.promoter \in registry

ScamsOf(promoter) ==
  {s \in Schemes : schemes[s] # NoRow /\ schemes[s].promoter = promoter /\ schemes[s].isPonzi}

(* Mutant of PreviousScams: it is asked whether there are any.             *)
AnyScams(promoter) == IF ScamsOf(promoter) = {} THEN 0 ELSE 1

(* checkPromoterHistory: the scheme itself counts once it is on record.    *)
PreviousScams(promoter) == Cardinality(ScamsOf(promoter))

Init ==
  /\ schemes = [s \in Schemes |-> NoRow]
  /\ registry = Registered
  /\ calls = << >> /\ faults = 0
  /\ condemned = {} /\ excused = {}

Fault == faults < MaxFaults /\ faults' = faults + 1

InFlight == {c \in DOMAIN calls : calls[c].at \in Stages}

FirstStage == [analyze |-> "registered", risk |-> "row", investor |-> "scheme"]

(* authMiddleware asks for an Authorization header and not what it says.   *)
Receive(req) ==
  /\ Len(calls) < MaxCalls /\ Cardinality(InFlight) < Concurrency
  /\ calls' = Append(calls,
       [req |-> req, at |-> IF req.token THEN FirstStage[req.kind] ELSE "unauthorized",
        sec |-> FALSE, scams |-> 0, risk |-> 0, says |-> "nothing", known |-> condemned])
  /\ UNCHANGED <<schemes, registry, faults, condemned, excused>>

Excuse(promoters, cause) == excused' = excused \cup (promoters \X {cause})

-----------------------------------------------------------------------------
(* analyzeInvestmentScheme.                                                *)

CheckSECRegistration(c) ==
  /\ calls[c].at = "registered"
  /\ \/ /\ calls' = [calls EXCEPT ![c].sec = OnRegister(calls[c].req.facts), ![c].at = "history"]
        /\ UNCHANGED faults
        /\ UNCHANGED excused
     \/ /\ Fault /\ calls' = [calls EXCEPT ![c].at = "history"]
        /\ Excuse({calls[c].req.facts.promoter}, "fault")
  /\ UNCHANGED <<schemes, registry, condemned>>

CheckPromoterHistory(c) ==
  LET promoter == calls[c].req.facts.promoter
  IN /\ calls[c].at = "history"
     /\ \/ /\ calls' = [calls EXCEPT ![c].scams = PreviousScams(promoter), ![c].at = "store"]
           /\ UNCHANGED <<faults, excused>>
        \/ /\ Fault /\ calls' = [calls EXCEPT ![c].at = "store"]
           /\ Excuse({promoter}, "fault")
     /\ UNCHANGED <<schemes, registry, condemned>>

Score(c) == RiskScore(calls[c].req.facts, calls[c].sec, calls[c].scams)
Verdict(c) == IsPonzi(Score(c), calls[c].req.facts)

(* Mutant of Upsert: ON CONFLICT DO NOTHING.                               *)
InsertOnly(old, new) == IF old = NoRow THEN new ELSE old

(* A scheme that is on record keeps its promoter and takes the verdict.    *)
Upsert(old, new) == IF old = NoRow THEN new ELSE [new EXCEPT !.promoter = old.promoter]

StoreSchemeAnalysis(c) ==
  LET s == calls[c].req.scheme
      facts == calls[c].req.facts
      old == schemes[s]
      other == old # NoRow /\ old.judged # facts
      stale == PreviousScams(facts.promoter) > calls[c].scams
      row == [promoter |-> facts.promoter, judged |-> facts, risk |-> AtMost(Score(c), 100),
              isPonzi |-> Verdict(c), sec |-> calls[c].sec]
  IN /\ calls[c].at = "store"
     /\ \/ /\ schemes' = [schemes EXCEPT ![s] = Upsert(old, row)] /\ UNCHANGED faults
           /\ excused' = excused
                \cup (IF other THEN {facts.promoter, old.promoter} \X {"facts"} ELSE {})
                \cup (IF stale THEN {<<facts.promoter, "race">>} ELSE {})
        \/ Fault /\ Excuse({facts.promoter}, "fault") /\ UNCHANGED schemes
     /\ calls' = [calls EXCEPT ![c].risk = AtMost(Score(c), 100), ![c].at = "done"]
     /\ condemned' = IF Verdict(c) THEN condemned \cup {<<s, facts>>} ELSE condemned
     /\ UNCHANGED registry

-----------------------------------------------------------------------------
(* getSchemeRisk, and performInvestorVerification, which takes a scheme    *)
(* that is not on record for one without risk.                             *)

Legitimate(row) == row.sec /\ row.risk < 40

GetSchemeRisk(c) ==
  LET row == schemes[calls[c].req.scheme]
  IN /\ calls[c].at = "row"
     /\ \/ /\ row # NoRow /\ UNCHANGED faults
           /\ calls' = [calls EXCEPT ![c].risk = row.risk, ![c].sec = row.sec,
                                     ![c].at = "done",
                                     ![c].says = IF Legitimate(row) THEN "clean" ELSE "warned"]
        \/ row = NoRow /\ calls' = [calls EXCEPT ![c].at = "missing"] /\ UNCHANGED faults
        \/ Fault /\ calls' = [calls EXCEPT ![c].at = "error"]
     /\ UNCHANGED <<schemes, registry, condemned, excused>>

(* Mutant of HighRisk: the threshold itself does not count.                *)
HigherRisk(risk) == risk > 70

HighRisk(risk) == risk >= 70

AskScheme(c) ==
  LET row == schemes[calls[c].req.scheme]
      warned == row # NoRow /\ HighRisk(row.risk)
      says == IF warned THEN "warned" ELSE "clean"
  IN /\ calls[c].at = "scheme"
     /\ \/ /\ UNCHANGED faults
           /\ calls' = [calls EXCEPT ![c].says = says, ![c].risk = Points(warned, 40),
                                     ![c].at = "losses"]
        \/ Fault /\ calls' = [calls EXCEPT ![c].says = "unknown", ![c].at = "losses"]
     /\ UNCHANGED <<schemes, registry, condemned, excused>>

AskLosses(c) ==
  LET req == calls[c].req
      scored(loses) ==
        calls' = [calls EXCEPT ![c].risk = @ + Points(req.large, 20) + Points(loses, 15),
                               ![c].at = "done"]
  IN /\ calls[c].at = "losses"
     /\ \/ scored(req.investor \in Losers) /\ UNCHANGED faults
        \/ Fault /\ scored(FALSE)
     /\ UNCHANGED <<schemes, registry, condemned, excused>>

-----------------------------------------------------------------------------
(* The SEC takes a name or a promoter on its register.                     *)
Registers(entity) ==
  /\ entity \notin registry
  /\ registry' = registry \cup {entity}
  /\ UNCHANGED <<schemes, calls, faults, condemned, excused>>

(* The process stops; PostgreSQL does not.                                 *)
Stop ==
  /\ InFlight # {} /\ Fault
  /\ calls' = [c \in DOMAIN calls |->
                 IF c \in InFlight THEN [calls[c] EXCEPT !.at = "lost"] ELSE calls[c]]
  /\ UNCHANGED <<schemes, registry, condemned, excused>>

Handle(c) ==
  \/ CheckSECRegistration(c) \/ CheckPromoterHistory(c) \/ StoreSchemeAnalysis(c)
  \/ GetSchemeRisk(c) \/ AskScheme(c) \/ AskLosses(c)

Next ==
  \/ \E req \in Requests : Receive(req)
  \/ \E c \in DOMAIN calls : Handle(c)
  \/ \E entity \in Names \cup Promoters : Registers(entity)
  \/ Stop

-----------------------------------------------------------------------------
(* Properties.                                                             *)

TypeOK ==
  /\ \A s \in Schemes : schemes[s] = NoRow \/ schemes[s] \in Row
  /\ registry \subseteq Names \cup Promoters
  /\ calls \in Seq(Call)
  /\ condemned \subseteq Schemes \X Facts /\ excused \subseteq Promoters \X Causes

(* What may take back the verdicts on a promoter's schemes.                *)
Uncertain(p) == \E cause \in Causes : <<p, cause>> \in excused

(* A scheme that was answered to be a Ponzi scheme stays one on record,    *)
(* however often it is analysed again and beside what: its own row and its *)
(* promoter's others only add to its score, which outweighs even that its  *)
(* promoter is registered in between.  What may take a verdict back is a   *)
(* look-up or upsert that failed, other facts under its id, or an analysis *)
(* that has counted before and is stored after.                            *)
VerdictsAreKept ==
  \A verdict \in condemned :
    LET row == schemes[verdict[1]] IN
    (row # NoRow /\ row.isPonzi) \/ Uncertain(verdict[2].promoter)

(* Whoever asks after such an answer is warned, or it was taken back, or   *)
(* the look-up for the investor failed.                                    *)
InvestorsAreWarned ==
  \A c \in DOMAIN calls : \A verdict \in calls[c].known :
    calls[c].says = "clean" /\ calls[c].req.scheme = verdict[1] => Uncertain(verdict[2].promoter)

(* Every condemned scheme of a promoter counts against the next one.       *)
HistoryIsCounted ==
  \A c \in DOMAIN calls :
    LET call == calls[c]
        p == call.req.facts.promoter
        own == {verdict \in call.known : verdict[2].promoter = p}
    IN call.req.kind = "analyze" /\ call.at = "done" /\ ~ Uncertain(p)
       => call.scams >= Cardinality({verdict[1] : verdict \in own})

(* A verdict on a scheme is kept, told and counted.                        *)
CondemnedSchemesStayKnown == VerdictsAreKept /\ InvestorsAreWarned /\ HistoryIsCounted

=============================================================================
