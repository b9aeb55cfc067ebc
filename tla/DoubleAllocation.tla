------------------------- MODULE DoubleAllocation -------------------------
(***************************************************************************)
(* Journey34DoubleAllocationWorkflow: seven activities in a row look for   *)
(* signs that a piece of land is sold twice.  Temporal retries an activity *)
(* that fails; when the attempts are used up most look-ups read as "found  *)
(* nothing".  The registry, the claims and the courts go on changing while *)
(* the journey looks at one after the other.                               *)
(***************************************************************************)
EXTENDS Integers, FiniteSets

CONSTANTS
  Persons, NoName,
  Lands,            \* what may be on record when the journey starts
  MaximumAttempts,  \* of an activity, 3 in the code
  MaxChanges        \* bound: changes of the records during the journey

Statuses == {"pending", "active", "resolved"}

(* The records behind the activities: who claims the land, the court cases *)
(* by status, who is registered as its owner, who offers it for sale.      *)
Land ==
  [claimants : SUBSET Persons, disputes : SUBSET Statuses, owner : Persons, seller : Persons]

ConstantsAssumption ==
  /\ NoName \notin Persons /\ IsFiniteSet(Persons)
  /\ Lands \subseteq Land /\ Lands # {}
  /\ MaximumAttempts \in Nat \ {0} /\ MaxChanges \in Nat

VARIABLES
  land,      \* the records now
  past,      \* the records the journey has seen so far, kept for checking
  step, attempt,
  heard,     \* what the activities answered
  output     \* Journey34Output

vars == <<land, past, step, attempt, heard, output>>

Steps == {"extract", "registry", "claimants", "disputes", "owner", "seller", "score"}
Types ==
  {"MULTIPLE_CLAIMANTS", "OWNERSHIP_DISPUTE", "VERIFICATION_FAILED", "UNAUTHORIZED_SELLER"}
Recommendations == {"none", "caution", "stop", "do_not_proceed", "legitimate"}

(* The outcome of each step, its types and its values.                     *)
TypeOK ==
  /\ land \in Land /\ past \subseteq Land
  /\ step \in Steps \cup {"end"} /\ attempt \in 1..MaximumAttempts
  /\ heard \in [claimants : SUBSET Persons, disputes : SUBSET Statuses,
                owner : Persons \cup {NoName}, seller : Persons \cup {NoName},
                unanswered : SUBSET Steps]
  /\ output \in [status : {"in_progress", "failed", "completed", "completed_with_fraud"},
                 fraudDetected : BOOLEAN, indicators : SUBSET Types,
                 riskScore : 0..10, recommendation : Recommendations]

Init ==
  /\ land \in Lands /\ past = {land}
  /\ step = "extract" /\ attempt = 1
  /\ heard = [claimants |-> {}, disputes |-> {}, owner |-> NoName, seller |-> NoName,
              unanswered |-> {}]
  /\ output = [status |-> "in_progress", fraudDetected |-> FALSE, indicators |-> {},
               riskScore |-> 0, recommendation |-> "none"]

-----------------------------------------------------------------------------
(* Activities.  An attempt may fail for reasons of its own: the service,   *)
(* the network, the worker, the 60 seconds.                                *)

(* Mutant of Retry: the last attempt is not the last.                      *)
RetryOnceMore ==
  /\ step \in Steps /\ attempt <= MaximumAttempts
  /\ attempt' = attempt + 1
  /\ UNCHANGED <<land, past, step, heard, output>>

Retry ==
  /\ step \in Steps /\ attempt < MaximumAttempts
  /\ attempt' = attempt + 1
  /\ UNCHANGED <<land, past, step, heard, output>>

(* Mutant of LastAttempt: never reached.                                   *)
BeyondLast == attempt > MaximumAttempts

LastAttempt == attempt = MaximumAttempts

Proceed(s, next) ==
  /\ step = s /\ step' = next /\ attempt' = 1
  /\ UNCHANGED <<land, past>>

Unanswered == [heard EXCEPT !.unanswered = @ \cup {step}]

(* The output with an indicator more.                                      *)
Flagged(type) ==
  [output EXCEPT !.fraudDetected = TRUE, !.indicators = @ \cup {type}]

ExtractLandDetails ==
  \/ /\ Proceed("extract", "registry")
     /\ heard' = [heard EXCEPT !.seller = land.seller]
     /\ UNCHANGED output
  \/ /\ LastAttempt /\ Proceed("extract", "end")
     /\ heard' = Unanswered
     /\ output' = [output EXCEPT !.status = "failed"]

(* The ownership history is shown to the user and judged by nobody.        *)
QueryLandRegistry ==
  /\ Proceed("registry", "claimants")
  /\ heard' \in {heard} \cup (IF LastAttempt THEN {Unanswered} ELSE {})
  /\ UNCHANGED output

(* Mutant of SeveralClaim: two claimants are no conflict.                  *)
MoreThanTwoClaim(claimants) == Cardinality(claimants) > 2

SeveralClaim(claimants) == Cardinality(claimants) > 1

DetectMultipleClaimants ==
  /\ Proceed("claimants", "disputes")
  /\ heard' \in {[heard EXCEPT !.claimants = land.claimants]}
                \cup (IF LastAttempt THEN {Unanswered} ELSE {})
  /\ output' = IF SeveralClaim(heard'.claimants) THEN Flagged("MULTIPLE_CLAIMANTS") ELSE output

(* A resolved case marks the land too, without an indicator.               *)
SearchCourtDisputes ==
  /\ Proceed("disputes", "owner")
  /\ heard' \in {[heard EXCEPT !.disputes = land.disputes]}
                \cup (IF LastAttempt THEN {Unanswered} ELSE {})
  /\ output' = IF heard'.disputes \cap {"pending", "active"} # {}
               THEN Flagged("OWNERSHIP_DISPUTE")
               ELSE [output EXCEPT !.fraudDetected = @ \/ heard'.disputes # {}]

VerifyCurrentOwner ==
  \/ /\ Proceed("owner", "seller")
     /\ heard' = [heard EXCEPT !.owner = land.owner]
     /\ UNCHANGED output
  \/ /\ LastAttempt /\ Proceed("owner", "seller")
     /\ heard' = Unanswered
     /\ output' = Flagged("VERIFICATION_FAILED")

(* Mutant of Authorized: who claims the land may sell it.                  *)
AmongClaimants == heard.seller \in heard.claimants

(* Without an owner every attempt of the activity panics; the error of the *)
(* last one is logged and nothing else.                                    *)
Authorized == heard.seller = heard.owner

CheckUnauthorizedSeller ==
  \/ /\ heard.owner # NoName /\ Proceed("seller", "score")
     /\ output' = IF Authorized THEN output ELSE Flagged("UNAUTHORIZED_SELLER")
     /\ UNCHANGED heard
  \/ /\ LastAttempt /\ Proceed("seller", "score")
     /\ heard' = Unanswered
     /\ UNCHANGED output

(* The score travels as JSON: []FraudIndicator arrives as []interface{} and*)
(* int as float64, so that the first type assertion panics in each attempt *)
(* and the score is 0.                                                     *)
Recommendation(o) ==
  CASE ~ o.fraudDetected -> "legitimate"
    [] o.riskScore >= 8 -> "do_not_proceed"
    [] o.riskScore \in 5..7 -> "stop"
    [] OTHER -> "caution"

CalculateRiskScore ==
  /\ LastAttempt /\ Proceed("score", "end")
  /\ heard' = Unanswered
  /\ LET scored == [output EXCEPT !.riskScore = 0]
     IN output' = [scored EXCEPT
          !.status = IF scored.fraudDetected THEN "completed_with_fraud" ELSE "completed",
          !.recommendation = Recommendation(scored)]

Workflow ==
  \/ Retry
  \/ ExtractLandDetails \/ QueryLandRegistry \/ DetectMultipleClaimants
  \/ SearchCourtDisputes \/ VerifyCurrentOwner \/ CheckUnauthorizedSeller
  \/ CalculateRiskScore

(* The records: a claim is made or dropped, a case is filed or settled, the*)
(* land changes hands.                                                     *)
RecordsChange ==
  /\ step # "end" /\ Cardinality(past) <= MaxChanges
  /\ \/ \E p \in Persons :
          land' \in {[land EXCEPT !.claimants = @ \cup {p}], [land EXCEPT !.claimants = @ \ {p}],
                     [land EXCEPT !.owner = p]}
     \/ land' = [land EXCEPT !.disputes = @ \cup {"pending"}]
     \/ land' = [land EXCEPT !.disputes = {"resolved"}]
  /\ past' = past \cup {land'}
  /\ UNCHANGED <<step, attempt, heard, output>>

Next == Workflow \/ RecordsChange

-----------------------------------------------------------------------------

(* A land is called clean only if each look-up that was answered found it  *)
(* so at some moment of the journey: claimants, courts and owner; and the  *)
(* owner was named at all.  What no look-up answered is not covered        *)
(* (Journey34DoubleAllocationWorkflow continues with partial data).        *)
CleanVerdictIsEarned ==
  output.status = "completed" =>
    /\ "claimants" \in heard.unanswered \/ \E l \in past : Cardinality(l.claimants) <= 1
    /\ "disputes" \in heard.unanswered \/ \E l \in past : l.disputes = {}
    /\ heard.owner # NoName
    /\ "seller" \in heard.unanswered \/ \E l \in past : l.owner = heard.seller

(* Nobody is accused without grounds: behind "fraud" there was a moment    *)
(* with two claimants, a court case or a foreign seller, or the registry   *)
(* did not name the owner.                                                 *)
FraudVerdictHasGrounds ==
  output.status = "completed_with_fraud" =>
    \/ \E l \in past : Cardinality(l.claimants) > 1 \/ l.disputes # {} \/ l.owner # l.seller
    \/ "owner" \in heard.unanswered

(* What a journey says of a land it has seen, in either direction.         *)
VerdictsHaveGrounds == CleanVerdictIsEarned /\ FraudVerdictHasGrounds

(* "Multiple claimants: +0.4": a journey that has heard of two claimants   *)
(* answers with 0.4 or more (CalculateRiskScoreActivity's comment).        *)
ScoreCountsClaimants ==
  output.status = "completed_with_fraud" /\ SeveralClaim(heard.claimants) => output.riskScore >= 4

(* Every journey ends, whatever the services do (MaximumAttempts).         *)
AllocationJourneyEnds == <>(step = "end")

=============================================================================
