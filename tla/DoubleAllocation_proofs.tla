---------------------- MODULE DoubleAllocation_proofs ----------------------
(***************************************************************************)
(* Theorems about DoubleAllocation, for any persons, any attempts and any  *)
(* number of changes of the records while the journey looks.               *)
(***************************************************************************)
EXTENDS DoubleAllocation, FiniteSetTheorems, TLAPS

BeforeClaimants == {"extract", "registry", "claimants"}
BeforeDisputes == BeforeClaimants \cup {"disputes"}
BeforeOwner == BeforeDisputes \cup {"owner"}
BeforeSeller == BeforeOwner \cup {"seller"}

(* What the journey has heard was on record at some moment of it, and what *)
(* it has not asked yet is empty.  The offer does not change.              *)
HeardWasOnRecord ==
  /\ land \in past
  /\ \A l \in past : l.seller = land.seller
  /\ step = "extract" \/ output.status = "failed" \/ heard.seller = land.seller
  /\ heard.claimants = {} \/ \E l \in past : l.claimants = heard.claimants
  /\ heard.disputes = {} \/ \E l \in past : l.disputes = heard.disputes
  /\ heard.owner # NoName => \E l \in past : l.owner = heard.owner
  /\ step \in BeforeClaimants => heard.claimants = {}
  /\ step \in BeforeDisputes => heard.disputes = {}

FewClaimed == "claimants" \in heard.unanswered \/ \E l \in past : Cardinality(l.claimants) <= 1
NoneDisputed == "disputes" \in heard.unanswered \/ \E l \in past : l.disputes = {}
SellerOwned == "seller" \in heard.unanswered \/ \E l \in past : l.owner = heard.seller

(* As long as nothing was flagged, each look-up behind the journey found   *)
(* the land clean or was not answered.                                     *)
CleanSoFar ==
  ~ output.fraudDetected /\ output.status # "failed" =>
    /\ step \notin BeforeClaimants => FewClaimed
    /\ step \notin BeforeDisputes => NoneDisputed
    /\ step \notin BeforeOwner => heard.owner # NoName
    /\ step \notin BeforeSeller => SellerOwned

(* What was flagged has grounds.                                           *)
FlagsHaveGrounds ==
  output.fraudDetected =>
    \/ \E l \in past : Cardinality(l.claimants) > 1 \/ l.disputes # {} \/ l.owner # l.seller
    \/ "owner" \in heard.unanswered

(* A verdict is the flag's.                                                *)
VerdictIsTheFlag ==
  /\ output.status = "completed" => step = "end" /\ ~ output.fraudDetected
  /\ output.status = "completed_with_fraud" => step = "end" /\ output.fraudDetected
  /\ output.status = "in_progress" <=> step # "end"

IInv == TypeOK /\ HeardWasOnRecord /\ CleanSoFar /\ FlagsHaveGrounds /\ VerdictIsTheFlag

-----------------------------------------------------------------------------
(* Claimants can be counted.                                               *)
LEMMA ClaimantsAreCounted ==
  ASSUME ConstantsAssumption, NEW S \in SUBSET Persons
  PROVE  Cardinality(S) \in Nat
BY FS_Subset, FS_CardinalityType DEF ConstantsAssumption

LEMMA InitIsFine == ASSUME ConstantsAssumption, Init PROVE IInv
<1>1. land \in Land
  BY DEF ConstantsAssumption, Init
<1>2. TypeOK
  BY <1>1 DEF Init, TypeOK, ConstantsAssumption, Steps, Types, Recommendations
<1> QED BY <1>2 DEF Init, IInv, HeardWasOnRecord, CleanSoFar, FlagsHaveGrounds, VerdictIsTheFlag,
                    BeforeClaimants, BeforeDisputes, BeforeOwner, BeforeSeller

(* The records change under the journey.                                   *)
LEMMA RecordsKeepInvariant ==
  ASSUME ConstantsAssumption, IInv, RecordsChange PROVE IInv'
<1>1. /\ land \in Land /\ past \subseteq Land /\ past' = past \cup {land'}
      /\ UNCHANGED <<step, attempt, heard, output>>
  BY DEF IInv, TypeOK, RecordsChange
<1>2. land' \in Land /\ land'.seller = land.seller
  <2>1. CASE land' = [land EXCEPT !.disputes = @ \cup {"pending"}]
    BY <1>1, <2>1 DEF Land, Statuses
  <2>2. CASE land' = [land EXCEPT !.disputes = {"resolved"}]
    BY <1>1, <2>2 DEF Land, Statuses
  <2>3. ASSUME NEW p \in Persons,
               land' \in {[land EXCEPT !.claimants = @ \cup {p}],
                          [land EXCEPT !.claimants = @ \ {p}], [land EXCEPT !.owner = p]}
        PROVE  land' \in Land /\ land'.seller = land.seller
    BY <1>1, <2>3 DEF Land
  <2> QED BY <2>1, <2>2, <2>3 DEF RecordsChange
<1>3. TypeOK'
  BY <1>1, <1>2 DEF IInv, TypeOK
<1>4. HeardWasOnRecord'
  BY <1>1, <1>2 DEF IInv, HeardWasOnRecord
<1>5. CleanSoFar'
  BY <1>1 DEF IInv, CleanSoFar, FewClaimed, NoneDisputed, SellerOwned
<1>6. FlagsHaveGrounds'
  BY <1>1 DEF IInv, FlagsHaveGrounds
<1>7. VerdictIsTheFlag'
  BY <1>1 DEF IInv, VerdictIsTheFlag
<1> QED BY <1>3, <1>4, <1>5, <1>6, <1>7 DEF IInv

-----------------------------------------------------------------------------
(* What a look-up may change: the part it asks for, the list of those that *)
(* were not answered, and an indicator in the output.                      *)
LEMMA RetryKeepsInvariant ==
  ASSUME ConstantsAssumption, IInv, Retry PROVE IInv'
<1>1. /\ UNCHANGED <<land, past, step, heard, output>>
      /\ attempt' \in 1..MaximumAttempts
  BY DEF IInv, TypeOK, Retry, ConstantsAssumption
<1> QED BY <1>1 DEF IInv, TypeOK, HeardWasOnRecord, CleanSoFar, FlagsHaveGrounds,
                    VerdictIsTheFlag, FewClaimed, NoneDisputed, SellerOwned

LEMMA UnansweredFields ==
  ASSUME TypeOK, step \in Steps
  PROVE  /\ Unanswered \in [claimants : SUBSET Persons, disputes : SUBSET Statuses,
                            owner : Persons \cup {NoName}, seller : Persons \cup {NoName},
                            unanswered : SUBSET Steps]
         /\ Unanswered.claimants = heard.claimants /\ Unanswered.disputes = heard.disputes
         /\ Unanswered.owner = heard.owner /\ Unanswered.seller = heard.seller
         /\ Unanswered.unanswered = heard.unanswered \cup {step}
BY DEF TypeOK, Unanswered

LEMMA FlaggedFields ==
  ASSUME TypeOK, NEW type \in Types
  PROVE  /\ Flagged(type) \in [status : {"in_progress", "failed", "completed",
                                         "completed_with_fraud"},
                               fraudDetected : BOOLEAN, indicators : SUBSET Types,
                               riskScore : 0..10, recommendation : Recommendations]
         /\ Flagged(type).fraudDetected /\ Flagged(type).status = output.status
BY DEF TypeOK, Flagged

LEMMA ExtractKeepsInvariant ==
  ASSUME ConstantsAssumption, IInv, ExtractLandDetails PROVE IInv'
<1> USE DEF Steps, BeforeClaimants, BeforeDisputes, BeforeOwner, BeforeSeller
<1>1. /\ step = "extract" /\ UNCHANGED <<land, past>> /\ attempt' = 1
      /\ attempt' \in 1..MaximumAttempts
  BY DEF ExtractLandDetails, Proceed, ConstantsAssumption
<1>2. CASE /\ step' = "registry" /\ heard' = [heard EXCEPT !.seller = land.seller]
           /\ output' = output
  <2>1. /\ heard' \in [claimants : SUBSET Persons, disputes : SUBSET Statuses,
                       owner : Persons \cup {NoName}, seller : Persons \cup {NoName},
                       unanswered : SUBSET Steps]
        /\ heard'.seller = land.seller /\ heard'.owner = heard.owner
        /\ heard'.claimants = heard.claimants /\ heard'.disputes = heard.disputes
        /\ heard'.unanswered = heard.unanswered
    BY <1>2 DEF IInv, TypeOK, Land
  <2>2. TypeOK'
    BY <1>1, <1>2, <2>1 DEF IInv, TypeOK
  <2>3. HeardWasOnRecord'
    BY <1>1, <1>2, <2>1 DEF IInv, HeardWasOnRecord
  <2>4. CleanSoFar' /\ FlagsHaveGrounds' /\ VerdictIsTheFlag'
    BY <1>1, <1>2, <2>1 DEF IInv, CleanSoFar, FlagsHaveGrounds, VerdictIsTheFlag
  <2> QED BY <2>2, <2>3, <2>4 DEF IInv
<1>3. CASE /\ step' = "end" /\ heard' = Unanswered /\ output' = [output EXCEPT !.status = "failed"]
  <2>1. /\ output'.status = "failed" /\ output'.fraudDetected = output.fraudDetected
        /\ output' \in [status : {"in_progress", "failed", "completed", "completed_with_fraud"},
                        fraudDetected : BOOLEAN, indicators : SUBSET Types,
                        riskScore : 0..10, recommendation : Recommendations]
    BY <1>3 DEF IInv, TypeOK
  <2>2. TypeOK'
    BY <1>1, <1>3, <2>1, UnansweredFields DEF IInv, TypeOK
  <2>3. HeardWasOnRecord'
    BY <1>1, <1>3, <2>1, UnansweredFields DEF IInv, HeardWasOnRecord
  <2>4. CleanSoFar' /\ FlagsHaveGrounds' /\ VerdictIsTheFlag'
    BY <1>1, <1>3, <2>1, UnansweredFields DEF IInv, CleanSoFar, FlagsHaveGrounds, VerdictIsTheFlag
  <2> QED BY <2>2, <2>3, <2>4 DEF IInv
<1> QED BY <1>2, <1>3 DEF ExtractLandDetails, Proceed

LEMMA RegistryKeepsInvariant ==
  ASSUME ConstantsAssumption, IInv, QueryLandRegistry PROVE IInv'
<1> USE DEF Steps, BeforeClaimants, BeforeDisputes, BeforeOwner, BeforeSeller
<1>1. /\ step = "registry" /\ step' = "claimants" /\ UNCHANGED <<land, past, output>>
      /\ attempt' = 1 /\ attempt' \in 1..MaximumAttempts
      /\ heard' = heard \/ heard' = Unanswered
  BY DEF QueryLandRegistry, Proceed, ConstantsAssumption
<1>2. /\ heard' \in [claimants : SUBSET Persons, disputes : SUBSET Statuses,
                     owner : Persons \cup {NoName}, seller : Persons \cup {NoName},
                     unanswered : SUBSET Steps]
      /\ heard'.seller = heard.seller /\ heard'.owner = heard.owner
      /\ heard'.claimants = heard.claimants /\ heard'.disputes = heard.disputes
      /\ heard.unanswered \subseteq heard'.unanswered
  BY <1>1, UnansweredFields DEF IInv, TypeOK
<1>3. TypeOK'
  BY <1>1, <1>2 DEF IInv, TypeOK
<1>4. HeardWasOnRecord'
  BY <1>1, <1>2 DEF IInv, HeardWasOnRecord
<1>5. CleanSoFar' /\ FlagsHaveGrounds' /\ VerdictIsTheFlag'
  BY <1>1, <1>2 DEF IInv, CleanSoFar, FlagsHaveGrounds, VerdictIsTheFlag
<1> QED BY <1>3, <1>4, <1>5 DEF IInv

LEMMA ClaimantsKeepInvariant ==
  ASSUME ConstantsAssumption, IInv, DetectMultipleClaimants PROVE IInv'
<1> USE DEF Steps, BeforeClaimants, BeforeDisputes, BeforeOwner, BeforeSeller
<1>1. /\ step = "claimants" /\ step' = "disputes" /\ UNCHANGED <<land, past>>
      /\ attempt' = 1 /\ attempt' \in 1..MaximumAttempts
      /\ heard' = [heard EXCEPT !.claimants = land.claimants] \/ heard' = Unanswered
      /\ output' = IF SeveralClaim(heard'.claimants) THEN Flagged("MULTIPLE_CLAIMANTS")
                                                     ELSE output
  BY DEF DetectMultipleClaimants, Proceed, ConstantsAssumption
<1>2. land \in Land /\ land \in past /\ past \subseteq Land /\ heard.claimants = {}
  BY <1>1 DEF IInv, TypeOK, HeardWasOnRecord
<1>3. /\ heard' \in [claimants : SUBSET Persons, disputes : SUBSET Statuses,
                     owner : Persons \cup {NoName}, seller : Persons \cup {NoName},
                     unanswered : SUBSET Steps]
      /\ heard'.seller = heard.seller /\ heard'.owner = heard.owner
      /\ heard'.disputes = heard.disputes
      /\ heard.unanswered \subseteq heard'.unanswered
      /\ \/ heard'.claimants = land.claimants
         \/ heard'.claimants = {} /\ "claimants" \in heard'.unanswered
  BY <1>1, <1>2, UnansweredFields DEF IInv, TypeOK, Land
<1>4. /\ output' \in [status : {"in_progress", "failed", "completed", "completed_with_fraud"},
                      fraudDetected : BOOLEAN, indicators : SUBSET Types,
                      riskScore : 0..10, recommendation : Recommendations]
      /\ output'.status = output.status
      /\ output'.fraudDetected <=> output.fraudDetected \/ Cardinality(heard'.claimants) > 1
  <2>1. "MULTIPLE_CLAIMANTS" \in Types
    BY DEF Types
  <2>2. output.fraudDetected \in BOOLEAN
    BY DEF IInv, TypeOK
  <2>3. CASE SeveralClaim(heard'.claimants)
    BY <1>1, <2>1, <2>3, FlaggedFields DEF IInv, SeveralClaim
  <2>4. CASE ~ SeveralClaim(heard'.claimants)
    BY <1>1, <2>2, <2>4 DEF IInv, TypeOK, SeveralClaim
  <2> QED BY <2>3, <2>4
<1>5. TypeOK'
  BY <1>1, <1>3, <1>4 DEF IInv, TypeOK
<1>6. HeardWasOnRecord'
  BY <1>1, <1>2, <1>3, <1>4 DEF IInv, HeardWasOnRecord
<1>7. Cardinality(heard'.claimants) \in Nat /\ Cardinality({}) = 0
  BY <1>3, ClaimantsAreCounted, FS_EmptySet
<1>8. CleanSoFar'
  BY <1>1, <1>2, <1>3, <1>4, <1>7 DEF IInv, CleanSoFar, FewClaimed
<1>9. FlagsHaveGrounds'
  BY <1>1, <1>2, <1>3, <1>4, <1>7 DEF IInv, FlagsHaveGrounds
<1>10. VerdictIsTheFlag'
  BY <1>1, <1>4 DEF IInv, VerdictIsTheFlag
<1> QED BY <1>5, <1>6, <1>8, <1>9, <1>10 DEF IInv

LEMMA DisputesKeepInvariant ==
  ASSUME ConstantsAssumption, IInv, SearchCourtDisputes PROVE IInv'
<1> USE DEF Steps, BeforeClaimants, BeforeDisputes, BeforeOwner, BeforeSeller
<1>1. /\ step = "disputes" /\ step' = "owner" /\ UNCHANGED <<land, past>>
      /\ attempt' = 1 /\ attempt' \in 1..MaximumAttempts
      /\ heard' = [heard EXCEPT !.disputes = land.disputes] \/ heard' = Unanswered
      /\ output' = IF heard'.disputes \cap {"pending", "active"} # {}
                   THEN Flagged("OWNERSHIP_DISPUTE")
                   ELSE [output EXCEPT !.fraudDetected = @ \/ heard'.disputes # {}]
  BY DEF SearchCourtDisputes, Proceed, ConstantsAssumption
<1>2. land \in Land /\ land \in past /\ past \subseteq Land /\ heard.disputes = {}
  BY <1>1 DEF IInv, TypeOK, HeardWasOnRecord
<1>3. /\ heard' \in [claimants : SUBSET Persons, disputes : SUBSET Statuses,
                     owner : Persons \cup {NoName}, seller : Persons \cup {NoName},
                     unanswered : SUBSET Steps]
      /\ heard'.seller = heard.seller /\ heard'.owner = heard.owner
      /\ heard'.claimants = heard.claimants
      /\ heard.unanswered \subseteq heard'.unanswered
      /\ \/ heard'.disputes = land.disputes
         \/ heard'.disputes = {} /\ "disputes" \in heard'.unanswered
  BY <1>1, <1>2, UnansweredFields DEF IInv, TypeOK, Land
<1>4. /\ output' \in [status : {"in_progress", "failed", "completed", "completed_with_fraud"},
                      fraudDetected : BOOLEAN, indicators : SUBSET Types,
                      riskScore : 0..10, recommendation : Recommendations]
      /\ output'.status = output.status
      /\ output'.fraudDetected <=> output.fraudDetected \/ heard'.disputes # {}
  <2>1. "OWNERSHIP_DISPUTE" \in Types
    BY DEF Types
  <2>2. CASE heard'.disputes \cap {"pending", "active"} # {}
    <3>1. heard'.disputes # {}
      BY <2>2
    <3> QED BY <1>1, <2>1, <2>2, <3>1, FlaggedFields DEF IInv
  <2>3. CASE ~ (heard'.disputes \cap {"pending", "active"} # {})
    <3>1. output' = [output EXCEPT !.fraudDetected = @ \/ heard'.disputes # {}]
      BY <1>1, <2>3
    <3> QED BY <3>1 DEF IInv, TypeOK
  <2> QED BY <2>2, <2>3
<1>5. TypeOK'
  BY <1>1, <1>3, <1>4 DEF IInv, TypeOK
<1>6. HeardWasOnRecord'
  BY <1>1, <1>2, <1>3, <1>4 DEF IInv, HeardWasOnRecord
<1>7. CleanSoFar'
  BY <1>1, <1>2, <1>3, <1>4 DEF IInv, CleanSoFar, FewClaimed, NoneDisputed
<1>8. FlagsHaveGrounds'
  BY <1>1, <1>2, <1>3, <1>4 DEF IInv, FlagsHaveGrounds
<1>9. VerdictIsTheFlag'
  BY <1>1, <1>4 DEF IInv, VerdictIsTheFlag
<1> QED BY <1>5, <1>6, <1>7, <1>8, <1>9 DEF IInv

LEMMA OwnerKeepsInvariant ==
  ASSUME ConstantsAssumption, IInv, VerifyCurrentOwner PROVE IInv'
<1> USE DEF Steps, BeforeClaimants, BeforeDisputes, BeforeOwner, BeforeSeller
<1>1. /\ step = "owner" /\ step' = "seller" /\ UNCHANGED <<land, past>>
      /\ attempt' = 1 /\ attempt' \in 1..MaximumAttempts
      /\ \/ heard' = [heard EXCEPT !.owner = land.owner] /\ output' = output
         \/ heard' = Unanswered /\ output' = Flagged("VERIFICATION_FAILED")
  BY DEF VerifyCurrentOwner, Proceed, ConstantsAssumption
<1>2. land \in Land /\ land \in past /\ past \subseteq Land
  BY DEF IInv, TypeOK, HeardWasOnRecord
<1>3. /\ heard' \in [claimants : SUBSET Persons, disputes : SUBSET Statuses,
                     owner : Persons \cup {NoName}, seller : Persons \cup {NoName},
                     unanswered : SUBSET Steps]
      /\ heard'.seller = heard.seller /\ heard'.claimants = heard.claimants
      /\ heard'.disputes = heard.disputes
      /\ heard.unanswered \subseteq heard'.unanswered
      /\ \/ heard'.owner = land.owner /\ output' = output
         \/ /\ heard'.owner = heard.owner /\ "owner" \in heard'.unanswered
            /\ output' = Flagged("VERIFICATION_FAILED")
  BY <1>1, <1>2, UnansweredFields DEF IInv, TypeOK, Land
<1>4. /\ output' \in [status : {"in_progress", "failed", "completed", "completed_with_fraud"},
                      fraudDetected : BOOLEAN, indicators : SUBSET Types,
                      riskScore : 0..10, recommendation : Recommendations]
      /\ output'.status = output.status
      /\ \/ output'.fraudDetected = output.fraudDetected /\ heard'.owner = land.owner
         \/ output'.fraudDetected /\ "owner" \in heard'.unanswered
  <2>1. "VERIFICATION_FAILED" \in Types
    BY DEF Types
  <2> QED BY <1>3, <2>1, FlaggedFields DEF IInv, TypeOK
<1>5. TypeOK'
  BY <1>1, <1>3, <1>4 DEF IInv, TypeOK
<1>6. HeardWasOnRecord'
  BY <1>1, <1>2, <1>3, <1>4 DEF IInv, HeardWasOnRecord
<1>7. CleanSoFar'
  <2>1. land.owner # NoName
    BY <1>2 DEF Land, ConstantsAssumption
  <2> QED BY <1>1, <1>3, <1>4, <2>1 DEF IInv, CleanSoFar, FewClaimed, NoneDisputed
<1>8. FlagsHaveGrounds'
  BY <1>1, <1>3, <1>4 DEF IInv, FlagsHaveGrounds
<1>9. VerdictIsTheFlag'
  BY <1>1, <1>4 DEF IInv, VerdictIsTheFlag
<1> QED BY <1>5, <1>6, <1>7, <1>8, <1>9 DEF IInv

LEMMA SellerKeepsInvariant ==
  ASSUME ConstantsAssumption, IInv, CheckUnauthorizedSeller PROVE IInv'
<1> USE DEF Steps, BeforeClaimants, BeforeDisputes, BeforeOwner, BeforeSeller
<1>1. /\ step = "seller" /\ step' = "score" /\ UNCHANGED <<land, past>>
      /\ attempt' = 1 /\ attempt' \in 1..MaximumAttempts
      /\ \/ heard.owner # NoName /\ heard' = heard
         \/ heard' = Unanswered /\ output' = output
      /\ \/ heard' = Unanswered /\ output' = output
         \/ output' = IF Authorized THEN output ELSE Flagged("UNAUTHORIZED_SELLER")
  BY DEF CheckUnauthorizedSeller, Proceed, ConstantsAssumption
<1>2. /\ land \in past /\ output.status = "in_progress"
      /\ \A l \in past : l.seller = land.seller
      /\ heard.owner # NoName => \E l \in past : l.owner = heard.owner
      /\ heard.seller = land.seller
  BY <1>1 DEF IInv, HeardWasOnRecord, VerdictIsTheFlag
<1>3. /\ heard' \in [claimants : SUBSET Persons, disputes : SUBSET Statuses,
                     owner : Persons \cup {NoName}, seller : Persons \cup {NoName},
                     unanswered : SUBSET Steps]
      /\ heard'.seller = heard.seller /\ heard'.claimants = heard.claimants
      /\ heard'.disputes = heard.disputes /\ heard'.owner = heard.owner
      /\ heard.unanswered \subseteq heard'.unanswered
  BY <1>1, UnansweredFields DEF IInv, TypeOK
<1>4. /\ output' \in [status : {"in_progress", "failed", "completed", "completed_with_fraud"},
                      fraudDetected : BOOLEAN, indicators : SUBSET Types,
                      riskScore : 0..10, recommendation : Recommendations]
      /\ output'.status = output.status
      /\ \/ output'.fraudDetected = output.fraudDetected /\ SellerOwned'
         \/ /\ output'.fraudDetected
            /\ \E l \in past : l.owner # l.seller
  <2>1. "UNAUTHORIZED_SELLER" \in Types
    BY DEF Types
  <2>2. CASE heard' = Unanswered /\ output' = output
    <3>1. "seller" \in heard'.unanswered
      BY <1>1, <2>2, UnansweredFields DEF IInv
    <3> QED BY <2>2, <3>1 DEF IInv, TypeOK, SellerOwned
  <2>3. CASE heard.owner # NoName /\ heard' = heard /\ Authorized /\ output' = output
    <3>1. \E l \in past : l.owner = heard.seller
      BY <1>2, <2>3 DEF Authorized
    <3>2. SellerOwned'
      BY <1>1, <1>3, <3>1 DEF SellerOwned
    <3> QED BY <2>3, <3>2 DEF IInv, TypeOK
  <2>4. CASE /\ heard.owner # NoName /\ heard' = heard /\ ~ Authorized
             /\ output' = Flagged("UNAUTHORIZED_SELLER")
    <3>1. \E l \in past : l.owner # l.seller
      BY <1>2, <2>4 DEF Authorized
    <3> QED BY <2>1, <2>4, <3>1, FlaggedFields DEF IInv
  <2> QED BY <1>1, <2>2, <2>3, <2>4
<1>5. TypeOK'
  BY <1>1, <1>3, <1>4 DEF IInv, TypeOK
<1>6. HeardWasOnRecord'
  BY <1>1, <1>3, <1>4 DEF IInv, HeardWasOnRecord
<1>7. CleanSoFar'
  BY <1>1, <1>3, <1>4 DEF IInv, CleanSoFar, FewClaimed, NoneDisputed
<1>8. FlagsHaveGrounds'
  BY <1>1, <1>3, <1>4 DEF IInv, FlagsHaveGrounds
<1>9. VerdictIsTheFlag'
  BY <1>1, <1>4 DEF IInv, VerdictIsTheFlag
<1> QED BY <1>5, <1>6, <1>7, <1>8, <1>9 DEF IInv

LEMMA ScoreKeepsInvariant ==
  ASSUME ConstantsAssumption, IInv, CalculateRiskScore PROVE IInv'
<1> USE DEF Steps, BeforeClaimants, BeforeDisputes, BeforeOwner, BeforeSeller
<1>1. /\ step = "score" /\ step' = "end" /\ UNCHANGED <<land, past>>
      /\ attempt' = 1 /\ attempt' \in 1..MaximumAttempts
      /\ heard' = Unanswered
  BY DEF CalculateRiskScore, Proceed, ConstantsAssumption
<1>2. PICK scored : scored = [output EXCEPT !.riskScore = 0]
  OBVIOUS
<1>3. /\ scored \in [status : {"in_progress", "failed", "completed", "completed_with_fraud"},
                      fraudDetected : BOOLEAN, indicators : SUBSET Types,
                      riskScore : 0..10, recommendation : Recommendations]
      /\ scored.fraudDetected = output.fraudDetected
  BY <1>2 DEF IInv, TypeOK
<1>4. output' = [scored EXCEPT
         !.status = IF scored.fraudDetected THEN "completed_with_fraud" ELSE "completed",
         !.recommendation = Recommendation(scored)]
  BY <1>2 DEF CalculateRiskScore
<1>5. Recommendation(scored) \in Recommendations
  <2>1. scored.riskScore = 0
    BY <1>2 DEF IInv, TypeOK
  <2> QED BY <1>3, <2>1 DEF Recommendation, Recommendations
<1>6. /\ output' \in [status : {"in_progress", "failed", "completed", "completed_with_fraud"},
                      fraudDetected : BOOLEAN, indicators : SUBSET Types,
                      riskScore : 0..10, recommendation : Recommendations]
      /\ output'.fraudDetected = output.fraudDetected
      /\ output'.status = IF output.fraudDetected THEN "completed_with_fraud" ELSE "completed"
  BY <1>3, <1>4, <1>5
<1>7. /\ output.status = "in_progress" /\ output.fraudDetected \in BOOLEAN
  BY <1>1 DEF IInv, TypeOK, VerdictIsTheFlag
<1>8. TypeOK'
  BY <1>1, <1>6, UnansweredFields DEF IInv, TypeOK
<1>9. HeardWasOnRecord'
  BY <1>1, <1>6, <1>7, UnansweredFields DEF IInv, HeardWasOnRecord
<1>10. CleanSoFar'
  BY <1>1, <1>6, <1>7, UnansweredFields
     DEF IInv, CleanSoFar, FewClaimed, NoneDisputed, SellerOwned
<1>11. FlagsHaveGrounds'
  BY <1>1, <1>6, UnansweredFields DEF IInv, FlagsHaveGrounds
<1>12. VerdictIsTheFlag'
  BY <1>1, <1>6, <1>7 DEF VerdictIsTheFlag
<1> QED BY <1>8, <1>9, <1>10, <1>11, <1>12 DEF IInv

-----------------------------------------------------------------------------
(* The invariant holds in all behaviours.                                  *)
LEMMA InvariantHolds ==
  ASSUME ConstantsAssumption PROVE Init /\ [][Next]_vars => []IInv
<1>1. Init => IInv
  BY InitIsFine
<1>2. IInv /\ [Next]_vars => IInv'
  <2> SUFFICES ASSUME IInv, [Next]_vars PROVE IInv'
    OBVIOUS
  <2>1. CASE UNCHANGED vars
    BY <2>1 DEF vars, IInv, TypeOK, HeardWasOnRecord, CleanSoFar, FlagsHaveGrounds,
                VerdictIsTheFlag, FewClaimed, NoneDisputed, SellerOwned
  <2>2. CASE Workflow
    BY <2>2, RetryKeepsInvariant, ExtractKeepsInvariant, RegistryKeepsInvariant,
       ClaimantsKeepInvariant, DisputesKeepInvariant, OwnerKeepsInvariant,
       SellerKeepsInvariant, ScoreKeepsInvariant DEF Workflow
  <2>3. CASE RecordsChange
    BY <2>3, RecordsKeepInvariant
  <2> QED BY <2>1, <2>2, <2>3 DEF Next
<1> QED BY <1>1, <1>2, PTL

(* The types of the allocation journey.                                    *)
LEMMA AllocationTypesHold ==
  ASSUME ConstantsAssumption PROVE Init /\ [][Next]_vars => []TypeOK
<1>1. IInv => TypeOK
  BY DEF IInv
<1> QED BY <1>1, InvariantHolds, PTL

(* A land is called clean only if each look-up that was answered found it  *)
(* so at some moment of the journey, and nobody is accused without grounds.*)
THEOREM VerdictsAreGrounded ==
  ASSUME ConstantsAssumption PROVE Init /\ [][Next]_vars => []VerdictsHaveGrounds
<1>1. IInv => VerdictsHaveGrounds
  <2> SUFFICES ASSUME IInv PROVE VerdictsHaveGrounds
    OBVIOUS
  <2>1. CleanVerdictIsEarned
    BY DEF IInv, CleanSoFar, VerdictIsTheFlag, FewClaimed, NoneDisputed, SellerOwned,
           CleanVerdictIsEarned, BeforeClaimants, BeforeDisputes, BeforeOwner, BeforeSeller
  <2>2. FraudVerdictHasGrounds
    BY DEF IInv, FlagsHaveGrounds, VerdictIsTheFlag, FraudVerdictHasGrounds
  <2> QED BY <2>1, <2>2 DEF VerdictsHaveGrounds
<1> QED BY <1>1, InvariantHolds, PTL

=============================================================================
