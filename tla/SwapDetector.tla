--------------------------- MODULE SwapDetector ---------------------------
(***************************************************************************)
(* sim-swap-detector: a SIM swap is scored from what the tables hold about *)
(* its user and from the telco's answer, and a high score raises an alert  *)
(* and blocks the account.  Each look-up is a statement of its own, whose  *)
(* error reads as "no"; accesses of accounts are logged while a swap is    *)
(* analysed.  Swaps, alerts and blocks are named by the call that wrote    *)
(* them; nobody is authenticated.                                          *)
(***************************************************************************)
EXTENDS Integers, FiniteSets, Sequences, FiniteSetsExt

CONSTANTS
  Users, Locations,
  Swaps,           \* the swaps that may be reported
  Accesses,        \* the accesses that may be reported
  AccessLog,       \* the accesses that are logged already
  Devices,         \* device_fingerprints, which this service only reads
  UsualLocations,  \* how many locations of a user are usual, 3 in the code
  FrequentSwaps,   \* how many swaps are frequent, 3 in the code
  Today,           \* the minute of the first request; a run is a short while
  MaxCalls,        \* bound: swaps analysed
  MaxAccesses,     \* bound: accesses logged
  MaxFaults,       \* bound: failing statements, telco failures and crashes
  Concurrency      \* bound: swaps in analysis

(* SIMSwapEvent, AccountAccessLog and DeviceInfo, times in minutes as their*)
(* senders give them.                                                      *)
Swap == [user : Users, location : Locations, when : Int]
Access ==
  [user : Users, type : {"login", "otp_request", "settings_change", "transfer"},
   success : BOOLEAN, location : Locations, when : Int]
Device == [user : Users, firstSeen : Int]

ConstantsAssumption ==
  /\ \A s \in Swaps : s \in Swap
  /\ \A a \in Accesses : a \in Access
  /\ AccessLog \in Seq(Access)
  /\ \A d \in Devices : d \in Device
  /\ {UsualLocations, FrequentSwaps, Concurrency} \subseteq Nat \ {0}
  /\ Today \in Int /\ {MaxCalls, MaxAccesses, MaxFaults} \subseteq Nat

VARIABLES
  accesses,   \* account_access_logs
  swaps,      \* sim_swap_events
  alerts,     \* sim_swap_alerts
  blocks,     \* blocked_accounts: the calls that blocked, and users by hand
  calls,
  faults

vars == <<accesses, swaps, alerts, blocks, calls, faults>>

Flags == {"login", "device", "location", "otp", "settings", "transfer", "history", "rejected"}

(* The look-ups of performSIMSwapAnalysis, in their order.                 *)
LookUps == <<"login", "device", "location", "otp", "settings", "transfer", "history">>

Stages == {LookUps[i] : i \in DOMAIN LookUps} \cup {"telco", "store", "alert", "block"}
Ends == {"done", "unavailable", "lost"}

(* answer: the telco's; missed: a look-up or the block failed; known: the  *)
(* flags whose evidence was on record when the call began.                 *)
Call ==
  [swap : Swap, at : Stages \cup Ends, flags : SUBSET Flags, missed : BOOLEAN,
   answer : {"none", "verified", "rejected", "failed"}, known : SUBSET Flags]

-----------------------------------------------------------------------------
(* The look-ups.                                                           *)

Of(user, type, from, to) ==
  {i \in DOMAIN accesses :
    /\ accesses[i].user = user /\ accesses[i].type = type
    /\ accesses[i].when \in from..to}

hasImmediateLoginAfterSwap(s) == Of(s.user, "login", s.when, s.when + 5) # {}

hasNewDeviceAfterSwap(s) == \E d \in Devices : d.user = s.user /\ d.firstSeen > s.when

hasMultipleFailedOTP(s) ==
  Cardinality({i \in Of(s.user, "otp_request", s.when - 60, s.when) : ~ accesses[i].success}) >= 3

hasSettingsChangesAfterSwap(s) == Of(s.user, "settings_change", s.when + 1, s.when + 29) # {}

hasTransferAttemptsAfterSwap(s) == Of(s.user, "transfer", s.when + 1, s.when + 59) # {}

hasFrequentSIMSwaps(s) ==
  Cardinality({c \in swaps : /\ calls[c].swap.user = s.user
                             /\ calls[c].swap.when > Today - 90 * 1440}) >= FrequentSwaps

(* The LIMIT most frequent locations of thirty days; ties are cut anywhere.*)
Visits(user, location) ==
  Cardinality({i \in DOMAIN accesses :
    /\ accesses[i].user = user /\ accesses[i].location = location
    /\ accesses[i].when > Today - 30 * 1440})

Usual(user) ==
  LET seen == {l \in Locations : Visits(user, l) > 0}
  IN {top \in SUBSET seen :
       /\ Cardinality(top) = Min({UsualLocations, Cardinality(seen)})
       /\ \A l \in top, m \in seen \ top : Visits(user, l) >= Visits(user, m)}

(* The answers a look-up may give.                                         *)
Holds(flag, s) ==
  CASE flag = "login" -> {hasImmediateLoginAfterSwap(s)}
    [] flag = "device" -> {hasNewDeviceAfterSwap(s)}
    [] flag = "location" -> {top # {} /\ s.location \notin top : top \in Usual(s.user)}
    [] flag = "otp" -> {hasMultipleFailedOTP(s)}
    [] flag = "settings" -> {hasSettingsChangesAfterSwap(s)}
    [] flag = "transfer" -> {hasTransferAttemptsAfterSwap(s)}
    [] flag = "history" -> {hasFrequentSIMSwaps(s)}

(* Evidence that, once there, stays: all but the location.                 *)
Lasting == Flags \ {"location", "rejected"}
OnRecord(s) == {flag \in Lasting : Holds(flag, s) = {TRUE}}

-----------------------------------------------------------------------------
(* The score.                                                              *)

Weight ==
  [login |-> 40, device |-> 35, location |-> 30, otp |-> 25, settings |-> 30,
   transfer |-> 45, history |-> 20, rejected |-> 35]

Signals(flags) ==
  LET Points(flag) == IF flag \in flags THEN Weight[flag] ELSE 0
  IN Points("login") + Points("device") + Points("location") + Points("otp")
     + Points("settings") + Points("transfer") + Points("history") + Points("rejected")

(* Mutant of RiskScore: the base is counted twice.                         *)
RiskScoreOfTwoBases(flags) == 40 + Signals(flags)

RiskScore(flags) == 20 + Signals(flags)

RaisesAlert(flags) == RiskScore(flags) >= 70

(* Mutant of ShouldBlock: the limit is exclusive.                          *)
BlocksAboveLimit(flags) == RiskScore(flags) > 80

ShouldBlock(flags) == RiskScore(flags) >= 80

-----------------------------------------------------------------------------
Init ==
  /\ accesses = AccessLog
  /\ swaps = {} /\ alerts = {} /\ blocks = {}
  /\ calls = << >> /\ faults = 0

Fault == faults < MaxFaults /\ faults' = faults + 1

InFlight == {c \in DOMAIN calls : calls[c].at \in Stages}

detectSIMSwap(s) ==
  /\ Len(calls) < MaxCalls /\ Cardinality(InFlight) < Concurrency
  /\ calls' = Append(calls, [swap |-> s, at |-> LookUps[1], flags |-> {}, missed |-> FALSE,
                             answer |-> "none", known |-> OnRecord(s)])
  /\ UNCHANGED <<accesses, swaps, alerts, blocks, faults>>

NextStage(flag) ==
  LET i == CHOOSE i \in DOMAIN LookUps : LookUps[i] = flag
  IN IF i = Len(LookUps) THEN "telco" ELSE LookUps[i + 1]

LookUp(c) ==
  LET flag == calls[c].at
  IN /\ flag \in {LookUps[i] : i \in DOMAIN LookUps}
     /\ \/ \E holds \in Holds(flag, calls[c].swap) :
             /\ calls' = [calls EXCEPT ![c].at = NextStage(flag),
                                       ![c].flags = IF holds THEN @ \cup {flag} ELSE @]
             /\ UNCHANGED faults
        \/ /\ Fault
           /\ calls' = [calls EXCEPT ![c].at = NextStage(flag), ![c].missed = TRUE]
     /\ UNCHANGED <<accesses, swaps, alerts, blocks>>

(* Mutant of TelcoFails: an error reads as "not verified".                 *)
ErrorIsRejection(call) ==
  [call EXCEPT !.at = "store", !.answer = "failed", !.flags = @ \cup {"rejected"}]

(* No answer, another status or an unreadable body end the request with    *)
(* 503.                                                                    *)
TelcoFails(call) == [call EXCEPT !.at = "unavailable", !.answer = "failed"]

verifyWithTelco(c) ==
  LET rejected == [calls[c] EXCEPT !.at = "store", !.answer = "rejected",
                                   !.flags = @ \cup {"rejected"}]
      verified == [calls[c] EXCEPT !.at = "store", !.answer = "verified"]
  IN /\ calls[c].at = "telco"
     /\ \/ /\ \E call \in {verified, rejected} : calls' = [calls EXCEPT ![c] = call]
           /\ UNCHANGED faults
        \/ Fault /\ calls' = [calls EXCEPT ![c] = TelcoFails(calls[c])]
     /\ UNCHANGED <<accesses, swaps, alerts, blocks>>

(* An event, an alert or a block that cannot be stored is logged; the      *)
(* handler goes on and answers the same.                                   *)
storeSIMSwapEvent(c) ==
  /\ calls[c].at = "store"
  /\ \/ swaps' = swaps \cup {c} /\ UNCHANGED faults
     \/ Fault /\ UNCHANGED swaps
  /\ calls' = [calls EXCEPT ![c].at = IF RaisesAlert(calls[c].flags) THEN "alert" ELSE "done"]
  /\ UNCHANGED <<accesses, alerts, blocks>>

createAlert(c) ==
  /\ calls[c].at = "alert"
  /\ \/ alerts' = alerts \cup {c} /\ UNCHANGED faults
     \/ Fault /\ UNCHANGED alerts
  /\ calls' = [calls EXCEPT ![c].at = IF ShouldBlock(calls[c].flags) THEN "block" ELSE "done"]
  /\ UNCHANGED <<accesses, swaps, blocks>>

blockUserAccount(c) ==
  /\ calls[c].at = "block"
  /\ \/ /\ blocks' = blocks \cup {[user |-> calls[c].swap.user, by |-> c]}
        /\ calls' = [calls EXCEPT ![c].at = "done"]
        /\ UNCHANGED faults
     \/ /\ Fault
        /\ calls' = [calls EXCEPT ![c].at = "done", ![c].missed = TRUE]
        /\ UNCHANGED blocks
  /\ UNCHANGED <<accesses, swaps, alerts>>

(* monitorAccountAccess logs and finds nothing suspicious; no swap is      *)
(* looked at again.                                                        *)
monitorAccountAccess(access) ==
  /\ Len(accesses) < Len(AccessLog) + MaxAccesses
  /\ \/ accesses' = Append(accesses, access) /\ UNCHANGED faults
     \/ Fault /\ UNCHANGED accesses
  /\ UNCHANGED <<swaps, alerts, blocks, calls>>

(* The endpoint blocks whom it is told to; 0 is no call.                   *)
blockAccount(user) ==
  /\ \/ blocks' = blocks \cup {[user |-> user, by |-> 0]} /\ UNCHANGED faults
     \/ Fault /\ UNCHANGED blocks
  /\ UNCHANGED <<accesses, swaps, alerts, calls>>

(* The process stops.                                                      *)
Stop ==
  /\ InFlight # {} /\ Fault
  /\ calls' = [c \in DOMAIN calls |->
                 IF c \in InFlight THEN [calls[c] EXCEPT !.at = "lost"] ELSE calls[c]]
  /\ UNCHANGED <<accesses, swaps, alerts, blocks>>

Next ==
  \/ \E s \in Swaps : detectSIMSwap(s)
  \/ \E c \in DOMAIN calls :
       \/ LookUp(c) \/ verifyWithTelco(c) \/ storeSIMSwapEvent(c)
       \/ createAlert(c) \/ blockUserAccount(c)
  \/ \E access \in Accesses : monitorAccountAccess(access)
  \/ \E user \in Users : blockAccount(user)
  \/ Stop

Spec == Init /\ [][Next]_vars

-----------------------------------------------------------------------------
(* Properties.                                                             *)

(* The tables have their columns' types; an alert is of a call that went   *)
(* past storing its event.                                                 *)
TypeOK ==
  /\ accesses \in Seq(Access)
  /\ swaps \cup alerts \subseteq DOMAIN calls
  /\ blocks \subseteq [user : Users, by : 0..MaxCalls]
  /\ calls \in Seq(Call)

(* Nobody is blocked by the detector for one reason: a block rests on two  *)
(* red flags at least, and what they say of logins, devices and transfers  *)
(* is on record, through concurrent accesses, failing look-ups and any     *)
(* answer of the telco.                                                    *)
BlocksHaveTwoCauses ==
  \A b \in blocks :
    LET call == calls[b.by]
    IN b.by # 0 => /\ Cardinality(call.flags) >= 2
                   /\ call.flags \cap Lasting \subseteq OnRecord(call.swap)

(* The evidence that was logged when the analysis of a swap began leads to *)
(* a block by its end, unless a look-up or the block itself failed.  What  *)
(* is logged later may be missed, and an event or an alert that cannot be  *)
(* stored does not save the account.                                       *)
EvidenceInTimeBlocks ==
  \A c \in DOMAIN calls :
    /\ calls[c].at = "done" /\ ~ calls[c].missed
    /\ RiskScore(calls[c].known) >= 80
    => \E b \in blocks : b.user = calls[c].swap.user /\ b.by = c

(* main: "an unavailable provider must block a fraud decision": no swap is *)
(* stored, alerted or blocked without an answer of the telco.              *)
DecidedWithTelcoAnswer ==
  \A c \in swaps \cup alerts \cup ({b.by : b \in blocks} \ {0}) :
    calls[c].answer \in {"verified", "rejected"}

(* A block and its evidence go together: no block without the telco or for *)
(* one reason, no evidence in time without a block.                        *)
BlocksMatchEvidence ==
  BlocksHaveTwoCauses /\ EvidenceInTimeBlocks /\ DecidedWithTelcoAnswer

=============================================================================
