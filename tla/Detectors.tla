----------------------------- MODULE Detectors -----------------------------
(***************************************************************************)
(* The seven detector services that decide from what they have stored:     *)
(* chargebacks, insiders, AML, SIM swaps, crypto, investments and account  *)
(* takeovers.  Each is a process with a database and keys of its own, and  *)
(* no code path of the repository leads from one of them to another: a     *)
(* behaviour of this module is one of the service it starts with, the      *)
(* others standing still.                                                  *)
(***************************************************************************)
EXTENDS Integers, FiniteSets, Sequences

CONSTANTS
  Services,      \* the services whose behaviours are wanted
  NoRow, Concurrency, MaxFailures,
  Tenants, Roles, RequiredRoles, Users, Transactions,
  \* chargeback-fraud-detector
  Customers, Merchants, DisputeIds, Amounts, StoredAs, HighValue, CardRequests,
  DisputeAges, StoredPayments, StoredDisputes, Ageing, MaxCardCalls,
  \* insider-fraud-detector
  Employees, Resources, Addresses, Privileged, StaffRequests, StaffLog, MaxStaffCalls,
  \* aml-monitor
  Clients, SARs, Entities, Types, Sanctioned, Limit, AMLRequests, MaxAMLCalls,
  \* sim-swap-detector
  Locations, Swaps, Accesses, AccessLog, Devices, UsualLocations, FrequentSwaps, Today,
  MaxSwapCalls, MaxAccesses,
  \* crypto-fraud-detector
  NewUsers, Wallets, Sellers, Currencies, TradeIds, WalletRequests, WalletLedger,
  Trades, Blacklist, KnownAfter, BusyDay, BusyHour, BusyP2P, MaxWalletCalls,
  \* investment-fraud-detector
  Schemes, Names, Promoters, Registered, Losers, Investors, SchemeRequests, MaxSchemeCalls,
  \* account-takeover-detector
  LoginUsers, LoginDevices, Cities, Fingerprints, Distance, ManyLogins, LoginRequests,
  StoredLogins, StoredFingerprints, StoredAttempts, MaxLoginCalls

VARIABLES
  service,
  payments, disputes, cases, patterns, cardDecisions, cardCalls,
  staffAccesses, attempts, staffEvents, staffAlerts, staffCalls,
  counter, expiring, reports, analyses, findings, sanctions, accepted, amlCalls, amlFaults,
  accountAccesses, swaps, swapAlerts, blocks, swapCalls, swapFaults,
  ledger, blacklist, cache, trades, tradeAlerts, walletCalls, walletFaults,
  schemes, registry, schemeCalls, schemeFaults, condemned, excused,
  logins, fingerprints, failedLogins, loginEvents, loginAlerts, loginCalls, loginFaults

CB == INSTANCE ChargebackDetector
      WITH Requests <- CardRequests, Ages <- DisputeAges, MaxCalls <- MaxCardCalls,
           decisions <- cardDecisions, calls <- cardCalls

INS == INSTANCE InsiderDetector
       WITH Requests <- StaffRequests, Logged <- StaffLog, MaxCalls <- MaxStaffCalls,
            accesses <- staffAccesses, events <- staffEvents, alerts <- staffAlerts,
            calls <- staffCalls

AML == INSTANCE AMLMonitor
       WITH Requests <- AMLRequests, MaxCalls <- MaxAMLCalls, MaxFaults <- MaxFailures,
            calls <- amlCalls, faults <- amlFaults

SIM == INSTANCE SwapDetector
       WITH MaxCalls <- MaxSwapCalls, MaxFaults <- MaxFailures, accesses <- accountAccesses,
            alerts <- swapAlerts, calls <- swapCalls, faults <- swapFaults

WAL == INSTANCE WalletDetector
       WITH Requests <- WalletRequests, Ledger <- WalletLedger, MaxCalls <- MaxWalletCalls,
            MaxFaults <- MaxFailures, stored <- ledger, alerts <- tradeAlerts,
            calls <- walletCalls, faults <- walletFaults

INV == INSTANCE InvestmentDetector
       WITH Requests <- SchemeRequests, MaxCalls <- MaxSchemeCalls, MaxFaults <- MaxFailures,
            calls <- schemeCalls, faults <- schemeFaults

ATO == INSTANCE TakeoverDetector
       WITH Requests <- LoginRequests, Users <- LoginUsers, Devices <- LoginDevices,
            MaxCalls <- MaxLoginCalls, MaxFaults <- MaxFailures, attempts <- failedLogins, events <- loginEvents,
            alerts <- loginAlerts, calls <- loginCalls, faults <- loginFaults

ASSUME ChargebackAssumption == CB!ConstantsAssumption
ASSUME InsiderAssumption == INS!ConstantsAssumption
ASSUME AMLAssumption == AML!ConstantsAssumption
ASSUME SwapAssumption == SIM!ConstantsAssumption
ASSUME WalletAssumption == WAL!ConstantsAssumption
ASSUME InvestmentAssumption == INV!ConstantsAssumption
ASSUME TakeoverAssumption == ATO!ConstantsAssumption
ASSUME ServicesAssumption ==
  Services \subseteq
    {"chargeback", "insider", "aml", "sim-swap", "crypto", "investment", "takeover"}

cardVars == <<payments, disputes, cases, patterns, cardDecisions, cardCalls>>
staffVars == <<staffAccesses, attempts, staffEvents, staffAlerts, staffCalls>>
amlVars == <<counter, expiring, reports, analyses, findings, sanctions, accepted, amlCalls, amlFaults>>
swapVars == <<accountAccesses, swaps, swapAlerts, blocks, swapCalls, swapFaults>>
walletVars == <<ledger, blacklist, cache, trades, tradeAlerts, walletCalls, walletFaults>>
schemeVars == <<schemes, registry, schemeCalls, schemeFaults, condemned, excused>>
loginVars ==
  <<logins, fingerprints, failedLogins, loginEvents, loginAlerts, loginCalls, loginFaults>>

vars == <<service, cardVars, staffVars, amlVars, swapVars, walletVars, schemeVars, loginVars>>

Init ==
  /\ service \in Services
  /\ CB!Init /\ INS!Init /\ AML!Init /\ SIM!Init /\ WAL!Init /\ INV!Init /\ ATO!Init

OthersThanChargeback ==
  UNCHANGED <<service, staffVars, amlVars, swapVars, walletVars, schemeVars, loginVars>>
OthersThanInsider ==
  UNCHANGED <<service, cardVars, amlVars, swapVars, walletVars, schemeVars, loginVars>>
OthersThanAML ==
  UNCHANGED <<service, cardVars, staffVars, swapVars, walletVars, schemeVars, loginVars>>
OthersThanSwap ==
  UNCHANGED <<service, cardVars, staffVars, amlVars, walletVars, schemeVars, loginVars>>
OthersThanWallet ==
  UNCHANGED <<service, cardVars, staffVars, amlVars, swapVars, schemeVars, loginVars>>
OthersThanInvestment ==
  UNCHANGED <<service, cardVars, staffVars, amlVars, swapVars, walletVars, loginVars>>
OthersThanTakeover ==
  UNCHANGED <<service, cardVars, staffVars, amlVars, swapVars, walletVars, schemeVars>>

Next ==
  \/ service = "chargeback" /\ CB!Next /\ OthersThanChargeback
  \/ service = "insider" /\ INS!Next /\ OthersThanInsider
  \/ service = "aml" /\ AML!Next /\ OthersThanAML
  \/ service = "sim-swap" /\ SIM!Next /\ OthersThanSwap
  \/ service = "crypto" /\ WAL!Next /\ OthersThanWallet
  \/ service = "investment" /\ INV!Next /\ OthersThanInvestment
  \/ service = "takeover" /\ ATO!Next /\ OthersThanTakeover

Spec == Init /\ [][Next]_vars

(* Redis ends what has an expiry, and a handler of the AML service that    *)
(* has counted goes on to its EXPIRE command, answered or not.             *)
ExpiryElapses ==
  /\ \A client \in Clients :
       WF_vars(service = "aml" /\ AML!WindowEnds(client) /\ OthersThanAML)
  /\ \A wallet \in Wallets :
       WF_vars(service = "crypto" /\ WAL!Expire(wallet) /\ OthersThanWallet)

HandlersGoOn ==
  \A c \in 1..MaxAMLCalls :
    WF_vars(service = "aml" /\ c \in DOMAIN amlCalls /\ AML!SetExpiry(c) /\ OthersThanAML)

FairSpec == Spec /\ ExpiryElapses /\ HandlersGoOn

-----------------------------------------------------------------------------
(* The properties of the services, each stated in its module.              *)

(* The types of the tables that change.                                    *)
TypeOK ==
  /\ service = "chargeback" => CB!TypeOK
  /\ service = "insider" => INS!TypeOK
  /\ service = "aml" => AML!TypeOK
  /\ service = "sim-swap" => SIM!TypeOK
  /\ service = "crypto" => WAL!TypeOK
  /\ service = "investment" => INV!TypeOK
  /\ service = "takeover" => ATO!TypeOK

(* Requests that decide about a transaction agree on its facts, and one    *)
(* that agrees is not refused (persistTransaction).                        *)
RequestsAreIdempotent == CB!RequestsAreIdempotent

(* Counts, disputes and severe verdicts rest on the customer's own rows    *)
(* (lookupHistory, analyzeDispute).                                        *)
VerdictsRestOnRecords == CB!VerdictsRestOnRecords

(* Of two large transfers one is alerted, a critical answer has accesses   *)
(* behind it, a collusion is on everybody's record, however the handlers   *)
(* interleave (detectDataExfiltration, detectCollusion).                   *)
AnswersMatchRecords == INS!AnswersMatchRecords

(* A filed report is not posted again, and a sanctions answer is the       *)
(* model's for that name (FileSAR, CheckSanctions).                        *)
AnswersStand == AML!AnswersStand

(* A report on record as filed was taken by the regulator (FileSAR).       *)
FiledMeansAccepted == AML!FiledMeansAccepted

(* A block of the SIM-swap detector has two causes and the telco's answer, *)
(* and evidence that was there in time leads to a block (detectSIMSwap).   *)
BlocksMatchEvidence == SIM!BlocksMatchEvidence

(* A blacklisted wallet is neither verified nor trusted, but for a look-up *)
(* beside the blacklisting, and a burst of transactions gets velocity      *)
(* points (performWalletVerification, blacklistWallet,                     *)
(* checkTransactionVelocity).                                              *)
RecordsAreHeeded == WAL!RecordsAreHeeded

(* A verdict on an investment scheme is kept, told to investors and counted*)
(* against its promoter (storeSchemeAnalysis, checkPromoterHistory).       *)
CondemnedSchemesStayKnown == INV!CondemnedSchemesStayKnown

(* A takeover is judged by what others have stored and alerted, a burst of *)
(* failed logins is noticed unless its reports came at once, a device keeps*)
(* its fingerprint (detect_takeover, detect_credential_stuffing,           *)
(* verify_device).                                                         *)
TakeoversAreNoticed == ATO!TakeoversAreNoticed

(* A limited client is let in again, unless its EXPIRE was lost, and a     *)
(* blacklisting takes hold in the end, whatever a look-up beside it has    *)
(* cached (rateLimitMiddleware, checkWalletReputation).                    *)
ServicesRecover == AML!LimitedClientsRecover /\ WAL!BlacklistingTakesHold

=============================================================================
