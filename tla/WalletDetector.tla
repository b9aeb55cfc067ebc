-------------------------- MODULE WalletDetector --------------------------
(***************************************************************************)
(* crypto-fraud-detector: a transaction is scored from its wallet's        *)
(* reputation, its platform and the user's recent transactions, and then   *)
(* stored.  A reputation is kept in Redis until its expiry; blacklisting a *)
(* wallet writes the table and then deletes the cached reputation, while   *)
(* look-ups that read the table before may still write theirs.  A P2P      *)
(* trade is stored and then compared with the trades of the day.           *)
(*                                                                         *)
(* An error of PostgreSQL or Redis reads as the zero value everywhere but  *)
(* where a row is inserted for its own sake.  Amounts are in thousands.    *)
(***************************************************************************)
EXTENDS Integers, FiniteSets, Sequences, FiniteSetsExt, SequencesExt

CONSTANTS
  Users, NewUsers,    \* NewUsers: registered less than seven days ago
  Wallets, Sellers, Currencies, TradeIds,
  Requests,           \* the requests that may arrive
  Ledger,             \* the crypto_transactions of earlier
  Trades,             \* the p2p_trades of earlier
  Blacklist,          \* the wallets blacklisted earlier
  NoRow,
  KnownAfter,         \* transactions after which a wallet is not new, 5 in the code
  BusyDay, BusyHour, BusyP2P,  \* the limits of 20, 5 and 5 transactions
  MaxCalls,           \* bound: requests received
  MaxFaults,          \* bound: failing statements and cache commands, crashes
  Concurrency         \* bound: requests in flight

Platforms == {"exchange", "p2p exchange", "p2p", "unknown", "investment"}

(* age: how long ago the sender says it was.                               *)
Txn ==
  [user : Users, wallet : Wallets, amount : Nat, platform : Platforms,
   age : {"hour", "day", "older"}]

Trade == [seller : Sellers, currency : Currencies, price : Nat \ {0}]
StoredTrade ==
  [seller : Sellers, currency : Currencies, price : Nat \ {0}, disputed : BOOLEAN, today : BOOLEAN]

Kinds == {"analyze", "verify", "blacklist", "trade"}

(* Analyses and batches are lists of transactions.                         *)
Request ==
  [kind : Kinds, token : BOOLEAN, txns : Seq(Txn), wallet : Wallets,
   id : TradeIds, trade : Trade]

ConstantsAssumption ==
  /\ NewUsers \subseteq Users /\ Blacklist \subseteq Wallets
  /\ \A req \in Requests : req \in Request /\ (req.kind = "analyze" => req.txns # << >>)
  /\ Ledger \in Seq(Txn)
  /\ Trades \in [TradeIds -> StoredTrade \cup {NoRow}]
  /\ {KnownAfter, BusyDay, BusyHour, BusyP2P, MaxCalls, MaxFaults} \subseteq Nat
  /\ Concurrency \in Nat \ {0}

VARIABLES
  stored,     \* crypto_transactions, with the velocity points kept for checking
  blacklist,  \* crypto_blacklist
  cache,      \* wallet:risk:<address>
  trades,     \* p2p_trades
  alerts,     \* p2p_trading_alerts: <<call, type>>
  calls,
  faults

vars == <<stored, blacklist, cache, trades, alerts, calls, faults>>
tables == <<stored, blacklist, trades, alerts>>

WalletStages == {"cached", "listed", "history", "fill"}
Stages == WalletStages \cup {"verify", "exchanges", "count", "store", "insert", "invalidate",
                             "upsert", "detect", "report"}
Ends == {"done", "unauthorized", "error", "lost"}
AlertTypes == {"high_dispute_rate", "price_deviation"}

(* next: the transaction, or the alert, in turn; wallet: its reputation;   *)
(* known: the wallets whose blacklisting was answered when the call began; *)
(* beside: for a blacklisting, the calls in flight when it inserted.       *)
Call ==
  [req : Request, at : Stages \cup Ends, next : Nat, wallet : Nat, score : Nat,
   velocity : Nat, listed : BOOLEAN, found : Seq(AlertTypes), known : SUBSET Wallets,
   beside : SUBSET Nat]

-----------------------------------------------------------------------------
(* What a statement sees.                                                  *)

CountOf(Test(_)) == Cardinality({i \in DOMAIN stored : Test(stored[i].txn)})

OfHour(user) == CountOf(LAMBDA t : t.user = user /\ t.age = "hour")
OfDay(user) == CountOf(LAMBDA t : t.user = user /\ t.age \in {"hour", "day"})
P2POfDay(user) ==
  CountOf(LAMBDA t : /\ t.user = user /\ t.age \in {"hour", "day"}
                     /\ t.platform \in {"p2p", "p2p exchange"})

Points(holds, points) == IF holds THEN points ELSE 0
AmountOf(rows) == MapThenSumSet(LAMBDA i : stored[i].txn.amount, rows)
PriceOf(ids) == MapThenSumSet(LAMBDA id : trades[id].price, ids)

(* Few transactions, and a high average amount.                            *)
WalletHistory(wallet) ==
  LET own == {i \in DOMAIN stored : stored[i].txn.wallet = wallet}
      n == Cardinality(own)
  IN Points(n < KnownAfter, 30)
     + Points(AmountOf(own) > 5 * n, 20)

isLegitimateExchange(platform) == platform \in {"exchange", "p2p exchange"}

(* Mutant of Busy: the limit is one higher.                                *)
BusyLater(n, limit) == n > limit + 1

Busy(n, limit) == n > limit

(* lost: the statement that fails, which counts nothing.                   *)
checkTransactionVelocity(user, lost) ==
  Points(lost # "day" /\ Busy(OfDay(user), BusyDay), 25)
  + Points(lost # "hour" /\ Busy(OfHour(user), BusyHour), 30)

analyzeP2PRisk(user, lost) ==
  Points(lost = "registered" \/ user \in NewUsers, 25)
  + Points(lost # "p2p" /\ Busy(P2POfDay(user), BusyP2P), 30)

TransactionRisk(txn, wallet, lost) ==
  wallet + Points(txn.amount > 10, 20)
  + Points(~ isLegitimateExchange(txn.platform), 30)
  + Points(txn.platform \in {"p2p", "p2p exchange"}, analyzeP2PRisk(txn.user, lost))
  + checkTransactionVelocity(txn.user, lost)
  + Points(txn.platform = "investment", 40)

(* detectP2PFraud: the trade itself is among those it is compared with.    *)
DisputeRateIsHigh(seller) ==
  LET own == {id \in TradeIds : trades[id] # NoRow /\ trades[id].seller = seller}
  IN 10 * Cardinality({id \in own : trades[id].disputed}) > 3 * Cardinality(own)

PriceDeviates(trade) ==
  LET market == {id \in TradeIds : /\ trades[id] # NoRow /\ trades[id].today
                                   /\ trades[id].currency = trade.currency}
      sum == PriceOf(market)
      gap == trade.price * Cardinality(market) - sum
  IN 4 * (IF gap < 0 THEN -gap ELSE gap) >= sum

(* lost: the alert whose statement fails.                                  *)
detectP2PFraud(trade, lost) ==
  (IF lost # "high_dispute_rate" /\ DisputeRateIsHigh(trade.seller)
   THEN <<"high_dispute_rate">> ELSE << >>)
  \o (IF lost # "price_deviation" /\ PriceDeviates(trade) THEN <<"price_deviation">> ELSE << >>)

-----------------------------------------------------------------------------
Init ==
  /\ stored = [i \in DOMAIN Ledger |-> [txn |-> Ledger[i], velocity |-> 0]]
  /\ blacklist = Blacklist
  /\ cache = [w \in Wallets |-> NoRow]
  /\ trades = Trades
  /\ alerts = {}
  /\ calls = << >> /\ faults = 0

Fault == faults < MaxFaults /\ faults' = faults + 1

InFlight == {c \in DOMAIN calls : calls[c].at \in Stages}

FirstStage ==
  [analyze |-> "cached", verify |-> "verify", blacklist |-> "insert", trade |-> "upsert"]

BlacklistingAnswered ==
  {calls[c].req.wallet : c \in {c \in DOMAIN calls : /\ calls[c].req.kind = "blacklist"
                                                     /\ calls[c].at = "done"}}

(* authMiddleware asks for an Authorization header and not what it says.   *)
Receive(req) ==
  /\ Len(calls) < MaxCalls /\ Cardinality(InFlight) < Concurrency
  /\ calls' = Append(calls,
       [req |-> req, at |-> IF req.token THEN FirstStage[req.kind] ELSE "unauthorized",
        next |-> 1, wallet |-> 0, score |-> 0, velocity |-> 0, listed |-> FALSE,
        found |-> << >>, known |-> BlacklistingAnswered, beside |-> {}])
  /\ UNCHANGED <<tables, cache, faults>>

(* The transaction and the wallet a call is at.                            *)
TxnOf(c) == calls[c].req.txns[calls[c].next]
WalletOf(c) == IF calls[c].req.kind = "analyze" THEN TxnOf(c).wallet ELSE calls[c].req.wallet

MoveTo(c, stage) == calls' = [calls EXCEPT ![c].at = stage]

AfterWallet(c) == IF calls[c].req.kind = "analyze" THEN "count" ELSE "exchanges"

WalletKnown(c, score) == calls' = [calls EXCEPT ![c].wallet = score, ![c].at = AfterWallet(c)]

-----------------------------------------------------------------------------
(* checkWalletReputation, statement by statement.                          *)

GetCached(c) ==
  LET score == cache[WalletOf(c)]
  IN /\ calls[c].at = "cached"
     /\ \/ score # NoRow /\ WalletKnown(c, score) /\ UNCHANGED faults
        \/ score = NoRow /\ MoveTo(c, "listed") /\ UNCHANGED faults
        \/ Fault /\ MoveTo(c, "listed")
     /\ UNCHANGED <<tables, cache>>

AskBlacklist(c) ==
  /\ calls[c].at = "listed"
  /\ \/ /\ WalletOf(c) \in blacklist
        /\ calls' = [calls EXCEPT ![c].wallet = 100, ![c].at = "fill"]
        /\ UNCHANGED faults
     \/ WalletOf(c) \notin blacklist /\ MoveTo(c, "history") /\ UNCHANGED faults
     \/ Fault /\ MoveTo(c, "history")
  /\ UNCHANGED <<tables, cache>>

AskHistory(c) ==
  /\ calls[c].at = "history"
  /\ \/ /\ calls' = [calls EXCEPT ![c].wallet = WalletHistory(WalletOf(c)), ![c].at = "fill"]
        /\ UNCHANGED faults
     \/ /\ Fault
        /\ calls' = [calls EXCEPT ![c].wallet = Points(0 < KnownAfter, 30), ![c].at = "fill"]
  /\ UNCHANGED <<tables, cache>>

(* SET, with an expiry of a day or of an hour.                             *)
FillCache(c) ==
  /\ calls[c].at = "fill"
  /\ \/ cache' = [cache EXCEPT ![WalletOf(c)] = calls[c].wallet] /\ UNCHANGED faults
     \/ Fault /\ UNCHANGED cache
  /\ MoveTo(c, AfterWallet(c))
  /\ UNCHANGED tables

(* Mutant of Expires: a reputation that is not the blacklist's is kept.    *)
ExpiresIfListed(w) == cache[w] = 100

Expires(w) == cache[w] # NoRow

Expire(w) ==
  /\ Expires(w)
  /\ cache' = [cache EXCEPT ![w] = NoRow]
  /\ UNCHANGED <<tables, calls, faults>>

-----------------------------------------------------------------------------
(* analyzeTransaction, and each element of a batch.  The counts of one     *)
(* user are one step.                                                      *)

performRiskAnalysis(c) ==
  LET txn == TxnOf(c)
      scored(lost) ==
        calls' = [calls EXCEPT ![c].score = TransactionRisk(txn, calls[c].wallet, lost),
                               ![c].velocity = checkTransactionVelocity(txn.user, lost),
                               ![c].at = "store"]
  IN /\ calls[c].at = "count"
     /\ \/ scored("none") /\ UNCHANGED faults
        \/ Fault /\ \E lost \in {"registered", "p2p", "day", "hour"} : scored(lost)
     /\ UNCHANGED <<tables, cache>>

storeTransactionAnalysis(c) ==
  LET row == [txn |-> TxnOf(c), velocity |-> calls[c].velocity]
      last == calls[c].next = Len(calls[c].req.txns)
  IN /\ calls[c].at = "store"
     /\ \/ stored' = Append(stored, row) /\ UNCHANGED faults
        \/ Fault /\ UNCHANGED stored
     /\ calls' = [calls EXCEPT ![c].at = IF last THEN "done" ELSE "cached",
                               ![c].next = IF last THEN @ ELSE @ + 1]
     /\ UNCHANGED <<blacklist, trades, alerts, cache>>

-----------------------------------------------------------------------------
(* performWalletVerification asks the blacklist, then the reputation, then *)
(* the exchanges, whose failing query panics on its missing rows.          *)

VerifyBlacklist(c) ==
  /\ calls[c].at = "verify"
  /\ \/ /\ calls' = [calls EXCEPT ![c].listed = WalletOf(c) \in blacklist, ![c].at = "cached"]
        /\ UNCHANGED faults
     \/ Fault /\ MoveTo(c, "cached")
  /\ UNCHANGED <<tables, cache>>

VerifyExchanges(c) ==
  /\ calls[c].at = "exchanges"
  /\ \/ MoveTo(c, "done") /\ UNCHANGED faults
     \/ Fault /\ MoveTo(c, "error")
  /\ UNCHANGED <<tables, cache>>

(* Mutant of Verified: the reputation alone decides.                       *)
ReputationVerifies(call) == call.wallet < 60

Verified(call) == ~ call.listed /\ call.wallet < 60

(* blacklistWallet: INSERT, then DEL, whose error is not looked at.        *)
InsertBlacklist(c) ==
  /\ calls[c].at = "insert"
  /\ \/ /\ blacklist' = blacklist \cup {WalletOf(c)}
        /\ calls' = [calls EXCEPT ![c].at = "invalidate", ![c].beside = InFlight \ {c}]
        /\ UNCHANGED faults
     \/ Fault /\ MoveTo(c, "error") /\ UNCHANGED blacklist
  /\ UNCHANGED <<stored, trades, alerts, cache>>

(* Mutant of Without: the key that is deleted is another one.              *)
WithAll(w) == cache

Without(w) == [cache EXCEPT ![w] = NoRow]

InvalidateCache(c) ==
  /\ calls[c].at = "invalidate"
  /\ \/ cache' = Without(WalletOf(c)) /\ UNCHANGED faults
     \/ Fault /\ UNCHANGED cache
  /\ MoveTo(c, "done")
  /\ UNCHANGED tables

-----------------------------------------------------------------------------
(* analyzeP2PTrade.                                                        *)

(* storeP2PTrade: a trade that is there takes the new seller and price and *)
(* keeps its dispute and its date.                                         *)
storeP2PTrade(c) ==
  LET id == calls[c].req.id
      t == calls[c].req.trade
      row == [seller |-> t.seller, currency |-> t.currency, price |-> t.price,
              disputed |-> IF trades[id] = NoRow THEN FALSE ELSE trades[id].disputed,
              today |-> IF trades[id] = NoRow THEN TRUE ELSE trades[id].today]
  IN /\ calls[c].at = "upsert"
     /\ \/ trades' = [trades EXCEPT ![id] = row] /\ MoveTo(c, "detect") /\ UNCHANGED faults
        \/ Fault /\ MoveTo(c, "error") /\ UNCHANGED trades
     /\ UNCHANGED <<stored, blacklist, alerts, cache>>

DetectP2PFraud(c) ==
  LET trade == calls[c].req.trade
      reported(found) ==
        calls' = [calls EXCEPT ![c].found = found,
                               ![c].at = IF found = << >> THEN "done" ELSE "report"]
  IN /\ calls[c].at = "detect"
     /\ \/ reported(detectP2PFraud(trade, "none")) /\ UNCHANGED faults
        \/ Fault /\ \E lost \in AlertTypes : reported(detectP2PFraud(trade, lost))
     /\ UNCHANGED <<tables, cache>>

Reporting(c) == calls[c].found[calls[c].next]

storeP2PAlerts(c) ==
  LET last == calls[c].next = Len(calls[c].found)
  IN /\ calls[c].at = "report"
     /\ \/ /\ alerts' = alerts \cup {<<c, Reporting(c)>>}
           /\ calls' = [calls EXCEPT ![c].at = IF last THEN "done" ELSE @, ![c].next = @ + 1]
           /\ UNCHANGED faults
        \/ Fault /\ MoveTo(c, "error") /\ UNCHANGED alerts
     /\ UNCHANGED <<stored, blacklist, trades, cache>>

(* The process stops; Redis and PostgreSQL do not.                         *)
Stop ==
  /\ InFlight # {} /\ Fault
  /\ calls' = [c \in DOMAIN calls |->
                 IF c \in InFlight THEN [calls[c] EXCEPT !.at = "lost"] ELSE calls[c]]
  /\ UNCHANGED <<tables, cache>>

Handle(c) ==
  \/ GetCached(c) \/ AskBlacklist(c) \/ AskHistory(c) \/ FillCache(c)
  \/ performRiskAnalysis(c) \/ storeTransactionAnalysis(c)
  \/ VerifyBlacklist(c) \/ VerifyExchanges(c) \/ InsertBlacklist(c) \/ InvalidateCache(c)
  \/ storeP2PTrade(c) \/ DetectP2PFraud(c) \/ storeP2PAlerts(c)

Next ==
  \/ \E req \in Requests : Receive(req)
  \/ \E c \in DOMAIN calls : Handle(c)
  \/ \E w \in Wallets : Expire(w)
  \/ Stop

Spec == Init /\ [][Next]_vars

-----------------------------------------------------------------------------
(* Properties.                                                             *)

(* The tables have their columns' types.                                   *)
TypeOK ==
  /\ \A i \in DOMAIN stored : stored[i].txn \in Txn /\ stored[i].velocity \in {0, 25, 30, 55}
  /\ blacklist \subseteq Wallets
  /\ \A w \in Wallets : cache[w] = NoRow \/ cache[w] \in {0, 20, 30, 50, 100}
  /\ \A id \in TradeIds : trades[id] = NoRow \/ trades[id] \in StoredTrade
  /\ alerts \subseteq (DOMAIN calls) \X AlertTypes
  /\ calls \in Seq(Call)

(* A wallet is not answered as verified when its blacklisting had been     *)
(* answered before the verification began, whatever a reputation in the    *)
(* cache says, unless a look-up failed.                                    *)
VerifiedIsNotBlacklisted ==
  \A c \in DOMAIN calls :
    LET call == calls[c]
    IN call.req.kind = "verify" /\ call.at = "done" /\ Verified(call) /\ faults = 0
       => call.req.wallet \notin call.known

(* A wallet whose blacklisting was answered before is reputed at 100 and   *)
(* its transactions are flagged, or its reputation was written by a look-up*)
(* that was under way when the blacklisting inserted its row, or a         *)
(* statement failed.                                                       *)
OnlyRacesHideBlacklisting ==
  \A c \in DOMAIN calls :
    LET call == calls[c]
        trusted == \/ call.req.kind = "verify" /\ call.wallet < 100
                   \/ call.req.kind = "analyze" /\ call.score < 60
        lookedUp(k, w) ==
          \/ calls[k].req.kind = "verify" /\ calls[k].req.wallet = w
          \/ calls[k].req.kind = "analyze" /\ \E t \in ToSet(calls[k].req.txns) : t.wallet = w
    IN call.at = "done" /\ trusted /\ WalletOf(c) \in call.known /\ faults = 0
       => \E b \in DOMAIN calls :
            /\ calls[b].req.kind = "blacklist" /\ calls[b].req.wallet = WalletOf(c)
            /\ \E k \in calls[b].beside : lookedUp(k, WalletOf(c))

(* A burst of one user's transactions is noticed: those that the calls     *)
(* store without velocity points in an hour are no more than the limit and *)
(* the requests at a time, however the analyses interleave.                *)
BurstsAreNoticed ==
  \A user \in Users :
    LET unnoticed == {i \in DOMAIN stored : /\ i > Len(Ledger)
                                            /\ stored[i].txn.user = user
                                            /\ stored[i].txn.age = "hour"
                                            /\ stored[i].velocity < 30}
    IN faults = 0 => Cardinality(unnoticed) <= BusyHour + Concurrency

(* A blacklisting that was answered counts in what begins after it: wallet *)
(* verifications and transaction analyses, the race of OnlyRacesHide-      *)
(* Blacklisting excepted; and so do a user's stored transactions.          *)
RecordsAreHeeded ==
  VerifiedIsNotBlacklisted /\ OnlyRacesHideBlacklisting /\ BurstsAreNoticed

(* A blacklisted wallet is in the end never taken for a better one: what a *)
(* look-up wrote beside the blacklisting expires.                          *)
BlacklistingTakesHold ==
  \A w \in Wallets :
    (w \in blacklist) ~> [](cache[w] \in {NoRow, 100})

=============================================================================
