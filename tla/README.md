# Formal models of FraudFusion

TLA+ specifications of the parts of FraudFusion that keep state and promise
something about it, the TLC instances that check them, and theorems checked by
TLAPS. Paths below are relative to the repository (`src/`).

```
tlc -config LedgerDispatch.cfg MCLedgerSettlement.tla      # any run of section 3
tlapm LedgerSettlement_proofs.tla                          # any module of section 7
```

## 1. Inventory

| Part | State it keeps | Operations | Talks to | What is hard | What makes it correct |
|---|---|---|---|---|---|
| **Ledger posting** `services/go/ledger-command/main.go`, `database/20260822_double_entry_*.sql` | journals, postings, settlement items, outbox rows | `createJournal`, `getJournal` | PostgreSQL, Keycloak | retries with a lost answer, concurrent use of one idempotency key, references used twice | one journal per tenant and key; an answer is about the command that was sent |
| **Settlement dispatch** `settlement_runtime.go` | outbox rows with leases and attempts; per replica the batch in hand | `leaseEvents`, `submitEvent`, `markPublished`, `recordDispatchFailure` every 500 ms | PostgreSQL, the provider's HTTP API | several replicas; leases that run out during a POST; lost answers; a pass's deadline; stale attempt counts | outbox and settlement agree; published means executed; final rows stay; everything is published or parked |
| **Provider callbacks** `settlement_runtime.go` | event inbox, alerts, settlement status | `providerCallback` / `applyCallback` | PostgreSQL, the provider | events early, late, repeated, altered, or about somebody else's settlement; the aborted transaction | the books follow the provider and only forward |
| **Reconciliation** `financial_controls.go` | runs, breaks | `reconcile`, `resolveReconciliationBreak` | PostgreSQL | repeated imports, items that move between statement and import, amounts as text | one run per statement; no break means agreement |
| **Financial close** `financial_controls.go`, `database/*financial*.sql` | close periods, their audit trail | open, submit, approve, reopen | PostgreSQL triggers | journals that commit late; breaks that appear between submission and approval; reopening | four eyes, proven by the trail; a closed period was reviewed; a sealed snapshot is the period |
| **Release-gate metrics** `observability/release-gate-metrics` | replay keys and rate windows in Redis; counters per replica | `ingestHandler`, the claim script | Redis, CI scripts, Prometheus | replicas with clocks of their own, lost replies, curl and go-redis retries, restarts, failover | one count per event; the rate is kept; nothing is lost silently |
| **Chargeback detector** `services/go/chargeback-fraud-detector` | transactions, disputes, friendly-fraud cases, abuse patterns, decisions | seven handlers | PostgreSQL, Keycloak | every statement commits alone; counts race with inserts; ids reused with other facts; cents lost in a column | repetition is idempotent; a verdict rests on its customer's rows |
| **Insider detector** `services/go/insider-fraud-detector` | access log, exfiltration attempts, events, alerts | six handlers | PostgreSQL, Keycloak | two transfers at once; a loop over employees that fails halfway | answers and records go together |
| **AML monitor** `services/go/aml-monitor` | reports, analyses, patterns; cached sanctions; a rate counter per client | analyses, report generation and filing, sanctions check | Redis, PostgreSQL, a gRPC model, the regulator | INCR without EXPIRE; filings that race; a cache key without the type | an answered filing is not repeated; a limited client is served again |
| **SIM-swap detector** `services/go/sim-swap-detector` | accesses, swaps, alerts, blocked accounts | detection, access log, block | PostgreSQL, the telco | eight look-ups one after the other, errors that read as "no", evidence that arrives meanwhile | a block has two causes and the telco's answer; evidence in time blocks |
| **Crypto-fraud detector** `services/go/crypto-fraud-detector` | transactions, blacklist, trades, alerts; cached reputations | analyses, batches, verification, blacklisting, P2P trades | PostgreSQL, Redis | a stale cache filled beside a blacklisting; counts taken before storing | a blacklisting takes hold; bursts are noticed |
| **Investment-fraud detector** `services/go/investment-fraud-detector` | schemes, register | analysis, risk, investor check | PostgreSQL | count, then upsert: a late upsert overwrites; swallowed errors | a verdict is kept, told and counted |
| **Account-takeover detector** `services/python/account-takeover-detector` | logins, fingerprints, failed attempts, events, alerts | six checks | PostgreSQL, Keycloak | each check stores the login it judges; transactions that do not see each other | judged by what others stored; bursts are alerted; a device keeps its fingerprint |
| **Event orchestrator** `orchestrator/go` | cached decisions, ids of the second | `ExecuteJourney` | Keycloak, Permify, Redis, Temporal, TigerBeetle, Kafka, Dapr, APISIX | the cache key leaves out tenant and data; ids of a second; dropped errors; crashes | a decision is the user's own; a missing transfer has a cause |
| **Temporal journeys** `services/go/temporal-orchestrator` | a workflow's step, context and results | the generic plan of steps; journeys 34 (land) and 37 (consultation) | the services behind the activities | retries of calls that acted; look-ups that fail open; values that change type on the way | verdicts have grounds; bookings are what is answered; required steps are done; journeys end |
| Advance-fee detector `services/go/advance-fee-fraud-detector` | one row per analysis | rules over one message | PostgreSQL | section 9 | |
| Mobile stores, services, screens `mobile/` | locks, offline queue, socket, auth slice | | AsyncStorage, server | section 9 | |
| Security manager, audit logger, hardening | accounts, sessions, log files, limits | | files | section 9 | |
| Storage gateway `implementations/storage` | a log in memory | pass-through | an object store | section 9 | |
| Identity theft, land verification, front ends, ML portal, mock, deployment | none | | | section 9 | |

`PROJECT.json` lists every component, and every hazard with the line where it
bites and the properties that watch it.

## 2. Modules

| Module | Models |
|---|---|
| `LedgerSettlement` | posting, dispatch, callbacks, and the provider as their environment |
| `SettlementLifecycle` | what those three promise about one settlement: the abstract specification |
| `FinancialControls` | reconciliation and financial close, over settlements that move as `SettlementLifecycle` says |
| `ReleaseGate` | senders, replicas and Redis of the release-gate metrics |
| `ChargebackDetector`, `InsiderDetector`, `AMLMonitor`, `SwapDetector`, `WalletDetector`, `InvestmentDetector`, `TakeoverDetector` | one detector service each |
| `Detectors` | the seven detectors together |
| `JourneyOrchestrator` | the event orchestrator's `ExecuteJourney`, with Temporal, Redis and the ledger as it uses them |
| `JourneySteps` | `ExecuteJourneyWorkflow`: any plan of steps |
| `DoubleAllocation`, `ConsultationBooking` | the workflows of journeys 34 and 37 |
| `Journeys` | these four together |
| `MCLedgerSettlement`, `MCFinancialControls`, `MCReleaseGate`, `MCDetectors`, `MCJourneys` | instances for TLC |
| `..._proofs` | theorems, section 7 |

`LedgerSettlement` implements `SettlementLifecycle` (property
`ImplementsLifecycle`, theorem `ServiceImplementsLifecycle`) with
`said <- the event types in issued`; `FinancialControls` instantiates the same
module, so what is shown about closes and statements rests on the promise and
not on the dispatcher's details.

`Detectors` and `Journeys` compose components that share no state: no code path
leads from one detector's tables or keys to another's, and the workflows share
only Temporal's way of repeating activities. A behaviour starts with one of them
(`service`, `component`) and the others stand still. The product of all
interleavings would hold no more: each property speaks of one component's
variables. `device_fingerprints` is a table name that SIM swap and account
takeover both use, with different columns; SIM swap only reads it, and there it
is a constant.

Operators commented "Mutant of ..." stand before the definition they replace; no
specification uses them.

### LedgerSettlement

* A PostgreSQL transaction is one action. `postJournal` inserts journal,
  settlement item and outbox row with the journal's id, so the three tables are
  functions of `JournalIds`; `"none"` means that the row does not exist.
* What a replica does outside a transaction is split where another process may
  come between: `LeaseEvents`, `SubmitEvent`, the answer (`SubmissionAcked`,
  `SubmissionRefused`, `SubmissionFailed`), `MarkPublished` or
  `PublishRollsBack`, `RecordDispatchFailure` or `FailureNotRecorded`.
  `dispatcher[w].stage` is the place in `dispatchOnce`, `current.attempts` the
  count its lease returned.
* `AbandonBatch` is a crash, a restart or the end of the pass's deadline.
  `LeaseExpires` while the holder still works is a pass that takes longer than
  its lease. Both count as *stalls*.
* The clock is abstracted to two booleans of a row: `due` (`available_at` has
  passed) and `lapsed` (`lease_expires_at` has passed).
* The provider is external: it executes one request per idempotency key, which
  is how the service uses it, and decides when it likes. `issued` only grows,
  since each event is sent until it is answered 200. `ProviderAlters` and
  `ProviderMisaddresses` are its mistakes that `applyCallback` looks for.
* `applyCallback`'s outcomes are one action each. `TransitionAborts` is the
  trigger's exception: the transaction is aborted, so the alert insert after it
  fails and the inbox row goes with it.

### FinancialControls

An item stands for its journal and settlement; all items are of the provider
whose statements are imported. A journal is stamped when its transaction begins
(`BeginPost`) and seen when it commits (`CommitPost`). `reconcile` is one action
with every comparison: amounts are pairs (value, decimals written), because
`amount::text` is compared with the statement's text. The triggers
`enforce_financial_close` and the ones that make the trail append-only are in
the guards of `MoveCloseToReview` and `ApproveClose`.

### ReleaseGate

One clock, Redis's; each replica is `Offset` away from it and stamps the sliding
window with its own. A handler's stages are the moments where time passes or a
reply may be lost. The script is one action per result. `ClaimFails` is a
deadline, an unreachable Redis or a sender that hung up; `ClaimRepeats` is
go-redis sending the call again after a broken connection; `Failover` brings back
Redis as it was before its last write. `granted` and `lost` are history.

### The detectors

All seven follow one pattern. `calls` is the sequence of requests that were
received; a call has the stage its handler stands at and what the handler has
read so far. Every SQL statement, Redis command or remote call that reads or
writes what another request may touch is a step, because none of these handlers
holds a transaction around its statements; the exceptions are each one step (the
event, activity and alert of an insider score), and the account-takeover
service's two transactional checks, which read, write and commit as the READ
COMMITTED level allows: a transaction sees its own rows and those committed when
its statement begins. A statement may fail, or take effect while its answer is
lost, and the process may stop; `MaxFailures` bounds how often. What the code
makes of an error is kept as it is: a 500 after rows were written, a zero value,
or nothing but a log line. Tables are sets, functions or sequences named for
them; a row is named by the call that wrote it. Clocks become the few ages the
code tells apart, scores are the code's integers (hundredths where it uses
fractions), and the outcome of pure rules over texts is part of the request.

* `ChargebackDetector` — `payments`, `disputes`, `cases`, `patterns`,
  `decisions`. `StoredAs` is the rounding into the `NUMERIC` column. Disputes age
  out of the windows.
* `InsiderDetector` — a transfer stores its attempt before it counts;
  `lateUTC` differs from `late` since the log keeps another time zone.
* `AMLMonitor` — the limiter's `INCR` and `EXPIRE` are two steps (`counter`,
  `expiring`). Filing reads the report, posts it to the regulator and updates
  the row. The repository package and the model's gRPC definitions are not part
  of the source and are modelled from how the handlers use them (external).
* `SwapDetector` — seven look-ups, then the telco, the event, the alert, the
  block. `known` records which evidence was there when the call began.
* `WalletDetector` — look-up of the cache, of the blacklist, filling of the
  cache; blacklisting inserts and then deletes the key. `beside` and `known` are
  history.
* `InvestmentDetector` — register look-up, history count, upsert. `condemned`
  and `excused` are history: verdicts that were answered, and what may take them
  back.
* `TakeoverDetector` — logins have a `call` field naming the check that stored
  them, 0 for earlier days.

### The journeys

* `JourneyOrchestrator` — `runs` are Temporal's, named by journey and second;
  `resultCache` is keyed by journey and user; `transfers` by second.
  `outages` counts failing calls and crashes.
* `JourneySteps` — a plan is any sequence of steps, each with type, policy,
  required flag, condition and the step its parameters refer to. `context` is the
  set of steps whose result later steps can see.
* `DoubleAllocation` — the records may change between activities (`land`,
  `past`); `heard` is what the activities answered and which did not. The risk
  score's activity panics in every attempt, as it does in the code.
* `ConsultationBooking` — several users, one journey each, over one calendar;
  `LoseBookingAnswer` is a booking that was made while its attempt failed.

## 3. Runs

| Run | Question | Bounds |
|---|---|---|
| `LedgerPosting` | What is a key's journal, and what may a client believe of an answer? | every command over 2 tenants, 2 keys, 2 owners, with and without settlement and reference; 3 journals; lost answers |
| `LedgerDispatch` | Do leases, counts and tables stay consistent, and what does "published" mean? | 2 replicas, 2 settlements of 3 commands (one pair shares a key over two tenants), 2 attempts, batches of 2, 1 stall; `accepted` callbacks (`LedgerCallbacks` has the others) |
| `LedgerCallbacks` | Do the books follow the provider, and move as the lifecycle says? | 1 settlement, own or of another provider; `accepted`, `settled`, `rejected` x 2 payloads x 2 references; 1 stall |
| `LedgerLive` | Does every instruction end, and do published settlements catch up? | 2 replicas, all event types, 2 attempts, 2 stalls |
| `ReconcileStatements` | What do a run and its breaks say? | 2 items (one without reference) that are accepted and settled, 6 statements, 2 runs |
| `FinancialClose` | What do a closed period, its snapshot and its trail guarantee? | 1 journal, a two-day period in 3 days, 2 people, 2 runs, 5 trail events (a full reopening and a second submission and approval) |
| `ReleaseGate` | Is an event counted once, the rate kept, and how can a count get lost? | 2 events of one key, 2 tries, 2 replicas one unit behind and ahead, 3 requests, 2 handlers at once, limit 1, window 4, TTL 4, 1 fault |
| `Detectors` | What does each detector decide from what it has stored? | per service 3 requests (SIM swap: 2 swaps and 1 access), 2 at a time, 1 failure; rows of earlier days next to the limits |
| `DetectorsRecover` | Is a limited client served again, and does a blacklisting take hold? | chargeback look-ups, AML analyses, crypto trades and verifications; 3 requests, 1 failure |
| `Journeys` | Verdicts, bookings, steps, cached decisions; does every journey end? | 3 attempts per activity (2 for notifications, 5 in the code), 4 states of a land and 2 changes, 2 bookers, 3 professionals and 3 slots, 4 plans of 2 or 3 steps, 2 seconds, 3 requests or faults at the orchestrator, 2 at a time |
| `FiledMeansAccepted`, `ScoreCountsClaimants` | violated: section 6 | |

Why the bounds are enough. *Ledger*: two replicas, two attempts and one stall
make a lease change hands during a POST and give the late replica something to
do afterwards; a third replica would only repeat the second's part. Two
settlements suffice to share a batch or a key; no action touches three rows. One
stall is one more than the properties tolerate if they miscount: `AttemptsBounded`
is exact, and the theorems' invariant holds for any number. *Controls*: the third
day is the one after the period, and five trail events are the first cycle and
half of the next, so the cycle closes. *Release gate*: the TTL is the smallest
that `TTLAssumption` allows and time runs to its end, so replay keys do expire;
`SureWindow` is 1 there, and the mutant with a window one unit short breaks
`RateKept`, so the bound is exact.

*Detectors*: every property relates at most two requests that interleave and one
that comes after both; the counts that need more than three rows start one below
their limit, with rows of earlier days (three disputes, four accesses of the
vault, two failed one-time passwords within the hour, a disputed trade, two
failed logins). Limits that are large in the code (100 requests, 20 or 5
transactions, 3 locations) are constants, so that the step over the limit
happens. Two swaps and one access are what the SIM-swap properties relate, its
look-ups being the longest handler. *Journeys*: one attempt fails for good after
three; the plans have a parallel, a conditional, an optional and an unlimited
step, references forwards and backwards, a policy of its own, an unconfigured
service and a missing context. What is not liveness, here and above, the theorems
of section 7 show without these bounds.

Deadlock is checked in the ledger's runs. All others stop at their bounds: days,
trail events, time, requests, or, in the journeys, at their ends.

## 4. Properties

*Posting* — `OneJournalPerKey`, `AnswersNameTheCommand`: the key's uniqueness,
the command hash and the lost answer together.

*Dispatch* — `OutboxAgreesWithSettlement` relates the two tables over all
interleavings of acknowledgement and callbacks. `PublishedWasExecuted` is what
survives of "published" when two tenants share a key: somebody's request with
that key was executed. `LeaseCountIsCurrent` says that
`recordDispatchFailure`'s use of a count read at lease time is safe while the
lease is held. `AttemptsBounded` shows the limit to be soft: `leaseEvents` does
not look at it, so each stall may cost one attempt more. `FinalRowsStay` and
`LeaseRespected` are about the late steps of a replica that lost its lease.
`EventuallyDispatched` is the liveness promise.

*Callbacks* — `BooksFollowProvider` (never ahead of the provider, whatever the
order), `BooksConverge` (a callback that came before the acknowledgement is
refused, *not* remembered, and therefore effective when it is delivered again),
`ImplementsLifecycle`.

*Controls* — `OneRunPerStatement`, `CleanRunMeansAgreement`,
`TrailTellsTheStory`, `ClosedOverIndependentReview`, `SealedSnapshotIsComplete`.

*Release gate* — `CountedOnce` needs the freshness check and the TTL together;
each failover of Redis may forget one claim and so let one count more.
`RateKept` gives the exact window over which the limit holds when clocks
disagree: `Window - 2 * MaxOffset - MaxDelay`, and no longer than the TTL, since
after it an id may be granted again and takes only one place among the
members of the window. Each failover may let one more in. `NothingElseLost` lists
the only ways an accepted event can miss the counters.

*Detectors* — each is a conjunction stated and explained in its module:

| Property | Parts | What it took to get right |
|---|---|---|
| `RequestsAreIdempotent` | `DecidedFromStoredFacts`, `ConflictsAreReal` | an amount with more decimals than the column keeps is stored, and its exact repetition refused |
| `VerdictsRestOnRecords` | `DisputesNameTheirTransaction`, `CountsAreHonest`, `SevereVerdictsHaveGrounds` | repeated analyses make cases which later analyses count: a customer without any dispute is called a friendly fraudster at the third |
| `AnswersMatchRecords` | `RepeatedTransfersAreAlerted`, `SevereAnswersHaveGrounds`, `CollusionIsOnRecord` | only because a transfer is stored before it counts does one of two see the other |
| `AnswersStand` | `NoFilingAfterFiled`, `SanctionsAnswersHaveASource` | two filings at once both post; only a request that begins after an answer cannot. A sanctions answer may be the one for the same name under another type |
| `BlocksMatchEvidence` | `BlocksHaveTwoCauses`, `EvidenceInTimeBlocks`, `DecidedWithTelcoAnswer` | holds for evidence that was there when the call began and look-ups that did not fail |
| `RecordsAreHeeded` | `VerifiedIsNotBlacklisted`, `OnlyRacesHideBlacklisting`, `BurstsAreNoticed` | names the look-up beside the blacklisting as the only way; of the rows the calls store, a burst goes unnoticed by at most the limit and as many as run at once |
| `CondemnedSchemesStayKnown` | `VerdictsAreKept`, `InvestorsAreWarned`, `HistoryIsCounted` | a verdict is taken back by a failed statement, by other facts under its id, or by an analysis that counted before and stored after; each of the three does occur, and a registration in between is none |
| `TakeoversAreNoticed` | `HistoryIsOthers`, `SevereFindingsAreAlerted`, `BurstsAreAlerted`, `DevicesKeepTheirFingerprint` | what a check stores is history for the next check of the same login, retries included; two reports of failed logins at once do not see each other. What earlier days left on record is nobody's finding: a burst counts when a call added to it |
| `ServicesRecover` | `LimitedClientsRecover`, `BlacklistingTakesHold` | liveness; the first fails only when EXPIRE was lost |

Noted on the way, and contradicting no statement of the repository: a new device
in a new city is 55 points and never alerted on its own; no code sets
`is_trusted`; a login dated before the previous one counts as impossible travel.

*Journeys* — `VerdictsHaveGrounds` (`CleanVerdictIsEarned`,
`FraudVerdictHasGrounds`): a land called legitimate was found so by each look-up
that was answered, and a failed look-up reads as "nothing found".
`BookingsMatchAnswers` (`ChosenIsFirstMatch`, `AnsweredBookingExists`,
`OrphansAreLostAnswers`): each orphaned booking is the work of an attempt whose
answer was lost. `StepsFollowThePlan` (`EarlierResultsArrive`,
`CompletedDidRequiredSteps`, `ActsWithinPolicy`). `DecisionsAreTheUsersOwn`
(`ForeignDecisionsShareASecond`, `HitsAreCompletedRuns`): the decision about
another user reaches somebody only through a workflow id of a shared second.
`MissingTransfersHaveACause`. `JourneysEnd` names the two exceptions: a step
without a limit of attempts, and a journey without a context, whose workflow
task panics again and again.

## 5. Fairness

`LedgerSettlement!FairSpec` assumes weak fairness of

* each replica's dispatch steps: `run` ticks every 500 ms and `dispatchOnce` is
  called on every tick, its calls have timeouts;
* `LeaseExpires` and `BackoffElapses`: the database's clock goes on;
* `ApplyTransition` of each event: the provider sends an event until it gets
  200, and a refused transition is answered 503.

Nothing is assumed of the provider's decisions, of stalls, or of clients. Stalls
are bounded by `MaxStalls`: with endless crashes nothing need ever be dispatched.

`Detectors!FairSpec` assumes `ExpiryElapses` (Redis ends a key that has an
expiry) and `HandlersGoOn` (an AML handler that has counted goes on to EXPIRE,
answered or not). It assumes nothing of clients, of other handlers or of
failures.

`Journeys!FairSpec` assumes `WorkflowsGoOn`: Temporal keeps a workflow and its
retries through a worker's crash, so an activity that can be attempted is
attempted, with whatever outcome. The orchestrator has no fairness: its process
may stop in any request.

## 6. Where code and documents disagree

Two are runs that TLC finds violated; `PROJECT.json` quotes the lines.

* `FiledMeansAccepted` — `FileSAR` (`aml_handler.go:431`) never looks at
  `filingResult.Success`: a report that the regulator refused is on record as
  filed, and the next filing is refused with "already filed".
* `ScoreCountsClaimants` — `CalculateRiskScoreActivity`
  (`journey_34_double_allocation.go:451`) asserts Go types on values that arrive
  as JSON, so every attempt panics and the score is 0, whatever was found.

Five more are stated as definitions, which the code does not satisfy:

* `StoredBeforeTransition` (`LedgerSettlement`) — a callback whose transition is
  refused is stored nowhere and leaves no alert, since both inserts are in the
  aborted transaction.
* `RejectionPostsReversal` (`LedgerSettlement`) — a rejection posts no reversal
  journal.
* `AmountBreakMeansDifference` (`FinancialControls`) — "10.00" against a stored
  10.000000 is an amount break.
* `NotFinalWhileBroken` (`FinancialControls`) — an open high-severity break does
  not keep a settlement from becoming final.
* `AcceptedIsCounted` (`ReleaseGate`) — when the reply to a claim is lost, the
  retry is answered 202 as a duplicate and no replica ever counts the event.

Hazards of the ledger that no property can cover: a dead-lettered instruction
that the provider executed stays pending for ever, for nothing revives it; an
instruction for a provider other than the configured one is accepted by
`postJournal` and never leased (`settlement_runtime.go:151`).

## 7. Proofs

All theorems are for any values of the constants, within the named assumptions
of the module; the runs check the properties they state on small instances.

| Module | Theorem | States |
|---|---|---|
| `LedgerSettlement_proofs` | `TypeCorrect`, `OutboxAgrees`, `InstructionsAreCommitted` | `[]TypeOK`, `[]OutboxAgreesWithSettlement`, `[]InstructionsExist` |
| | `FinalRowsAreFinal` | `FinalRowsStay` |
| | `ServiceImplementsLifecycle` | `ImplementsLifecycle` |
| | `KeysNameOneJournal`, `AnswersAreTrue` | `[]OneJournalPerKey`, `[]AnswersNameTheCommand` |
| | `PublishedMeansExecuted`, `BooksStayBehind` | `[]PublishedWasExecuted`, `[]BooksFollowProvider`, each with what it rests on |
| | `LeaseCountsAreCurrent`, `AttemptsAreAccounted` | `[]LeaseCountIsCurrent`, `[]AttemptsBounded` |
| | `LeasesAreRespected` | `LeaseRespected` |
| | `LedgerIsConsistent` | `[]LedgerInvariant`: all layers together |
| `FinancialControls_proofs` | `TypeCorrect`, `StatementsRunOnce`, `TrailsTellTheStory`, `SealedSnapshots` | `[]TypeOK`, `[]OneRunPerStatement`, `[]TrailTellsTheStory`, `[]SealedSnapshotIsComplete` |
| | `CleanRunsAgree`, `ClosesAreReviewed` | `CleanRunMeansAgreement`, `ClosedOverIndependentReview` |
| | `ReviewIsIndependent`, `StampsPrecedeCommits` | the invariants the last ones rest on |
| `ReleaseGate_proofs` | `TypeCorrect`, `OnlyFaultsLoseCounts` | `[]TypeOK`, `[]NothingElseLost` |
| | `RequestsCountOnce`, `RateIsLimited` | `[]CountedOnce`, `[]RateKept` |
| `JourneySteps_proofs` | `PlansAreFollowed` | `[]StepsFollowThePlan` of a workflow alone |
| `DoubleAllocation_proofs` | `VerdictsAreGrounded` | `[]VerdictsHaveGrounds` of a workflow alone |
| `Journeys_proofs` | `StepsOfJourneysFollowThePlan`, `VerdictsOfJourneysAreGrounded` | the last two in the composition |
| | `OthersDecisionsNeedASharedSecond`, `TransfersGoMissingForACause` | `[]DecisionsAreTheUsersOwn`, `[]MissingTransfersHaveACause` |
| | `AnswersAreBooked`, `JourneyTypesHold` | `[]BookingsMatchAnswers`, `[]TypeOK` |
| `Detectors_proofs` | `AMLAnswersStand`, `SwapsAreBlockedOnEvidence` | `[]AnswersStand`, `[]BlocksMatchEvidence` |
| | `BlacklistingsAreHeeded`, `TakeoversAreKnown` | `[]RecordsAreHeeded`, `[]TakeoversAreNoticed` |
| `DetectorVerdicts_proofs` | `VerdictsOutliveAnalyses`, `InsidersAreOnRecord` | `[]CondemnedSchemesStayKnown`, `[]AnswersMatchRecords` |
| | `RequestsDecideFromOneRow`, `VerdictsHaveGrounds` | `[]RequestsAreIdempotent`, `[]VerdictsRestOnRecords` |
| | `DetectorTypesHold` | `[]TypeOK` |

**Ledger.** Assumed: the special values are outside the sets they complete,
attempts and batch size are positive, what clients send are commands. Nothing is
assumed about how many replicas there are or what they do. The argument is
layered, each layer an invariant relative to the ones before:

1. `TypeOK`. Its clause "ready iff nothing in hand" makes `current` an event in
   every step that uses it (`CurrentIsLeased`).
2. `OutboxAgreesWithSettlement` needs the exact steps of a settlement: only
   `MarkPublished` publishes, and it moves the settlement out of pending in the
   same step; `enforce_settlement_transition` lets no callback skip submitted,
   except into rejected.
3. `InstructionsExist`: whatever is leased, sent, decided or reported belongs to
   a committed settlement. It is not implied by the first two and is what the
   refinement rests on: a callback's settlement is never "none".
4. `FinalRowsStay`: every step that changes a row has a guard on its status;
   `HoldsLease` is the one that stops late acknowledgements and failures.
5. `ServiceImplementsLifecycle`: `PostJournal` maps to `Open`, `MarkPublished` to
   `Submit`, `ApplyTransition` to `Record`, the provider's reports to `Report`,
   and everything else leaves book and reports alone.
6. `PublishedWasExecuted` needs `AckedWasExecuted`: a replica that stands at
   "acked" has seen its key executed, and what is executed stays so.
7. `BooksFollowProvider` needs `ReportsFollowVerdict`: every event that is on its
   way is vouched for by the verdict, which only moves forward.
8. `AttemptsBounded` needs `Accounted`, which is stronger in two ways: a row that
   waits is below `MaxAttempts`, and a leased row whose lease has lapsed or whose
   holder has gone is below the bound with its own stall already paid.
9. `LeaseRespected`: whoever else changes a leased row has a guard on `lapsed` or
   on `leasedBy`; that no journal is posted over a leased row is layers 2 and 3.

`Writers` and `NextCases` say once which action writes which variable.

**Controls.** Assumed: runs, closes and actors differ from "none", references are
unique in a tenant (the table's UNIQUE), periods are ordered. `TrailTellsTheStory`
is inductive with `TypeOK`, as the trail determines every close
(`Story`). `ClosedOverIndependentReview` is an action property over
`ReviewedByOthers`: a break that is no longer open was settled by somebody other
than who imported its statement. `SealedSnapshotIsComplete` needs
`JournalsAreStamped` and that a period, once over with nothing in flight, stays
what it is (`PeriodStaysOver`).

**Release gate.** Assumed: there is a replica, clocks are off by at most
`MaxOffset`, times and limits are numbers, and the TTL exceeds skew, offset and
delay together. `NothingElseLost` needs `ClaimsWereGranted` (who says "claimed"
speaks of a grant of the script) and `GrantsAreKept` (a grant is counted, about to
be, or in `lost`).

`CountedOnce` is about what a report *costs*: its increments, and its claims whose
increment is still to come. The invariant is that a report costs at most one and
the failovers, and as long as its replay key may be gone before the report is
stale, at most the failovers (`CostsAreBounded`): a grant needs an expired key,
and what `Fresh` lets through is signed late enough for the key of an earlier
grant to be alive. That a call reaches the script as fresh as the handler found
it is `CallsAreTimely`. `RateKept` rests on `StoresRemember`: but for as many
grants as there were failovers, Redis remembers each live grant by its replay key
and by a member of the window that no replica's clock can remove early, and two
live grants it remembers differ in their ids, so they are as many as members.
The standby remembers as much but for one grant more.

**Journeys.** For any plan the invariant is: the position is the status, what lies
behind the position is recorded, a literal was sent only for what is ahead or
failed for good, a step acts at most once per attempt. For journey 34: what was
heard was on record at some moment, as long as nothing was flagged each answered
look-up found the land clean, what was flagged has grounds, and a verdict is the
flag's. The set of persons is finite, since claimants are counted.
`Journeys_proofs` instantiates both modules and shows that a step of the
composition is one of the workflow or leaves it alone.

The orchestrator's invariant is `OrchestratorInv`: a call that has come to the
transfer has a run that it started or joined in the second it began, an entry of
the cache is the result of a run its user waited for, and a transfer is of the
call that made it at that second. What no step changes of a call or a run
(`CallsAreKept`, `RunsAreKept`) is proved once and used for each part. The booking's
is `JourneyOK` of each user: whoever was asked before the one being asked had
nothing, and the orphaned bookings are at most the answers lost so far, each
attempt adding at most one.

**Detectors.** Each service has an inductive invariant of its own, `AMLInv` to
`CBInv`, over its tables and, for each call, over what its handler has read by the
stage it stands at. What is read never comes true again by itself, so the
invariants say what it was at the latest and what the tables have kept since:

* `AMLInv` — a request that began after an answered filing finds the report filed
  before it can post, since no step takes that status back. A cached sanctions
  answer is the model's for some request about that name.
* `SIMInv` — what a look-up found of logins, devices and transfers lasts, as
  accesses are only added; by the stage
  of its look-ups a call has every flag that was there when it began, unless it
  missed one; the flags' weights add up (`Signals`).
* `WALInv` — while no statement has failed: a blacklisting that has inserted is
  listed, and a reputation below the list's that is cached, or on its way into
  the cache, of a wallet whose blacklisting has answered, was written by a look-up
  beside it. A user's unnoticed rows and the calls that wait to store one are
  together at most `BusyHour + Concurrency`: a call that starts to wait counted
  fewer than the limit, and the others that wait are in flight.
* `ATOInv` — the rows of the three tables name calls that have read; what a check
  found is on record, and stored by another. The score of a report sums rows
  among which are all that were present when it began, so that the last row of an
  address, if nobody ran beside it, sums all the others and was alerted.
* `INVInv` — a condemned scheme stays condemned by its promoter's own record,
  whatever the register says later (`StaysPonzi`): its own row outweighs the 35
  points of a missing registration, since scores are multiples of five and the
  few that 30 points do not make up for cannot occur (`ScoresAdd`).
* `INSInv` — a transfer stores before it counts, so of two that have counted the
  later count has both (`OneOfTwoCounts`); what a collusion analysis has recorded
  is what lies behind its place in the loop.
* `CBInv` — a payment never changes once it is stored, disputes only age, cases
  only grow; what a call counted lies between what was there when it began and
  what is there now.

Sums over sets of rows (`MapThenSumSet`) would need induction over their size.
`SumsExist` and `SumsAgree` use a least counterexample instead: the natural numbers
are well-founded, which the library states without an operator parameter, so a
smallest set without its sum exists and a smaller one refutes it.

Assumed of the detectors, by name in each module: what clients send are requests,
with at least one transaction or employee where the handler insists on one;
`NoRow` is no row; rows of earlier days have their columns' types, belong to none
of the calls, and a dispute among them names its customer's transaction, as every
dispute that the service stores does; the sets whose members are counted are
finite; rounding twice is rounding once. Nothing is assumed about how many calls
there are, how they interleave or which fail.

With these, every state and action property of the passing runs is a theorem of
the specification it is checked on. Only model-checked: `EventuallyDispatched`,
`BooksConverge`, `ServicesRecover` and `JourneysEnd`, since fairness and `ENABLED`
are outside what TLAPS 1.4.5 proves. So is induction over data.

## 8. Plan

Done: the ledger service and its controls, the release gate, seven detectors, the
orchestrator and the Temporal journeys; the theorems above.

Theorems: every safety property that a run checks is proved. Next is the
refinement named below, and `LedgerService` lifted from the two it composes.

Models: `LedgerService`, the composition of `LedgerSettlement` and
`FinancialControls` in place of the lifecycle; the investment detector's report
filing. An abstract specification still worth stating: an at-most-once counter
for the release gate.

## 9. Not modelled, and why

* Amounts, accounts and the balanced-journal trigger of the ledger: a check
  inside one transaction over one request's data. No other actor changes its
  outcome.
* Authentication, signatures, request parsing and limits: pure functions of a
  request that only ever refuse it. Where the outcome matters (roles, tenants,
  an invalid token) it is a field of the request.
* Formats, metrics output, health checks, start-up checks, listings and
  statistics: no state, or reads whose result nothing decides on.
* Advance-fee detector: rules over one message and one insert. A later request
  reads an analysis by its id or in a statistic; no decision depends on what is
  stored, so no interleaving or history changes a verdict.
* Investment detector: filing a report (one insert under an id of the second),
  indicators, and endpoints with constant answers.
* Mobile stores: a library of which the application uses the auth slice alone.
  What a caller would have to know: `multiSet` takes storage locks in the order
  of its argument and waits without limit, so two calls with opposite orders wait
  for each other; `enqueue` and `dequeue` serialise the queue before they wait
  for the lock, so an older queue may be written last; `disconnect` closes the
  socket, whose `onclose` then schedules a reconnection.
* Mobile services and screens: wrappers of platform calls and presentation.
* Security manager: a demonstration over dictionaries of one process. Audit
  logger and hardening: libraries no service calls. Of the logger: files that
  were compressed are never deleted and never searched, and a last line that was
  torn by a crash keeps it from starting until the date changes.
* Storage gateway: both gateways pass each call on to an object store, keep
  nothing but a log in memory, and have no caller in the repository.
* Identity theft, land verification: formats, constants and simulated answers;
  nothing is stored.
* Front ends, ML portal, the local mock, deployment and monitoring: presentation,
  stubs and configuration.
