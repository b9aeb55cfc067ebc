-------------------------- MODULE LedgerSettlement --------------------------
(***************************************************************************)
(* The payment side of the ledger-command service: clients post journals,  *)
(* a transactional outbox carries settlement instructions to an external   *)
(* provider through any number of dispatcher replicas, and the provider    *)
(* reports back through signed callbacks that may be delayed, reordered,   *)
(* repeated or altered.                                                    *)
(*                                                                         *)
(* A PostgreSQL transaction is one action; its rollback leaves every table *)
(* as it was.  The statements a dispatcher issues outside one transaction  *)
(* (lease, POST, mark published, record failure) are separate actions,     *)
(* because any other process may run between them.                         *)
(*                                                                         *)
(* A settlement item and its outbox row are inserted with their journal    *)
(* and carry its id, so all three are indexed by the journal's id.         *)
(***************************************************************************)
EXTENDS Naturals, FiniteSets

CONSTANTS
  JournalIds,      \* the UUIDs randomUUID can hand out for journals
  Tenants,
  Keys,            \* idempotency keys, chosen by clients
  Providers,       \* provider names a command may carry
  Refs,            \* provider references, chosen by clients
  NoProvider,      \* the command has no settlement instruction
  NoRef,           \* the instruction has no provider reference
  NoCommand, NoWorker, NoEvent,
  Commands,        \* the journal commands clients send
  Heard,           \* whether the answer to a commit reaches its client
  Provider,        \* the provider this service is configured for
  Workers,         \* dispatcher replicas
  MaxAttempts,     \* outboxMaxAttempts
  BatchSize,       \* outboxBatchSize
  Verdicts,        \* the event types the provider reports
  Bodies,          \* payloads the provider sends under one event id
  Echoes,          \* whether a callback repeats the stored reference
  MaxStalls        \* bound: dispatcher passes that crash, time out, pause or lose a write

CommandType ==
  [tenant : Tenants, key : Keys, owner : Tenants,
   provider : Providers \cup {NoProvider}, ref : Refs \cup {NoRef}]

CallbackTypes == {"accepted", "settled", "rejected", "reversed"}

ASSUME CommandsAssumption == Commands \subseteq CommandType
ASSUME HeardAssumption == Heard \subseteq BOOLEAN
ASSUME NoCommandAssumption == NoCommand \notin CommandType
ASSUME ProviderAssumption == Provider \in Providers /\ NoProvider \notin Providers
ASSUME NoWorkerAssumption == NoWorker \notin Workers
ASSUME NoEventAssumption == NoEvent \notin [id : JournalIds, attempts : Nat]
ASSUME MaxAttemptsAssumption == MaxAttempts \in Nat \ {0}
ASSUME BatchSizeAssumption == BatchSize \in Nat \ {0}
ASSUME MaxStallsAssumption == MaxStalls \in Nat
ASSUME VerdictsAssumption == Verdicts \subseteq CallbackTypes
ASSUME EchoesAssumption == Echoes \subseteq {"same", "other"}

VARIABLES
  journal,     \* ledger_journals with their postings
  answers,     \* the success answers createJournal has given
  settlement,  \* settlement_items.status
  outbox,      \* ledger_outbox
  dispatcher,  \* each replica's position in dispatchOnce
  inFlight,    \* submissions sent and not yet handled by the provider
  verdict,     \* what the provider did with each settlement
  issued,      \* callbacks the provider sends, again and again
  inbox,       \* provider_settlement_events
  alerts,      \* provider_callback_alerts
  unstored,    \* events answered 503 because their transaction rolled back
  stalls       \* dispatcher stalls so far

clientVars   == <<journal, answers>>
providerVars == <<inFlight, verdict, issued>>
callbackVars == <<inbox, alerts, unstored>>
vars == <<journal, answers, settlement, outbox, dispatcher, inFlight, verdict,
          issued, inbox, alerts, unstored, stalls>>

-----------------------------------------------------------------------------
SettlementStatus ==
  {"none", "pending", "submitted", "accepted", "settled", "rejected", "reversed"}

OutboxStatus == {"none", "pending", "leased", "published", "failed", "dead_letter"}

(* due: available_at has passed; lapsed: lease_expires_at has passed.      *)
OutboxRow ==
  [status : OutboxStatus, attempts : Nat, leasedBy : Workers \cup {NoWorker},
   due : BOOLEAN, lapsed : BOOLEAN]

(* leasedOutboxEvent: attempts is the value read when the row was leased.  *)
LeasedEvent == [id : JournalIds, attempts : Nat]

(* stage of the current event: about to be taken, POST sent, provider      *)
(* answered 2xx, transient error in hand, permanent error in hand.         *)
Stages == {"ready", "posted", "acked", "failed", "refused"}

DispatcherState ==
  [batch : SUBSET LeasedEvent, current : LeasedEvent \cup {NoEvent}, stage : Stages]

Callback ==
  [journal : JournalIds, type : CallbackTypes, body : Bodies, echo : Echoes]

EventId(cb) == <<cb.journal, cb.type>>

Posted == {j \in JournalIds : journal[j] # NoCommand}

SameCommandKey(c, d) == c.tenant = d.tenant /\ c.key = d.key

(* Mutant of CommandHash: the settlement's reference is left out.          *)
HashWithoutReference(c) == <<c.owner, c.provider>>

(* What command_sha256 covers: everything but the tenant and the key.      *)
CommandHash(c) == <<c.owner, c.provider, c.ref>>

(* Mutant of KeyFree: no ON CONFLICT check.                                *)
AnyKey(c) == TRUE

(* UNIQUE (tenant_id, idempotency_key).                                    *)
KeyFree(c) == ~ \E i \in Posted : SameCommandKey(journal[i], c)

HasSettlement(c) == c.provider # NoProvider

(* settlement_items UNIQUE (tenant_id, provider, provider_reference);      *)
(* NULL references never collide.                                          *)
ReferenceTaken(c) ==
  /\ HasSettlement(c)
  /\ c.ref # NoRef
  /\ \E i \in Posted : /\ HasSettlement(journal[i])
                       /\ journal[i].tenant = c.tenant
                       /\ journal[i].provider = c.provider
                       /\ journal[i].ref = c.ref

(* Mutant of TransitionAllowed: a callback may overtake the submission.    *)
TransitionSkipsSubmitted(old, new) ==
  <<old, new>> \in {<<"pending", "submitted">>, <<"pending", "rejected">>,
                    <<"pending", "accepted">>, <<"submitted", "accepted">>,
                    <<"submitted", "rejected">>, <<"accepted", "settled">>,
                    <<"accepted", "rejected">>, <<"settled", "reversed">>}

(* enforce_settlement_transition.                                          *)
TransitionAllowed(old, new) ==
  <<old, new>> \in {<<"pending", "submitted">>, <<"pending", "rejected">>,
                    <<"submitted", "accepted">>, <<"submitted", "rejected">>,
                    <<"accepted", "settled">>, <<"accepted", "rejected">>,
                    <<"settled", "reversed">>}

EmptyRow ==
  [status |-> "none", attempts |-> 0, leasedBy |-> NoWorker, due |-> FALSE, lapsed |-> FALSE]

(* Mutant of NewRow: a status the table's CHECK does not know.             *)
UnknownStatusRow ==
  [status |-> "queued", attempts |-> 0, leasedBy |-> NoWorker, due |-> TRUE, lapsed |-> FALSE]

NewRow ==
  [status |-> "pending", attempts |-> 0, leasedBy |-> NoWorker, due |-> TRUE, lapsed |-> FALSE]

Idle == [batch |-> {}, current |-> NoEvent, stage |-> "ready"]

Init ==
  /\ journal = [j \in JournalIds |-> NoCommand]
  /\ answers = {}
  /\ settlement = [j \in JournalIds |-> "none"]
  /\ outbox = [j \in JournalIds |-> EmptyRow]
  /\ dispatcher = [w \in Workers |-> Idle]
  /\ inFlight = {}
  /\ verdict = [j \in JournalIds |-> "none"]
  /\ issued = {}
  /\ inbox = {}
  /\ alerts = {}
  /\ unstored = {}
  /\ stalls = 0

-----------------------------------------------------------------------------
(* createJournal / postJournal.                                            *)

(* A new command: journal, postings, settlement item and outbox row commit *)
(* together.  Accounts of another tenant fail the foreign key and a taken  *)
(* provider reference fails the unique constraint: both roll back.  If the *)
(* answer to the commit is lost, the client has only its key to ask with.  *)
PostJournal(c, j) ==
  /\ journal[j] = NoCommand
  /\ KeyFree(c)
  /\ c.owner = c.tenant
  /\ ~ ReferenceTaken(c)
  /\ journal' = [journal EXCEPT ![j] = c]
  /\ settlement' = IF HasSettlement(c) THEN [settlement EXCEPT ![j] = "pending"]
                                       ELSE settlement
  /\ outbox' = IF HasSettlement(c) THEN [outbox EXCEPT ![j] = NewRow] ELSE outbox
  /\ \E heard \in Heard :
       answers' = IF heard THEN answers \cup {[command |-> c, journal |-> j]} ELSE answers
  /\ UNCHANGED <<dispatcher, providerVars, callbackVars, stalls>>

(* A command whose key is taken: the existing journal answers it if the    *)
(* hashes agree; otherwise the client gets 409 and nothing is written.     *)
ReplayJournal(c, j) ==
  /\ j \in Posted
  /\ SameCommandKey(journal[j], c)
  /\ CommandHash(journal[j]) = CommandHash(c)
  /\ answers' = answers \cup {[command |-> c, journal |-> j]}
  /\ UNCHANGED <<journal, settlement, outbox, dispatcher, providerVars, callbackVars, stalls>>

-----------------------------------------------------------------------------
(* settlementDispatcher.  dispatchOnce leases a batch and takes its events *)
(* one after another under one deadline.                                   *)

(* Mutant of Leasable: expired leases are not taken over.                  *)
LeasableWhenFree(j) ==
  /\ j \in Posted
  /\ journal[j].provider = Provider
  /\ outbox[j].status \in {"pending", "failed"} /\ outbox[j].due

Leasable(j) ==
  /\ j \in Posted
  /\ journal[j].provider = Provider
  /\ \/ outbox[j].status \in {"pending", "failed"} /\ outbox[j].due
     \/ outbox[j].status = "leased" /\ outbox[j].lapsed

(* Mutant of Leased: the count as it was before the UPDATE.                *)
LeasedBeforeUpdate(j) == [id |-> j, attempts |-> outbox[j].attempts]

(* The RETURNING clause: the row after the UPDATE.                         *)
Leased(j) == [id |-> j, attempts |-> outbox[j].attempts + 1]

(* SKIP LOCKED and the order by availability leave the chosen subset open. *)
LeaseEvents(w, S) ==
  /\ dispatcher[w].stage = "ready" /\ dispatcher[w].batch = {}
  /\ S # {} /\ Cardinality(S) <= BatchSize
  /\ \A j \in S : Leasable(j)
  /\ outbox' = [j \in JournalIds |->
                  IF j \in S
                  THEN [status |-> "leased", attempts |-> outbox[j].attempts + 1,
                        leasedBy |-> w, due |-> outbox[j].due, lapsed |-> FALSE]
                  ELSE outbox[j]]
  /\ dispatcher' = [dispatcher EXCEPT ![w] =
                      [batch |-> {Leased(j) : j \in S}, current |-> NoEvent, stage |-> "ready"]]
  /\ UNCHANGED <<clientVars, settlement, providerVars, callbackVars, stalls>>

(* submitEvent sends the POST.  The payload check before it never fails: a *)
(* row is leased only by its own provider and its payload is its tenant's. *)
SubmitEvent(w) ==
  /\ dispatcher[w].stage = "ready"
  /\ \E e \in dispatcher[w].batch :
       /\ dispatcher' = [dispatcher EXCEPT ![w] =
                           [batch |-> dispatcher[w].batch \ {e}, current |-> e,
                            stage |-> "posted"]]
       /\ inFlight' = inFlight \cup {e.id}
  /\ UNCHANGED <<clientVars, settlement, outbox, verdict, issued, callbackVars, stalls>>

(* Idempotency-Key is the client's key alone, without the tenant.          *)
KeyTaken(j) ==
  \E i \in Posted : verdict[i] # "none" /\ journal[i].key = journal[j].key

MoveStage(w, from, to) ==
  /\ dispatcher[w].stage = from
  /\ dispatcher' = [dispatcher EXCEPT ![w].stage = to]

(* 2xx: the provider executed a request that carried this key.             *)
SubmissionAcked(w) ==
  /\ MoveStage(w, "posted", "acked")
  /\ KeyTaken(dispatcher[w].current.id)
  /\ UNCHANGED <<clientVars, settlement, outbox, providerVars, callbackVars, stalls>>

(* 4xx other than 429: the provider turned this request down.              *)
SubmissionRefused(w) ==
  /\ MoveStage(w, "posted", "refused")
  /\ dispatcher[w].current.id \in inFlight
  /\ inFlight' = inFlight \ {dispatcher[w].current.id}
  /\ UNCHANGED <<clientVars, settlement, outbox, verdict, issued, callbackVars, stalls>>

(* Mutant of SubmissionFailed: the status of the answer is not looked at.  *)
AnyAnswerAcks(w) ==
  /\ MoveStage(w, "posted", "acked")
  /\ UNCHANGED <<clientVars, settlement, outbox, providerVars, callbackVars, stalls>>

(* 429, 5xx, a refused connection or the 8 s timeout: the request may or   *)
(* may not have been executed, or may still be on its way.                 *)
SubmissionFailed(w) ==
  /\ MoveStage(w, "posted", "failed")
  /\ UNCHANGED <<clientVars, settlement, outbox, providerVars, callbackVars, stalls>>

(* Mutants of HoldsLease: the row is not compared, or its holder is not.   *)
AnyRow(w, j) == TRUE
LeasedByAnyone(w, j) == outbox[j].status = "leased"

HoldsLease(w, j) == outbox[j].status = "leased" /\ outbox[j].leasedBy = w

(* Mutant of StillPending: a rejected settlement may be submitted.         *)
PendingOrRejected(j) == settlement[j] \in {"pending", "rejected"}

StillPending(j) == settlement[j] = "pending"

(* markPublished commits both updates ...                                  *)
MarkPublished(w) ==
  LET j == dispatcher[w].current.id IN
  /\ dispatcher[w].stage = "acked"
  /\ StillPending(j)
  /\ HoldsLease(w, j)
  /\ settlement' = [settlement EXCEPT ![j] = "submitted"]
  /\ outbox' = [outbox EXCEPT ![j] = [@ EXCEPT !.status = "published", !.leasedBy = NoWorker,
                                               !.lapsed = FALSE]]
  /\ dispatcher' = [dispatcher EXCEPT ![w] = [@ EXCEPT !.current = NoEvent, !.stage = "ready"]]
  /\ UNCHANGED <<clientVars, providerVars, callbackVars, stalls>>

(* ... or rolls back: the settlement is no longer pending, the lease has   *)
(* passed to another replica, or the database fails.  A commit whose       *)
(* answer is lost is a MarkPublished: the failure then recorded finds no   *)
(* leased row.                                                             *)
PublishRollsBack(w) ==
  /\ MoveStage(w, "acked", "failed")
  /\ UNCHANGED <<clientVars, settlement, outbox, providerVars, callbackVars, stalls>>

(* Mutant of LastAttempt: one attempt too many.                            *)
PastLastAttempt(e) == e.attempts > MaxAttempts

LastAttempt(e) == e.attempts >= MaxAttempts

(* recordDispatchFailure: a permanent error, or the last attempt by the    *)
(* count read at lease time, parks the row for good.                       *)
RecordDispatchFailure(w) ==
  LET e == dispatcher[w].current
      parked == dispatcher[w].stage = "refused" \/ LastAttempt(e) IN
  /\ dispatcher[w].stage \in {"failed", "refused"}
  /\ outbox' = IF HoldsLease(w, e.id)
               THEN [outbox EXCEPT ![e.id] =
                       [@ EXCEPT !.status = IF parked THEN "dead_letter" ELSE "failed",
                                 !.leasedBy = NoWorker, !.due = FALSE, !.lapsed = FALSE]]
               ELSE outbox
  /\ dispatcher' = [dispatcher EXCEPT ![w] = [@ EXCEPT !.current = NoEvent, !.stage = "ready"]]
  /\ UNCHANGED <<clientVars, settlement, providerVars, callbackVars, stalls>>

(* The same with its update lost: dispatchOnce ignores the error and goes  *)
(* on, and the row stays leased.                                           *)
FailureNotRecorded(w) ==
  /\ stalls < MaxStalls
  /\ dispatcher[w].stage \in {"failed", "refused"}
  /\ dispatcher' = [dispatcher EXCEPT ![w] = [@ EXCEPT !.current = NoEvent, !.stage = "ready"]]
  /\ stalls' = stalls + 1
  /\ UNCHANGED <<clientVars, settlement, outbox, providerVars, callbackVars>>

Working(w, j) ==
  \/ \E e \in dispatcher[w].batch : e.id = j
  \/ dispatcher[w].stage # "ready" /\ dispatcher[w].current.id = j

(* A crash, a shutdown, or the shared 10 s deadline: every later statement *)
(* of the pass fails, so its rows stay leased.  A restarted replica begins *)
(* with nothing in hand.                                                   *)
AbandonBatch(w) ==
  /\ stalls < MaxStalls
  /\ dispatcher[w] # Idle
  /\ dispatcher' = [dispatcher EXCEPT ![w] = Idle]
  /\ stalls' = stalls + 1
  /\ UNCHANGED <<clientVars, settlement, outbox, providerVars, callbackVars>>

(* The pass's deadline ends before its lease, so a lease runs out under a  *)
(* working replica only if that process was paused: a stall as well.       *)
LeaseExpires(j) ==
  /\ outbox[j].status = "leased" /\ ~ outbox[j].lapsed
  /\ IF Working(outbox[j].leasedBy, j)
     THEN stalls < MaxStalls /\ stalls' = stalls + 1
     ELSE UNCHANGED stalls
  /\ outbox' = [outbox EXCEPT ![j].lapsed = TRUE]
  /\ UNCHANGED <<clientVars, settlement, dispatcher, providerVars, callbackVars>>

(* available_at, set retryDelay ahead by a failure, passes.                *)
BackoffElapses(j) ==
  /\ outbox[j].status = "failed" /\ ~ outbox[j].due
  /\ outbox' = [outbox EXCEPT ![j].due = TRUE]
  /\ UNCHANGED <<clientVars, settlement, dispatcher, providerVars, callbackVars, stalls>>

-----------------------------------------------------------------------------
(* The provider (external).  It executes one request per idempotency key,  *)
(* decides when it likes, and sends each event until it is answered.       *)

ProviderProcesses(j) ==
  /\ j \in inFlight
  /\ inFlight' = inFlight \ {j}
  /\ verdict' = IF KeyTaken(j) THEN verdict ELSE [verdict EXCEPT ![j] = "received"]
  /\ UNCHANGED <<clientVars, settlement, outbox, dispatcher, issued, callbackVars, stalls>>

ProviderStep(old, new) ==
  <<old, new>> \in {<<"received", "accepted">>, <<"received", "rejected">>,
                    <<"accepted", "settled">>, <<"accepted", "rejected">>,
                    <<"settled", "reversed">>}

ProviderDecides(j, v, b, r) ==
  /\ ProviderStep(verdict[j], v)
  /\ verdict' = [verdict EXCEPT ![j] = v]
  /\ issued' = issued \cup {[journal |-> j, type |-> v, body |-> b, echo |-> r]}
  /\ UNCHANGED <<clientVars, settlement, outbox, dispatcher, inFlight, callbackVars, stalls>>

(* The same event id again with another payload.                           *)
ProviderAlters(cb, b) ==
  /\ cb \in issued
  /\ issued' = issued \cup {[cb EXCEPT !.body = b]}
  /\ UNCHANGED <<clientVars, settlement, outbox, dispatcher, inFlight, verdict, callbackVars,
                 stalls>>

(* A callback about a settlement item that belongs to another provider.    *)
ProviderMisaddresses(j, v, b, r) ==
  /\ j \in Posted /\ HasSettlement(journal[j]) /\ journal[j].provider # Provider
  /\ issued' = issued \cup {[journal |-> j, type |-> v, body |-> b, echo |-> r]}
  /\ UNCHANGED <<clientVars, settlement, outbox, dispatcher, inFlight, verdict, callbackVars,
                 stalls>>

-----------------------------------------------------------------------------
(* applyCallback, one serializable transaction per delivery.  A delivery   *)
(* of an event already stored with the same payload changes nothing and is *)
(* answered "replayed".                                                    *)

Stored(cb) == \E row \in inbox : EventId(row) = EventId(cb)

Alert(cb, kind) == alerts' = alerts \cup {[event |-> EventId(cb), kind |-> kind]}

(* Mutant of OwnSettlement: the provider predicate is dropped.             *)
AnySettlement(cb) == TRUE

OwnSettlement(cb) == journal[cb.journal].provider = Provider

ReferenceDiffers(cb) == journal[cb.journal].ref # NoRef /\ cb.echo = "other"

PayloadMismatch(cb) ==
  /\ cb \in issued
  /\ Stored(cb) /\ cb \notin inbox
  /\ Alert(cb, "payload_hash_mismatch")
  /\ UNCHANGED <<clientVars, settlement, outbox, dispatcher, providerVars, inbox, unstored,
                 stalls>>

UnknownSettlement(cb) ==
  /\ cb \in issued
  /\ ~ Stored(cb)
  /\ ~ OwnSettlement(cb)
  /\ inbox' = inbox \cup {cb}
  /\ Alert(cb, "unknown_settlement")
  /\ UNCHANGED <<clientVars, settlement, outbox, dispatcher, providerVars, unstored, stalls>>

ReferenceMismatch(cb) ==
  /\ cb \in issued
  /\ ~ Stored(cb)
  /\ OwnSettlement(cb) /\ ReferenceDiffers(cb)
  /\ inbox' = inbox \cup {cb}
  /\ Alert(cb, "provider_reference_mismatch")
  /\ UNCHANGED <<clientVars, settlement, outbox, dispatcher, providerVars, unstored, stalls>>

ApplyTransition(cb) ==
  /\ cb \in issued
  /\ ~ Stored(cb)
  /\ OwnSettlement(cb) /\ ~ ReferenceDiffers(cb)
  /\ TransitionAllowed(settlement[cb.journal], cb.type)
  /\ inbox' = inbox \cup {cb}
  /\ settlement' = [settlement EXCEPT ![cb.journal] = cb.type]
  /\ UNCHANGED <<clientVars, outbox, dispatcher, providerVars, alerts, unstored, stalls>>

(* Mutant of TransitionAborts: the inbox row survives the failed update.   *)
TransitionAbortsStored(cb) ==
  /\ cb \in issued
  /\ ~ Stored(cb)
  /\ OwnSettlement(cb) /\ ~ ReferenceDiffers(cb)
  /\ ~ TransitionAllowed(settlement[cb.journal], cb.type)
  /\ inbox' = inbox \cup {cb}
  /\ UNCHANGED <<clientVars, settlement, outbox, dispatcher, providerVars, alerts, unstored,
                 stalls>>

(* The trigger raises: the transaction is aborted, so the alert insert     *)
(* that should record the illegal transition fails too, and the inbox row  *)
(* of this delivery is rolled back.  The provider gets 503.                *)
TransitionAborts(cb) ==
  /\ cb \in issued
  /\ ~ Stored(cb)
  /\ OwnSettlement(cb) /\ ~ ReferenceDiffers(cb)
  /\ ~ TransitionAllowed(settlement[cb.journal], cb.type)
  /\ unstored' = unstored \cup {EventId(cb)}
  /\ UNCHANGED <<clientVars, settlement, outbox, dispatcher, providerVars, inbox, alerts, stalls>>

-----------------------------------------------------------------------------
Dispatch(w) ==
  \/ \E S \in SUBSET JournalIds : LeaseEvents(w, S)
  \/ SubmitEvent(w)
  \/ SubmissionAcked(w)
  \/ SubmissionRefused(w)
  \/ SubmissionFailed(w)
  \/ MarkPublished(w)
  \/ PublishRollsBack(w)
  \/ RecordDispatchFailure(w)

ApplyCallback(cb) ==
  \/ PayloadMismatch(cb)
  \/ UnknownSettlement(cb)
  \/ ReferenceMismatch(cb)
  \/ ApplyTransition(cb)
  \/ TransitionAborts(cb)

Next ==
  \/ \E c \in Commands, j \in JournalIds : PostJournal(c, j) \/ ReplayJournal(c, j)
  \/ \E w \in Workers : Dispatch(w) \/ FailureNotRecorded(w) \/ AbandonBatch(w)
  \/ \E j \in JournalIds : LeaseExpires(j) \/ BackoffElapses(j) \/ ProviderProcesses(j)
  \/ \E j \in JournalIds, v \in Verdicts, b \in Bodies, r \in Echoes :
       ProviderDecides(j, v, b, r) \/ ProviderMisaddresses(j, v, b, r)
  \/ \E cb \in Callback, b \in Bodies : ProviderAlters(cb, b)
  \/ \E cb \in Callback : ApplyCallback(cb)

Spec == Init /\ [][Next]_vars

(* Every replica ticks every 500 ms; leases and back-offs end by the clock.*)
DispatchFairness ==
  /\ \A w \in Workers : WF_vars(Dispatch(w))
  /\ \A j \in JournalIds : WF_vars(LeaseExpires(j)) /\ WF_vars(BackoffElapses(j))

(* The provider delivers each event until it is answered 200.              *)
CallbackFairness == \A cb \in Callback : WF_vars(ApplyTransition(cb))

FairSpec == Spec /\ DispatchFairness /\ CallbackFairness

-----------------------------------------------------------------------------
(* Every table and process keeps its type.                                 *)
TypeOK ==
  /\ journal \in [JournalIds -> Commands \cup {NoCommand}]
  /\ answers \subseteq [command : Commands, journal : JournalIds]
  /\ settlement \in [JournalIds -> SettlementStatus]
  /\ outbox \in [JournalIds -> OutboxRow]
  /\ dispatcher \in [Workers -> DispatcherState]
  /\ \A w \in Workers : dispatcher[w].stage = "ready" <=> dispatcher[w].current = NoEvent
  /\ inFlight \subseteq JournalIds
  /\ verdict \in [JournalIds -> {"none", "received"} \cup CallbackTypes]
  /\ issued \subseteq Callback
  /\ inbox \subseteq Callback
  /\ alerts \subseteq [event : JournalIds \X CallbackTypes,
                       kind : {"payload_hash_mismatch", "unknown_settlement",
                               "provider_reference_mismatch"}]
  /\ unstored \subseteq JournalIds \X CallbackTypes
  /\ stalls \in 0..MaxStalls

(* A payment command is idempotent within its tenant: however often it is  *)
(* sent, one journal carries its key.                                      *)
OneJournalPerKey ==
  \A i, k \in Posted : SameCommandKey(journal[i], journal[k]) => i = k

(* A client that was told "posted" finds exactly the command it sent in    *)
(* the journal it was given, never another command under the same key.     *)
AnswersNameTheCommand == \A a \in answers : journal[a.journal] = a.command

(* The two tables markPublished writes never disagree: a settlement is     *)
(* past the submission only if its outbox row is published, and a          *)
(* published row's settlement has left pending.                            *)
OutboxAgreesWithSettlement ==
  \A j \in JournalIds :
    /\ settlement[j] = "none" <=> outbox[j].status = "none"
    /\ settlement[j] \in {"submitted", "accepted", "settled", "reversed"}
         => outbox[j].status = "published"
    /\ outbox[j].status = "published" => settlement[j] \notin {"none", "pending"}

(* A row is published only after the provider executed a request with its  *)
(* idempotency key, over every crash, takeover and lost answer.            *)
PublishedWasExecuted ==
  \A j \in JournalIds : outbox[j].status = "published" => KeyTaken(j)

(* While a replica holds a row's lease, the attempt count it read with the *)
(* lease is the row's: recordDispatchFailure decides on a current count.   *)
LeaseCountIsCurrent ==
  \A w \in Workers, j \in JournalIds :
    outbox[j].status = "leased" /\ outbox[j].leasedBy = w =>
      \A e \in dispatcher[w].batch \cup ({dispatcher[w].current} \ {NoEvent}) :
        e.id = j => e.attempts = outbox[j].attempts

(* outboxMaxAttempts bounds the submissions of a row except for those lost *)
(* with a stalled pass: leaseEvents itself never looks at the count.       *)
AttemptsBounded == \A j \in JournalIds : outbox[j].attempts <= MaxAttempts + stalls

(* Whatever the order of delivery, the books never run ahead of the        *)
(* provider: a status a callback set is one the provider has been in.      *)
BooksFollowProvider ==
  \A j \in JournalIds :
    /\ settlement[j] \in {"accepted", "settled", "reversed"} =>
         verdict[j] \in CallbackTypes
    /\ settlement[j] = "settled" => verdict[j] \in {"settled", "reversed"}
    /\ settlement[j] = "rejected" => verdict[j] = "rejected"
    /\ settlement[j] = "reversed" => verdict[j] = "reversed"

(* Nobody acts on an instruction that was not committed: what a replica    *)
(* holds, what travels, what the provider decided or reports, all name a   *)
(* settlement that exists, with its journal and its outbox row.            *)
InstructionsExist ==
  /\ \A j \in JournalIds :
       settlement[j] # "none" <=> journal[j] # NoCommand /\ HasSettlement(journal[j])
  /\ \A w \in Workers, j \in JournalIds : Working(w, j) => settlement[j] # "none"
  /\ \A j \in JournalIds : j \in inFlight \/ verdict[j] # "none" => settlement[j] # "none"
  /\ \A cb \in issued : settlement[cb.journal] # "none"

(* An acknowledgement in hand belongs to a key the provider has executed.  *)
AckedWasExecuted ==
  \A w \in Workers : dispatcher[w].stage = "acked" => KeyTaken(dispatcher[w].current.id)

(* A leased row that nobody works on, or whose lease has run out, was paid *)
(* for by a stall; a waiting row has attempts left.                        *)
AttemptsAccounted ==
  \A j \in JournalIds :
    /\ outbox[j].attempts <= MaxAttempts + stalls
    /\ outbox[j].status \in {"none", "pending", "failed"} => outbox[j].attempts < MaxAttempts
    /\ outbox[j].status = "leased" =>
         /\ outbox[j].leasedBy \in Workers
         /\ outbox[j].lapsed \/ ~ Working(outbox[j].leasedBy, j)
              => outbox[j].attempts < MaxAttempts + stalls

(* A callback about one of the provider's settlements reports a decision   *)
(* the provider took and has not gone back on.                             *)
ReportsFollowVerdict ==
  \A cb \in issued :
    OwnSettlement(cb) =>
      /\ cb.type = "accepted" => verdict[cb.journal] \in CallbackTypes
      /\ cb.type = "settled" => verdict[cb.journal] \in {"settled", "reversed"}
      /\ cb.type = "rejected" => verdict[cb.journal] = "rejected"
      /\ cb.type = "reversed" => verdict[cb.journal] = "reversed"

(* What relates the tables, the replicas and the provider in every         *)
(* reachable state; it is preserved by each step on its own.               *)
LedgerInvariant ==
  /\ TypeOK
  /\ InstructionsExist
  /\ OutboxAgreesWithSettlement
  /\ AckedWasExecuted /\ PublishedWasExecuted
  /\ LeaseCountIsCurrent /\ AttemptsAccounted
  /\ ReportsFollowVerdict /\ BooksFollowProvider

(* A row that is published or dead-lettered stays so: neither a late       *)
(* acknowledgement nor a late failure of a replica that lost its lease     *)
(* reaches it.                                                             *)
FinalRowsStay ==
  [][\A j \in JournalIds :
       outbox[j].status \in {"published", "dead_letter"} => outbox'[j] = outbox[j]]_vars

(* While one replica's lease runs, no other replica changes the row.       *)
LeaseRespected ==
  [][\A j \in JournalIds, w \in Workers :
       /\ outbox[j].status = "leased" /\ outbox[j].leasedBy = w
       /\ outbox'[j] # outbox[j]
       => outbox[j].lapsed \/ outbox'[j].lapsed \/ dispatcher'[w] # dispatcher[w]]_vars

(* Doc: "Provider callbacks are stored in provider_settlement_events       *)
(* before transition logic runs."  Events whose transition was refused     *)
(* should be in the inbox.                                                 *)
StoredBeforeTransition ==
  \A id \in unstored : \E row \in inbox : EventId(row) = id

(* Doc: "A provider rejection creates a reversal journal."  The step that  *)
(* rejects a settlement should post a journal.                             *)
RejectionPostsReversal ==
  [][\A j \in JournalIds :
       settlement[j] # "rejected" /\ settlement'[j] = "rejected"
       => \E k \in JournalIds : journal[k] = NoCommand /\ journal'[k] # NoCommand]_vars

(* Comment at dispatchOnce: "failures are retried or dead-lettered".  Every *)
(* instruction for the configured provider is published or parked.         *)
EventuallyDispatched ==
  \A j \in JournalIds :
    (outbox[j].status # "none" /\ journal[j].provider = Provider)
      ~> outbox[j].status \in {"published", "dead_letter"}

(* A published settlement catches up with the provider, however callbacks  *)
(* are reordered, because a callback that came too early is delivered again.*)
BooksConverge ==
  \A j \in JournalIds, v \in CallbackTypes :
    (outbox[j].status = "published" /\ verdict[j] = v)
      ~> (settlement[j] = v \/ verdict[j] # v)

-----------------------------------------------------------------------------
(* What the service promises about one settlement: see SettlementLifecycle.*)
Said == [j \in JournalIds |-> {cb.type : cb \in {c \in issued : c.journal = j}}]

Lifecycle == INSTANCE SettlementLifecycle WITH
  Items <- JournalIds, book <- settlement, said <- Said

(* The service implements the settlement lifecycle.                        *)
ImplementsLifecycle == Lifecycle!Spec

=============================================================================
