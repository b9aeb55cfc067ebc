------------------------- MODULE FinancialControls -------------------------
(***************************************************************************)
(* The control side of the ledger-command service: provider statements are *)
(* reconciled against the settlement items, the differences become breaks  *)
(* that an independent person must resolve, and accounting periods are     *)
(* closed under four eyes over a snapshot of the ledger.                   *)
(*                                                                         *)
(* The settlement items themselves move as SettlementLifecycle says, which *)
(* LedgerSettlement implements.  Each handler is one serializable          *)
(* transaction and one action here, except that a journal is stamped       *)
(* created_at when its transaction begins and becomes visible when it      *)
(* commits.  An item stands for its journal, and the items modelled are    *)
(* those of the provider whose statements are imported.                    *)
(***************************************************************************)
EXTENDS Integers, FiniteSets, Sequences

CONSTANTS
  Items, Tenants, Actors, Refs, Values, Currencies, Scales,
  TenantOf, RefOf, ValueOf, CurrencyOf,   \* the fixed columns of an item
  NoRef, NoRun, NoClose, NoActor,
  RunIds,          \* the UUIDs randomUUID can hand out for runs
  Statements,      \* provider statements that may be imported
  Periods,         \* <<period_start, period_end>>
  Reported,        \* bound: the reports the provider makes
  MaxDay,          \* bound: days that are modelled
  MaxTrail         \* bound: audit events of a close

Days == 1..MaxDay

Reports == {"accepted", "settled", "rejected", "reversed"}

(* An amount as text: its value and how many decimals are written.         *)
AmountText == [value : Values, scale : Scales]

Entry == [ref : Refs, amount : AmountText, currency : Currencies, status : Reports]

Statement == [entries : SUBSET Entry, asOf : Days]

ASSUME ItemsAssumption ==
  /\ TenantOf \in [Items -> Tenants]
  /\ RefOf \in [Items -> Refs \cup {NoRef}]
  /\ ValueOf \in [Items -> Values]
  /\ CurrencyOf \in [Items -> Currencies]
ASSUME ReferencesAssumption ==   \* UNIQUE (tenant_id, provider, provider_reference)
  \A i, k \in Items : TenantOf[i] = TenantOf[k] /\ RefOf[i] = RefOf[k] /\ RefOf[i] # NoRef
                      => i = k
ASSUME StatementsAssumption == Statements \subseteq Statement
ASSUME PeriodsAssumption == Periods \subseteq {p \in Days \X Days : p[1] <= p[2]}
ASSUME DistinctAssumption ==
  /\ NoRef \notin Refs
  /\ NoActor \notin Actors
  /\ Items \cap Refs = {}
ASSUME BoundsAssumption == MaxDay \in Nat \ {0} /\ MaxTrail \in Nat /\ Reported \subseteq Reports

VARIABLES
  book, said,  \* see SettlementLifecycle
  created,     \* the day of a journal's created_at, 0 before its transaction
  today,
  runs,        \* reconciliation_runs
  breaks,      \* reconciliation_breaks
  closes,      \* financial_close_periods
  trail        \* financial_close_events of each close

ledgerVars == <<book, said, created>>
vars == <<book, said, created, today, runs, breaks, closes, trail>>

Lifecycle == INSTANCE SettlementLifecycle

Run == [tenant : Tenants, statement : Statements, actor : Actors]

ItemBreakTypes == {"missing_provider", "amount_mismatch", "currency_mismatch", "state_mismatch"}

Break ==
  [run : RunIds, subject : Items \cup Refs, type : ItemBreakTypes \cup {"missing_internal"},
   status : {"open", "resolved", "waived"}, resolver : Actors \cup {NoActor}]

CloseKey == Tenants \X Periods

(* sealed remembers whether the period was over, with no journal of it     *)
(* still uncommitted, when the snapshot was taken.                         *)
Close ==
  [status : {"open", "review", "closed", "reopened"}, requester : Actors,
   approver : Actors \cup {NoActor}, snapshot : SUBSET Items, sealed : BOOLEAN]

AuditEvent == [event : {"requested", "approved", "reopened"}, actor : Actors]

ASSUME NoRowsAssumption == NoRun \notin Run /\ NoClose \notin Close

Visible(i) == book[i] # "none"

Init ==
  /\ Lifecycle!LifecycleInit
  /\ created = [i \in Items |-> 0]
  /\ today = 1
  /\ runs = [r \in RunIds |-> NoRun]
  /\ breaks = {}
  /\ closes = [c \in CloseKey |-> NoClose]
  /\ trail = [c \in CloseKey |-> << >>]

-----------------------------------------------------------------------------
(* The ledger underneath.                                                  *)

(* postJournal's transaction begins: NOW() is fixed for its inserts.       *)
BeginPost(i) ==
  /\ created[i] = 0
  /\ created' = [created EXCEPT ![i] = today]
  /\ UNCHANGED <<book, said, today, runs, breaks, closes, trail>>

CommitPost(i) ==
  /\ created[i] # 0
  /\ Lifecycle!Open(i)
  /\ UNCHANGED <<created, today, runs, breaks, closes, trail>>

AbortPost(i) ==
  /\ created[i] # 0 /\ ~ Visible(i)
  /\ created' = [created EXCEPT ![i] = 0]
  /\ UNCHANGED <<book, said, today, runs, breaks, closes, trail>>

(* Dispatch and callbacks, as SettlementLifecycle allows them.             *)
SettlementMoves(i) ==
  /\ \/ Lifecycle!Submit(i)
     \/ \E v \in Reported : Lifecycle!Report(i, v) \/ Lifecycle!Record(i, v)
  /\ UNCHANGED <<created, today, runs, breaks, closes, trail>>

NextDay ==
  /\ today < MaxDay
  /\ today' = today + 1
  /\ UNCHANGED <<ledgerVars, runs, breaks, closes, trail>>

-----------------------------------------------------------------------------
(* createReconciliationRun / reconcile.                                    *)

TenantItems(t) == {i \in Items : TenantOf[i] = t /\ Visible(i)}

EntriesFor(st, i) == {e \in st.entries : e.ref = RefOf[i]}

(* amount::text of a NUMERIC(20,6) always has six decimals.                *)
StoredText(i) == [value |-> ValueOf[i], scale |-> 6]

(* Mutant of Differs: currencies are not compared.                         *)
DiffersButCurrency(i, e, type) ==
  \/ type = "amount_mismatch"   /\ StoredText(i) # e.amount
  \/ type = "state_mismatch"    /\ book[i] # e.status

(* Each comparison of a matched item that fails is a break of its own.     *)
Differs(i, e, type) ==
  \/ type = "amount_mismatch"   /\ StoredText(i) # e.amount
  \/ type = "currency_mismatch" /\ CurrencyOf[i] # e.currency
  \/ type = "state_mismatch"    /\ book[i] # e.status

(* An item the statement does not mention is a break once the provider has *)
(* answered for it, if it has a reference at all.                          *)
Unmentioned(st, i) ==
  /\ EntriesFor(st, i) = {}
  /\ RefOf[i] # NoRef
  /\ book[i] \notin {"pending", "submitted"}

ItemBreaks(st, i) ==
  {type \in ItemBreakTypes :
     \/ type = "missing_provider" /\ Unmentioned(st, i)
     \/ \E e \in EntriesFor(st, i) : Differs(i, e, type)}

(* References of the statement that no item of the tenant claimed.         *)
UnknownRefs(t, st) == {e.ref : e \in st.entries} \ {RefOf[i] : i \in TenantItems(t)}

(* Mutant of NewBreak: a status the table's CHECK does not know.           *)
NewBreakUnknownStatus(r, subject, type) ==
  [run |-> r, subject |-> subject, type |-> type, status |-> "new", resolver |-> NoActor]

NewBreak(r, subject, type) ==
  [run |-> r, subject |-> subject, type |-> type, status |-> "open", resolver |-> NoActor]

BreaksFound(r, t, st) ==
  (UNION {{NewBreak(r, i, type) : type \in ItemBreaks(st, i)} : i \in TenantItems(t)})
    \cup {NewBreak(r, ref, "missing_internal") : ref \in UnknownRefs(t, st)}

Recorded(t, st) ==
  \E r \in RunIds : runs[r] # NoRun /\ runs[r].tenant = t /\ runs[r].statement = st

(* Mutant of FreshStatement: no ON CONFLICT on the statement's hash.       *)
AnyStatement(t, st) == TRUE

(* A statement imported before is answered from its first run.             *)
FreshStatement(t, st) == ~ Recorded(t, st)

(* Two entries with one reference roll the import back.                    *)
Reconcile(r, a, t, st) ==
  /\ runs[r] = NoRun
  /\ FreshStatement(t, st)
  /\ \A e, f \in st.entries : e.ref = f.ref => e = f
  /\ runs' = [runs EXCEPT ![r] = [tenant |-> t, statement |-> st, actor |-> a]]
  /\ breaks' = breaks \cup BreaksFound(r, t, st)
  /\ UNCHANGED <<ledgerVars, today, closes, trail>>

(* Mutant of MayResolve: the importer may resolve.                         *)
AnyoneMayResolve(a, b) == b.status = "open"

(* No handler sets "investigating".                                        *)
MayResolve(a, b) == runs[b.run].actor # a /\ b.status = "open"

(* resolveReconciliationBreak.                                             *)
ResolveBreak(a, b, status) ==
  /\ b \in breaks
  /\ MayResolve(a, b)
  /\ breaks' = (breaks \ {b}) \cup {[b EXCEPT !.status = status, !.resolver = a]}
  /\ UNCHANGED <<ledgerVars, today, runs, closes, trail>>

-----------------------------------------------------------------------------
(* Financial close.  A close is found by its tenant and period.            *)

(* Mutant of InPeriod: the last day is left out.                           *)
InHalfOpenPeriod(day, p) == p[1] <= day /\ day < p[2]

InPeriod(day, p) == p[1] <= day /\ day <= p[2]

(* Mutant of JournalsOf: created_at < period_end, without the added day.   *)
JournalsBeforeLastDay(t, p) ==
  {i \in TenantItems(t) : p[1] <= created[i] /\ created[i] < p[2]}

(* ledgerSnapshotHash covers the visible journals of the period.           *)
JournalsOf(t, p) == {i \in TenantItems(t) : p[1] <= created[i] /\ created[i] < p[2] + 1}

PeriodOver(t, p) ==
  /\ today > p[2]
  /\ ~ \E i \in Items : TenantOf[i] = t /\ ~ Visible(i) /\ created[i] \in p[1]..p[2]

(* openFinancialClose: the snapshot is taken once, here.                   *)
OpenFinancialClose(a, t, p) ==
  /\ closes[<<t, p>>] = NoClose
  /\ closes' = [closes EXCEPT ![<<t, p>>] =
                  [status |-> "open", requester |-> a, approver |-> NoActor,
                   snapshot |-> JournalsOf(t, p), sealed |-> PeriodOver(t, p)]]
  /\ UNCHANGED <<ledgerVars, today, runs, breaks, trail>>

Move(c, from, to, event, a) ==
  /\ closes[c] # NoClose /\ closes[c].status \in from
  /\ Len(trail[c]) < MaxTrail
  /\ closes' = [closes EXCEPT ![c] =
                  [@ EXCEPT !.status = to,
                            !.approver = IF event = "approved" THEN a ELSE closes[c].approver]]
  /\ trail' = [trail EXCEPT ![c] = Append(@, [event |-> event, actor |-> a])]
  /\ UNCHANGED <<ledgerVars, today, runs, breaks>>

(* Mutant of MaySubmit: anyone submits.                                    *)
AnyoneMaySubmit(a, c) == TRUE

MaySubmit(a, c) == closes[c].requester = a

(* moveCloseToReview: the update of a close by anyone else is rolled back. *)
MoveCloseToReview(a, c) ==
  /\ Move(c, {"open", "reopened"}, "review", "requested", a)
  /\ MaySubmit(a, c)

(* enforce_financial_close: unresolved high or critical breaks (every      *)
(* break this service writes is one) of statements dated in the period.    *)
Blocking(c) ==
  {b \in breaks : /\ runs[b.run].tenant = c[1]
                  /\ b.status = "open"
                  /\ InPeriod(runs[b.run].statement.asOf, c[2])}

(* Mutant of MayApprove: the requester may approve.                        *)
MayApproveOwn(a, c) == Blocking(c) = {}

MayApprove(a, c) == closes[c].requester # a /\ Blocking(c) = {}

(* approveClose.                                                           *)
ApproveClose(a, c) ==
  /\ Move(c, {"review"}, "closed", "approved", a)
  /\ MayApprove(a, c)

(* reopenFinancialClose: approver and snapshot stay as they were.          *)
ReopenFinancialClose(a, c) == Move(c, {"closed"}, "reopened", "reopened", a)

-----------------------------------------------------------------------------
Ledger(i) == BeginPost(i) \/ CommitPost(i) \/ AbortPost(i) \/ SettlementMoves(i)

Next ==
  \/ \E i \in Items : Ledger(i)
  \/ NextDay
  \/ \E r \in RunIds, a \in Actors, t \in Tenants, st \in Statements : Reconcile(r, a, t, st)
  \/ \E a \in Actors, b \in breaks, s \in {"resolved", "waived"} : ResolveBreak(a, b, s)
  \/ \E a \in Actors, t \in Tenants, p \in Periods : OpenFinancialClose(a, t, p)
  \/ \E a \in Actors, c \in CloseKey :
       MoveCloseToReview(a, c) \/ ApproveClose(a, c) \/ ReopenFinancialClose(a, c)

Spec == Init /\ [][Next]_vars

-----------------------------------------------------------------------------
(* Every table keeps its type.                                             *)
TypeOK ==
  /\ book \in [Items -> Lifecycle!Statuses]
  /\ said \in [Items -> SUBSET Reports]
  /\ created \in [Items -> 0..MaxDay]
  /\ today \in Days
  /\ runs \in [RunIds -> Run \cup {NoRun}]
  /\ breaks \subseteq Break
  /\ \A b \in breaks : runs[b.run] # NoRun
  /\ closes \in [CloseKey -> Close \cup {NoClose}]
  /\ trail \in [CloseKey -> Seq(AuditEvent)]

TrailStatus(n) == CASE n = 0 -> "open"
                    [] n # 0 /\ n % 3 = 1 -> "review"
                    [] n # 0 /\ n % 3 = 2 -> "closed"
                    [] n # 0 /\ n % 3 = 0 -> "reopened"

(* The append-only trail alone tells where a close stands, through any     *)
(* number of reopenings, and shows four eyes: the requester submitted it   *)
(* each time and somebody else approved it each time.                      *)
TrailTellsTheStory ==
  \A c \in CloseKey :
    /\ closes[c] = NoClose => trail[c] = << >>
    /\ closes[c] # NoClose =>
         /\ closes[c].status = TrailStatus(Len(trail[c]))
         /\ \A n \in DOMAIN trail[c] :
              /\ trail[c][n].event = "requested" => trail[c][n].actor = closes[c].requester
              /\ trail[c][n].event = "approved"  => trail[c][n].actor # closes[c].requester
              /\ trail[c][n].event = (CASE n % 3 = 1 -> "requested"
                                        [] n % 3 = 2 -> "approved"
                                        [] n % 3 = 0 -> "reopened")

(* A period closes only when every variance a statement of that period     *)
(* brought up was settled by somebody other than who imported it.          *)
ClosedOverIndependentReview ==
  [][\A c \in CloseKey :
       /\ closes[c] # NoClose /\ closes[c].status = "review"
       /\ closes'[c].status = "closed"
       => \A b \in breaks :
            /\ runs[b.run].tenant = c[1]
            /\ c[2][1] <= runs[b.run].statement.asOf
            /\ runs[b.run].statement.asOf <= c[2][2]
            => b.resolver \notin {NoActor, runs[b.run].actor}]_vars

(* Re-importing a statement never opens a second run for it.               *)
OneRunPerStatement ==
  \A q, r \in RunIds :
    /\ runs[q] # NoRun /\ runs[r] # NoRun
    /\ runs[q].tenant = runs[r].tenant /\ runs[q].statement = runs[r].statement
    => q = r

(* A run without breaks means that statement and books agree: every entry  *)
(* is an item with that amount, currency and state.                        *)
CleanRunMeansAgreement ==
  [][\A r \in RunIds :
       /\ runs[r] = NoRun /\ runs'[r] # NoRun
       /\ ~ \E b \in breaks' : b.run = r
       => \A e \in runs'[r].statement.entries :
            \E i \in TenantItems(runs'[r].tenant) :
              /\ RefOf[i] = e.ref
              /\ ValueOf[i] = e.amount.value
              /\ CurrencyOf[i] = e.currency
              /\ book[i] = e.status]_vars

(* A snapshot taken after its period, with no journal of the period still  *)
(* in flight, is the whole period for ever, through every reopening.       *)
SealedSnapshotIsComplete ==
  \A c \in CloseKey :
    closes[c] # NoClose /\ closes[c].sealed =>
      closes[c].snapshot = {i \in Items : /\ TenantOf[i] = c[1]
                                          /\ Visible(i)
                                          /\ created[i] \in c[2][1]..c[2][2]}

(* Doc: a break is created "when amount, currency, state, or timing        *)
(* differs".  An amount break should mean that the amounts differ.         *)
AmountBreakMeansDifference ==
  \A b \in breaks :
    b.type = "amount_mismatch" =>
      \E e \in runs[b.run].statement.entries :
        e.ref = RefOf[b.subject] /\ e.amount.value # ValueOf[b.subject]

(* Doc: "No settlement can be treated as final while a high-severity       *)
(* unresolved break exists."  An item with an open break should not become *)
(* settled.                                                                *)
NotFinalWhileBroken ==
  [][\A i \in Items :
       book[i] # "settled" /\ book'[i] = "settled" =>
         ~ \E b \in breaks : b.subject = i /\ b.status = "open"]_vars

=============================================================================
