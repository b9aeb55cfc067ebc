---------------------- MODULE FinancialControls_proofs ----------------------
(***************************************************************************)
(* Theorems about FinancialControls, for any items, people, statements and *)
(* periods, and any number of days, runs and reopenings.                   *)
(***************************************************************************)
EXTENDS FinancialControls, TLAPS

(* A step of the system is a step of one of its actions.                   *)
LEMMA NextCases ==
  ASSUME [Next]_vars
  PROVE  \/ \E i \in Items : BeginPost(i)
         \/ \E i \in Items : CommitPost(i)
         \/ \E i \in Items : AbortPost(i)
         \/ \E i \in Items : SettlementMoves(i)
         \/ NextDay
         \/ \E r \in RunIds, a \in Actors, t \in Tenants, st \in Statements :
              Reconcile(r, a, t, st)
         \/ \E a \in Actors, b \in breaks, s \in {"resolved", "waived"} : ResolveBreak(a, b, s)
         \/ \E a \in Actors, t \in Tenants, p \in Periods : OpenFinancialClose(a, t, p)
         \/ \E a \in Actors, c \in CloseKey : MoveCloseToReview(a, c)
         \/ \E a \in Actors, c \in CloseKey : ApproveClose(a, c)
         \/ \E a \in Actors, c \in CloseKey : ReopenFinancialClose(a, c)
         \/ /\ book' = book /\ said' = said /\ created' = created /\ today' = today
            /\ runs' = runs /\ breaks' = breaks /\ closes' = closes /\ trail' = trail
BY DEF Next, Ledger, vars

(* What moving a close changes: its status, sometimes its approver, and    *)
(* one event more on its trail.                                            *)
LEMMA Moved ==
  ASSUME TypeOK, NEW c \in CloseKey, NEW from, NEW to \in {"review", "closed", "reopened"},
         NEW event \in {"requested", "approved", "reopened"}, NEW a \in Actors,
         Move(c, from, to, event, a)
  PROVE  /\ closes[c] \in Close /\ closes[c] # NoClose /\ closes[c].status \in from
         /\ closes'[c] \in Close /\ closes'[c].status = to
         /\ closes'[c].requester = closes[c].requester
         /\ closes'[c].snapshot = closes[c].snapshot /\ closes'[c].sealed = closes[c].sealed
         /\ closes' \in [CloseKey -> Close \cup {NoClose}]
         /\ trail[c] \in Seq(AuditEvent)
         /\ trail'[c] = Append(trail[c], [event |-> event, actor |-> a])
         /\ trail' \in [CloseKey -> Seq(AuditEvent)]
         /\ \A d \in CloseKey \ {c} : closes'[d] = closes[d] /\ trail'[d] = trail[d]
<1>1. closes[c] \in Close /\ closes[c] # NoClose /\ closes[c].status \in from
  BY DEF Move, TypeOK
<1>2. PICK who \in Actors \cup {NoActor} :
        closes' = [closes EXCEPT ![c] = [@ EXCEPT !.status = to, !.approver = who]]
  BY <1>1 DEF Move, Close
<1>3. PICK close : close = [closes[c] EXCEPT !.status = to, !.approver = who]
  OBVIOUS
<1>4. /\ close \in Close /\ close.status = to /\ close.requester = closes[c].requester
      /\ close.snapshot = closes[c].snapshot /\ close.sealed = closes[c].sealed
  BY <1>1, <1>3 DEF Close
<1>5. closes' = [closes EXCEPT ![c] = close]
  BY <1>2, <1>3
<1>6. [event |-> event, actor |-> a] \in AuditEvent
  BY DEF AuditEvent
<1>7. trail' = [trail EXCEPT ![c] = Append(@, [event |-> event, actor |-> a])]
  BY DEF Move
<1>8. Append(trail[c], [event |-> event, actor |-> a]) \in Seq(AuditEvent)
  BY <1>6 DEF TypeOK
<1>9. /\ closes'[c] = close /\ closes' \in [CloseKey -> Close \cup {NoClose}]
      /\ \A d \in CloseKey \ {c} : closes'[d] = closes[d]
  BY <1>4, <1>5 DEF TypeOK
<1>10. /\ trail[c] \in Seq(AuditEvent) /\ trail' \in [CloseKey -> Seq(AuditEvent)]
       /\ trail'[c] = Append(trail[c], [event |-> event, actor |-> a])
       /\ \A d \in CloseKey \ {c} : trail'[d] = trail[d]
  BY <1>7, <1>8 DEF TypeOK
<1> QED BY <1>1, <1>4, <1>9, <1>10

-----------------------------------------------------------------------------
(* Every break an import finds is a new one of its run.                    *)
LEMMA FoundBreaksAreNew ==
  ASSUME NEW r, NEW t, NEW st, NEW b \in BreaksFound(r, t, st)
  PROVE  \/ \E i \in TenantItems(t) : \E type \in ItemBreaks(st, i) : b = NewBreak(r, i, type)
         \/ \E ref \in UnknownRefs(t, st) : b = NewBreak(r, ref, "missing_internal")
<1> DEFINE matched == UNION {{NewBreak(r, i, type) : type \in ItemBreaks(st, i)} :
                             i \in TenantItems(t)}
           unmatched == {NewBreak(r, ref, "missing_internal") : ref \in UnknownRefs(t, st)}
<1>1. BreaksFound(r, t, st) = matched \cup unmatched
  BY DEF BreaksFound
<1>2. CASE b \in matched
  <2>1. PICK i \in TenantItems(t) :
          b \in {NewBreak(r, i, type) : type \in ItemBreaks(st, i)}
    BY <1>2
  <2> QED BY <2>1
<1>3. CASE b \in unmatched
  BY <1>3
<1> HIDE DEF matched, unmatched
<1> QED BY <1>1, <1>2, <1>3

(* Every step keeps every table's type.                                    *)
LEMMA TypeStays ==
  ASSUME TypeOK, [Next]_vars
  PROVE  TypeOK'
<1> USE DEF TypeOK, ledgerVars
<1>1. ASSUME NEW i \in Items, BeginPost(i) PROVE TypeOK'
  BY <1>1, BoundsAssumption DEF BeginPost, Days
<1>2. ASSUME NEW i \in Items, CommitPost(i) PROVE TypeOK'
  BY <1>2 DEF CommitPost, Lifecycle!Open, Lifecycle!Statuses
<1>3. ASSUME NEW i \in Items, AbortPost(i) PROVE TypeOK'
  BY <1>3, BoundsAssumption DEF AbortPost
<1>4. ASSUME NEW i \in Items, SettlementMoves(i) PROVE TypeOK'
  <2>1. CASE Lifecycle!Submit(i)
    BY <1>4, <2>1 DEF SettlementMoves, Lifecycle!Submit, Lifecycle!Statuses
  <2>2. ASSUME NEW v \in Reported, Lifecycle!Report(i, v) PROVE TypeOK'
    BY <1>4, <2>2, BoundsAssumption DEF SettlementMoves, Lifecycle!Report
  <2>3. ASSUME NEW v \in Reported, Lifecycle!Record(i, v) PROVE TypeOK'
    <3>1. v \in Lifecycle!Statuses
      BY BoundsAssumption DEF Reports, Lifecycle!Statuses, Lifecycle!Reports
    <3> QED BY <1>4, <2>3, <3>1 DEF SettlementMoves, Lifecycle!Record
  <2> QED BY <1>4, <2>1, <2>2, <2>3 DEF SettlementMoves
<1>5. CASE NextDay
  BY <1>5, BoundsAssumption DEF NextDay, Days
<1>6. ASSUME NEW r \in RunIds, NEW a \in Actors, NEW t \in Tenants, NEW st \in Statements,
             Reconcile(r, a, t, st)
      PROVE  TypeOK'
  <2>1. PICK run : run = [tenant |-> t, statement |-> st, actor |-> a]
    OBVIOUS
  <2>2. run \in Run /\ run # NoRun /\ runs' = [runs EXCEPT ![r] = run]
    BY <1>6, <2>1, NoRowsAssumption DEF Run, Reconcile
  <2>3. \A b \in BreaksFound(r, t, st) : b \in Break /\ b.run = r
    <3>1. \A i \in TenantItems(t) : \A type \in ItemBreaks(st, i) :
            NewBreak(r, i, type) \in Break /\ NewBreak(r, i, type).run = r
      BY DEF TenantItems, ItemBreaks, NewBreak, Break
    <3>2. \A ref \in UnknownRefs(t, st) : ref \in Refs
      BY StatementsAssumption DEF UnknownRefs, Statement, Entry
    <3>3. \A ref \in UnknownRefs(t, st) :
            /\ NewBreak(r, ref, "missing_internal") \in Break
            /\ NewBreak(r, ref, "missing_internal").run = r
      BY <3>2 DEF NewBreak, Break
    <3> QED BY <3>1, <3>3, FoundBreaksAreNew
  <2>4. breaks' = breaks \cup BreaksFound(r, t, st)
    BY <1>6 DEF Reconcile
  <2>5. \A b \in breaks : b.run \in RunIds /\ runs'[b.run] # NoRun
    BY <2>2 DEF Break
  <2>6. runs'[r] # NoRun /\ runs' \in [RunIds -> Run \cup {NoRun}]
    BY <2>2
  <2>7. breaks' \subseteq Break /\ \A b \in breaks' : runs'[b.run] # NoRun
    BY <2>3, <2>4, <2>5, <2>6
  <2> QED BY <1>6, <2>6, <2>7 DEF Reconcile
<1>7. ASSUME NEW a \in Actors, NEW b \in breaks, NEW s \in {"resolved", "waived"},
             ResolveBreak(a, b, s)
      PROVE  TypeOK'
  <2>1. PICK d : d = [b EXCEPT !.status = s, !.resolver = a]
    OBVIOUS
  <2>2. d \in Break /\ d.run = b.run
    BY <2>1 DEF Break
  <2> QED BY <1>7, <2>1, <2>2 DEF ResolveBreak
<1>8. ASSUME NEW a \in Actors, NEW t \in Tenants, NEW p \in Periods,
             OpenFinancialClose(a, t, p)
      PROVE  TypeOK'
  <2>1. <<t, p>> \in CloseKey
    BY DEF CloseKey
  <2>2. JournalsOf(t, p) \subseteq Items /\ PeriodOver(t, p) \in BOOLEAN
    BY DEF JournalsOf, TenantItems, PeriodOver
  <2>3. [status |-> "open", requester |-> a, approver |-> NoActor,
         snapshot |-> JournalsOf(t, p), sealed |-> PeriodOver(t, p)] \in Close
    BY <2>2 DEF Close
  <2> QED BY <1>8, <2>1, <2>3 DEF OpenFinancialClose
<1>9. ASSUME NEW a \in Actors, NEW c \in CloseKey,
             MoveCloseToReview(a, c) \/ ApproveClose(a, c) \/ ReopenFinancialClose(a, c)
      PROVE  TypeOK'
  <2>1. /\ UNCHANGED <<ledgerVars, today, runs, breaks>>
        /\ closes' \in [CloseKey -> Close \cup {NoClose}]
        /\ trail' \in [CloseKey -> Seq(AuditEvent)]
    <3>1. CASE MoveCloseToReview(a, c)
      BY <3>1, Moved DEF MoveCloseToReview, Move
    <3>2. CASE ApproveClose(a, c)
      BY <3>2, Moved DEF ApproveClose, Move
    <3>3. CASE ReopenFinancialClose(a, c)
      BY <3>3, Moved DEF ReopenFinancialClose, Move
    <3> QED BY <1>9, <3>1, <3>2, <3>3
  <2> QED BY <2>1
<1>10. CASE /\ book' = book /\ said' = said /\ created' = created /\ today' = today
            /\ runs' = runs /\ breaks' = breaks /\ closes' = closes /\ trail' = trail
  BY <1>10
<1> HIDE DEF TypeOK, ledgerVars
<1> QED
  BY <1>1, <1>2, <1>3, <1>4, <1>5, <1>6, <1>7, <1>8, <1>9, <1>10, NextCases

(* Every table keeps its type.                                             *)
THEOREM TypeCorrect == Spec => []TypeOK
<1>1. Init => TypeOK
  BY BoundsAssumption DEF Init, TypeOK, Days, Lifecycle!LifecycleInit, Lifecycle!Statuses
<1>2. TypeOK /\ [Next]_vars => TypeOK'
  BY TypeStays
<1> QED BY <1>1, <1>2, PTL DEF Spec

-----------------------------------------------------------------------------
(* Reconciliation.                                                         *)

(* Only an import writes runs.                                             *)
LEMMA RunsStay ==
  ASSUME [Next]_vars
  PROVE  \/ runs' = runs
         \/ \E r \in RunIds, a \in Actors, t \in Tenants, st \in Statements :
              Reconcile(r, a, t, st)
BY NextCases DEF BeginPost, CommitPost, AbortPost, SettlementMoves, NextDay, ResolveBreak,
                 OpenFinancialClose, MoveCloseToReview, ApproveClose, ReopenFinancialClose, Move

(* Only imports and resolutions write breaks.                              *)
LEMMA BreaksStay ==
  ASSUME [Next]_vars
  PROVE  \/ runs' = runs /\ breaks' = breaks
         \/ \E r \in RunIds, a \in Actors, t \in Tenants, st \in Statements :
              Reconcile(r, a, t, st)
         \/ \E a \in Actors, b \in breaks, s \in {"resolved", "waived"} : ResolveBreak(a, b, s)
BY NextCases DEF BeginPost, CommitPost, AbortPost, SettlementMoves, NextDay,
                 OpenFinancialClose, MoveCloseToReview, ApproveClose, ReopenFinancialClose, Move

(* Only the handlers of the close write closes and trails.                 *)
LEMMA ClosesStay ==
  ASSUME [Next]_vars
  PROVE  \/ closes' = closes /\ trail' = trail
         \/ \E a \in Actors, t \in Tenants, p \in Periods : OpenFinancialClose(a, t, p)
         \/ \E a \in Actors, c \in CloseKey : MoveCloseToReview(a, c)
         \/ \E a \in Actors, c \in CloseKey : ApproveClose(a, c)
         \/ \E a \in Actors, c \in CloseKey : ReopenFinancialClose(a, c)
BY NextCases DEF BeginPost, CommitPost, AbortPost, SettlementMoves, NextDay, Reconcile,
                 ResolveBreak

(* Re-importing a statement never opens a second run for it.               *)
THEOREM StatementsRunOnce == Spec => []OneRunPerStatement
<1>1. Init => OneRunPerStatement
  BY DEF Init, OneRunPerStatement
<1>2. TypeOK /\ OneRunPerStatement /\ [Next]_vars => OneRunPerStatement'
  <2> SUFFICES ASSUME TypeOK, OneRunPerStatement, [Next]_vars PROVE OneRunPerStatement'
    OBVIOUS
  <2>1. CASE runs' = runs
    BY <2>1 DEF OneRunPerStatement
  <2>2. ASSUME NEW r \in RunIds, NEW a \in Actors, NEW t \in Tenants, NEW st \in Statements,
               Reconcile(r, a, t, st)
        PROVE  OneRunPerStatement'
    <3>1. runs' = [runs EXCEPT ![r] = [tenant |-> t, statement |-> st, actor |-> a]]
      BY <2>2 DEF Reconcile
    <3>2. \A q \in RunIds : runs[q] # NoRun => ~ (runs[q].tenant = t /\ runs[q].statement = st)
      BY <2>2 DEF Reconcile, FreshStatement, Recorded
    <3>3. /\ runs'[r].tenant = t /\ runs'[r].statement = st
          /\ \A q \in RunIds \ {r} : runs'[q] = runs[q]
      BY <3>1 DEF TypeOK
    <3> QED BY <3>2, <3>3 DEF OneRunPerStatement
  <2> QED BY <2>1, <2>2, RunsStay
<1> QED BY <1>1, <1>2, TypeCorrect, PTL DEF Spec

(* A statement that leaves no break is a statement the books agree with.   *)
THEOREM CleanRunsAgree == Spec => CleanRunMeansAgreement
<1> DEFINE Step ==
      \A r \in RunIds :
        /\ runs[r] = NoRun /\ runs'[r] # NoRun
        /\ ~ \E b \in breaks' : b.run = r
        => \A e \in runs'[r].statement.entries :
             \E i \in TenantItems(runs'[r].tenant) :
               /\ RefOf[i] = e.ref
               /\ ValueOf[i] = e.amount.value
               /\ CurrencyOf[i] = e.currency
               /\ book[i] = e.status
<1>1. TypeOK /\ [Next]_vars => Step
  <2> SUFFICES ASSUME TypeOK, [Next]_vars, NEW r \in RunIds, runs[r] = NoRun,
                      runs'[r] # NoRun, ~ \E b \in breaks' : b.run = r,
                      NEW e \in runs'[r].statement.entries
               PROVE  \E i \in TenantItems(runs'[r].tenant) :
                        /\ RefOf[i] = e.ref
                        /\ ValueOf[i] = e.amount.value
                        /\ CurrencyOf[i] = e.currency
                        /\ book[i] = e.status
    OBVIOUS
  <2>1. PICK a \in Actors, t \in Tenants, st \in Statements : Reconcile(r, a, t, st)
    <3>1. PICK q \in RunIds, a \in Actors, t \in Tenants, st \in Statements :
            Reconcile(q, a, t, st)
      BY RunsStay
    <3>2. q = r
      BY <3>1 DEF Reconcile, TypeOK
    <3> QED BY <3>1, <3>2
  <2>2. runs'[r].tenant = t /\ runs'[r].statement = st
    BY <2>1 DEF Reconcile, TypeOK
  <2>3. \A b \in BreaksFound(r, t, st) : b.run # r
    BY <2>1 DEF Reconcile
  <2>4. PICK i \in TenantItems(t) : RefOf[i] = e.ref
    <3>1. NewBreak(r, e.ref, "missing_internal").run = r
      BY DEF NewBreak
    <3>2. e.ref \in UnknownRefs(t, st)
            => NewBreak(r, e.ref, "missing_internal") \in BreaksFound(r, t, st)
      BY DEF BreaksFound
    <3>3. e.ref \notin UnknownRefs(t, st)
      BY <2>3, <3>1, <3>2
    <3> QED BY <2>2, <3>3 DEF UnknownRefs
  <2>5. \A type : type \notin ItemBreaks(st, i)
    <3> SUFFICES ASSUME NEW type, type \in ItemBreaks(st, i) PROVE FALSE
      OBVIOUS
    <3>1. NewBreak(r, i, type).run = r
      BY DEF NewBreak
    <3>2. NewBreak(r, i, type) \in {NewBreak(r, i, x) : x \in ItemBreaks(st, i)}
      OBVIOUS
    <3>3. NewBreak(r, i, type) \in BreaksFound(r, t, st)
      BY <3>2 DEF BreaksFound
    <3> QED BY <2>3, <3>1, <3>3
  <2>6. e \in EntriesFor(st, i)
    BY <2>2, <2>4 DEF EntriesFor
  <2>7. \A type \in ItemBreakTypes : ~ Differs(i, e, type)
    BY <2>5, <2>6 DEF ItemBreaks
  <2>8. StoredText(i) = e.amount /\ CurrencyOf[i] = e.currency /\ book[i] = e.status
    BY <2>7 DEF Differs, ItemBreakTypes
  <2> QED BY <2>2, <2>4, <2>8 DEF StoredText
<1> QED BY <1>1, TypeCorrect, PTL DEF Spec, CleanRunMeansAgreement

-----------------------------------------------------------------------------
(* Financial close.                                                        *)

(* A close that was under review and is closed was approved.               *)
LEMMA OnlyApprovalCloses ==
  ASSUME TypeOK, [Next]_vars, NEW c \in CloseKey,
         closes[c] # NoClose, closes[c].status = "review", closes'[c].status = "closed"
  PROVE  \E a \in Actors : ApproveClose(a, c)
<1>1. closes' # closes
  OBVIOUS
<1>2. ASSUME NEW a \in Actors, NEW t \in Tenants, NEW p \in Periods, OpenFinancialClose(a, t, p)
      PROVE  FALSE
  <2>1. closes[<<t, p>>] = NoClose
    BY <1>2 DEF OpenFinancialClose
  <2>2. c # <<t, p>>
    BY <2>1
  <2>3. closes'[c] = closes[c]
    BY <1>2, <2>2 DEF OpenFinancialClose, TypeOK
  <2> QED BY <2>3
<1>3. ASSUME NEW a \in Actors, NEW d \in CloseKey, MoveCloseToReview(a, d)
      PROVE  FALSE
  <2>1. closes'[d].status = "review" /\ \A e \in CloseKey \ {d} : closes'[e] = closes[e]
    BY <1>3, Moved DEF MoveCloseToReview
  <2> QED BY <2>1
<1>4. ASSUME NEW a \in Actors, NEW d \in CloseKey, ReopenFinancialClose(a, d)
      PROVE  FALSE
  <2>1. closes'[d].status = "reopened" /\ \A e \in CloseKey \ {d} : closes'[e] = closes[e]
    BY <1>4, Moved DEF ReopenFinancialClose
  <2> QED BY <2>1
<1>5. ASSUME NEW a \in Actors, NEW d \in CloseKey, ApproveClose(a, d)
      PROVE  d = c
  <2>1. \A e \in CloseKey \ {d} : closes'[e] = closes[e]
    BY <1>5, Moved DEF ApproveClose
  <2> QED BY <2>1
<1> QED BY <1>1, <1>2, <1>3, <1>4, <1>5, ClosesStay

(* What TrailTellsTheStory says of one close.                              *)
Stage(n) == CASE n % 3 = 1 -> "requested"
              [] n % 3 = 2 -> "approved"
              [] n % 3 = 0 -> "reopened"

Story(c) ==
  /\ closes[c] = NoClose => trail[c] = << >>
  /\ closes[c] # NoClose =>
       /\ closes[c].status = TrailStatus(Len(trail[c]))
       /\ \A n \in DOMAIN trail[c] :
            /\ trail[c][n].event = "requested" => trail[c][n].actor = closes[c].requester
            /\ trail[c][n].event = "approved"  => trail[c][n].actor # closes[c].requester
            /\ trail[c][n].event = Stage(n)

LEMMA TrailIsStories ==
  /\ TrailTellsTheStory <=> \A c \in CloseKey : Story(c)
  /\ (TrailTellsTheStory)' <=> \A c \in CloseKey : Story(c)'
BY DEF TrailTellsTheStory, Story, Stage

(* The status of a close is the number of its events modulo three.         *)
LEMMA StageOfTrail ==
  ASSUME TypeOK, TrailTellsTheStory, NEW c \in CloseKey, closes[c] # NoClose
  PROVE  /\ closes[c].status \in {"open", "reopened"} => Len(trail[c]) % 3 = 0
         /\ closes[c].status = "review" => Len(trail[c]) % 3 = 1
         /\ closes[c].status = "closed" => Len(trail[c]) % 3 = 2
<1> DEFINE n == Len(trail[c])
<1>1. n \in Nat
  BY DEF TypeOK
<1>2. closes[c].status = TrailStatus(n)
  BY DEF TrailTellsTheStory
<1> HIDE DEF n
<1>3. n % 3 \in {0, 1, 2}
  BY <1>1
<1>4. CASE n = 0
  <2>1. TrailStatus(n) = "open" /\ n % 3 = 0
    BY <1>4 DEF TrailStatus
  <2> QED BY <1>2, <2>1 DEF n
<1>5. CASE n # 0 /\ n % 3 = 1
  <2>1. TrailStatus(n) = "review"
    BY <1>5 DEF TrailStatus
  <2> QED BY <1>2, <1>5, <2>1 DEF n
<1>6. CASE n # 0 /\ n % 3 = 2
  <2>1. TrailStatus(n) = "closed"
    BY <1>6 DEF TrailStatus
  <2> QED BY <1>2, <1>6, <2>1 DEF n
<1>7. CASE n # 0 /\ n % 3 = 0
  <2>1. TrailStatus(n) = "reopened"
    BY <1>7 DEF TrailStatus
  <2> QED BY <1>2, <1>7, <2>1 DEF n
<1> QED BY <1>3, <1>4, <1>5, <1>6, <1>7

(* A move that appends the event that is next keeps the story.             *)
LEMMA TrailGrows ==
  ASSUME TypeOK, TrailTellsTheStory, NEW c \in CloseKey, NEW from,
         NEW to \in {"review", "closed", "reopened"},
         NEW event \in {"requested", "approved", "reopened"}, NEW a \in Actors,
         Move(c, from, to, event, a),
         event = "requested" => closes[c].requester = a,
         event = "approved" => closes[c].requester # a,
         \/ Len(trail[c]) % 3 = 0 /\ to = "review" /\ event = "requested"
         \/ Len(trail[c]) % 3 = 1 /\ to = "closed" /\ event = "approved"
         \/ Len(trail[c]) % 3 = 2 /\ to = "reopened" /\ event = "reopened"
  PROVE  TrailTellsTheStory'
<1>1. /\ closes[c] # NoClose /\ closes'[c] # NoClose /\ closes'[c].status = to
      /\ closes'[c].requester = closes[c].requester
      /\ trail[c] \in Seq(AuditEvent)
      /\ trail'[c] = Append(trail[c], [event |-> event, actor |-> a])
      /\ \A d \in CloseKey \ {c} : closes'[d] = closes[d] /\ trail'[d] = trail[d]
  <2>1. closes'[c] \in Close /\ closes'[c].status = to
    BY Moved DEF Move
  <2>2. closes'[c] # NoClose
    BY <2>1, NoRowsAssumption
  <2>3. /\ closes[c] # NoClose /\ closes'[c].requester = closes[c].requester
        /\ trail[c] \in Seq(AuditEvent)
        /\ trail'[c] = Append(trail[c], [event |-> event, actor |-> a])
        /\ \A d \in CloseKey \ {c} : closes'[d] = closes[d] /\ trail'[d] = trail[d]
    BY Moved DEF Move
  <2> QED BY <2>1, <2>2, <2>3
<1>2. ASSUME NEW d \in CloseKey, d # c PROVE Story(d)'
  BY <1>1, <1>2 DEF TrailTellsTheStory, Story, Stage
<1>3. PICK n \in Nat : n = Len(trail[c])
  BY <1>1
<1>4. /\ Len(trail'[c]) = n + 1 /\ DOMAIN trail'[c] = 1..(n + 1) /\ DOMAIN trail[c] = 1..n
      /\ trail'[c][n + 1] = [event |-> event, actor |-> a]
      /\ \A m \in 1..n : trail'[c][m] = trail[c][m]
  BY <1>1, <1>3
<1>5. /\ TrailStatus(n + 1) = to
      /\ Stage(n + 1) = event
  <2>1. n + 1 # 0
    BY <1>3
  <2>2. CASE n % 3 = 0 /\ to = "review" /\ event = "requested"
    <3>1. (n + 1) % 3 = 1
      BY <2>2
    <3> QED BY <2>1, <2>2, <3>1 DEF TrailStatus, Stage
  <2>3. CASE n % 3 = 1 /\ to = "closed" /\ event = "approved"
    <3>1. (n + 1) % 3 = 2
      BY <2>3
    <3> QED BY <2>1, <2>3, <3>1 DEF TrailStatus, Stage
  <2>4. CASE n % 3 = 2 /\ to = "reopened" /\ event = "reopened"
    <3>1. (n + 1) % 3 = 0
      BY <2>4
    <3> QED BY <2>1, <2>4, <3>1 DEF TrailStatus, Stage
  <2> QED BY <1>3, <2>2, <2>3, <2>4
<1>6. \A m \in 1..n :
        /\ trail[c][m].event = "requested" => trail[c][m].actor = closes[c].requester
        /\ trail[c][m].event = "approved"  => trail[c][m].actor # closes[c].requester
        /\ trail[c][m].event = Stage(m)
  BY <1>1, <1>4 DEF TrailTellsTheStory, Stage
<1>7. \A m \in 1..(n + 1) :
        /\ trail'[c][m].event = "requested" => trail'[c][m].actor = closes'[c].requester
        /\ trail'[c][m].event = "approved"  => trail'[c][m].actor # closes'[c].requester
        /\ trail'[c][m].event = Stage(m)
  <2> SUFFICES ASSUME NEW m \in 1..(n + 1)
               PROVE  /\ trail'[c][m].event = "requested"
                           => trail'[c][m].actor = closes'[c].requester
                      /\ trail'[c][m].event = "approved"
                           => trail'[c][m].actor # closes'[c].requester
                      /\ trail'[c][m].event = Stage(m)
    OBVIOUS
  <2>1. CASE m = n + 1
    BY <1>1, <1>4, <1>5, <2>1
  <2>2. CASE m \in 1..n
    BY <1>1, <1>4, <1>6, <2>2
  <2> QED BY <1>3, <2>1, <2>2
<1>8. Story(c)'
  BY <1>1, <1>4, <1>5, <1>7 DEF Story, Stage, TrailStatus
<1> QED BY <1>2, <1>8, TrailIsStories

(* A break that is no longer open was settled by somebody other than who   *)
(* imported its statement.                                                 *)
ReviewedByOthers ==
  \A b \in breaks : b.status # "open" => b.resolver \notin {NoActor, runs[b.run].actor}

THEOREM ReviewIsIndependent == Spec => []ReviewedByOthers
<1>1. Init => ReviewedByOthers
  BY DEF Init, ReviewedByOthers
<1>2. TypeOK /\ ReviewedByOthers /\ [Next]_vars => ReviewedByOthers'
  <2> SUFFICES ASSUME TypeOK, ReviewedByOthers, [Next]_vars PROVE ReviewedByOthers'
    OBVIOUS
  <2>1. CASE runs' = runs /\ breaks' = breaks
    BY <2>1 DEF ReviewedByOthers
  <2>2. ASSUME NEW r \in RunIds, NEW a \in Actors, NEW t \in Tenants, NEW st \in Statements,
               Reconcile(r, a, t, st)
        PROVE  ReviewedByOthers'
    <3>1. \A q \in RunIds \ {r} : runs'[q] = runs[q]
      BY <2>2 DEF Reconcile, TypeOK
    <3>2. \A b \in breaks : b.run \in RunIds \ {r}
      BY <2>2 DEF Reconcile, TypeOK, Break
    <3>3. \A b \in BreaksFound(r, t, st) : b.status = "open"
      BY FoundBreaksAreNew DEF NewBreak
    <3>4. breaks' = breaks \cup BreaksFound(r, t, st)
      BY <2>2 DEF Reconcile
    <3> QED BY <3>1, <3>2, <3>3, <3>4 DEF ReviewedByOthers
  <2>3. ASSUME NEW a \in Actors, NEW b \in breaks, NEW s \in {"resolved", "waived"},
               ResolveBreak(a, b, s)
        PROVE  ReviewedByOthers'
    <3>1. PICK d : d = [b EXCEPT !.status = s, !.resolver = a]
      OBVIOUS
    <3>2. d.run = b.run /\ d.resolver = a
      BY <3>1 DEF TypeOK, Break
    <3>3. a \notin {NoActor, runs[b.run].actor}
      BY <2>3, DistinctAssumption DEF ResolveBreak, MayResolve
    <3>4. breaks' = (breaks \ {b}) \cup {d} /\ runs' = runs
      BY <2>3, <3>1 DEF ResolveBreak
    <3> QED BY <3>2, <3>3, <3>4 DEF ReviewedByOthers
  <2> QED BY <2>1, <2>2, <2>3, BreaksStay
<1> QED BY <1>1, <1>2, TypeCorrect, PTL DEF Spec

(* A period closes only when every variance a statement of that period     *)
(* brought up was settled by somebody other than who imported it.          *)
THEOREM ClosesAreReviewed == Spec => ClosedOverIndependentReview
<1> DEFINE Step ==
      \A c \in CloseKey :
       /\ closes[c] # NoClose /\ closes[c].status = "review"
       /\ closes'[c].status = "closed"
       => \A b \in breaks :
            /\ runs[b.run].tenant = c[1]
            /\ c[2][1] <= runs[b.run].statement.asOf
            /\ runs[b.run].statement.asOf <= c[2][2]
            => b.resolver \notin {NoActor, runs[b.run].actor}
<1>1. TypeOK /\ ReviewedByOthers /\ [Next]_vars => Step
  <2> SUFFICES ASSUME TypeOK, ReviewedByOthers, [Next]_vars, NEW c \in CloseKey,
                      closes[c] # NoClose, closes[c].status = "review",
                      closes'[c].status = "closed", NEW b \in breaks,
                      runs[b.run].tenant = c[1],
                      c[2][1] <= runs[b.run].statement.asOf,
                      runs[b.run].statement.asOf <= c[2][2]
               PROVE  b.resolver \notin {NoActor, runs[b.run].actor}
    OBVIOUS
  <2>1. PICK a \in Actors : ApproveClose(a, c)
    BY OnlyApprovalCloses
  <2>2. b \notin Blocking(c)
    BY <2>1 DEF ApproveClose, MayApprove
  <2>3. b.status # "open"
    BY <2>2 DEF Blocking, InPeriod
  <2> QED BY <2>3 DEF ReviewedByOthers
<1> QED BY <1>1, TypeCorrect, ReviewIsIndependent, PTL DEF Spec, ClosedOverIndependentReview

(* The append-only trail alone tells where a close stands, through any     *)
(* number of reopenings, and shows four eyes.                              *)
THEOREM TrailsTellTheStory == Spec => []TrailTellsTheStory
<1>1. Init => TrailTellsTheStory
  BY DEF Init, TrailTellsTheStory
<1>2. TypeOK /\ TrailTellsTheStory /\ [Next]_vars => TrailTellsTheStory'
  <2> SUFFICES ASSUME TypeOK, TrailTellsTheStory, [Next]_vars PROVE TrailTellsTheStory'
    OBVIOUS
  <2>1. CASE closes' = closes /\ trail' = trail
    BY <2>1 DEF TrailTellsTheStory
  <2>2. ASSUME NEW a \in Actors, NEW t \in Tenants, NEW p \in Periods,
               OpenFinancialClose(a, t, p)
        PROVE  TrailTellsTheStory'
    <3> DEFINE c == <<t, p>>
    <3>1. c \in CloseKey
      BY DEF CloseKey
    <3>2. PICK close \in Close :
            closes' = [closes EXCEPT ![c] = close] /\ close.status = "open"
      <4>1. JournalsOf(t, p) \subseteq Items /\ PeriodOver(t, p) \in BOOLEAN
        BY DEF JournalsOf, TenantItems, PeriodOver
      <4>2. [status |-> "open", requester |-> a, approver |-> NoActor,
             snapshot |-> JournalsOf(t, p), sealed |-> PeriodOver(t, p)] \in Close
        BY <4>1 DEF Close
      <4> QED BY <2>2, <4>2 DEF OpenFinancialClose
    <3>3. trail' = trail /\ trail[c] = << >>
      BY <2>2, <3>1 DEF OpenFinancialClose, TrailTellsTheStory
    <3>4. closes'[c] = close /\ \A d \in CloseKey \ {c} : closes'[d] = closes[d]
      BY <3>1, <3>2 DEF TypeOK
    <3>5. close # NoClose
      BY NoRowsAssumption
    <3> HIDE DEF c
    <3>6. ASSUME NEW d \in CloseKey, d # c PROVE Story(d)'
      BY <3>3, <3>4, <3>6 DEF TrailTellsTheStory, Story, Stage
    <3>7. Story(c)'
      BY <3>2, <3>3, <3>4, <3>5 DEF Story, TrailStatus
    <3> QED BY <3>6, <3>7, TrailIsStories
  <2>3. ASSUME NEW a \in Actors, NEW c \in CloseKey, MoveCloseToReview(a, c)
        PROVE  TrailTellsTheStory'
    <3>1. Move(c, {"open", "reopened"}, "review", "requested", a) /\ closes[c].requester = a
      BY <2>3 DEF MoveCloseToReview, MaySubmit
    <3>2. Len(trail[c]) % 3 = 0
      <4>1. closes[c] # NoClose /\ closes[c].status \in {"open", "reopened"}
        BY <3>1 DEF Move
      <4> QED BY <4>1, StageOfTrail
    <3> QED BY <3>1, <3>2, TrailGrows DEF Stage
  <2>4. ASSUME NEW a \in Actors, NEW c \in CloseKey, ApproveClose(a, c)
        PROVE  TrailTellsTheStory'
    <3>1. Move(c, {"review"}, "closed", "approved", a) /\ closes[c].requester # a
      BY <2>4 DEF ApproveClose, MayApprove
    <3>2. Len(trail[c]) % 3 = 1
      <4>1. closes[c] # NoClose /\ closes[c].status = "review"
        BY <3>1 DEF Move
      <4> QED BY <4>1, StageOfTrail
    <3> QED BY <3>1, <3>2, TrailGrows DEF Stage
  <2>5. ASSUME NEW a \in Actors, NEW c \in CloseKey, ReopenFinancialClose(a, c)
        PROVE  TrailTellsTheStory'
    <3>1. Move(c, {"closed"}, "reopened", "reopened", a)
      BY <2>5 DEF ReopenFinancialClose
    <3>2. Len(trail[c]) % 3 = 2
      <4>1. closes[c] # NoClose /\ closes[c].status = "closed"
        BY <3>1 DEF Move
      <4> QED BY <4>1, StageOfTrail
    <3> QED BY <3>1, <3>2, TrailGrows DEF Stage
  <2> QED BY <2>1, <2>2, <2>3, <2>4, <2>5, ClosesStay
<1> QED BY <1>1, <1>2, TypeCorrect, PTL DEF Spec

-----------------------------------------------------------------------------
(* The sealed snapshot.                                                    *)

(* A journal on the books has a creation day.                              *)
JournalsAreStamped == \A i \in Items : Visible(i) => created[i] # 0

(* What becomes visible and stamped, and when.                             *)
LEMMA LedgerSteps ==
  ASSUME TypeOK, JournalsAreStamped, [Next]_vars
  PROVE  \A i \in Items :
           \/ created'[i] = created[i] /\ (Visible(i)' <=> Visible(i))
           \/ created[i] = 0 /\ ~ Visible(i) /\ ~ Visible(i)' /\ created'[i] = today
           \/ created[i] # 0 /\ ~ Visible(i) /\ Visible(i)' /\ created'[i] = created[i]
           \/ ~ Visible(i) /\ ~ Visible(i)' /\ created'[i] = 0
<1> SUFFICES ASSUME NEW i \in Items
    PROVE  \/ created'[i] = created[i] /\ (Visible(i)' <=> Visible(i))
           \/ created[i] = 0 /\ ~ Visible(i) /\ ~ Visible(i)' /\ created'[i] = today
           \/ created[i] # 0 /\ ~ Visible(i) /\ Visible(i)' /\ created'[i] = created[i]
           \/ ~ Visible(i) /\ ~ Visible(i)' /\ created'[i] = 0
    OBVIOUS
<1> USE DEF Visible
<1>1. CASE created' = created /\ book' = book
  BY <1>1
<1>2. ASSUME NEW k \in Items, BeginPost(k)
      PROVE  created[k] = 0 /\ book' = book /\ created' = [created EXCEPT ![k] = today]
  BY <1>2 DEF BeginPost
<1>3. ASSUME NEW k \in Items, CommitPost(k)
      PROVE  /\ created[k] # 0 /\ book[k] = "none" /\ created' = created
             /\ book' = [book EXCEPT ![k] = "pending"]
  BY <1>3 DEF CommitPost, Lifecycle!Open
<1>4. ASSUME NEW k \in Items, AbortPost(k)
      PROVE  book[k] = "none" /\ book' = book /\ created' = [created EXCEPT ![k] = 0]
  BY <1>4 DEF AbortPost
<1>5. ASSUME NEW k \in Items, SettlementMoves(k)
      PROVE  created' = created /\ \A j \in Items : book'[j] = "none" <=> book[j] = "none"
  <2>1. CASE Lifecycle!Submit(k)
    BY <1>5, <2>1 DEF SettlementMoves, Lifecycle!Submit, TypeOK
  <2>2. ASSUME NEW v \in Reported, Lifecycle!Report(k, v) PROVE book' = book
    BY <2>2 DEF Lifecycle!Report
  <2>3. ASSUME NEW v \in Reported, Lifecycle!Record(k, v)
        PROVE  \A j \in Items : book'[j] = "none" <=> book[j] = "none"
    <3>1. v \in {"accepted", "settled", "rejected", "reversed"}
      BY BoundsAssumption DEF Reports
    <3>2. "none" \notin Lifecycle!Before(v)
      BY <3>1 DEF Lifecycle!Before
    <3> QED BY <2>3, <3>1, <3>2 DEF Lifecycle!Record, TypeOK
  <2> QED BY <1>5, <2>1, <2>2, <2>3 DEF SettlementMoves
<1>6. \/ created' = created /\ book' = book
      \/ \E k \in Items : BeginPost(k) \/ CommitPost(k) \/ AbortPost(k) \/ SettlementMoves(k)
  BY NextCases DEF NextDay, Reconcile, ResolveBreak, OpenFinancialClose, MoveCloseToReview,
                   ApproveClose, ReopenFinancialClose, Move, ledgerVars
<1> USE DEF TypeOK, JournalsAreStamped
<1>7. ASSUME NEW k \in Items, BeginPost(k) \/ CommitPost(k) \/ AbortPost(k) \/ SettlementMoves(k)
      PROVE  \/ created'[i] = created[i] /\ (Visible(i)' <=> Visible(i))
             \/ created[i] = 0 /\ ~ Visible(i) /\ ~ Visible(i)' /\ created'[i] = today
             \/ created[i] # 0 /\ ~ Visible(i) /\ Visible(i)' /\ created'[i] = created[i]
             \/ ~ Visible(i) /\ ~ Visible(i)' /\ created'[i] = 0
  <2>1. CASE BeginPost(k)
    BY <1>2, <2>1
  <2>2. CASE CommitPost(k)
    BY <1>3, <2>2
  <2>3. CASE AbortPost(k)
    BY <1>4, <2>3
  <2>4. CASE SettlementMoves(k)
    BY <1>5, <2>4
  <2> QED BY <1>7, <2>1, <2>2, <2>3, <2>4
<1> QED BY <1>1, <1>6, <1>7

THEOREM StampsPrecedeCommits == Spec => []JournalsAreStamped
<1>1. Init => JournalsAreStamped
  BY DEF Init, JournalsAreStamped, Visible, Lifecycle!LifecycleInit
<1>2. TypeOK /\ JournalsAreStamped /\ [Next]_vars => JournalsAreStamped'
  <2> SUFFICES ASSUME TypeOK, JournalsAreStamped, [Next]_vars PROVE JournalsAreStamped'
    OBVIOUS
  <2> QED BY LedgerSteps DEF JournalsAreStamped
<1> QED BY <1>1, <1>2, TypeCorrect, PTL DEF Spec

(* Days only go on.                                                        *)
LEMMA DaysGoOn ==
  ASSUME TypeOK, [Next]_vars
  PROVE  today' >= today
<1>1. today' = today \/ NextDay
  BY NextCases DEF BeginPost, CommitPost, AbortPost, SettlementMoves, Reconcile, ResolveBreak,
                   OpenFinancialClose, MoveCloseToReview, ApproveClose, ReopenFinancialClose,
                   Move
<1>2. today \in Nat
  BY BoundsAssumption DEF TypeOK, Days
<1> QED BY <1>1, <1>2 DEF NextDay

(* A close is opened, or keeps its snapshot and its seal.                  *)
LEMMA SnapshotsStay ==
  ASSUME TypeOK, [Next]_vars, NEW c \in CloseKey
  PROVE  \/ /\ closes'[c] # NoClose => closes[c] # NoClose
            /\ closes'[c] # NoClose => /\ closes'[c].snapshot = closes[c].snapshot
                                       /\ closes'[c].sealed = closes[c].sealed
         \/ \E a \in Actors : OpenFinancialClose(a, c[1], c[2])
<1>1. CASE closes' = closes
  BY <1>1
<1>2. ASSUME NEW a \in Actors, NEW t \in Tenants, NEW p \in Periods, OpenFinancialClose(a, t, p)
      PROVE  closes'[c] = closes[c] \/ OpenFinancialClose(a, c[1], c[2])
  <2>1. CASE c = <<t, p>>
    BY <1>2, <2>1
  <2>2. CASE c # <<t, p>>
    BY <1>2, <2>2 DEF OpenFinancialClose, TypeOK
  <2> QED BY <2>1, <2>2
<1>3. ASSUME NEW a \in Actors, NEW d \in CloseKey,
             MoveCloseToReview(a, d) \/ ApproveClose(a, d) \/ ReopenFinancialClose(a, d)
      PROVE  \/ closes'[c] = closes[c]
             \/ /\ closes[c] # NoClose
                /\ closes'[c].snapshot = closes[c].snapshot
                /\ closes'[c].sealed = closes[c].sealed
  <2>1. CASE MoveCloseToReview(a, d)
    BY <2>1, Moved DEF MoveCloseToReview, Move
  <2>2. CASE ApproveClose(a, d)
    BY <2>2, Moved DEF ApproveClose, Move
  <2>3. CASE ReopenFinancialClose(a, d)
    BY <2>3, Moved DEF ReopenFinancialClose, Move
  <2> QED BY <1>3, <2>1, <2>2, <2>3
<1> QED BY <1>1, <1>2, <1>3, ClosesStay

(* A sealed period stays over: its last day has passed, no journal of it   *)
(* is in flight, and the snapshot has all of them.                         *)
PeriodOf(c) ==
  {i \in Items : TenantOf[i] = c[1] /\ Visible(i) /\ created[i] \in c[2][1]..c[2][2]}

Sealed(c) ==
  closes[c] # NoClose /\ closes[c].sealed =>
    /\ PeriodOver(c[1], c[2])
    /\ closes[c].snapshot = PeriodOf(c)

LEMMA KeysOfCloses ==
  ASSUME NEW c \in CloseKey
  PROVE  c[1] \in Tenants /\ c[2] \in Periods /\ c[2][1] \in Days /\ c[2][2] \in Days
BY PeriodsAssumption DEF CloseKey

(* Once a period is over, its journals are what they are.                  *)
LEMMA PeriodStaysOver ==
  ASSUME TypeOK, JournalsAreStamped, [Next]_vars, NEW c \in CloseKey, PeriodOver(c[1], c[2])
  PROVE  PeriodOver(c[1], c[2])' /\ PeriodOf(c)' = PeriodOf(c)
<1> DEFINE from == c[2][1]
           last == c[2][2]
<1>1. from \in Days /\ last \in Days /\ today \in Days /\ today' >= today /\ today' \in Days
  <2>1. TypeOK'
    BY TypeStays
  <2> QED BY <2>1, KeysOfCloses, DaysGoOn DEF TypeOK
<1>2. today > last
  BY DEF PeriodOver
<1>3. \A i \in Items : created[i] \in Nat
  BY BoundsAssumption DEF TypeOK
<1> HIDE DEF from, last
<1>4. \A i \in Items : TenantOf[i] = c[1] /\ created[i] \in from..last => Visible(i)
  BY DEF PeriodOver, from, last
<1>5. ASSUME NEW i \in Items, TenantOf[i] = c[1]
      PROVE  /\ created'[i] \in from..last => Visible(i)'
             /\ Visible(i)' /\ created'[i] \in from..last
                  <=> Visible(i) /\ created[i] \in from..last
  <2>1. today \notin from..last /\ 0 \notin from..last
    BY <1>1, <1>2, BoundsAssumption DEF Days
  <2>2. CASE created'[i] = created[i] /\ (Visible(i)' <=> Visible(i))
    BY <1>4, <1>5, <2>2
  <2>3. CASE ~ Visible(i)' /\ ~ Visible(i) /\ created'[i] \in {today, 0}
    BY <2>1, <2>3
  <2>4. CASE ~ Visible(i) /\ Visible(i)' /\ created'[i] = created[i]
    BY <1>4, <1>5, <2>4
  <2> QED BY <2>2, <2>3, <2>4, LedgerSteps
<1>6. today' > last
  BY <1>1, <1>2, BoundsAssumption DEF Days
<1>7. PeriodOver(c[1], c[2])'
  BY <1>5, <1>6 DEF PeriodOver, from, last
<1>8. PeriodOf(c)' = PeriodOf(c)
  BY <1>5 DEF PeriodOf, from, last
<1> QED BY <1>7, <1>8

(* A snapshot taken after its period, with no journal of the period still  *)
(* in flight, is the whole period for ever, through every reopening.       *)
THEOREM SealedSnapshots == Spec => []SealedSnapshotIsComplete
<1> DEFINE AllSealed == \A c \in CloseKey : Sealed(c)
<1>1. Init => AllSealed
  BY DEF Init, Sealed
<1>2. TypeOK /\ JournalsAreStamped /\ AllSealed /\ [Next]_vars => AllSealed'
  <2> SUFFICES ASSUME TypeOK, JournalsAreStamped, AllSealed, [Next]_vars, NEW c \in CloseKey,
                      closes'[c] # NoClose, closes'[c].sealed
               PROVE  PeriodOver(c[1], c[2])' /\ closes'[c].snapshot = PeriodOf(c)'
    BY DEF Sealed
  <2>1. CASE /\ closes[c] # NoClose
             /\ closes'[c].snapshot = closes[c].snapshot
             /\ closes'[c].sealed = closes[c].sealed
    <3>1. PeriodOver(c[1], c[2]) /\ closes[c].snapshot = PeriodOf(c)
      BY <2>1 DEF Sealed
    <3> QED BY <2>1, <3>1, PeriodStaysOver
  <2>2. ASSUME NEW a \in Actors, OpenFinancialClose(a, c[1], c[2])
        PROVE  PeriodOver(c[1], c[2])' /\ closes'[c].snapshot = PeriodOf(c)'
    <3>1. c = <<c[1], c[2]>>
      BY DEF CloseKey
    <3>2. closes' = [closes EXCEPT ![c] =
             [status |-> "open", requester |-> a, approver |-> NoActor,
              snapshot |-> JournalsOf(c[1], c[2]), sealed |-> PeriodOver(c[1], c[2])]]
      BY <2>2, <3>1 DEF OpenFinancialClose
    <3>3. /\ closes'[c].snapshot = JournalsOf(c[1], c[2])
          /\ closes'[c].sealed = PeriodOver(c[1], c[2])
      BY <3>2 DEF TypeOK
    <3>4. PeriodOver(c[1], c[2])
      BY <3>3
    <3>5. \A i \in Items : created[i] \in Nat
      BY BoundsAssumption DEF TypeOK
    <3>6. c[2][1] \in Nat /\ c[2][2] \in Nat
      BY KeysOfCloses, BoundsAssumption DEF Days
    <3>7. JournalsOf(c[1], c[2]) = PeriodOf(c)
      BY <3>5, <3>6 DEF JournalsOf, TenantItems, PeriodOf
    <3> QED BY <3>3, <3>4, <3>7, PeriodStaysOver
  <2> QED BY <2>1, <2>2, SnapshotsStay
<1>3. AllSealed => SealedSnapshotIsComplete
  BY DEF Sealed, PeriodOf, SealedSnapshotIsComplete
<1> QED BY <1>1, <1>2, <1>3, TypeCorrect, StampsPrecedeCommits, PTL DEF Spec

=============================================================================
