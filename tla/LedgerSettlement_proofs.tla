---------------------- MODULE LedgerSettlement_proofs ----------------------
(***************************************************************************)
(* Theorems about LedgerSettlement, for any number of journals, tenants,   *)
(* replicas, attempts and stalls.                                          *)
(***************************************************************************)
EXTENDS LedgerSettlement, TLAPS

(* The tuples that group the variables say what each of them says.         *)
LEMMA StutterKeepsAll ==
  ASSUME UNCHANGED vars
  PROVE  /\ journal' = journal /\ answers' = answers /\ settlement' = settlement
         /\ outbox' = outbox /\ dispatcher' = dispatcher /\ inFlight' = inFlight
         /\ verdict' = verdict /\ issued' = issued /\ inbox' = inbox
         /\ alerts' = alerts /\ unstored' = unstored /\ stalls' = stalls
BY DEF vars

(* A step of the system is a step of one of its actions.                   *)
LEMMA NextCases ==
  ASSUME Next
  PROVE  \/ \E c \in Commands, j \in JournalIds : PostJournal(c, j)
         \/ \E c \in Commands, j \in JournalIds : ReplayJournal(c, j)
         \/ \E w \in Workers, S \in SUBSET JournalIds : LeaseEvents(w, S)
         \/ \E w \in Workers : SubmitEvent(w)
         \/ \E w \in Workers : SubmissionAcked(w)
         \/ \E w \in Workers : SubmissionRefused(w)
         \/ \E w \in Workers : SubmissionFailed(w)
         \/ \E w \in Workers : MarkPublished(w)
         \/ \E w \in Workers : PublishRollsBack(w)
         \/ \E w \in Workers : RecordDispatchFailure(w)
         \/ \E w \in Workers : FailureNotRecorded(w)
         \/ \E w \in Workers : AbandonBatch(w)
         \/ \E j \in JournalIds : LeaseExpires(j)
         \/ \E j \in JournalIds : BackoffElapses(j)
         \/ \E j \in JournalIds : ProviderProcesses(j)
         \/ \E j \in JournalIds, v \in Verdicts, b \in Bodies, r \in Echoes :
              ProviderDecides(j, v, b, r)
         \/ \E j \in JournalIds, v \in Verdicts, b \in Bodies, r \in Echoes :
              ProviderMisaddresses(j, v, b, r)
         \/ \E cb \in Callback, b \in Bodies : ProviderAlters(cb, b)
         \/ \E cb \in Callback : PayloadMismatch(cb)
         \/ \E cb \in Callback : UnknownSettlement(cb)
         \/ \E cb \in Callback : ReferenceMismatch(cb)
         \/ \E cb \in Callback : ApplyTransition(cb)
         \/ \E cb \in Callback : TransitionAborts(cb)
BY DEF Next, Dispatch, ApplyCallback

-----------------------------------------------------------------------------
(* Types.                                                                  *)

(* The event a replica is working on is one it leased.                     *)
LEMMA CurrentIsLeased ==
  ASSUME TypeOK, NEW w \in Workers, dispatcher[w].stage # "ready"
  PROVE  /\ dispatcher[w] \in DispatcherState
         /\ dispatcher[w].current \in LeasedEvent
         /\ dispatcher[w].current # NoEvent
         /\ dispatcher[w].current.id \in JournalIds
         /\ dispatcher[w].current.attempts \in Nat
BY DEF TypeOK, DispatcherState, LeasedEvent

(* A replica that has dealt with its event keeps the rest of its batch.    *)
LEMMA Cleared ==
  ASSUME NEW d \in DispatcherState, NEW e,
         e = [d EXCEPT !.current = NoEvent, !.stage = "ready"]
  PROVE  /\ e \in DispatcherState
         /\ e.batch = d.batch /\ e.current = NoEvent /\ e.stage = "ready"
BY DEF DispatcherState, Stages

(* The updates of an outbox row.                                           *)
LEMMA RowPublished ==
  ASSUME NEW row \in OutboxRow, NEW s \in OutboxStatus, NEW e,
         e = [row EXCEPT !.status = s, !.leasedBy = NoWorker, !.lapsed = FALSE]
  PROVE  /\ e \in OutboxRow
         /\ e.status = s /\ e.attempts = row.attempts /\ e.leasedBy = NoWorker
BY DEF OutboxRow

LEMMA RowReleased ==
  ASSUME NEW row \in OutboxRow, NEW s \in OutboxStatus, NEW e,
         e = [row EXCEPT !.status = s, !.leasedBy = NoWorker, !.due = FALSE, !.lapsed = FALSE]
  PROVE  /\ e \in OutboxRow
         /\ e.status = s /\ e.attempts = row.attempts /\ e.leasedBy = NoWorker
         /\ e.lapsed = FALSE
BY DEF OutboxRow

LEMMA RowTimed ==
  ASSUME NEW row \in OutboxRow, NEW e,
         e = [row EXCEPT !.lapsed = TRUE] \/ e = [row EXCEPT !.due = TRUE]
  PROVE  /\ e \in OutboxRow
         /\ e.status = row.status /\ e.attempts = row.attempts /\ e.leasedBy = row.leasedBy
BY DEF OutboxRow

(* Every table and process keeps its type.                                 *)
THEOREM TypeCorrect == Spec => []TypeOK
<1>1. Init => TypeOK
  BY MaxStallsAssumption DEF Init, TypeOK, Idle, EmptyRow, SettlementStatus, OutboxStatus, OutboxRow,
         DispatcherState, Stages
<1>2. TypeOK /\ [Next]_vars => TypeOK'
  <2> SUFFICES ASSUME TypeOK, [Next]_vars PROVE TypeOK'
    OBVIOUS
  <2> USE DEF TypeOK, clientVars, providerVars, callbackVars, CallbackTypes
  <2>1. ASSUME NEW c \in Commands, NEW j \in JournalIds, PostJournal(c, j) PROVE TypeOK'
    BY <2>1 DEF PostJournal, NewRow, SettlementStatus, OutboxStatus, OutboxRow
  <2>2. ASSUME NEW c \in Commands, NEW j \in JournalIds, ReplayJournal(c, j) PROVE TypeOK'
    BY <2>2 DEF ReplayJournal
  <2>3. ASSUME NEW w \in Workers, NEW S \in SUBSET JournalIds, LeaseEvents(w, S) PROVE TypeOK'
    <3>1. outbox' \in [JournalIds -> OutboxRow]
      BY <2>3 DEF LeaseEvents, OutboxRow, OutboxStatus
    <3>2. \A j \in S : Leased(j) \in LeasedEvent
      BY DEF Leased, LeasedEvent, OutboxRow
    <3>3. dispatcher' \in [Workers -> DispatcherState]
      BY <2>3, <3>2 DEF LeaseEvents, DispatcherState, Stages
    <3>4. \A v \in Workers : dispatcher'[v].stage = "ready" <=> dispatcher'[v].current = NoEvent
      BY <2>3 DEF LeaseEvents, DispatcherState
    <3> QED BY <2>3, <3>1, <3>3, <3>4 DEF LeaseEvents
  <2>4. ASSUME NEW w \in Workers, SubmitEvent(w) PROVE TypeOK'
    <3>1. PICK e \in dispatcher[w].batch :
            /\ dispatcher' = [dispatcher EXCEPT ![w] =
                                [batch |-> dispatcher[w].batch \ {e}, current |-> e,
                                 stage |-> "posted"]]
            /\ inFlight' = inFlight \cup {e.id}
      BY <2>4 DEF SubmitEvent
    <3>2. e \in LeasedEvent /\ e # NoEvent /\ e.id \in JournalIds
      BY NoEventAssumption DEF DispatcherState, LeasedEvent
    <3>3. dispatcher' \in [Workers -> DispatcherState]
      BY <3>1, <3>2 DEF DispatcherState, Stages
    <3>4. \A v \in Workers : dispatcher'[v].stage = "ready" <=> dispatcher'[v].current = NoEvent
      BY <3>1, <3>2 DEF DispatcherState
    <3> QED BY <2>4, <3>1, <3>2, <3>3, <3>4 DEF SubmitEvent
  <2>5. ASSUME NEW w \in Workers, NEW from \in Stages \ {"ready"}, NEW to \in Stages \ {"ready"},
               MoveStage(w, from, to)
        PROVE  /\ dispatcher' \in [Workers -> DispatcherState]
               /\ \A v \in Workers :
                    dispatcher'[v].stage = "ready" <=> dispatcher'[v].current = NoEvent
    BY <2>5 DEF MoveStage, DispatcherState, Stages
  <2>6. ASSUME NEW w \in Workers, SubmissionAcked(w) PROVE TypeOK'
    BY <2>5, <2>6 DEF SubmissionAcked, Stages
  <2>7. ASSUME NEW w \in Workers, SubmissionRefused(w) PROVE TypeOK'
    BY <2>5, <2>7 DEF SubmissionRefused, Stages
  <2>8. ASSUME NEW w \in Workers, SubmissionFailed(w) PROVE TypeOK'
    BY <2>5, <2>8 DEF SubmissionFailed, Stages
  <2>9. ASSUME NEW w \in Workers, PublishRollsBack(w) PROVE TypeOK'
    BY <2>5, <2>9 DEF PublishRollsBack, Stages
  <2>10. ASSUME NEW w \in Workers,
                dispatcher' = [dispatcher EXCEPT ![w] =
                                 [@ EXCEPT !.current = NoEvent, !.stage = "ready"]]
         PROVE  /\ dispatcher' \in [Workers -> DispatcherState]
                /\ \A v \in Workers :
                     dispatcher'[v].stage = "ready" <=> dispatcher'[v].current = NoEvent
    <3>1. dispatcher[w] \in DispatcherState
      OBVIOUS
    <3> DEFINE e == [dispatcher[w] EXCEPT !.current = NoEvent, !.stage = "ready"]
    <3>2. e \in DispatcherState /\ e.current = NoEvent /\ e.stage = "ready"
      BY <3>1, Cleared
    <3>3. dispatcher' = [dispatcher EXCEPT ![w] = e]
      BY <2>10
    <3> HIDE DEF e
    <3> QED BY <3>2, <3>3
  <2>11. ASSUME NEW w \in Workers, MarkPublished(w) PROVE TypeOK'
    <3>1. dispatcher[w].current.id \in JournalIds
      BY <2>11, CurrentIsLeased DEF MarkPublished
    <3>2. settlement' \in [JournalIds -> SettlementStatus]
      BY <2>11, <3>1 DEF MarkPublished, SettlementStatus
    <3> DEFINE j == dispatcher[w].current.id
               row == [outbox[j] EXCEPT !.status = "published", !.leasedBy = NoWorker,
                                        !.lapsed = FALSE]
    <3>0. outbox[j] \in OutboxRow /\ "published" \in OutboxStatus
      BY <3>1 DEF OutboxStatus
    <3>3. row \in OutboxRow
      BY <3>0, RowPublished
    <3>4. outbox' = [outbox EXCEPT ![j] = row]
      BY <2>11 DEF MarkPublished
    <3>5. outbox' \in [JournalIds -> OutboxRow]
      BY <3>3, <3>4
    <3> QED BY <2>10, <2>11, <3>2, <3>5 DEF MarkPublished
  <2>12. ASSUME NEW w \in Workers, RecordDispatchFailure(w) PROVE TypeOK'
    <3>1. dispatcher[w].current.id \in JournalIds
      BY <2>12, CurrentIsLeased DEF RecordDispatchFailure
    <3> DEFINE j == dispatcher[w].current.id
               row(s) == [outbox[j] EXCEPT !.status = s, !.leasedBy = NoWorker,
                                           !.due = FALSE, !.lapsed = FALSE]
    <3>0. /\ outbox[j] \in OutboxRow
          /\ "dead_letter" \in OutboxStatus /\ "failed" \in OutboxStatus
      BY <3>1 DEF OutboxStatus
    <3>2. row("dead_letter") \in OutboxRow /\ row("failed") \in OutboxRow
      BY <3>0, RowReleased
    <3>3. \/ outbox' = [outbox EXCEPT ![j] = row("dead_letter")]
          \/ outbox' = [outbox EXCEPT ![j] = row("failed")]
          \/ outbox' = outbox
      BY <2>12 DEF RecordDispatchFailure
    <3>4. outbox' \in [JournalIds -> OutboxRow]
      BY <3>2, <3>3
    <3> QED BY <2>10, <2>12, <3>4 DEF RecordDispatchFailure
  <2>13. ASSUME NEW w \in Workers, FailureNotRecorded(w) PROVE TypeOK'
    <3>1. stalls' \in 0..MaxStalls
      BY <2>13, MaxStallsAssumption DEF FailureNotRecorded
    <3> QED BY <2>10, <2>13, <3>1 DEF FailureNotRecorded
  <2>14. ASSUME NEW w \in Workers, AbandonBatch(w) PROVE TypeOK'
    BY <2>14, MaxStallsAssumption DEF AbandonBatch, Idle, DispatcherState, Stages
  <2>15. ASSUME NEW j \in JournalIds, LeaseExpires(j) PROVE TypeOK'
    <3>1. [outbox[j] EXCEPT !.lapsed = TRUE] \in OutboxRow
      BY RowTimed
    <3>2. outbox' \in [JournalIds -> OutboxRow]
      BY <2>15, <3>1 DEF LeaseExpires
    <3>3. stalls' \in 0..MaxStalls
      BY <2>15, MaxStallsAssumption DEF LeaseExpires
    <3> QED BY <2>15, <3>2, <3>3 DEF LeaseExpires
  <2>16. ASSUME NEW j \in JournalIds, BackoffElapses(j) PROVE TypeOK'
    <3>1. [outbox[j] EXCEPT !.due = TRUE] \in OutboxRow
      BY RowTimed
    <3> QED BY <2>16, <3>1 DEF BackoffElapses
  <2>17. ASSUME NEW j \in JournalIds, ProviderProcesses(j) PROVE TypeOK'
    BY <2>17 DEF ProviderProcesses
  <2>18. ASSUME NEW j \in JournalIds, NEW v \in Verdicts, NEW b \in Bodies, NEW r \in Echoes,
                ProviderDecides(j, v, b, r)
         PROVE  TypeOK'
    <3>1. [journal |-> j, type |-> v, body |-> b, echo |-> r] \in Callback
      BY VerdictsAssumption, EchoesAssumption DEF Callback
    <3>2. v \in CallbackTypes
      BY VerdictsAssumption
    <3> QED BY <2>18, <3>1, <3>2 DEF ProviderDecides
  <2>19. ASSUME NEW j \in JournalIds, NEW v \in Verdicts, NEW b \in Bodies, NEW r \in Echoes,
                ProviderMisaddresses(j, v, b, r)
         PROVE  TypeOK'
    <3>1. [journal |-> j, type |-> v, body |-> b, echo |-> r] \in Callback
      BY VerdictsAssumption, EchoesAssumption DEF Callback
    <3> QED BY <2>19, <3>1 DEF ProviderMisaddresses
  <2>20. ASSUME NEW cb \in Callback, NEW b \in Bodies, ProviderAlters(cb, b) PROVE TypeOK'
    BY <2>20 DEF ProviderAlters, Callback
  <2>21. ASSUME NEW cb \in Callback, PayloadMismatch(cb) PROVE TypeOK'
    BY <2>21 DEF PayloadMismatch, Alert, EventId, Callback
  <2>22. ASSUME NEW cb \in Callback, UnknownSettlement(cb) PROVE TypeOK'
    BY <2>22 DEF UnknownSettlement, Alert, EventId, Callback
  <2>23. ASSUME NEW cb \in Callback, ReferenceMismatch(cb) PROVE TypeOK'
    BY <2>23 DEF ReferenceMismatch, Alert, EventId, Callback
  <2>24. ASSUME NEW cb \in Callback, ApplyTransition(cb) PROVE TypeOK'
    BY <2>24 DEF ApplyTransition, Callback, SettlementStatus
  <2>25. ASSUME NEW cb \in Callback, TransitionAborts(cb) PROVE TypeOK'
    BY <2>25 DEF TransitionAborts, EventId, Callback
  <2>26. CASE UNCHANGED vars
    BY <2>26 DEF vars
  <2> HIDE DEF TypeOK, clientVars, providerVars, callbackVars, CallbackTypes
  <2> QED
    BY <2>1, <2>2, <2>3, <2>4, <2>6, <2>7, <2>8, <2>9, <2>11, <2>12, <2>13, <2>14, <2>15,
       <2>16, <2>17, <2>18, <2>19, <2>20, <2>21, <2>22, <2>23, <2>24, <2>25, <2>26, NextCases
<1> QED BY <1>1, <1>2, PTL DEF Spec

-----------------------------------------------------------------------------
(* The settlement items and the outbox.                                    *)

(* The actions that write either of the two tables.                        *)
LEMMA Writers ==
  ASSUME [Next]_vars
  PROVE  \/ settlement' = settlement /\ outbox' = outbox
         \/ \E c \in Commands, j \in JournalIds : PostJournal(c, j)
         \/ \E w \in Workers, S \in SUBSET JournalIds : LeaseEvents(w, S)
         \/ \E w \in Workers : MarkPublished(w)
         \/ \E w \in Workers : RecordDispatchFailure(w)
         \/ \E j \in JournalIds : LeaseExpires(j)
         \/ \E j \in JournalIds : BackoffElapses(j)
         \/ \E cb \in Callback : ApplyTransition(cb)
<1>1. CASE UNCHANGED vars
  BY <1>1, StutterKeepsAll
<1>2. CASE Next
  <2> USE DEF clientVars, providerVars, callbackVars
  <2>1. ASSUME NEW w \in Workers,
               \/ SubmitEvent(w) \/ SubmissionAcked(w) \/ SubmissionRefused(w)
               \/ SubmissionFailed(w) \/ PublishRollsBack(w) \/ FailureNotRecorded(w)
               \/ AbandonBatch(w)
        PROVE  settlement' = settlement /\ outbox' = outbox
    BY <2>1 DEF SubmitEvent, SubmissionAcked, SubmissionRefused, SubmissionFailed,
                PublishRollsBack, FailureNotRecorded, AbandonBatch
  <2>2. ASSUME NEW j \in JournalIds, NEW v \in Verdicts, NEW b \in Bodies, NEW r \in Echoes,
               \/ ProviderProcesses(j) \/ ProviderDecides(j, v, b, r)
               \/ ProviderMisaddresses(j, v, b, r)
        PROVE  settlement' = settlement /\ outbox' = outbox
    BY <2>2 DEF ProviderProcesses, ProviderDecides, ProviderMisaddresses
  <2>3. ASSUME NEW cb \in Callback, NEW b \in Bodies,
               \/ ProviderAlters(cb, b) \/ PayloadMismatch(cb) \/ UnknownSettlement(cb)
               \/ ReferenceMismatch(cb) \/ TransitionAborts(cb)
        PROVE  settlement' = settlement /\ outbox' = outbox
    BY <2>3 DEF ProviderAlters, PayloadMismatch, UnknownSettlement, ReferenceMismatch,
                TransitionAborts
  <2>4. ASSUME NEW c \in Commands, NEW j \in JournalIds, ReplayJournal(c, j)
        PROVE  settlement' = settlement /\ outbox' = outbox
    BY <2>4 DEF ReplayJournal
  <2>5. ASSUME NEW j \in JournalIds, ProviderProcesses(j)
        PROVE  settlement' = settlement /\ outbox' = outbox
    BY <2>5 DEF ProviderProcesses
  <2>6. ASSUME NEW cb \in Callback,
               \/ PayloadMismatch(cb) \/ UnknownSettlement(cb)
               \/ ReferenceMismatch(cb) \/ TransitionAborts(cb)
        PROVE  settlement' = settlement /\ outbox' = outbox
    BY <2>6 DEF PayloadMismatch, UnknownSettlement, ReferenceMismatch, TransitionAborts
  <2> HIDE DEF clientVars, providerVars, callbackVars
  <2> QED BY <1>2, <2>1, <2>2, <2>3, <2>4, <2>5, <2>6, NextCases
<1> QED BY <1>1, <1>2

(* What MarkPublished does to its row.                                     *)
LEMMA Published ==
  ASSUME TypeOK, NEW w \in Workers, MarkPublished(w)
  PROVE  LET j == dispatcher[w].current.id IN
         /\ j \in JournalIds
         /\ settlement[j] = "pending" /\ settlement'[j] = "submitted"
         /\ outbox[j].status = "leased" /\ outbox[j].leasedBy = w
         /\ outbox'[j].status = "published" /\ outbox'[j].attempts = outbox[j].attempts
         /\ \A i \in JournalIds \ {j} :
              settlement'[i] = settlement[i] /\ outbox'[i] = outbox[i]
<1>1. PICK j \in JournalIds : j = dispatcher[w].current.id
  BY CurrentIsLeased DEF MarkPublished
<1>2. PICK row : row = [outbox[j] EXCEPT !.status = "published", !.leasedBy = NoWorker,
                                         !.lapsed = FALSE]
  OBVIOUS
<1>3. outbox[j] \in OutboxRow /\ "published" \in OutboxStatus
  BY DEF TypeOK, OutboxStatus
<1>4. row \in OutboxRow /\ row.status = "published" /\ row.attempts = outbox[j].attempts
  BY <1>2, <1>3 DEF OutboxRow
<1>5. outbox' = [outbox EXCEPT ![j] = row] /\ outbox \in [JournalIds -> OutboxRow]
  BY <1>1, <1>2 DEF MarkPublished, TypeOK
<1>6. settlement' = [settlement EXCEPT ![j] = "submitted"]
      /\ settlement \in [JournalIds -> SettlementStatus]
  BY <1>1 DEF MarkPublished, TypeOK
<1>7. settlement[j] = "pending" /\ outbox[j].status = "leased" /\ outbox[j].leasedBy = w
  BY <1>1 DEF MarkPublished, StillPending, HoldsLease
<1>8. /\ settlement'[j] = "submitted" /\ outbox'[j] = row
      /\ \A i \in JournalIds \ {j} : settlement'[i] = settlement[i] /\ outbox'[i] = outbox[i]
  BY <1>5, <1>6
<1> QED BY <1>1, <1>4, <1>7, <1>8

(* What RecordDispatchFailure does to its row, if the lease is held.       *)
LEMMA FailureRecorded ==
  ASSUME TypeOK, NEW w \in Workers, RecordDispatchFailure(w)
  PROVE  LET e == dispatcher[w].current IN
         /\ e.id \in JournalIds /\ e.attempts \in Nat
         /\ \/ outbox' = outbox /\ ~ HoldsLease(w, e.id)
            \/ /\ outbox[e.id].status = "leased" /\ outbox[e.id].leasedBy = w
               /\ \/ outbox'[e.id].status = "dead_letter"
                  \/ outbox'[e.id].status = "failed" /\ e.attempts < MaxAttempts
               /\ outbox'[e.id].attempts = outbox[e.id].attempts
               /\ outbox'[e.id].lapsed = FALSE
               /\ \A i \in JournalIds \ {e.id} : outbox'[i] = outbox[i]
<1>1. PICK e \in LeasedEvent : e = dispatcher[w].current
  BY CurrentIsLeased DEF RecordDispatchFailure
<1>2. e.id \in JournalIds /\ e.attempts \in Nat
  BY DEF LeasedEvent
<1>3. CASE ~ HoldsLease(w, e.id)
  BY <1>1, <1>2, <1>3 DEF RecordDispatchFailure
<1>4. CASE HoldsLease(w, e.id)
  <2>1. PICK s \in {"dead_letter", "failed"} :
          /\ outbox' = [outbox EXCEPT ![e.id] =
                          [@ EXCEPT !.status = s, !.leasedBy = NoWorker, !.due = FALSE,
                                    !.lapsed = FALSE]]
          /\ s = "failed" => ~ (e.attempts >= MaxAttempts)
    BY <1>1, <1>4 DEF RecordDispatchFailure, LastAttempt
  <2>2. PICK row : row = [outbox[e.id] EXCEPT !.status = s, !.leasedBy = NoWorker,
                                              !.due = FALSE, !.lapsed = FALSE]
    OBVIOUS
  <2>3. /\ outbox[e.id] \in OutboxRow /\ outbox \in [JournalIds -> OutboxRow]
        /\ s \in OutboxStatus
    BY <1>2 DEF TypeOK, OutboxStatus
  <2>4. /\ row \in OutboxRow /\ row.status = s
        /\ row.attempts = outbox[e.id].attempts /\ row.lapsed = FALSE
    BY <2>2, <2>3 DEF OutboxRow
  <2>5. outbox'[e.id] = row /\ \A i \in JournalIds \ {e.id} : outbox'[i] = outbox[i]
    BY <1>2, <2>1, <2>2, <2>3
  <2>6. outbox[e.id].status = "leased" /\ outbox[e.id].leasedBy = w
    BY <1>4 DEF HoldsLease
  <2>7. s = "failed" => e.attempts < MaxAttempts
    BY <1>2, <2>1, MaxAttemptsAssumption
  <2> QED BY <1>1, <1>2, <2>4, <2>5, <2>6, <2>7
<1> QED BY <1>3, <1>4

(* What the passing of time does to a row.                                 *)
LEMMA RowsTimed ==
  ASSUME TypeOK, NEW j \in JournalIds, LeaseExpires(j) \/ BackoffElapses(j)
  PROVE  \A i \in JournalIds :
           /\ outbox'[i].status = outbox[i].status
           /\ outbox'[i].attempts = outbox[i].attempts
           /\ outbox'[i].leasedBy = outbox[i].leasedBy
           /\ i # j => outbox'[i] = outbox[i]
<1> DEFINE lapsed == [outbox[j] EXCEPT !.lapsed = TRUE]
           due == [outbox[j] EXCEPT !.due = TRUE]
<1>1. outbox \in [JournalIds -> OutboxRow] /\ outbox[j] \in OutboxRow
  BY DEF TypeOK
<1>2. ASSUME NEW row \in {lapsed, due}
      PROVE  /\ row.status = outbox[j].status /\ row.attempts = outbox[j].attempts
             /\ row.leasedBy = outbox[j].leasedBy
  BY <1>1, RowTimed
<1>3. \E row \in {lapsed, due} : outbox' = [outbox EXCEPT ![j] = row]
  BY DEF LeaseExpires, BackoffElapses
<1> HIDE DEF lapsed, due
<1> QED BY <1>1, <1>2, <1>3

(* The tables agree: a settlement is past the submission only if its       *)
(* instruction is published, and the other way round.                      *)
THEOREM OutboxAgrees == Spec => []OutboxAgreesWithSettlement
<1>1. Init => OutboxAgreesWithSettlement
  BY DEF Init, OutboxAgreesWithSettlement, EmptyRow
<1>2. TypeOK /\ OutboxAgreesWithSettlement /\ [Next]_vars => OutboxAgreesWithSettlement'
  <2> SUFFICES ASSUME TypeOK, OutboxAgreesWithSettlement, [Next]_vars
               PROVE  OutboxAgreesWithSettlement'
    OBVIOUS
  <2> USE DEF OutboxAgreesWithSettlement
  <2>1. CASE settlement' = settlement /\ outbox' = outbox
    BY <2>1
  <2>2. ASSUME NEW c \in Commands, NEW j \in JournalIds, PostJournal(c, j)
        PROVE  OutboxAgreesWithSettlement'
    BY <2>2 DEF PostJournal, NewRow, TypeOK
  <2>3. ASSUME NEW w \in Workers, NEW S \in SUBSET JournalIds, LeaseEvents(w, S)
        PROVE  OutboxAgreesWithSettlement'
    <3>1. \A j \in S : outbox[j].status \in {"pending", "failed", "leased"}
      BY <2>3 DEF LeaseEvents, Leasable
    <3>2. settlement' = settlement
      BY <2>3 DEF LeaseEvents
    <3>3. \A j \in JournalIds : IF j \in S THEN outbox'[j].status = "leased"
                                           ELSE outbox'[j] = outbox[j]
      BY <2>3 DEF LeaseEvents
    <3> QED BY <3>1, <3>2, <3>3
  <2>4. ASSUME NEW w \in Workers, MarkPublished(w) PROVE OutboxAgreesWithSettlement'
    BY <2>4, Published
  <2>5. ASSUME NEW w \in Workers, RecordDispatchFailure(w) PROVE OutboxAgreesWithSettlement'
    <3>1. settlement' = settlement
      BY <2>5 DEF RecordDispatchFailure
    <3>2. PICK j \in JournalIds :
            \/ outbox' = outbox
            \/ /\ outbox[j].status = "leased" /\ outbox'[j].status \in {"dead_letter", "failed"}
               /\ \A i \in JournalIds \ {j} : outbox'[i] = outbox[i]
      BY <2>5, FailureRecorded
    <3> QED BY <3>1, <3>2
  <2>6. ASSUME NEW j \in JournalIds, LeaseExpires(j) \/ BackoffElapses(j)
        PROVE  OutboxAgreesWithSettlement'
    <3>1. settlement' = settlement
      BY <2>6 DEF LeaseExpires, BackoffElapses
    <3> QED BY <2>6, <3>1, RowsTimed
  <2>7. ASSUME NEW cb \in Callback, ApplyTransition(cb) PROVE OutboxAgreesWithSettlement'
    <3>1. cb.journal \in JournalIds
      BY VerdictsAssumption, EchoesAssumption DEF Callback
    <3>2. /\ outbox' = outbox
          /\ settlement' = [settlement EXCEPT ![cb.journal] = cb.type]
          /\ TransitionAllowed(settlement[cb.journal], cb.type)
      BY <2>7 DEF ApplyTransition
    <3>3. cb.type \in CallbackTypes
      BY VerdictsAssumption, EchoesAssumption DEF Callback
    <3> QED BY <3>1, <3>2, <3>3 DEF TypeOK, TransitionAllowed, CallbackTypes
  <2> HIDE DEF OutboxAgreesWithSettlement
  <2> QED BY <2>1, <2>2, <2>3, <2>4, <2>5, <2>6, <2>7, Writers
<1> QED BY <1>1, <1>2, TypeCorrect, PTL DEF Spec

-----------------------------------------------------------------------------
(* Instructions that exist.                                                *)

(* Only PostJournal opens a settlement or writes a journal.                *)
LEMMA SettlementsStay ==
  ASSUME TypeOK, [Next]_vars
  PROVE  \/ \E c \in Commands, j \in JournalIds : PostJournal(c, j)
         \/ /\ journal' = journal
            /\ \A j \in JournalIds : settlement'[j] = "none" <=> settlement[j] = "none"
<1>1. CASE UNCHANGED vars
  BY <1>1, StutterKeepsAll
<1>2. CASE Next
  <2> USE DEF clientVars
  <2>1. ASSUME NEW w \in Workers, MarkPublished(w)
        PROVE  /\ journal' = journal
               /\ \A j \in JournalIds : settlement'[j] = "none" <=> settlement[j] = "none"
    <3>1. journal' = journal
      BY <2>1 DEF MarkPublished
    <3> QED BY <2>1, <3>1, Published
  <2>2. ASSUME NEW cb \in Callback, ApplyTransition(cb)
        PROVE  /\ journal' = journal
               /\ \A j \in JournalIds : settlement'[j] = "none" <=> settlement[j] = "none"
    BY <2>2 DEF ApplyTransition, TransitionAllowed, TypeOK, Callback, CallbackTypes
  <2>3. CASE \E c \in Commands, j \in JournalIds : PostJournal(c, j)
    BY <2>3
  <2>4. ASSUME NEW w \in Workers,
               \/ \E S \in SUBSET JournalIds : LeaseEvents(w, S)
               \/ SubmitEvent(w) \/ SubmissionAcked(w) \/ SubmissionRefused(w)
               \/ SubmissionFailed(w) \/ PublishRollsBack(w) \/ RecordDispatchFailure(w)
               \/ FailureNotRecorded(w) \/ AbandonBatch(w)
        PROVE  journal' = journal /\ settlement' = settlement
    BY <2>4 DEF LeaseEvents, SubmitEvent, SubmissionAcked, SubmissionRefused, SubmissionFailed,
                PublishRollsBack, RecordDispatchFailure, FailureNotRecorded, AbandonBatch
  <2>5. ASSUME NEW j \in JournalIds,
               LeaseExpires(j) \/ BackoffElapses(j) \/ ProviderProcesses(j)
        PROVE  journal' = journal /\ settlement' = settlement
    BY <2>5 DEF LeaseExpires, BackoffElapses, ProviderProcesses
  <2>6. ASSUME NEW j \in JournalIds, NEW v \in Verdicts, NEW b \in Bodies, NEW r \in Echoes,
               ProviderDecides(j, v, b, r) \/ ProviderMisaddresses(j, v, b, r)
        PROVE  journal' = journal /\ settlement' = settlement
    BY <2>6 DEF ProviderDecides, ProviderMisaddresses
  <2>7. ASSUME NEW cb \in Callback,
               \/ \E b \in Bodies : ProviderAlters(cb, b)
               \/ PayloadMismatch(cb) \/ UnknownSettlement(cb)
               \/ ReferenceMismatch(cb) \/ TransitionAborts(cb)
        PROVE  journal' = journal /\ settlement' = settlement
    BY <2>7 DEF ProviderAlters, PayloadMismatch, UnknownSettlement, ReferenceMismatch,
                TransitionAborts
  <2>8. ASSUME NEW c \in Commands, NEW j \in JournalIds, ReplayJournal(c, j)
        PROVE  journal' = journal /\ settlement' = settlement
    BY <2>8 DEF ReplayJournal
  <2> HIDE DEF clientVars
  <2> QED BY <1>2, <2>1, <2>2, <2>3, <2>4, <2>5, <2>6, <2>7, <2>8, NextCases
<1> QED BY <1>1, <1>2

(* A replica works on what it leased.                                      *)
LEMMA WorkIsLeased ==
  ASSUME TypeOK, [Next]_vars, NEW w \in Workers, NEW j \in JournalIds, Working(w, j)'
  PROVE  Working(w, j) \/ \E S \in SUBSET JournalIds : LeaseEvents(w, S) /\ j \in S
<1> USE DEF Working
<1>1. CASE dispatcher' = dispatcher
  BY <1>1
<1>2. ASSUME NEW v \in Workers, NEW S \in SUBSET JournalIds, LeaseEvents(v, S)
      PROVE  Working(w, j) \/ (v = w /\ j \in S)
  <2>1. CASE v = w
    <3>1. dispatcher'[w] = [batch |-> {Leased(i) : i \in S}, current |-> NoEvent,
                            stage |-> "ready"]
      BY <1>2, <2>1 DEF LeaseEvents, TypeOK
    <3>2. \E e \in {Leased(i) : i \in S} : e.id = j
      BY <3>1
    <3> QED BY <2>1, <3>2 DEF Leased
  <2>2. CASE v # w
    BY <1>2, <2>2 DEF LeaseEvents, TypeOK
  <2> QED BY <2>1, <2>2
<1>3. ASSUME NEW v \in Workers, SubmitEvent(v) PROVE Working(w, j)
  <2>1. PICK e \in dispatcher[v].batch :
          dispatcher' = [dispatcher EXCEPT ![v] =
                           [batch |-> dispatcher[v].batch \ {e}, current |-> e,
                            stage |-> "posted"]]
    BY <1>3 DEF SubmitEvent
  <2> QED BY <2>1 DEF TypeOK
<1>4. ASSUME NEW v \in Workers, NEW from \in Stages \ {"ready"}, NEW to \in Stages \ {"ready"},
             MoveStage(v, from, to)
      PROVE  Working(w, j)
  BY <1>4 DEF MoveStage, TypeOK, DispatcherState
<1>5. ASSUME NEW v \in Workers,
             dispatcher' = [dispatcher EXCEPT ![v] =
                              [@ EXCEPT !.current = NoEvent, !.stage = "ready"]]
      PROVE  Working(w, j)
  <2>1. PICK e : e = [dispatcher[v] EXCEPT !.current = NoEvent, !.stage = "ready"]
    OBVIOUS
  <2>2. dispatcher[v] \in DispatcherState
    BY DEF TypeOK
  <2>3. e.batch = dispatcher[v].batch /\ e.stage = "ready"
    BY <2>1, <2>2 DEF DispatcherState
  <2>4. dispatcher' = [dispatcher EXCEPT ![v] = e]
    BY <1>5, <2>1
  <2> QED BY <2>3, <2>4 DEF TypeOK
<1>6. ASSUME NEW v \in Workers, AbandonBatch(v) PROVE Working(w, j)
  BY <1>6 DEF AbandonBatch, Idle, TypeOK
<1> HIDE DEF Working
<1>7. ASSUME NEW v \in Workers,
             \/ SubmissionAcked(v) \/ SubmissionRefused(v) \/ SubmissionFailed(v)
             \/ PublishRollsBack(v)
      PROVE  Working(w, j)
  BY <1>4, <1>7 DEF SubmissionAcked, SubmissionRefused, SubmissionFailed, PublishRollsBack, Stages
<1>8. ASSUME NEW v \in Workers,
             MarkPublished(v) \/ RecordDispatchFailure(v) \/ FailureNotRecorded(v)
      PROVE  Working(w, j)
  BY <1>5, <1>8 DEF MarkPublished, RecordDispatchFailure, FailureNotRecorded
<1>9. ASSUME NEW i \in JournalIds,
             LeaseExpires(i) \/ BackoffElapses(i) \/ ProviderProcesses(i)
      PROVE  dispatcher' = dispatcher
  BY <1>9 DEF LeaseExpires, BackoffElapses, ProviderProcesses
<1>10. ASSUME NEW i \in JournalIds, NEW v \in Verdicts, NEW b \in Bodies, NEW r \in Echoes,
              ProviderDecides(i, v, b, r) \/ ProviderMisaddresses(i, v, b, r)
       PROVE  dispatcher' = dispatcher
  BY <1>10 DEF ProviderDecides, ProviderMisaddresses
<1>11. ASSUME NEW cb \in Callback,
              \/ \E b \in Bodies : ProviderAlters(cb, b)
              \/ PayloadMismatch(cb) \/ UnknownSettlement(cb) \/ ReferenceMismatch(cb)
              \/ ApplyTransition(cb) \/ TransitionAborts(cb)
       PROVE  dispatcher' = dispatcher
  BY <1>11 DEF ProviderAlters, PayloadMismatch, UnknownSettlement, ReferenceMismatch,
               ApplyTransition, TransitionAborts
<1>12. ASSUME NEW c \in Commands, NEW i \in JournalIds, PostJournal(c, i) \/ ReplayJournal(c, i)
       PROVE  dispatcher' = dispatcher
  BY <1>12 DEF PostJournal, ReplayJournal
<1>13. CASE UNCHANGED vars
  BY <1>1, <1>13, StutterKeepsAll
<1> QED BY <1>1, <1>2, <1>3, <1>6, <1>7, <1>8, <1>9, <1>10, <1>11, <1>12, <1>13, NextCases

(* Nothing travels and nothing is decided that no replica submitted.       *)
LEMMA ProviderWorksOnInstructions ==
  ASSUME TypeOK, [Next]_vars, NEW j \in JournalIds, j \in inFlight' \/ verdict'[j] # "none"
  PROVE  \/ j \in inFlight \/ verdict[j] # "none"
         \/ \E w \in Workers : Working(w, j)
<1>1. CASE inFlight' \subseteq inFlight /\ verdict' = verdict
  BY <1>1
<1>2. ASSUME NEW w \in Workers, SubmitEvent(w)
      PROVE  j \in inFlight \/ verdict[j] # "none" \/ Working(w, j)
  BY <1>2 DEF SubmitEvent, Working
<1>3. ASSUME NEW i \in JournalIds, ProviderProcesses(i)
      PROVE  j \in inFlight \/ verdict[j] # "none"
  BY <1>3 DEF ProviderProcesses, TypeOK
<1>4. ASSUME NEW i \in JournalIds, NEW v \in Verdicts, NEW b \in Bodies, NEW r \in Echoes,
             ProviderDecides(i, v, b, r)
      PROVE  j \in inFlight \/ verdict[j] # "none"
  BY <1>4 DEF ProviderDecides, ProviderStep, TypeOK
<1> USE DEF providerVars
<1>5. ASSUME NEW w \in Workers,
             \/ \E S \in SUBSET JournalIds : LeaseEvents(w, S)
             \/ SubmissionAcked(w) \/ SubmissionRefused(w)
             \/ SubmissionFailed(w) \/ MarkPublished(w) \/ PublishRollsBack(w)
             \/ RecordDispatchFailure(w) \/ FailureNotRecorded(w) \/ AbandonBatch(w)
      PROVE  inFlight' \subseteq inFlight /\ verdict' = verdict
  BY <1>5 DEF LeaseEvents, SubmissionAcked, SubmissionRefused, SubmissionFailed, MarkPublished,
              PublishRollsBack, RecordDispatchFailure, FailureNotRecorded, AbandonBatch
<1>6. ASSUME NEW i \in JournalIds, LeaseExpires(i) \/ BackoffElapses(i)
      PROVE  inFlight' \subseteq inFlight /\ verdict' = verdict
  BY <1>6 DEF LeaseExpires, BackoffElapses
<1>7. ASSUME NEW i \in JournalIds, NEW v \in Verdicts, NEW b \in Bodies, NEW r \in Echoes,
             ProviderMisaddresses(i, v, b, r)
      PROVE  inFlight' \subseteq inFlight /\ verdict' = verdict
  BY <1>7 DEF ProviderMisaddresses
<1>8. ASSUME NEW cb \in Callback,
             \/ \E b \in Bodies : ProviderAlters(cb, b)
             \/ PayloadMismatch(cb) \/ UnknownSettlement(cb) \/ ReferenceMismatch(cb)
             \/ ApplyTransition(cb) \/ TransitionAborts(cb)
      PROVE  inFlight' \subseteq inFlight /\ verdict' = verdict
  BY <1>8 DEF ProviderAlters, PayloadMismatch, UnknownSettlement, ReferenceMismatch,
              ApplyTransition, TransitionAborts
<1>9. ASSUME NEW c \in Commands, NEW i \in JournalIds, PostJournal(c, i) \/ ReplayJournal(c, i)
      PROVE  inFlight' \subseteq inFlight /\ verdict' = verdict
  BY <1>9 DEF PostJournal, ReplayJournal
<1>10. CASE UNCHANGED vars
  BY <1>1, <1>10, StutterKeepsAll
<1> HIDE DEF providerVars
<1> QED BY <1>1, <1>2, <1>3, <1>4, <1>5, <1>6, <1>7, <1>8, <1>9, <1>10, NextCases

(* A callback is about a settlement the provider has decided on, one it    *)
(* has reported on before, or one of another provider.                     *)
LEMMA CallbacksNameInstructions ==
  ASSUME TypeOK, [Next]_vars, NEW cb \in issued'
  PROVE  \/ \E c \in issued : c.journal = cb.journal
         \/ cb.journal \in JournalIds /\ verdict[cb.journal] # "none"
         \/ cb.journal \in Posted /\ HasSettlement(journal[cb.journal])
<1>1. CASE issued' = issued
  BY <1>1
<1>2. ASSUME NEW i \in JournalIds, NEW v \in Verdicts, NEW b \in Bodies, NEW r \in Echoes,
             ProviderDecides(i, v, b, r)
      PROVE  (\E c \in issued : c.journal = cb.journal)
               \/ (cb.journal \in JournalIds /\ verdict[cb.journal] # "none")
  BY <1>2 DEF ProviderDecides, ProviderStep
<1>3. ASSUME NEW i \in JournalIds, NEW v \in Verdicts, NEW b \in Bodies, NEW r \in Echoes,
             ProviderMisaddresses(i, v, b, r)
      PROVE  (\E c \in issued : c.journal = cb.journal)
               \/ (cb.journal \in Posted /\ HasSettlement(journal[cb.journal]))
  BY <1>3 DEF ProviderMisaddresses
<1>4. ASSUME NEW c \in Callback, NEW b \in Bodies, ProviderAlters(c, b)
      PROVE  \E d \in issued : d.journal = cb.journal
  <2>1. PICK d : d = [c EXCEPT !.body = b]
    OBVIOUS
  <2>2. d.journal = c.journal
    BY <2>1 DEF Callback
  <2> QED BY <1>4, <2>1, <2>2 DEF ProviderAlters
<1> USE DEF providerVars
<1>5. ASSUME NEW w \in Workers,
             \/ \E S \in SUBSET JournalIds : LeaseEvents(w, S)
             \/ SubmitEvent(w) \/ SubmissionAcked(w) \/ SubmissionRefused(w)
             \/ SubmissionFailed(w) \/ MarkPublished(w) \/ PublishRollsBack(w)
             \/ RecordDispatchFailure(w) \/ FailureNotRecorded(w) \/ AbandonBatch(w)
      PROVE  issued' = issued
  BY <1>5 DEF LeaseEvents, SubmitEvent, SubmissionAcked, SubmissionRefused, SubmissionFailed,
              MarkPublished, PublishRollsBack, RecordDispatchFailure, FailureNotRecorded,
              AbandonBatch
<1>6. ASSUME NEW i \in JournalIds,
             LeaseExpires(i) \/ BackoffElapses(i) \/ ProviderProcesses(i)
      PROVE  issued' = issued
  BY <1>6 DEF LeaseExpires, BackoffElapses, ProviderProcesses
<1>7. ASSUME NEW c \in Callback,
             \/ PayloadMismatch(c) \/ UnknownSettlement(c) \/ ReferenceMismatch(c)
             \/ ApplyTransition(c) \/ TransitionAborts(c)
      PROVE  issued' = issued
  BY <1>7 DEF PayloadMismatch, UnknownSettlement, ReferenceMismatch, ApplyTransition,
              TransitionAborts
<1>8. ASSUME NEW c \in Commands, NEW i \in JournalIds, PostJournal(c, i) \/ ReplayJournal(c, i)
      PROVE  issued' = issued
  BY <1>8 DEF PostJournal, ReplayJournal
<1>9. CASE UNCHANGED vars
  BY <1>1, <1>9, StutterKeepsAll
<1> HIDE DEF providerVars
<1> QED BY <1>1, <1>2, <1>3, <1>4, <1>5, <1>6, <1>7, <1>8, <1>9, NextCases

(* Whatever anybody acts on was committed with its journal.                *)
THEOREM InstructionsAreCommitted == Spec => []InstructionsExist
<1>1. Init => InstructionsExist
  BY NoCommandAssumption DEF Init, InstructionsExist, Working, Idle
<1>2. TypeOK /\ OutboxAgreesWithSettlement /\ InstructionsExist /\ [Next]_vars
        => InstructionsExist'
  <2> SUFFICES ASSUME TypeOK, OutboxAgreesWithSettlement, InstructionsExist, [Next]_vars
               PROVE  InstructionsExist'
    OBVIOUS
  <2>1. ASSUME NEW c \in Commands, NEW j \in JournalIds, PostJournal(c, j)
        PROVE  /\ \A i \in JournalIds :
                    settlement'[i] # "none"
                      <=> journal'[i] # NoCommand /\ HasSettlement(journal'[i])
               /\ \A i \in JournalIds : settlement[i] # "none" => settlement'[i] # "none"
    <3>1. c # NoCommand
      BY CommandsAssumption, NoCommandAssumption
    <3>2. settlement[j] = "none" /\ journal' = [journal EXCEPT ![j] = c]
      BY <2>1 DEF PostJournal, InstructionsExist
    <3>3. settlement' = IF HasSettlement(c) THEN [settlement EXCEPT ![j] = "pending"]
                                            ELSE settlement
      BY <2>1 DEF PostJournal
    <3> QED BY <3>1, <3>2, <3>3 DEF InstructionsExist, TypeOK
  <2>2. /\ \A i \in JournalIds :
             settlement'[i] # "none" <=> journal'[i] # NoCommand /\ HasSettlement(journal'[i])
        /\ \A i \in JournalIds : settlement[i] # "none" => settlement'[i] # "none"
    BY <2>1, SettlementsStay DEF InstructionsExist
  <2>3. \A w \in Workers, j \in JournalIds : Working(w, j)' => settlement'[j] # "none"
    <3> SUFFICES ASSUME NEW w \in Workers, NEW j \in JournalIds, Working(w, j)'
                 PROVE  settlement'[j] # "none"
      OBVIOUS
    <3>1. CASE Working(w, j)
      BY <2>2, <3>1 DEF InstructionsExist
    <3>2. ASSUME NEW S \in SUBSET JournalIds, LeaseEvents(w, S), j \in S
          PROVE  settlement'[j] # "none"
      <4>1. outbox[j].status # "none"
        BY <3>2 DEF LeaseEvents, Leasable
      <4> QED BY <2>2, <4>1 DEF OutboxAgreesWithSettlement
    <3> QED BY <3>1, <3>2, WorkIsLeased
  <2>4. \A j \in JournalIds : j \in inFlight' \/ verdict'[j] # "none" => settlement'[j] # "none"
    BY <2>2, ProviderWorksOnInstructions DEF InstructionsExist
  <2>5. \A cb \in issued' : settlement'[cb.journal] # "none"
    <3> SUFFICES ASSUME NEW cb \in issued' PROVE settlement'[cb.journal] # "none"
      OBVIOUS
    <3>1. \A c \in issued : c.journal \in JournalIds
      BY DEF TypeOK, Callback
    <3> QED BY <2>2, <3>1, CallbacksNameInstructions DEF InstructionsExist, Posted
  <2> QED BY <2>2, <2>3, <2>4, <2>5 DEF InstructionsExist
<1> QED BY <1>1, <1>2, TypeCorrect, OutboxAgrees, PTL DEF Spec

(* Published and dead-lettered rows are never touched again.               *)
THEOREM FinalRowsAreFinal == Spec => FinalRowsStay
<1> DEFINE Step == \A j \in JournalIds :
                     outbox[j].status \in {"published", "dead_letter"} => outbox'[j] = outbox[j]
<1>1. TypeOK /\ InstructionsExist /\ OutboxAgreesWithSettlement /\ [Next]_vars => [Step]_vars
  <2> SUFFICES ASSUME TypeOK, InstructionsExist, OutboxAgreesWithSettlement, [Next]_vars,
                      NEW j \in JournalIds, outbox[j].status \in {"published", "dead_letter"}
               PROVE  outbox'[j] = outbox[j]
    OBVIOUS
  <2>1. CASE settlement' = settlement /\ outbox' = outbox
    BY <2>1
  <2>2. ASSUME NEW c \in Commands, NEW i \in JournalIds, PostJournal(c, i)
        PROVE  outbox'[j] = outbox[j]
    <3>1. journal[i] = NoCommand /\ settlement[i] = "none"
      BY <2>2 DEF PostJournal, InstructionsExist
    <3>2. i # j
      BY <3>1 DEF OutboxAgreesWithSettlement
    <3> QED BY <2>2, <3>2 DEF PostJournal, TypeOK
  <2>3. ASSUME NEW w \in Workers, NEW S \in SUBSET JournalIds, LeaseEvents(w, S)
        PROVE  outbox'[j] = outbox[j]
    <3>1. j \notin S
      BY <2>3 DEF LeaseEvents, Leasable
    <3> QED BY <2>3, <3>1 DEF LeaseEvents
  <2>4. ASSUME NEW w \in Workers, MarkPublished(w) PROVE outbox'[j] = outbox[j]
    BY <2>4, Published
  <2>5. ASSUME NEW w \in Workers, RecordDispatchFailure(w) PROVE outbox'[j] = outbox[j]
    BY <2>5, FailureRecorded
  <2>6. ASSUME NEW i \in JournalIds, LeaseExpires(i) \/ BackoffElapses(i)
        PROVE  outbox'[j] = outbox[j]
    <3>1. i # j
      BY <2>6 DEF LeaseExpires, BackoffElapses
    <3> QED BY <2>6, <3>1, RowsTimed
  <2>7. ASSUME NEW cb \in Callback, ApplyTransition(cb) PROVE outbox'[j] = outbox[j]
    BY <2>7 DEF ApplyTransition
  <2> QED BY <2>1, <2>2, <2>3, <2>4, <2>5, <2>6, <2>7, Writers
<1> QED BY <1>1, TypeCorrect, OutboxAgrees, InstructionsAreCommitted, PTL DEF Spec, FinalRowsStay

-----------------------------------------------------------------------------
(* The service implements SettlementLifecycle.                             *)

(* A step of the lifecycle, or none, seen from the service.                *)
LifecycleStep == [Lifecycle!LifecycleNext]_(Lifecycle!lifecycleVars)

LEMMA SaidStays ==
  ASSUME issued' = issued
  PROVE  Said' = Said
BY DEF Said

LEMMA SaidGrows ==
  ASSUME NEW cb \in Callback, issued' = issued \cup {cb}
  PROVE  Said' = [Said EXCEPT ![cb.journal] = @ \cup {cb.type}]
<1> DEFINE said(I) == [j \in JournalIds |-> {c.type : c \in {d \in I : d.journal = j}}]
<1>1. ASSUME NEW j \in JournalIds
      PROVE  said(issued \cup {cb})[j] =
               IF j = cb.journal THEN said(issued)[j] \cup {cb.type} ELSE said(issued)[j]
  OBVIOUS
<1>2. Said = said(issued) /\ Said' = said(issued \cup {cb})
  BY DEF Said
<1>3. cb.journal \in JournalIds
  BY DEF Callback
<1> QED BY <1>1, <1>2, <1>3

(* The books move as the lifecycle says, whatever replicas and callbacks   *)
(* do to each other.                                                       *)
THEOREM ServiceImplementsLifecycle == Spec => ImplementsLifecycle
<1>1. Init => Lifecycle!LifecycleInit
  BY DEF Init, Lifecycle!LifecycleInit, Said
<1>2. TypeOK /\ InstructionsExist /\ [Next]_vars => LifecycleStep
  <2> SUFFICES ASSUME TypeOK, InstructionsExist, [Next]_vars PROVE LifecycleStep
    OBVIOUS
  <2> USE DEF LifecycleStep, Lifecycle!LifecycleNext, Lifecycle!lifecycleVars
  <2>1. CASE settlement' = settlement /\ issued' = issued
    BY <2>1, SaidStays
  <2>2. ASSUME NEW c \in Commands, NEW j \in JournalIds, PostJournal(c, j) PROVE LifecycleStep
    <3>1. settlement[j] = "none" /\ issued' = issued
      BY <2>2 DEF PostJournal, InstructionsExist, providerVars
    <3>2. settlement' = settlement \/ settlement' = [settlement EXCEPT ![j] = "pending"]
      BY <2>2 DEF PostJournal
    <3> QED BY <2>1, <3>1, <3>2, SaidStays DEF Lifecycle!Open
  <2>3. ASSUME NEW w \in Workers, MarkPublished(w) PROVE LifecycleStep
    <3>1. PICK j \in JournalIds : j = dispatcher[w].current.id
      BY <2>3, CurrentIsLeased DEF MarkPublished
    <3>2. /\ settlement[j] = "pending" /\ settlement' = [settlement EXCEPT ![j] = "submitted"]
          /\ issued' = issued
      BY <2>3, <3>1 DEF MarkPublished, StillPending, providerVars
    <3>3. Lifecycle!Submit(j)
      BY <3>2, SaidStays DEF Lifecycle!Submit
    <3> QED BY <3>3
  <2>4. ASSUME NEW cb \in Callback, issued' = issued \cup {cb}, settlement' = settlement,
               settlement[cb.journal] # "none"
        PROVE  LifecycleStep
    <3>1. cb.journal \in JournalIds /\ cb.type \in Lifecycle!Reports
      BY DEF Callback, CallbackTypes, Lifecycle!Reports
    <3>2. Lifecycle!Report(cb.journal, cb.type)
      BY <2>4, SaidGrows DEF Lifecycle!Report
    <3> QED BY <3>1, <3>2
  <2>5. ASSUME NEW j \in JournalIds, NEW v \in Verdicts, NEW b \in Bodies, NEW r \in Echoes,
               ProviderDecides(j, v, b, r) \/ ProviderMisaddresses(j, v, b, r)
        PROVE  LifecycleStep
    <3>1. PICK cb : cb = [journal |-> j, type |-> v, body |-> b, echo |-> r]
      OBVIOUS
    <3>2. cb \in Callback /\ cb.journal = j
      BY <3>1, VerdictsAssumption, EchoesAssumption DEF Callback
    <3>3. issued' = issued \cup {cb} /\ settlement' = settlement
      BY <2>5, <3>1 DEF ProviderDecides, ProviderMisaddresses
    <3>4. settlement[j] # "none"
      BY <2>5 DEF ProviderDecides, ProviderStep, ProviderMisaddresses, InstructionsExist, Posted
    <3> QED BY <2>4, <3>2, <3>3, <3>4
  <2>6. ASSUME NEW c \in Callback, NEW b \in Bodies, ProviderAlters(c, b) PROVE LifecycleStep
    <3>1. PICK cb : cb = [c EXCEPT !.body = b]
      OBVIOUS
    <3>2. cb \in Callback /\ cb.journal = c.journal
      BY <3>1 DEF Callback
    <3>3. issued' = issued \cup {cb} /\ settlement' = settlement /\ c \in issued
      BY <2>6, <3>1 DEF ProviderAlters
    <3>4. settlement[cb.journal] # "none"
      BY <3>2, <3>3 DEF InstructionsExist
    <3> QED BY <2>4, <3>2, <3>3, <3>4
  <2>7. ASSUME NEW cb \in Callback, ApplyTransition(cb) PROVE LifecycleStep
    <3>1. cb.journal \in JournalIds /\ cb.type \in Lifecycle!Reports
      BY DEF Callback, CallbackTypes, Lifecycle!Reports
    <3>2. /\ cb \in issued /\ issued' = issued
          /\ TransitionAllowed(settlement[cb.journal], cb.type)
          /\ settlement' = [settlement EXCEPT ![cb.journal] = cb.type]
      BY <2>7 DEF ApplyTransition, providerVars
    <3>3. cb.type \in Said[cb.journal]
      BY <3>1, <3>2 DEF Said
    <3>4. settlement[cb.journal] \in Lifecycle!Before(cb.type)
      BY <3>1, <3>2 DEF TransitionAllowed, Lifecycle!Before, Lifecycle!Reports
    <3>5. Lifecycle!Record(cb.journal, cb.type)
      BY <3>2, <3>3, <3>4, SaidStays DEF Lifecycle!Record
    <3> QED BY <3>1, <3>5
  <2> HIDE DEF LifecycleStep
  <2>8. ASSUME NEW w \in Workers,
               \/ \E S \in SUBSET JournalIds : LeaseEvents(w, S)
               \/ SubmitEvent(w) \/ SubmissionAcked(w) \/ SubmissionRefused(w)
               \/ SubmissionFailed(w) \/ PublishRollsBack(w) \/ RecordDispatchFailure(w)
               \/ FailureNotRecorded(w) \/ AbandonBatch(w)
        PROVE  settlement' = settlement /\ issued' = issued
    BY <2>8 DEF LeaseEvents, SubmitEvent, SubmissionAcked, SubmissionRefused, SubmissionFailed,
                PublishRollsBack, RecordDispatchFailure, FailureNotRecorded, AbandonBatch,
                providerVars
  <2>9. ASSUME NEW j \in JournalIds,
               LeaseExpires(j) \/ BackoffElapses(j) \/ ProviderProcesses(j)
        PROVE  settlement' = settlement /\ issued' = issued
    BY <2>9 DEF LeaseExpires, BackoffElapses, ProviderProcesses, providerVars
  <2>10. ASSUME NEW cb \in Callback,
                \/ PayloadMismatch(cb) \/ UnknownSettlement(cb) \/ ReferenceMismatch(cb)
                \/ TransitionAborts(cb)
         PROVE  settlement' = settlement /\ issued' = issued
    BY <2>10 DEF PayloadMismatch, UnknownSettlement, ReferenceMismatch, TransitionAborts,
                 providerVars
  <2>11. ASSUME NEW c \in Commands, NEW j \in JournalIds, ReplayJournal(c, j)
         PROVE  settlement' = settlement /\ issued' = issued
    BY <2>11 DEF ReplayJournal, providerVars
  <2>12. CASE UNCHANGED vars
    BY <2>1, <2>12, StutterKeepsAll
  <2> QED BY <2>1, <2>2, <2>3, <2>5, <2>6, <2>7, <2>8, <2>9, <2>10, <2>11, <2>12, NextCases
<1> QED
  BY <1>1, <1>2, TypeCorrect, InstructionsAreCommitted, PTL
  DEF Spec, ImplementsLifecycle, Lifecycle!Spec, LifecycleStep

-----------------------------------------------------------------------------
(* What a client may believe, what a published row means, how far leases   *)
(* and attempt counts can be trusted, and that the books never run ahead of*)
(* the provider.                                                           *)

(* Only clients write journals and get answers.                            *)
LEMMA ClientSteps ==
  ASSUME [Next]_vars
  PROVE  \/ \E c \in Commands, j \in JournalIds : PostJournal(c, j)
         \/ \E c \in Commands, j \in JournalIds : ReplayJournal(c, j)
         \/ journal' = journal /\ answers' = answers
<1> USE DEF clientVars
<1>1. ASSUME NEW w \in Workers,
             \/ \E S \in SUBSET JournalIds : LeaseEvents(w, S)
             \/ SubmitEvent(w) \/ SubmissionAcked(w) \/ SubmissionRefused(w)
             \/ SubmissionFailed(w) \/ MarkPublished(w) \/ PublishRollsBack(w)
             \/ RecordDispatchFailure(w) \/ FailureNotRecorded(w) \/ AbandonBatch(w)
      PROVE  journal' = journal /\ answers' = answers
  BY <1>1 DEF LeaseEvents, SubmitEvent, SubmissionAcked, SubmissionRefused, SubmissionFailed,
              MarkPublished, PublishRollsBack, RecordDispatchFailure, FailureNotRecorded,
              AbandonBatch
<1>2. ASSUME NEW j \in JournalIds,
             LeaseExpires(j) \/ BackoffElapses(j) \/ ProviderProcesses(j)
      PROVE  journal' = journal /\ answers' = answers
  BY <1>2 DEF LeaseExpires, BackoffElapses, ProviderProcesses
<1>3. ASSUME NEW j \in JournalIds, NEW v \in Verdicts, NEW b \in Bodies, NEW r \in Echoes,
             ProviderDecides(j, v, b, r) \/ ProviderMisaddresses(j, v, b, r)
      PROVE  journal' = journal /\ answers' = answers
  BY <1>3 DEF ProviderDecides, ProviderMisaddresses
<1>4. ASSUME NEW cb \in Callback,
             \/ \E b \in Bodies : ProviderAlters(cb, b)
             \/ PayloadMismatch(cb) \/ UnknownSettlement(cb) \/ ReferenceMismatch(cb)
             \/ ApplyTransition(cb) \/ TransitionAborts(cb)
      PROVE  journal' = journal /\ answers' = answers
  BY <1>4 DEF ProviderAlters, PayloadMismatch, UnknownSettlement, ReferenceMismatch,
              ApplyTransition, TransitionAborts
<1>5. CASE UNCHANGED vars
  BY <1>5, StutterKeepsAll
<1> HIDE DEF clientVars
<1> QED BY <1>1, <1>2, <1>3, <1>4, <1>5, NextCases

(* A payment command is idempotent within its tenant.                      *)
THEOREM KeysNameOneJournal == Spec => []OneJournalPerKey
<1>1. Init => OneJournalPerKey
  BY DEF Init, OneJournalPerKey, Posted
<1>2. TypeOK /\ OneJournalPerKey /\ [Next]_vars => OneJournalPerKey'
  <2> SUFFICES ASSUME TypeOK, OneJournalPerKey, [Next]_vars PROVE OneJournalPerKey'
    OBVIOUS
  <2> USE DEF OneJournalPerKey, Posted
  <2>1. CASE journal' = journal
    BY <2>1
  <2>2. ASSUME NEW c \in Commands, NEW j \in JournalIds, PostJournal(c, j)
        PROVE  OneJournalPerKey'
    BY <2>2 DEF PostJournal, KeyFree, SameCommandKey, TypeOK
  <2>3. ASSUME NEW c \in Commands, NEW j \in JournalIds, ReplayJournal(c, j)
        PROVE  journal' = journal
    BY <2>3 DEF ReplayJournal
  <2> QED BY <2>1, <2>2, <2>3, ClientSteps
<1> QED BY <1>1, <1>2, TypeCorrect, PTL DEF Spec

(* A client that was told "posted" finds the command it sent.              *)
THEOREM AnswersAreTrue == Spec => []AnswersNameTheCommand
<1>1. Init => AnswersNameTheCommand
  BY DEF Init, AnswersNameTheCommand
<1>2. TypeOK /\ AnswersNameTheCommand /\ [Next]_vars => AnswersNameTheCommand'
  <2> SUFFICES ASSUME TypeOK, AnswersNameTheCommand, [Next]_vars
               PROVE  AnswersNameTheCommand'
    OBVIOUS
  <2> USE DEF AnswersNameTheCommand
  <2>1. CASE journal' = journal /\ answers' = answers
    BY <2>1
  <2>2. ASSUME NEW c \in Commands, NEW j \in JournalIds, PostJournal(c, j)
        PROVE  AnswersNameTheCommand'
    <3>1. \A a \in answers : a.journal \in JournalIds /\ a.journal # j
      BY <2>2, CommandsAssumption, NoCommandAssumption DEF PostJournal, TypeOK
    <3>2. answers' \subseteq answers \cup {[command |-> c, journal |-> j]}
      BY <2>2 DEF PostJournal
    <3>3. journal' = [journal EXCEPT ![j] = c] /\ journal'[j] = c
      BY <2>2 DEF PostJournal, TypeOK
    <3> QED BY <3>1, <3>2, <3>3 DEF TypeOK
  <2>3. ASSUME NEW c \in Commands, NEW j \in JournalIds, ReplayJournal(c, j)
        PROVE  AnswersNameTheCommand'
    <3>1. journal[j] \in CommandType /\ c \in CommandType
      BY <2>3, CommandsAssumption DEF ReplayJournal, Posted, TypeOK
    <3>2. journal[j] = c
      BY <2>3, <3>1 DEF ReplayJournal, SameCommandKey, CommandHash, CommandType
    <3> QED BY <2>3, <3>2 DEF ReplayJournal
  <2> QED BY <2>1, <2>2, <2>3, ClientSteps
<1> QED BY <1>1, <1>2, TypeCorrect, PTL DEF Spec

-----------------------------------------------------------------------------
(* The provider.                                                           *)

(* What the provider has executed stays executed, and its journal stays.   *)
LEMMA VerdictSteps ==
  ASSUME TypeOK, InstructionsExist, [Next]_vars
  PROVE  \/ verdict' = verdict
         \/ \E j \in JournalIds :
              /\ verdict[j] = "none" /\ verdict' = [verdict EXCEPT ![j] = "received"]
              /\ issued' = issued
         \/ \E j \in JournalIds, v \in Verdicts, b \in Bodies, r \in Echoes :
              ProviderDecides(j, v, b, r)
<1> USE DEF providerVars
<1>1. ASSUME NEW j \in JournalIds, ProviderProcesses(j)
      PROVE  \/ verdict' = verdict
             \/ /\ verdict[j] = "none" /\ verdict' = [verdict EXCEPT ![j] = "received"]
                /\ issued' = issued
  <2>1. CASE KeyTaken(j)
    BY <1>1, <2>1 DEF ProviderProcesses
  <2>2. CASE ~ KeyTaken(j)
    <3>1. j \in Posted
      BY <1>1 DEF ProviderProcesses, InstructionsExist, Posted
    <3>2. verdict[j] = "none"
      BY <2>2, <3>1 DEF KeyTaken
    <3> QED BY <1>1, <2>2, <3>2 DEF ProviderProcesses
  <2> QED BY <2>1, <2>2
<1>2. ASSUME NEW w \in Workers,
             \/ \E S \in SUBSET JournalIds : LeaseEvents(w, S)
             \/ SubmitEvent(w) \/ SubmissionAcked(w) \/ SubmissionRefused(w)
             \/ SubmissionFailed(w) \/ MarkPublished(w) \/ PublishRollsBack(w)
             \/ RecordDispatchFailure(w) \/ FailureNotRecorded(w) \/ AbandonBatch(w)
      PROVE  verdict' = verdict
  BY <1>2 DEF LeaseEvents, SubmitEvent, SubmissionAcked, SubmissionRefused, SubmissionFailed,
              MarkPublished, PublishRollsBack, RecordDispatchFailure, FailureNotRecorded,
              AbandonBatch
<1>3. ASSUME NEW j \in JournalIds, LeaseExpires(j) \/ BackoffElapses(j)
      PROVE  verdict' = verdict
  BY <1>3 DEF LeaseExpires, BackoffElapses
<1>4. ASSUME NEW j \in JournalIds, NEW v \in Verdicts, NEW b \in Bodies, NEW r \in Echoes,
             ProviderMisaddresses(j, v, b, r)
      PROVE  verdict' = verdict
  BY <1>4 DEF ProviderMisaddresses
<1>5. ASSUME NEW cb \in Callback,
             \/ \E b \in Bodies : ProviderAlters(cb, b)
             \/ PayloadMismatch(cb) \/ UnknownSettlement(cb) \/ ReferenceMismatch(cb)
             \/ ApplyTransition(cb) \/ TransitionAborts(cb)
      PROVE  verdict' = verdict
  BY <1>5 DEF ProviderAlters, PayloadMismatch, UnknownSettlement, ReferenceMismatch,
              ApplyTransition, TransitionAborts
<1>6. ASSUME NEW c \in Commands, NEW j \in JournalIds, PostJournal(c, j) \/ ReplayJournal(c, j)
      PROVE  verdict' = verdict
  BY <1>6 DEF PostJournal, ReplayJournal
<1>7. CASE UNCHANGED vars
  BY <1>7, StutterKeepsAll
<1> HIDE DEF providerVars
<1> QED BY <1>1, <1>2, <1>3, <1>4, <1>5, <1>6, <1>7, NextCases

(* An executed key stays taken.                                            *)
LEMMA KeysStayTaken ==
  ASSUME TypeOK, InstructionsExist, [Next]_vars, NEW j \in Posted, KeyTaken(j)
  PROVE  KeyTaken(j)'
<1>1. PICK i \in Posted : verdict[i] # "none" /\ journal[i].key = journal[j].key
  BY DEF KeyTaken
<1>2. verdict'[i] # "none"
  <2>1. ASSUME NEW k \in JournalIds, NEW v \in Verdicts, NEW b \in Bodies, NEW r \in Echoes,
               ProviderDecides(k, v, b, r)
        PROVE  verdict'[i] # "none"
    BY <1>1, <2>1 DEF ProviderDecides, ProviderStep, TypeOK, Posted
  <2> QED BY <1>1, <2>1, VerdictSteps DEF TypeOK, Posted
<1>3. \A k \in Posted : k \in Posted' /\ journal'[k] = journal[k]
  <2>1. ASSUME NEW c \in Commands, NEW k \in JournalIds, PostJournal(c, k)
        PROVE  \A l \in Posted : l \in Posted' /\ journal'[l] = journal[l]
    BY <2>1 DEF PostJournal, Posted, TypeOK
  <2> QED BY <2>1, SettlementsStay DEF Posted
<1> QED BY <1>1, <1>2, <1>3 DEF KeyTaken

(* An acknowledgement in hand is new or was in hand before.                *)
LEMMA AckedSteps ==
  ASSUME TypeOK, [Next]_vars, NEW w \in Workers, dispatcher'[w].stage = "acked"
  PROVE  /\ dispatcher'[w].current = dispatcher[w].current
         /\ dispatcher[w].stage = "acked" \/ SubmissionAcked(w)
<1>1. CASE dispatcher' = dispatcher
  BY <1>1
<1>2. ASSUME NEW v \in Workers, NEW S \in SUBSET JournalIds, LeaseEvents(v, S)
      PROVE  dispatcher'[w] = dispatcher[w]
  BY <1>2 DEF LeaseEvents, TypeOK
<1>3. ASSUME NEW v \in Workers, SubmitEvent(v) PROVE dispatcher'[w] = dispatcher[w]
  BY <1>3 DEF SubmitEvent, TypeOK
<1>4. ASSUME NEW v \in Workers, NEW from \in Stages, NEW to \in Stages, MoveStage(v, from, to)
      PROVE  /\ dispatcher'[w].current = dispatcher[w].current
             /\ dispatcher'[w].stage = dispatcher[w].stage \/ (v = w /\ to = "acked")
  BY <1>4 DEF MoveStage, TypeOK, DispatcherState
<1>5. ASSUME NEW v \in Workers,
             dispatcher' = [dispatcher EXCEPT ![v] =
                              [@ EXCEPT !.current = NoEvent, !.stage = "ready"]]
      PROVE  dispatcher'[w] = dispatcher[w]
  <2>1. PICK e : e = [dispatcher[v] EXCEPT !.current = NoEvent, !.stage = "ready"]
    OBVIOUS
  <2>2. dispatcher[v] \in DispatcherState
    BY DEF TypeOK
  <2>3. e.stage = "ready"
    BY <2>1, <2>2 DEF DispatcherState
  <2>4. dispatcher' = [dispatcher EXCEPT ![v] = e]
    BY <1>5, <2>1
  <2> QED BY <2>3, <2>4 DEF TypeOK
<1>6. ASSUME NEW v \in Workers, AbandonBatch(v) PROVE dispatcher'[w] = dispatcher[w]
  BY <1>6 DEF AbandonBatch, Idle, TypeOK
<1>7. ASSUME NEW v \in Workers, SubmissionAcked(v)
      PROVE  /\ dispatcher'[w].current = dispatcher[w].current
             /\ dispatcher[w].stage = "acked" \/ SubmissionAcked(w)
  BY <1>4, <1>7 DEF SubmissionAcked, Stages
<1>8. ASSUME NEW v \in Workers,
             SubmissionRefused(v) \/ SubmissionFailed(v) \/ PublishRollsBack(v)
      PROVE  /\ dispatcher'[w].current = dispatcher[w].current
             /\ dispatcher[w].stage = "acked"
  BY <1>4, <1>8 DEF SubmissionRefused, SubmissionFailed, PublishRollsBack, Stages
<1>9. ASSUME NEW v \in Workers,
             MarkPublished(v) \/ RecordDispatchFailure(v) \/ FailureNotRecorded(v)
      PROVE  dispatcher'[w] = dispatcher[w]
  BY <1>5, <1>9 DEF MarkPublished, RecordDispatchFailure, FailureNotRecorded
<1>10. ASSUME NEW i \in JournalIds,
              LeaseExpires(i) \/ BackoffElapses(i) \/ ProviderProcesses(i)
       PROVE  dispatcher' = dispatcher
  BY <1>10 DEF LeaseExpires, BackoffElapses, ProviderProcesses
<1>11. ASSUME NEW i \in JournalIds, NEW v \in Verdicts, NEW b \in Bodies, NEW r \in Echoes,
              ProviderDecides(i, v, b, r) \/ ProviderMisaddresses(i, v, b, r)
       PROVE  dispatcher' = dispatcher
  BY <1>11 DEF ProviderDecides, ProviderMisaddresses
<1>12. ASSUME NEW cb \in Callback,
              \/ \E b \in Bodies : ProviderAlters(cb, b)
              \/ PayloadMismatch(cb) \/ UnknownSettlement(cb) \/ ReferenceMismatch(cb)
              \/ ApplyTransition(cb) \/ TransitionAborts(cb)
       PROVE  dispatcher' = dispatcher
  BY <1>12 DEF ProviderAlters, PayloadMismatch, UnknownSettlement, ReferenceMismatch,
               ApplyTransition, TransitionAborts
<1>13. ASSUME NEW c \in Commands, NEW i \in JournalIds, PostJournal(c, i) \/ ReplayJournal(c, i)
       PROVE  dispatcher' = dispatcher
  BY <1>13 DEF PostJournal, ReplayJournal
<1>14. CASE UNCHANGED vars
  BY <1>1, <1>14, StutterKeepsAll
<1> QED BY <1>1, <1>2, <1>3, <1>6, <1>7, <1>8, <1>9, <1>10, <1>11, <1>12, <1>13, <1>14, NextCases

(* Only an acknowledged submission is published.                           *)
LEMMA PublishedIsNew ==
  ASSUME TypeOK, [Next]_vars, NEW j \in JournalIds, outbox'[j].status = "published"
  PROVE  \/ outbox[j].status = "published"
         \/ \E w \in Workers : dispatcher[w].stage = "acked" /\ dispatcher[w].current.id = j
<1>1. CASE settlement' = settlement /\ outbox' = outbox
  BY <1>1
<1>2. ASSUME NEW c \in Commands, NEW i \in JournalIds, PostJournal(c, i)
      PROVE  outbox[j].status = "published"
  BY <1>2 DEF PostJournal, NewRow, TypeOK
<1>3. ASSUME NEW w \in Workers, NEW S \in SUBSET JournalIds, LeaseEvents(w, S)
      PROVE  outbox[j].status = "published"
  BY <1>3 DEF LeaseEvents
<1>4. ASSUME NEW w \in Workers, MarkPublished(w)
      PROVE  \/ outbox[j].status = "published"
             \/ dispatcher[w].stage = "acked" /\ dispatcher[w].current.id = j
  <2>1. dispatcher[w].stage = "acked"
    BY <1>4 DEF MarkPublished
  <2>2. j # dispatcher[w].current.id => outbox'[j] = outbox[j]
    BY <1>4, Published
  <2> QED BY <2>1, <2>2
<1>5. ASSUME NEW w \in Workers, RecordDispatchFailure(w)
      PROVE  outbox[j].status = "published"
  BY <1>5, FailureRecorded
<1>6. ASSUME NEW i \in JournalIds, LeaseExpires(i) \/ BackoffElapses(i)
      PROVE  outbox[j].status = "published"
  BY <1>6, RowsTimed
<1>7. ASSUME NEW cb \in Callback, ApplyTransition(cb)
      PROVE  outbox[j].status = "published"
  BY <1>7 DEF ApplyTransition
<1> QED BY <1>1, <1>2, <1>3, <1>4, <1>5, <1>6, <1>7, Writers

(* A row is published only after its key was executed: an acknowledgement  *)
(* in hand vouches for it until markPublished commits.                     *)
THEOREM PublishedMeansExecuted == Spec => [](AckedWasExecuted /\ PublishedWasExecuted)
<1>1. Init => AckedWasExecuted /\ PublishedWasExecuted
  BY DEF Init, AckedWasExecuted, PublishedWasExecuted, Idle, EmptyRow
<1>2. TypeOK /\ InstructionsExist /\ OutboxAgreesWithSettlement /\ [Next]_vars
        /\ AckedWasExecuted /\ PublishedWasExecuted
        => AckedWasExecuted' /\ PublishedWasExecuted'
  <2> SUFFICES ASSUME TypeOK, InstructionsExist, OutboxAgreesWithSettlement, [Next]_vars,
                      AckedWasExecuted, PublishedWasExecuted
               PROVE  AckedWasExecuted' /\ PublishedWasExecuted'
    OBVIOUS
  <2>1. \A j \in JournalIds : settlement[j] # "none" => j \in Posted
    BY DEF InstructionsExist, Posted
  <2>2. ASSUME NEW w \in Workers, dispatcher[w].stage = "acked"
        PROVE  dispatcher[w].current.id \in Posted
    BY <2>1, <2>2, CurrentIsLeased DEF InstructionsExist, Working
  <2>3. ASSUME NEW w \in Workers, dispatcher'[w].stage = "acked"
        PROVE  KeyTaken(dispatcher[w].current.id)'
    <3>1. dispatcher[w].current.id \in Posted
      <4>1. dispatcher[w].stage # "ready"
        BY <2>3, AckedSteps DEF SubmissionAcked, MoveStage
      <4> QED BY <2>1, <4>1, CurrentIsLeased DEF InstructionsExist, Working
    <3>2. PICK j \in Posted : j = dispatcher[w].current.id
      BY <3>1
    <3>3. KeyTaken(j)
      BY <2>3, <3>2, AckedSteps DEF AckedWasExecuted, SubmissionAcked
    <3>4. KeyTaken(j)'
      BY <3>3, KeysStayTaken
    <3>5. j = dispatcher'[w].current.id
      BY <2>3, <3>2, AckedSteps
    <3> QED BY <3>4, <3>5 DEF KeyTaken
  <2>4. ASSUME NEW j \in JournalIds, outbox'[j].status = "published"
        PROVE  KeyTaken(j)'
    <3>1. CASE outbox[j].status = "published"
      <4>1. j \in Posted
        BY <2>1, <3>1 DEF OutboxAgreesWithSettlement
      <4> QED BY <3>1, <4>1, KeysStayTaken DEF PublishedWasExecuted
    <3>2. ASSUME NEW w \in Workers, dispatcher[w].stage = "acked", dispatcher[w].current.id = j
          PROVE  KeyTaken(j)'
      BY <2>2, <3>2, KeysStayTaken DEF AckedWasExecuted
    <3> QED BY <2>4, <3>1, <3>2, PublishedIsNew
  <2> QED BY <2>3, <2>4 DEF AckedWasExecuted, PublishedWasExecuted
<1> QED BY <1>1, <1>2, TypeCorrect, OutboxAgrees, InstructionsAreCommitted, PTL DEF Spec

-----------------------------------------------------------------------------
(* Callbacks.                                                              *)

(* What the provider reports is new or was reported before.                *)
LEMMA IssuedIsNew ==
  ASSUME TypeOK, [Next]_vars, NEW cb \in issued'
  PROVE  \/ \E c \in issued : c.journal = cb.journal /\ c.type = cb.type
         \/ \E j \in JournalIds, v \in Verdicts, b \in Bodies, r \in Echoes :
              /\ ProviderDecides(j, v, b, r) \/ ProviderMisaddresses(j, v, b, r)
              /\ cb.journal = j /\ cb.type = v
<1>1. CASE issued' = issued
  BY <1>1
<1>2. ASSUME NEW j \in JournalIds, NEW v \in Verdicts, NEW b \in Bodies, NEW r \in Echoes,
             ProviderDecides(j, v, b, r) \/ ProviderMisaddresses(j, v, b, r)
      PROVE  \/ \E c \in issued : c.journal = cb.journal /\ c.type = cb.type
             \/ cb.journal = j /\ cb.type = v
  BY <1>2 DEF ProviderDecides, ProviderMisaddresses
<1>3. ASSUME NEW c \in Callback, NEW b \in Bodies, ProviderAlters(c, b)
      PROVE  \E d \in issued : d.journal = cb.journal /\ d.type = cb.type
  <2>1. PICK d : d = [c EXCEPT !.body = b]
    OBVIOUS
  <2>2. d.journal = c.journal /\ d.type = c.type
    BY <2>1 DEF Callback
  <2> QED BY <1>3, <2>1, <2>2 DEF ProviderAlters
<1> USE DEF providerVars
<1>4. ASSUME NEW w \in Workers,
             \/ \E S \in SUBSET JournalIds : LeaseEvents(w, S)
             \/ SubmitEvent(w) \/ SubmissionAcked(w) \/ SubmissionRefused(w)
             \/ SubmissionFailed(w) \/ MarkPublished(w) \/ PublishRollsBack(w)
             \/ RecordDispatchFailure(w) \/ FailureNotRecorded(w) \/ AbandonBatch(w)
      PROVE  issued' = issued
  BY <1>4 DEF LeaseEvents, SubmitEvent, SubmissionAcked, SubmissionRefused, SubmissionFailed,
              MarkPublished, PublishRollsBack, RecordDispatchFailure, FailureNotRecorded,
              AbandonBatch
<1>5. ASSUME NEW j \in JournalIds,
             LeaseExpires(j) \/ BackoffElapses(j) \/ ProviderProcesses(j)
      PROVE  issued' = issued
  BY <1>5 DEF LeaseExpires, BackoffElapses, ProviderProcesses
<1>6. ASSUME NEW c \in Callback,
             \/ PayloadMismatch(c) \/ UnknownSettlement(c) \/ ReferenceMismatch(c)
             \/ ApplyTransition(c) \/ TransitionAborts(c)
      PROVE  issued' = issued
  BY <1>6 DEF PayloadMismatch, UnknownSettlement, ReferenceMismatch, ApplyTransition,
              TransitionAborts
<1>7. ASSUME NEW c \in Commands, NEW j \in JournalIds, PostJournal(c, j) \/ ReplayJournal(c, j)
      PROVE  issued' = issued
  BY <1>7 DEF PostJournal, ReplayJournal
<1>8. CASE UNCHANGED vars
  BY <1>1, <1>8, StutterKeepsAll
<1> HIDE DEF providerVars
<1> QED BY <1>1, <1>2, <1>3, <1>4, <1>5, <1>6, <1>7, <1>8, NextCases

(* What a decision of the provider says of a settlement in its books: it   *)
(* has been taken, and only a settled payment is still reversed.           *)
Vouched(type, v) ==
  /\ type = "accepted" => v \in CallbackTypes
  /\ type = "settled" => v \in {"settled", "reversed"}
  /\ type = "rejected" => v = "rejected"
  /\ type = "reversed" => v = "reversed"

LEMMA VouchedStays ==
  ASSUME TypeOK, InstructionsExist, [Next]_vars, NEW j \in JournalIds,
         NEW type \in CallbackTypes, Vouched(type, verdict[j])
  PROVE  Vouched(type, verdict'[j])
<1> USE DEF Vouched, CallbackTypes
<1>1. CASE verdict' = verdict
  BY <1>1
<1>2. ASSUME NEW i \in JournalIds, verdict[i] = "none",
             verdict' = [verdict EXCEPT ![i] = "received"]
      PROVE  Vouched(type, verdict'[j])
  BY <1>2 DEF TypeOK
<1>3. ASSUME NEW i \in JournalIds, NEW v \in Verdicts, NEW b \in Bodies, NEW r \in Echoes,
             ProviderDecides(i, v, b, r)
      PROVE  Vouched(type, verdict'[j])
  <2>1. verdict' = [verdict EXCEPT ![i] = v] /\ ProviderStep(verdict[i], v)
    BY <1>3 DEF ProviderDecides
  <2>2. ASSUME i = j PROVE Vouched(type, verdict'[j])
    BY <2>1, <2>2 DEF ProviderStep, TypeOK
  <2> QED BY <2>1, <2>2 DEF TypeOK
<1> QED BY <1>1, <1>2, <1>3, VerdictSteps

(* The books stay behind the provider: a callback reports a decision, and  *)
(* the provider does not take it back.                                     *)
THEOREM BooksStayBehind == Spec => [](ReportsFollowVerdict /\ BooksFollowProvider)
<1>1. Init => ReportsFollowVerdict /\ BooksFollowProvider
  BY DEF Init, ReportsFollowVerdict, BooksFollowProvider
<1>2. TypeOK /\ InstructionsExist /\ [Next]_vars /\ ReportsFollowVerdict
        => ReportsFollowVerdict'
  <2> SUFFICES ASSUME TypeOK, InstructionsExist, [Next]_vars, ReportsFollowVerdict,
                      NEW cb \in issued', OwnSettlement(cb)'
               PROVE  Vouched(cb.type, verdict'[cb.journal])
    BY DEF ReportsFollowVerdict, Vouched
  <2>1. ASSUME NEW c \in issued, c.journal = cb.journal, c.type = cb.type
        PROVE  Vouched(cb.type, verdict'[cb.journal])
    <3>1. c.journal \in JournalIds /\ c.type \in CallbackTypes
      BY DEF TypeOK, Callback
    <3>2. journal'[c.journal] = journal[c.journal]
      <4>1. c.journal \in Posted
        BY <3>1 DEF InstructionsExist, Posted
      <4>2. ASSUME NEW d \in Commands, NEW k \in JournalIds, PostJournal(d, k)
            PROVE  journal'[c.journal] = journal[c.journal]
        BY <4>1, <4>2 DEF PostJournal, Posted, TypeOK
      <4> QED BY <4>2, SettlementsStay
    <3>3. Vouched(c.type, verdict[c.journal])
      BY <2>1, <3>2 DEF ReportsFollowVerdict, OwnSettlement, Vouched
    <3> QED BY <2>1, <3>1, <3>3, VouchedStays
  <2>2. ASSUME NEW j \in JournalIds, NEW v \in Verdicts, NEW b \in Bodies, NEW r \in Echoes,
               ProviderDecides(j, v, b, r), cb.journal = j, cb.type = v
        PROVE  Vouched(cb.type, verdict'[cb.journal])
    BY <2>2, VerdictsAssumption DEF ProviderDecides, TypeOK, Vouched, CallbackTypes
  <2>3. ASSUME NEW j \in JournalIds, NEW v \in Verdicts, NEW b \in Bodies, NEW r \in Echoes,
               ProviderMisaddresses(j, v, b, r), cb.journal = j
        PROVE  FALSE
    BY <2>3 DEF ProviderMisaddresses, OwnSettlement, clientVars
  <2> QED BY <2>1, <2>2, <2>3, IssuedIsNew
<1>3. TypeOK /\ InstructionsExist /\ [Next]_vars /\ ReportsFollowVerdict /\ BooksFollowProvider
        => BooksFollowProvider'
  <2> SUFFICES ASSUME TypeOK, InstructionsExist, [Next]_vars, ReportsFollowVerdict,
                      BooksFollowProvider, NEW j \in JournalIds,
                      settlement'[j] \in CallbackTypes
               PROVE  Vouched(settlement'[j], verdict'[j])
    BY DEF BooksFollowProvider, Vouched, CallbackTypes
  <2>1. CASE settlement'[j] = settlement[j]
    <3>1. Vouched(settlement[j], verdict[j])
      BY <2>1 DEF BooksFollowProvider, Vouched, CallbackTypes
    <3> QED BY <2>1, <3>1, VouchedStays
  <2>2. ASSUME NEW c \in Commands, NEW i \in JournalIds, PostJournal(c, i)
        PROVE  settlement'[j] = settlement[j]
    BY <2>2 DEF PostJournal, TypeOK, CallbackTypes
  <2>3. ASSUME NEW w \in Workers, MarkPublished(w) PROVE settlement'[j] = settlement[j]
    BY <2>3, Published DEF CallbackTypes
  <2>4. ASSUME NEW cb \in Callback, ApplyTransition(cb)
        PROVE  Vouched(settlement'[j], verdict'[j])
    <3>1. cb.journal \in JournalIds /\ cb.type \in CallbackTypes
      BY DEF Callback
    <3>2. CASE j = cb.journal
      <4>1. Vouched(cb.type, verdict[cb.journal])
        BY <2>4 DEF ApplyTransition, ReportsFollowVerdict, Vouched
      <4>2. settlement'[j] = cb.type
        BY <2>4, <3>2 DEF ApplyTransition, TypeOK
      <4> QED BY <3>1, <3>2, <4>1, <4>2, VouchedStays
    <3>3. CASE j # cb.journal
      BY <2>1, <2>4, <3>3 DEF ApplyTransition, TypeOK
    <3> QED BY <3>2, <3>3
  <2>5. ASSUME NEW w \in Workers,
               (\E S \in SUBSET JournalIds : LeaseEvents(w, S)) \/ RecordDispatchFailure(w)
        PROVE  settlement' = settlement
    BY <2>5 DEF LeaseEvents, RecordDispatchFailure
  <2>6. ASSUME NEW i \in JournalIds, LeaseExpires(i) \/ BackoffElapses(i)
        PROVE  settlement' = settlement
    BY <2>6 DEF LeaseExpires, BackoffElapses
  <2> QED BY <2>1, <2>2, <2>3, <2>4, <2>5, <2>6, Writers
<1> QED BY <1>1, <1>2, <1>3, TypeCorrect, InstructionsAreCommitted, PTL DEF Spec

-----------------------------------------------------------------------------
(* Leases and attempts.                                                    *)

(* The events a replica has read and not dealt with.                       *)
InHand(w) == dispatcher[w].batch \cup ({dispatcher[w].current} \ {NoEvent})

(* The actions that change what a replica has in hand.                     *)
LEMMA DispatcherSteps ==
  ASSUME [Next]_vars
  PROVE  \/ dispatcher' = dispatcher
         \/ \E v \in Workers, S \in SUBSET JournalIds : LeaseEvents(v, S)
         \/ \E v \in Workers : SubmitEvent(v)
         \/ \E v \in Workers, from, to \in Stages \ {"ready"} : MoveStage(v, from, to)
         \/ \E v \in Workers :
              /\ MarkPublished(v) \/ RecordDispatchFailure(v) \/ FailureNotRecorded(v)
              /\ dispatcher' = [dispatcher EXCEPT ![v] =
                                  [@ EXCEPT !.current = NoEvent, !.stage = "ready"]]
         \/ \E v \in Workers : AbandonBatch(v)
<1>1. ASSUME NEW v \in Workers,
             \/ SubmissionAcked(v) \/ SubmissionRefused(v) \/ SubmissionFailed(v)
             \/ PublishRollsBack(v)
      PROVE  \E from, to \in Stages \ {"ready"} : MoveStage(v, from, to)
  BY <1>1 DEF SubmissionAcked, SubmissionRefused, SubmissionFailed, PublishRollsBack, Stages
<1>2. ASSUME NEW v \in Workers,
             MarkPublished(v) \/ RecordDispatchFailure(v) \/ FailureNotRecorded(v)
      PROVE  dispatcher' = [dispatcher EXCEPT ![v] =
                              [@ EXCEPT !.current = NoEvent, !.stage = "ready"]]
  BY <1>2 DEF MarkPublished, RecordDispatchFailure, FailureNotRecorded
<1>3. ASSUME NEW i \in JournalIds,
             LeaseExpires(i) \/ BackoffElapses(i) \/ ProviderProcesses(i)
      PROVE  dispatcher' = dispatcher
  BY <1>3 DEF LeaseExpires, BackoffElapses, ProviderProcesses
<1>4. ASSUME NEW i \in JournalIds, NEW v \in Verdicts, NEW b \in Bodies, NEW r \in Echoes,
             ProviderDecides(i, v, b, r) \/ ProviderMisaddresses(i, v, b, r)
      PROVE  dispatcher' = dispatcher
  BY <1>4 DEF ProviderDecides, ProviderMisaddresses
<1>5. ASSUME NEW cb \in Callback,
             \/ \E b \in Bodies : ProviderAlters(cb, b)
             \/ PayloadMismatch(cb) \/ UnknownSettlement(cb) \/ ReferenceMismatch(cb)
             \/ ApplyTransition(cb) \/ TransitionAborts(cb)
      PROVE  dispatcher' = dispatcher
  BY <1>5 DEF ProviderAlters, PayloadMismatch, UnknownSettlement, ReferenceMismatch,
              ApplyTransition, TransitionAborts
<1>6. ASSUME NEW c \in Commands, NEW i \in JournalIds, PostJournal(c, i) \/ ReplayJournal(c, i)
      PROVE  dispatcher' = dispatcher
  BY <1>6 DEF PostJournal, ReplayJournal
<1>7. CASE UNCHANGED vars
  BY <1>7, StutterKeepsAll
<1> QED BY <1>1, <1>2, <1>3, <1>4, <1>5, <1>6, <1>7, NextCases

(* What a replica has in hand it had before, or has just leased.           *)
LEMMA HeldWasLeased ==
  ASSUME TypeOK, [Next]_vars, NEW w \in Workers, NEW e \in InHand(w)'
  PROVE  \/ e \in InHand(w)
         \/ \E S \in SUBSET JournalIds : LeaseEvents(w, S) /\ \E i \in S : e = Leased(i)
<1> USE DEF InHand
<1>1. ASSUME NEW v \in Workers, NEW S \in SUBSET JournalIds, LeaseEvents(v, S)
      PROVE  e \in InHand(w) \/ (v = w /\ \E i \in S : e = Leased(i))
  <2>1. CASE v = w
    <3>1. dispatcher'[w] = [batch |-> {Leased(i) : i \in S}, current |-> NoEvent,
                            stage |-> "ready"]
      BY <1>1, <2>1 DEF LeaseEvents, TypeOK
    <3> QED BY <2>1, <3>1
  <2>2. CASE v # w
    BY <1>1, <2>2 DEF LeaseEvents, TypeOK
  <2> QED BY <2>1, <2>2
<1>2. ASSUME NEW v \in Workers, SubmitEvent(v) PROVE e \in InHand(w)
  BY <1>2 DEF SubmitEvent, TypeOK
<1>3. ASSUME NEW v \in Workers, NEW from \in Stages \ {"ready"}, NEW to \in Stages \ {"ready"},
             MoveStage(v, from, to)
      PROVE  e \in InHand(w)
  BY <1>3 DEF MoveStage, TypeOK, DispatcherState
<1>4. ASSUME NEW v \in Workers,
             dispatcher' = [dispatcher EXCEPT ![v] =
                              [@ EXCEPT !.current = NoEvent, !.stage = "ready"]]
      PROVE  e \in InHand(w)
  <2>1. PICK d : d = [dispatcher[v] EXCEPT !.current = NoEvent, !.stage = "ready"]
    OBVIOUS
  <2>2. d.batch = dispatcher[v].batch /\ d.current = NoEvent
    BY <2>1, Cleared DEF TypeOK
  <2>3. dispatcher' = [dispatcher EXCEPT ![v] = d]
    BY <1>4, <2>1
  <2> QED BY <2>2, <2>3 DEF TypeOK
<1>5. ASSUME NEW v \in Workers, AbandonBatch(v) PROVE e \in InHand(w)
  BY <1>5 DEF AbandonBatch, Idle, TypeOK
<1>6. CASE dispatcher' = dispatcher
  BY <1>6
<1> HIDE DEF InHand
<1> QED BY <1>1, <1>2, <1>3, <1>4, <1>5, <1>6, DispatcherSteps

(* While the lease is held the count read with it is the row's.            *)
THEOREM LeaseCountsAreCurrent == Spec => []LeaseCountIsCurrent
<1> DEFINE Current == \A w \in Workers, j \in JournalIds : \A e \in InHand(w) :
                        outbox[j].status = "leased" /\ outbox[j].leasedBy = w /\ e.id = j
                          => e.attempts = outbox[j].attempts
<1>0. LeaseCountIsCurrent <=> Current
  BY DEF LeaseCountIsCurrent, InHand
<1>1. Init => Current
  BY DEF Init, InHand, Idle
<1>2. TypeOK /\ Current /\ [Next]_vars => Current'
  <2> SUFFICES ASSUME TypeOK, Current, [Next]_vars, NEW w \in Workers, NEW j \in JournalIds,
                      NEW e \in InHand(w)', outbox'[j].status = "leased",
                      outbox'[j].leasedBy = w, e.id = j
               PROVE  e.attempts = outbox'[j].attempts
    OBVIOUS
  <2>1. ASSUME NEW S \in SUBSET JournalIds, LeaseEvents(w, S), NEW i \in S, e = Leased(i)
        PROVE  e.attempts = outbox'[j].attempts
    BY <2>1 DEF LeaseEvents, Leased, TypeOK
  <2>2. CASE e \in InHand(w)
    <3>1. CASE outbox'[j].attempts = outbox[j].attempts /\ outbox[j].status = "leased"
                 /\ outbox[j].leasedBy = w
      BY <2>2, <3>1
    <3>2. ASSUME NEW c \in Commands, NEW i \in JournalIds, PostJournal(c, i)
          PROVE  outbox'[j] = outbox[j]
      BY <3>2 DEF PostJournal, NewRow, TypeOK
    <3>3. ASSUME NEW v \in Workers, NEW S \in SUBSET JournalIds, LeaseEvents(v, S)
          PROVE  e.attempts = outbox'[j].attempts
      <4>1. CASE j \notin S
        <5>1. outbox'[j] = outbox[j]
          BY <3>3, <4>1 DEF LeaseEvents
        <5> QED BY <3>1, <5>1
      <4>2. CASE j \in S
        <5>1. v = w
          BY <3>3, <4>2 DEF LeaseEvents
        <5>2. dispatcher'[w] = [batch |-> {Leased(i) : i \in S}, current |-> NoEvent,
                                stage |-> "ready"]
          BY <3>3, <5>1 DEF LeaseEvents, TypeOK
        <5>3. PICK i \in S : e = Leased(i)
          BY <5>2 DEF InHand
        <5> QED BY <2>1, <3>3, <5>1, <5>3
      <4> QED BY <4>1, <4>2
    <3>4. ASSUME NEW v \in Workers, MarkPublished(v) PROVE outbox'[j] = outbox[j]
      <4>1. j # dispatcher[v].current.id
        BY <3>4, Published
      <4> QED BY <3>4, <4>1, Published
    <3>5. ASSUME NEW v \in Workers, RecordDispatchFailure(v) PROVE outbox'[j] = outbox[j]
      BY <3>5, FailureRecorded
    <3>6. ASSUME NEW i \in JournalIds, LeaseExpires(i) \/ BackoffElapses(i)
          PROVE  outbox'[j].attempts = outbox[j].attempts /\ outbox[j].status = "leased"
                   /\ outbox[j].leasedBy = w
      BY <3>6, RowsTimed
    <3>7. ASSUME NEW cb \in Callback, ApplyTransition(cb) PROVE outbox' = outbox
      BY <3>7 DEF ApplyTransition
    <3> QED BY <3>1, <3>2, <3>3, <3>4, <3>5, <3>6, <3>7, Writers
  <2> QED BY <2>1, <2>2, HeldWasLeased
<1> HIDE DEF Current
<1>3. Spec => []Current
  BY <1>1, <1>2, TypeCorrect, PTL DEF Spec
<1> QED BY <1>0, <1>3, PTL

(* Stalls are counted and never forgotten.                                 *)
LEMMA StallsGrow ==
  ASSUME TypeOK, [Next]_vars
  PROVE  stalls \in Nat /\ (stalls' = stalls \/ stalls' = stalls + 1)
<1>0. stalls \in Nat
  BY MaxStallsAssumption DEF TypeOK
<1>1. ASSUME NEW w \in Workers,
             \/ \E S \in SUBSET JournalIds : LeaseEvents(w, S)
             \/ SubmitEvent(w) \/ SubmissionAcked(w) \/ SubmissionRefused(w)
             \/ SubmissionFailed(w) \/ MarkPublished(w) \/ PublishRollsBack(w)
             \/ RecordDispatchFailure(w) \/ FailureNotRecorded(w) \/ AbandonBatch(w)
      PROVE  stalls' = stalls \/ stalls' = stalls + 1
  BY <1>1 DEF LeaseEvents, SubmitEvent, SubmissionAcked, SubmissionRefused, SubmissionFailed,
              MarkPublished, PublishRollsBack, RecordDispatchFailure, FailureNotRecorded,
              AbandonBatch
<1>2. ASSUME NEW j \in JournalIds,
             LeaseExpires(j) \/ BackoffElapses(j) \/ ProviderProcesses(j)
      PROVE  stalls' = stalls \/ stalls' = stalls + 1
  BY <1>2 DEF LeaseExpires, BackoffElapses, ProviderProcesses
<1>3. ASSUME NEW j \in JournalIds, NEW v \in Verdicts, NEW b \in Bodies, NEW r \in Echoes,
             ProviderDecides(j, v, b, r) \/ ProviderMisaddresses(j, v, b, r)
      PROVE  stalls' = stalls
  BY <1>3 DEF ProviderDecides, ProviderMisaddresses
<1>4. ASSUME NEW cb \in Callback,
             \/ \E b \in Bodies : ProviderAlters(cb, b)
             \/ PayloadMismatch(cb) \/ UnknownSettlement(cb) \/ ReferenceMismatch(cb)
             \/ ApplyTransition(cb) \/ TransitionAborts(cb)
      PROVE  stalls' = stalls
  BY <1>4 DEF ProviderAlters, PayloadMismatch, UnknownSettlement, ReferenceMismatch,
              ApplyTransition, TransitionAborts
<1>5. ASSUME NEW c \in Commands, NEW j \in JournalIds, PostJournal(c, j) \/ ReplayJournal(c, j)
      PROVE  stalls' = stalls
  BY <1>5 DEF PostJournal, ReplayJournal
<1>6. CASE UNCHANGED vars
  BY <1>0, <1>6, StutterKeepsAll
<1> QED BY <1>0, <1>1, <1>2, <1>3, <1>4, <1>5, <1>6, NextCases

(* A replica lets go of an event by recording what became of it, or by a   *)
(* stall.                                                                  *)
LEMMA WorkEnds ==
  ASSUME TypeOK, [Next]_vars, NEW w \in Workers, NEW j \in JournalIds, Working(w, j)
  PROVE  \/ Working(w, j)'
         \/ MarkPublished(w) /\ dispatcher[w].current.id = j
         \/ RecordDispatchFailure(w) /\ dispatcher[w].current.id = j
         \/ stalls' = stalls + 1
<1> USE DEF Working
<1>1. ASSUME NEW v \in Workers, NEW S \in SUBSET JournalIds, LeaseEvents(v, S)
      PROVE  Working(w, j)'
  <2>1. v # w
    BY <1>1 DEF LeaseEvents
  <2> QED BY <1>1, <2>1 DEF LeaseEvents, TypeOK
<1>2. ASSUME NEW v \in Workers, SubmitEvent(v) PROVE Working(w, j)'
  <2>1. PICK e \in dispatcher[v].batch :
          dispatcher' = [dispatcher EXCEPT ![v] =
                           [batch |-> dispatcher[v].batch \ {e}, current |-> e,
                            stage |-> "posted"]]
    BY <1>2 DEF SubmitEvent
  <2>2. dispatcher[v].stage = "ready"
    BY <1>2 DEF SubmitEvent
  <2> QED BY <2>1, <2>2 DEF TypeOK
<1>3. ASSUME NEW v \in Workers, NEW from \in Stages \ {"ready"}, NEW to \in Stages \ {"ready"},
             MoveStage(v, from, to)
      PROVE  Working(w, j)'
  BY <1>3 DEF MoveStage, TypeOK, DispatcherState
<1>4. ASSUME NEW v \in Workers,
             dispatcher' = [dispatcher EXCEPT ![v] =
                              [@ EXCEPT !.current = NoEvent, !.stage = "ready"]]
      PROVE  Working(w, j)' \/ (v = w /\ dispatcher[w].current.id = j)
  <2>1. PICK d : d = [dispatcher[v] EXCEPT !.current = NoEvent, !.stage = "ready"]
    OBVIOUS
  <2>2. d.batch = dispatcher[v].batch
    BY <2>1, Cleared DEF TypeOK
  <2>3. dispatcher' = [dispatcher EXCEPT ![v] = d]
    BY <1>4, <2>1
  <2> QED BY <2>2, <2>3 DEF TypeOK
<1> HIDE DEF Working
<1>5. ASSUME NEW v \in Workers, AbandonBatch(v) \/ FailureNotRecorded(v)
      PROVE  stalls' = stalls + 1
  BY <1>5 DEF AbandonBatch, FailureNotRecorded
<1>6. ASSUME NEW v \in Workers,
             MarkPublished(v) \/ RecordDispatchFailure(v) \/ FailureNotRecorded(v),
             dispatcher' = [dispatcher EXCEPT ![v] =
                              [@ EXCEPT !.current = NoEvent, !.stage = "ready"]]
      PROVE  \/ Working(w, j)'
             \/ MarkPublished(w) /\ dispatcher[w].current.id = j
             \/ RecordDispatchFailure(w) /\ dispatcher[w].current.id = j
             \/ stalls' = stalls + 1
  BY <1>4, <1>5, <1>6
<1>7. CASE dispatcher' = dispatcher
  BY <1>7 DEF Working
<1> QED BY <1>1, <1>2, <1>3, <1>5, <1>6, <1>7, DispatcherSteps

(* A leased row has been counted for in full: its holder still works on    *)
(* it, or a stall has taken an attempt.                                    *)
Accounted(j) ==
  /\ outbox[j].attempts <= MaxAttempts + stalls
  /\ outbox[j].status \in {"none", "pending", "failed"} => outbox[j].attempts < MaxAttempts
  /\ outbox[j].status = "leased" =>
       /\ outbox[j].leasedBy \in Workers
       /\ outbox[j].lapsed \/ ~ Working(outbox[j].leasedBy, j)
            => outbox[j].attempts < MaxAttempts + stalls

(* outboxMaxAttempts is exceeded by no more than the stalls.               *)
THEOREM AttemptsAreAccounted == Spec => [](AttemptsAccounted /\ AttemptsBounded)
<1>1. Init => AttemptsAccounted
  BY MaxAttemptsAssumption DEF Init, AttemptsAccounted, EmptyRow
<1>2. TypeOK /\ LeaseCountIsCurrent /\ AttemptsAccounted /\ [Next]_vars => AttemptsAccounted'
  <2> SUFFICES ASSUME TypeOK, LeaseCountIsCurrent, AttemptsAccounted, [Next]_vars,
                      NEW j \in JournalIds
               PROVE  Accounted(j)'
    BY DEF AttemptsAccounted, Accounted
  <2>0. /\ outbox[j].attempts \in Nat /\ stalls \in Nat /\ MaxAttempts \in Nat /\ MaxAttempts > 0
        /\ stalls' = stalls \/ stalls' = stalls + 1
        /\ outbox[j].lapsed \in BOOLEAN
    BY StallsGrow, MaxAttemptsAssumption DEF TypeOK, OutboxRow
  <2>1. Accounted(j)
    BY DEF AttemptsAccounted, Accounted
  (* A row that stays is accounted for: its holder has it still, or stalled. *)
  <2>2. ASSUME outbox'[j] = outbox[j] PROVE Accounted(j)'
    <3>1. CASE stalls' = stalls + 1
      BY <2>0, <2>1, <2>2, <3>1 DEF Accounted
    <3>2. CASE stalls' = stalls /\ outbox[j].status # "leased"
      BY <2>0, <2>1, <2>2, <3>2 DEF Accounted
    <3>3. CASE stalls' = stalls /\ outbox[j].status = "leased"
      <4>1. PICK w \in Workers : w = outbox[j].leasedBy
        BY <2>1, <3>3 DEF Accounted
      <4>2. ~ (MarkPublished(w) /\ dispatcher[w].current.id = j)
        BY <2>2, <3>3, Published
      <4>3. ~ (RecordDispatchFailure(w) /\ dispatcher[w].current.id = j)
        BY <2>2, <3>3, <4>1, FailureRecorded DEF HoldsLease
      <4>4. Working(w, j) => Working(w, j)'
        BY <2>0, <3>3, <4>2, <4>3, WorkEnds
      <4>5. w = outbox'[j].leasedBy
        BY <2>2, <4>1
      <4>6. ~ Working(outbox[j].leasedBy, j)' => ~ Working(w, j)'
        BY <4>5 DEF Working
      <4>7. outbox[j].lapsed \/ ~ Working(w, j)' => outbox[j].attempts < MaxAttempts + stalls
        BY <2>1, <3>3, <4>1, <4>4 DEF Accounted
      <4> QED BY <2>0, <2>1, <2>2, <3>3, <4>1, <4>6, <4>7 DEF Accounted
    <3> QED BY <2>0, <3>1, <3>2, <3>3
  <2>3. CASE settlement' = settlement /\ outbox' = outbox
    BY <2>2, <2>3
  <2>4. ASSUME NEW c \in Commands, NEW i \in JournalIds, PostJournal(c, i) PROVE Accounted(j)'
    <3>1. CASE outbox'[j] = outbox[j]
      BY <2>2, <3>1
    <3>2. CASE outbox'[j] = NewRow
      BY <2>0, <3>2 DEF Accounted, NewRow
    <3> QED BY <2>4, <3>1, <3>2 DEF PostJournal, TypeOK
  <2>5. ASSUME NEW w \in Workers, NEW S \in SUBSET JournalIds, LeaseEvents(w, S)
        PROVE  Accounted(j)'
    <3>1. CASE j \notin S
      BY <2>2, <2>5, <3>1 DEF LeaseEvents
    <3>2. CASE j \in S
      <4>1. outbox'[j] = [status |-> "leased", attempts |-> outbox[j].attempts + 1,
                          leasedBy |-> w, due |-> outbox[j].due, lapsed |-> FALSE]
        BY <2>5, <3>2 DEF LeaseEvents
      <4>2. outbox[j].attempts < MaxAttempts + stalls
        BY <2>0, <2>1, <2>5, <3>2 DEF LeaseEvents, Leasable, Accounted
      <4>3. \E e \in dispatcher'[w].batch : e.id = j
        <5>1. dispatcher'[w].batch = {Leased(i) : i \in S}
          BY <2>5 DEF LeaseEvents, TypeOK
        <5>2. Leased(j) \in dispatcher'[w].batch
          BY <3>2, <5>1
        <5>3. Leased(j).id = j
          BY DEF Leased
        <5> QED BY <5>2, <5>3
      <4>4. w = outbox'[j].leasedBy
        BY <4>1
      <4>5. Working(outbox[j].leasedBy, j)'
        BY <4>3, <4>4 DEF Working
      <4> QED BY <2>0, <4>1, <4>2, <4>5 DEF Accounted
    <3> QED BY <3>1, <3>2
  <2>6. ASSUME NEW w \in Workers, MarkPublished(w) PROVE Accounted(j)'
    <3>1. CASE j # dispatcher[w].current.id
      BY <2>2, <2>6, <3>1, Published
    <3>2. CASE j = dispatcher[w].current.id
      <4>1. outbox'[j].status = "published" /\ outbox'[j].attempts = outbox[j].attempts
        BY <2>6, <3>2, Published
      <4> QED BY <2>0, <2>1, <4>1 DEF Accounted
    <3> QED BY <3>1, <3>2
  <2>7. ASSUME NEW w \in Workers, RecordDispatchFailure(w) PROVE Accounted(j)'
    <3>1. PICK e \in LeasedEvent : e = dispatcher[w].current /\ e # NoEvent
      BY <2>7, CurrentIsLeased DEF RecordDispatchFailure
    <3>2. CASE outbox'[j] = outbox[j]
      BY <2>2, <3>2
    <3>3. CASE outbox'[j] # outbox[j]
      <4>1. /\ j = e.id /\ outbox[j].status = "leased" /\ outbox[j].leasedBy = w
            /\ \/ outbox'[j].status = "dead_letter"
               \/ outbox'[j].status = "failed" /\ e.attempts < MaxAttempts
            /\ outbox'[j].attempts = outbox[j].attempts
        BY <2>7, <3>1, <3>3, FailureRecorded
      <4>2. e.attempts = outbox[j].attempts
        BY <3>1, <4>1 DEF LeaseCountIsCurrent
      <4> QED BY <2>0, <2>1, <4>1, <4>2 DEF Accounted
    <3> QED BY <3>2, <3>3
  <2>8. ASSUME NEW i \in JournalIds, LeaseExpires(i) \/ BackoffElapses(i) PROVE Accounted(j)'
    <3>1. CASE i # j
      BY <2>2, <2>8, <3>1, RowsTimed
    <3>2. /\ outbox'[j].status = outbox[j].status /\ outbox'[j].attempts = outbox[j].attempts
          /\ outbox'[j].leasedBy = outbox[j].leasedBy
      BY <2>8, RowsTimed
    <3>3. CASE i = j /\ LeaseExpires(i)
      <4>1. outbox[j].attempts < MaxAttempts + stalls'
        BY <2>0, <2>1, <3>3 DEF LeaseExpires, Accounted
      <4> QED BY <2>0, <2>1, <3>2, <3>3, <4>1 DEF Accounted, LeaseExpires
    <3>4. CASE i = j /\ BackoffElapses(i)
      BY <2>0, <2>1, <3>2, <3>4 DEF Accounted, BackoffElapses
    <3> QED BY <2>8, <3>1, <3>3, <3>4
  <2>9. ASSUME NEW cb \in Callback, ApplyTransition(cb) PROVE Accounted(j)'
    BY <2>2, <2>9 DEF ApplyTransition
  <2> QED BY <2>3, <2>4, <2>5, <2>6, <2>7, <2>8, <2>9, Writers
<1>3. AttemptsAccounted => AttemptsBounded
  BY DEF AttemptsAccounted, AttemptsBounded
<1> QED BY <1>1, <1>2, <1>3, TypeCorrect, LeaseCountsAreCurrent, PTL DEF Spec

(* A replica that has recorded an outcome is ready for its next event.     *)
LEMMA HandIsEmptied ==
  ASSUME TypeOK, NEW w \in Workers, MarkPublished(w) \/ RecordDispatchFailure(w)
  PROVE  dispatcher'[w].stage = "ready"
<1>1. PICK d : d = [dispatcher[w] EXCEPT !.current = NoEvent, !.stage = "ready"]
  OBVIOUS
<1>2. d.stage = "ready"
  BY <1>1, Cleared DEF TypeOK
<1>3. dispatcher' = [dispatcher EXCEPT ![w] = d]
  BY <1>1 DEF MarkPublished, RecordDispatchFailure
<1> QED BY <1>2, <1>3 DEF TypeOK

(* While a lease runs, only its holder changes the row: others may come    *)
(* for it only after its time.                                             *)
THEOREM LeasesAreRespected == Spec => LeaseRespected
<1> DEFINE Step == \A j \in JournalIds, w \in Workers :
                     /\ outbox[j].status = "leased" /\ outbox[j].leasedBy = w
                     /\ outbox'[j] # outbox[j]
                     => outbox[j].lapsed \/ outbox'[j].lapsed \/ dispatcher'[w] # dispatcher[w]
<1>1. TypeOK /\ InstructionsExist /\ OutboxAgreesWithSettlement /\ [Next]_vars => Step
  <2> SUFFICES ASSUME TypeOK, InstructionsExist, OutboxAgreesWithSettlement, [Next]_vars,
                      NEW j \in JournalIds, NEW w \in Workers,
                      outbox[j].status = "leased", outbox[j].leasedBy = w,
                      outbox'[j] # outbox[j]
               PROVE  outbox[j].lapsed \/ outbox'[j].lapsed \/ dispatcher'[w] # dispatcher[w]
    OBVIOUS
  <2>1. ~ (settlement' = settlement /\ outbox' = outbox)
    OBVIOUS
  <2>2. ASSUME NEW c \in Commands, NEW i \in JournalIds, PostJournal(c, i) PROVE FALSE
    <3>1. journal[i] = NoCommand /\ settlement[i] = "none"
      BY <2>2 DEF PostJournal, InstructionsExist
    <3>2. i # j
      BY <3>1 DEF OutboxAgreesWithSettlement
    <3> QED BY <2>2, <3>2 DEF PostJournal, TypeOK
  <2>3. ASSUME NEW v \in Workers, NEW S \in SUBSET JournalIds, LeaseEvents(v, S)
        PROVE  outbox[j].lapsed
    BY <2>3 DEF LeaseEvents, Leasable
  <2>4. ASSUME NEW v \in Workers, MarkPublished(v) PROVE dispatcher'[w] # dispatcher[w]
    <3>1. v = w
      BY <2>4, Published
    <3>2. dispatcher[w].stage = "acked"
      BY <2>4, <3>1 DEF MarkPublished
    <3>3. dispatcher'[w].stage = "ready"
      BY <2>4, <3>1, HandIsEmptied
    <3> QED BY <3>2, <3>3
  <2>5. ASSUME NEW v \in Workers, RecordDispatchFailure(v) PROVE dispatcher'[w] # dispatcher[w]
    <3>1. v = w
      <4>1. PICK i \in JournalIds : i = dispatcher[v].current.id
        BY <2>5, CurrentIsLeased DEF RecordDispatchFailure
      <4>2. ~ HoldsLease(v, i) => outbox' = outbox
        BY <2>5, <4>1 DEF RecordDispatchFailure
      <4>3. i # j => outbox'[j] = outbox[j]
        BY <2>5, <4>1 DEF RecordDispatchFailure, TypeOK
      <4> QED BY <4>2, <4>3 DEF HoldsLease
    <3>2. dispatcher[w].stage # "ready"
      BY <2>5, <3>1 DEF RecordDispatchFailure
    <3>3. dispatcher'[w].stage = "ready"
      BY <2>5, <3>1, HandIsEmptied
    <3> QED BY <3>2, <3>3
  <2>6. ASSUME NEW i \in JournalIds, LeaseExpires(i) PROVE outbox'[j].lapsed
    <3>1. i = j
      BY <2>6, RowsTimed
    <3>2. PICK row : row = [outbox[j] EXCEPT !.lapsed = TRUE]
      OBVIOUS
    <3>3. row.lapsed
      BY <3>2 DEF TypeOK, OutboxRow
    <3>4. outbox' = [outbox EXCEPT ![j] = row]
      BY <2>6, <3>1, <3>2 DEF LeaseExpires
    <3> QED BY <3>3, <3>4 DEF TypeOK
  <2>7. ASSUME NEW i \in JournalIds, BackoffElapses(i) PROVE FALSE
    <3>1. i # j
      BY <2>7 DEF BackoffElapses
    <3> QED BY <2>7, <3>1, RowsTimed
  <2>8. ASSUME NEW cb \in Callback, ApplyTransition(cb) PROVE FALSE
    BY <2>8 DEF ApplyTransition
  <2> QED BY <2>1, <2>2, <2>3, <2>4, <2>5, <2>6, <2>7, <2>8, Writers
<1> QED BY <1>1, TypeCorrect, OutboxAgrees, InstructionsAreCommitted, PTL DEF Spec, LeaseRespected

(* Tables, replicas and provider agree in every reachable state.           *)
THEOREM LedgerIsConsistent == Spec => []LedgerInvariant
BY TypeCorrect, InstructionsAreCommitted, OutboxAgrees, PublishedMeansExecuted,
   LeaseCountsAreCurrent, AttemptsAreAccounted, BooksStayBehind, PTL DEF LedgerInvariant

=============================================================================
