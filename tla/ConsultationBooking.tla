------------------------ MODULE ConsultationBooking ------------------------
(***************************************************************************)
(* Journey37ProfessionalConsultationWorkflow: find a professional with a   *)
(* free slot, book it, tell both.  The activities stand for services of    *)
(* their own, and Temporal repeats one whose answer does not come: a       *)
(* booking that was made is then made again.  Several users book beside    *)
(* each other, and calendars change meanwhile.                             *)
(***************************************************************************)
EXTENDS Integers, FiniteSets, Sequences, FiniteSetsExt

CONSTANTS
  Bookers,               \* the users, each with one journey
  NoDate,
  Inputs,                \* for each user, the Journey37Input it may send
  Directory,             \* the professionals, in the directory's order
  Slots,                 \* the slots of a calendar, in its order
  ServedStates,          \* "Lagos", ... in the code
  MaximumAttempts,       \* of an activity, 3 in the code
  NotificationAttempts,  \* 5 in the code
  MaxTime,               \* bound: seconds that pass
  MaxCalendarChanges     \* bound: changes of calendars

ProfessionalTypes == {"lawyer", "surveyor", "estate_agent"}

(* Ratings in tenths; a minimum of 0 means the default.                    *)
Professional == [type : ProfessionalTypes, state : STRING, rating : 0..50]
Slot == [date : Nat, type : STRING]
Input == [type : STRING, state : STRING, minRating : 0..50, date : Nat \cup {NoDate}, meeting : STRING]

ConstantsAssumption ==
  /\ NoDate \notin Nat
  /\ Directory \in Seq(Professional) /\ Slots \in Seq(Slot)
  /\ DOMAIN Inputs = Bookers /\ \A u \in Bookers : \A r \in Inputs[u] : r \in Input
  /\ {MaximumAttempts, NotificationAttempts} \subseteq Nat \ {0}
  /\ {MaxTime, MaxCalendarChanges} \subseteq Nat

VARIABLES
  now,         \* the clock, in seconds
  calendar,    \* for each professional, the slots that are free
  changes,     \* calendar changes so far
  bookings,    \* what the booking service has confirmed
  journeys

bookingVars == <<now, calendar, changes, bookings, journeys>>

Stages == {"validate", "search", "availability", "create", "notify"}
Ends == {"failed", "no_professionals_found", "no_availability", "booking_failed", "completed"}

(* found: the search result; next: the professional being asked, or 0;     *)
(* offers: what each of them answered, kept for checking; unanswered: those*)
(* who did not answer; id: of the booking; repeats: bookings whose answer was lost,*)
(* kept for checking.                                                      *)
Journey ==
  [input : UNION {Inputs[u] : u \in Bookers}, stage : Stages \cup Ends, attempt : Nat,
   found : SUBSET DOMAIN Directory, next : {0} \cup DOMAIN Directory, offers : SUBSET ((DOMAIN Directory) \X (DOMAIN Slots)),
   unanswered : SUBSET DOMAIN Directory, chosen : {0} \cup DOMAIN Directory,
   slot : {0} \cup DOMAIN Slots, id : (Nat \X Nat) \cup {<< >>}, repeats : Nat,
   confirmationSent : BOOLEAN]

(* The types of the journeys and of the booking service.                   *)
TypeOK ==
  /\ now \in 0..MaxTime /\ changes \in 0..MaxCalendarChanges
  /\ calendar \in [DOMAIN Directory -> SUBSET DOMAIN Slots]
  /\ \A b \in bookings :
       /\ b.user \in Bookers /\ b.professional \in DOMAIN Directory
       /\ b.slot \in DOMAIN Slots /\ b.id \in Nat \X (0..now)
  /\ DOMAIN journeys = Bookers /\ \A u \in Bookers : journeys[u] \in Journey

Init ==
  /\ now = 0 /\ changes = 0 /\ bookings = {}
  /\ calendar = [p \in DOMAIN Directory |-> DOMAIN Slots]
  /\ \E inputs \in [Bookers -> UNION {Inputs[u] : u \in Bookers}] :
       /\ \A u \in Bookers : inputs[u] \in Inputs[u]
       /\ journeys = [u \in Bookers |->
            [input |-> inputs[u], stage |-> "validate", attempt |-> 1, found |-> {},
             next |-> 0, offers |-> {}, unanswered |-> {}, chosen |-> 0, slot |-> 0,
             id |-> << >>, repeats |-> 0, confirmationSent |-> FALSE]]

-----------------------------------------------------------------------------
(* Attempts.                                                               *)

(* Mutant of Limit: counts the retries and not the attempts.               *)
RetriesAreLimited(stage) ==
  (IF stage = "notify" THEN NotificationAttempts ELSE MaximumAttempts) + 1

Limit(stage) == IF stage = "notify" THEN NotificationAttempts ELSE MaximumAttempts

(* The result of the search keeps the order of the directory: nothing sorts*)
(* it by rating.                                                           *)
First(professionals) == IF professionals = {} THEN 0 ELSE Min(professionals)

(* The one to ask after the one being asked.                               *)
After(j) == First({p \in j.found : p > j.next})

(* Where the journey goes when an activity has used up its attempts.       *)
AfterFailure(j) ==
  CASE j.stage \in {"validate", "search"} -> [j EXCEPT !.stage = "failed"]
    [] j.stage = "availability" ->
         [j EXCEPT !.unanswered = @ \cup {j.next}, !.next = After(j)]
    [] j.stage = "create" -> [j EXCEPT !.stage = "booking_failed"]
    [] j.stage = "notify" -> [j EXCEPT !.stage = "completed"]

(* A journey that has asked all it found ends with the first three as      *)
(* alternatives.                                                           *)
Settled(j) ==
  IF j.stage = "availability" /\ j.next = 0
  THEN [j EXCEPT !.stage = "no_availability"] ELSE j

(* Mutant of AttemptFails: the count of attempts starts over.              *)
StartsOver(j) == [j EXCEPT !.attempt = (@ % Limit(j.stage)) + 1]

AttemptFails(j) ==
  IF j.attempt < Limit(j.stage) THEN [j EXCEPT !.attempt = @ + 1]
  ELSE Settled([AfterFailure(j) EXCEPT !.attempt = 1])

Moves(u, j) == journeys' = [journeys EXCEPT ![u] = j]

At(u, stage) == journeys[u].stage = stage

(* An attempt without effect, at any activity.                             *)
FailAttempt(u) ==
  /\ journeys[u].stage \in Stages
  /\ Moves(u, AttemptFails(journeys[u]))
  /\ UNCHANGED <<now, calendar, changes, bookings>>

Valid(input) == input.type \in ProfessionalTypes /\ input.state \in ServedStates

ValidateBookingRequest(u) ==
  /\ At(u, "validate")
  /\ LET j == journeys[u]
     IN Moves(u, [j EXCEPT !.stage = IF Valid(j.input) THEN "search" ELSE "failed",
                           !.attempt = 1])
  /\ UNCHANGED <<now, calendar, changes, bookings>>

MinRating(input) == IF input.minRating = 0 THEN 40 ELSE input.minRating

Suits(input, p) ==
  /\ p.type = input.type /\ p.state = input.state
  /\ p.rating >= MinRating(input)

SearchProfessionalDirectory(u) ==
  /\ At(u, "search")
  /\ LET j == journeys[u]
         found == {p \in DOMAIN Directory : Suits(j.input, Directory[p])}
     IN Moves(u, [j EXCEPT !.found = found, !.next = First(found), !.attempt = 1,
                           !.stage = IF found = {} THEN "no_professionals_found"
                                     ELSE "availability"])
  /\ UNCHANGED <<now, calendar, changes, bookings>>

(* Mutant of Matching: the preferred date is not asked.                    *)
MatchingKind(input, offered) == {k \in offered : Slots[k].type = input.meeting}

(* The free slots that match the kind of meeting and the preferred date.   *)
Matching(input, offered) ==
  {k \in offered :
    /\ Slots[k].type = input.meeting
    /\ input.date = NoDate \/ Slots[k].date = input.date}

CheckProfessionalAvailability(u) ==
  /\ At(u, "availability")
  /\ LET j == journeys[u]
         p == j.next
         matching == Matching(j.input, calendar[p])
         asked == [j EXCEPT !.offers = @ \cup ({p} \X calendar[p]), !.attempt = 1]
     IN Moves(u, IF matching = {} THEN Settled([asked EXCEPT !.next = After(j)])
                 ELSE [asked EXCEPT !.stage = "create", !.chosen = p, !.slot = Min(matching)])
  /\ UNCHANGED <<now, calendar, changes, bookings>>

(* Mutant of Booking: made with the first of the search result.            *)
BookingOfFirst(u) ==
  LET j == journeys[u]
  IN [id |-> <<Slots[j.slot].date, now>>, user |-> u, professional |-> First(j.found), slot |-> j.slot]

(* The booking is named by its date and the second it is made in, whoever  *)
(* makes it, and nothing is asked about the slot again.                    *)
Booking(u) ==
  LET j == journeys[u]
  IN [id |-> <<Slots[j.slot].date, now>>, user |-> u, professional |-> j.chosen, slot |-> j.slot]

CreateBooking(u) ==
  /\ At(u, "create")
  /\ bookings' = bookings \cup {Booking(u)}
  /\ LET j == journeys[u]
     IN Moves(u, [j EXCEPT !.stage = "notify", !.attempt = 1, !.id = Booking(u).id])
  /\ UNCHANGED <<now, calendar, changes>>

(* The booking is made and the attempt fails: the answer is late or lost.  *)
LoseBookingAnswer(u) ==
  /\ At(u, "create")
  /\ bookings' = bookings \cup {Booking(u)}
  /\ Moves(u, [AttemptFails(journeys[u]) EXCEPT !.repeats = @ + 1])
  /\ UNCHANGED <<now, calendar, changes>>

SendBookingNotifications(u) ==
  /\ At(u, "notify")
  /\ Moves(u, [journeys[u] EXCEPT !.stage = "completed", !.attempt = 1, !.confirmationSent = TRUE])
  /\ UNCHANGED <<now, calendar, changes, bookings>>

Work(u) ==
  \/ FailAttempt(u)
  \/ ValidateBookingRequest(u) \/ SearchProfessionalDirectory(u)
  \/ CheckProfessionalAvailability(u)
  \/ CreateBooking(u) \/ LoseBookingAnswer(u)
  \/ SendBookingNotifications(u)

Tick ==
  /\ now < MaxTime /\ now' = now + 1
  /\ UNCHANGED <<calendar, changes, bookings, journeys>>

(* A professional takes a slot or gives it free.                           *)
CalendarChanges ==
  /\ changes < MaxCalendarChanges /\ changes' = changes + 1
  /\ \E p \in DOMAIN Directory, k \in DOMAIN Slots :
       calendar' = [calendar EXCEPT ![p] = IF k \in @ THEN @ \ {k} ELSE @ \cup {k}]
  /\ UNCHANGED <<now, bookings, journeys>>

Next == (\E u \in Bookers : Work(u)) \/ Tick \/ CalendarChanges

-----------------------------------------------------------------------------

(* The professional a user gets is the first of the directory who could    *)
(* have been had: it suits, offered the slot in this journey, and each     *)
(* suitable one before it did not answer or offered nothing that matches   *)
(* (the loop over professionals).                                          *)
ChosenIsFirstMatch ==
  \A u \in Bookers :
    LET j == journeys[u]
    IN j.chosen # 0 =>
         /\ Suits(j.input, Directory[j.chosen])
         /\ <<j.chosen, j.slot>> \in j.offers
         /\ Slots[j.slot].type = j.input.meeting
         /\ j.input.date \in {NoDate, Slots[j.slot].date}
         /\ \A p \in 1..(j.chosen - 1) :
              Suits(j.input, Directory[p]) =>
                \/ p \in j.unanswered
                \/ ~ \E k \in DOMAIN Slots :
                       /\ <<p, k>> \in j.offers /\ Slots[k].type = j.input.meeting
                       /\ j.input.date \in {NoDate, Slots[k].date}

(* A user who is told of an appointment has it: the booking under the id   *)
(* is the user's, with the professional and at the slot of the answer      *)
(* (CreateBookingActivity).                                                *)
AnsweredBookingExists ==
  \A u \in Bookers :
    LET j == journeys[u]
    IN j.id # << >> =>
         [id |-> j.id, user |-> u, professional |-> j.chosen, slot |-> j.slot] \in bookings

(* A booking no journey answers with comes from an attempt whose answer was*)
(* lost, and there are at most as many of a user as attempts; without a    *)
(* lost answer a journey that says it failed has left nothing behind.      *)
OrphansAreLostAnswers ==
  \A u \in Bookers :
    LET j == journeys[u]
        orphans == {b \in bookings : b.user = u /\ b.id # j.id}
    IN Cardinality(orphans) <= j.repeats /\ j.repeats <= MaximumAttempts

(* What a user is told is what is booked: the right professional, a booking*)
(* that exists, and no other ones but those of lost answers.               *)
BookingsMatchAnswers == ChosenIsFirstMatch /\ AnsweredBookingExists /\ OrphansAreLostAnswers

(* Every journey ends, whatever the services do.                           *)
BookingJourneysEnd == \A u \in Bookers : <>(journeys[u].stage \in Ends)

=============================================================================
