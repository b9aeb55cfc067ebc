----------------------------- MODULE MCJourneys -----------------------------
(***************************************************************************)
(* A small instance of the journeys.                                       *)
(***************************************************************************)
EXTENDS Journeys, TLC

CONSTANTS jane, john, u1, u2, j1, ta

(* Land: clean, resolved in court, claimed twice, sold by somebody else.   *)
Clean == [claimants |-> {jane}, disputes |-> {}, owner |-> jane, seller |-> jane]
SomeLands ==
  {Clean, [Clean EXCEPT !.disputes = {"resolved"}],
   [Clean EXCEPT !.claimants = {jane, john}, !.disputes = {"pending"}],
   [Clean EXCEPT !.seller = john]}

(* Consultations: the second lawyer has the better rating, the last one is *)
(* below the default minimum; slots on two days.                           *)
Lawyer(rating) == [type |-> "lawyer", state |-> "Lagos", rating |-> rating]
SomeDirectory == <<Lawyer(48), Lawyer(49), Lawyer(39)>>
SomeSlots ==
  <<[date |-> 1, type |-> "phone"], [date |-> 1, type |-> "virtual"],
    [date |-> 2, type |-> "virtual"]>>
Wish(date) ==
  [type |-> "lawyer", state |-> "Lagos", minRating |-> 0, date |-> date, meeting |-> "virtual"]
SomeInputs ==
  [u \in Bookers |->
    IF u = u1 THEN {Wish(2), [Wish(2) EXCEPT !.type = "notary"], [Wish(2) EXCEPT !.type = "surveyor"]}
    ELSE {Wish(NoDate)}]

(* Plans of steps.                                                         *)
Do(type, required, refers) ==
  [type |-> type, required |-> required, condition |-> FALSE, refers |-> refers,
   policy |-> NoPolicy, configured |-> TRUE]
SomePlans ==
  {[context |-> TRUE, steps |->
     <<Do("SEQUENTIAL", TRUE, 0), Do("PARALLEL", TRUE, 1), Do("SEQUENTIAL", FALSE, 2)>>],
   [context |-> TRUE, steps |->
     <<Do("SEQUENTIAL", FALSE, 2), [Do("SEQUENTIAL", TRUE, 1) EXCEPT !.policy = 2],
       [Do("PARALLEL", TRUE, 2) EXCEPT !.policy = 1]>>],
   [context |-> TRUE, steps |->
     <<Do("CONDITIONAL", TRUE, 0), [Do("CONDITIONAL", TRUE, 1) EXCEPT !.condition = TRUE],
       [Do("SEQUENTIAL", FALSE, 0) EXCEPT !.policy = 0, !.configured = FALSE]>>],
   [context |-> FALSE, steps |-> <<Do("SEQUENTIAL", FALSE, 0), Do("SEQUENTIAL", TRUE, 1)>>]}

(* Requests of two users for one journey, the second without an amount; a  *)
(* request in the name of somebody else.                                   *)
Post(user, amount) ==
  [subject |-> user, user |-> user, journey |-> j1, tenant |-> ta, amount |-> amount]
SomeJourneyRequests ==
  {Post(u1, TRUE), [Post(u2, FALSE) EXCEPT !.user = NoRow], [Post(u1, TRUE) EXCEPT !.user = u2]}
SomePermitted == {<<ta, u1, j1>>, <<ta, u2, j1>>}

=============================================================================
