------------------------ MODULE SettlementLifecycle ------------------------
(***************************************************************************)
(* What a settlement is to everyone outside the service: an item that is   *)
(* opened once, handed to the provider once, and then moves along the      *)
(* documented states, each move backed by something the provider has said. *)
(***************************************************************************)
EXTENDS Naturals

CONSTANT Items

VARIABLES
  book,  \* the status on the books
  said   \* what the provider has reported about the item so far

lifecycleVars == <<book, said>>

Reports == {"accepted", "settled", "rejected", "reversed"}

Statuses == {"none", "pending", "submitted"} \cup Reports

LifecycleInit ==
  /\ book = [i \in Items |-> "none"]
  /\ said = [i \in Items |-> {}]

Open(i) ==
  /\ book[i] = "none"
  /\ book' = [book EXCEPT ![i] = "pending"]
  /\ UNCHANGED said

Submit(i) ==
  /\ book[i] = "pending"
  /\ book' = [book EXCEPT ![i] = "submitted"]
  /\ UNCHANGED said

Report(i, v) ==
  /\ book[i] # "none"
  /\ said' = [said EXCEPT ![i] = @ \cup {v}]
  /\ UNCHANGED book

(* The states a report may move an item from.                              *)
Before(v) ==
  CASE v = "accepted" -> {"submitted"}
    [] v = "settled"  -> {"accepted"}
    [] v = "reversed" -> {"settled"}
    [] v = "rejected" -> {"pending", "submitted", "accepted"}

Record(i, v) ==
  /\ v \in said[i]
  /\ book[i] \in Before(v)
  /\ book' = [book EXCEPT ![i] = v]
  /\ UNCHANGED said

LifecycleNext ==
  \E i \in Items :
    \/ Open(i)
    \/ Submit(i)
    \/ \E v \in Reports : Report(i, v) \/ Record(i, v)

Spec == LifecycleInit /\ [][LifecycleNext]_lifecycleVars

=============================================================================
