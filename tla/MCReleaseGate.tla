--------------------------- MODULE MCReleaseGate ---------------------------
(***************************************************************************)
(* Instances of ReleaseGate for TLC.                                       *)
(***************************************************************************)
EXTENDS ReleaseGate, TLC

CONSTANTS e1, e2, k1, r1, r2

Event(i, result, valid, counts) ==
  [id |-> i, result |-> result, key |-> k1, valid |-> valid, counts |-> counts]

(* Two events of one key.                                                  *)
TwoEvents == {Event(i, "failure", TRUE, TRUE) : i \in {e1, e2}}

(* One replica's clock is behind Redis's and one is ahead of it.           *)
Apart == (r1 :> -1) @@ (r2 :> 1)

EventSymmetry == Permutations(Ids)

=============================================================================
