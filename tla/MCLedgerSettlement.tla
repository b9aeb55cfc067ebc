------------------------ MODULE MCLedgerSettlement ------------------------
(***************************************************************************)
(* Instances of LedgerSettlement for TLC.                                  *)
(***************************************************************************)
EXTENDS LedgerSettlement, TLC

CONSTANTS t1, t2, k1, k2, psp, otherPsp, r1, r2

Command(t, k, o, p, r) == [tenant |-> t, key |-> k, owner |-> o, provider |-> p, ref |-> r]

(* One settlement.                                                         *)
OneSettlement == {Command(t1, k1, t1, psp, r1)}

(* Two settlements of one tenant, and another tenant with the same key.    *)
SharedKey == OneSettlement \cup {Command(t1, k2, t1, psp, NoRef), Command(t2, k1, t2, psp, r2)}

(* One settlement of the configured provider and one of another.           *)
ForeignProvider == OneSettlement \cup {Command(t1, k2, t1, otherPsp, r1)}

(* Everything a client may get wrong: a key reused with another command,   *)
(* another tenant's accounts, a reference already in use, no settlement.   *)
ManyCommands ==
  {Command(t, k, o, p, r) : t \in {t1, t2}, k \in {k1, k2}, o \in {t1, t2},
                            p \in {psp, NoProvider}, r \in {r1, NoRef}}

WorkerSymmetry == Permutations(Workers)
JournalSymmetry == Permutations(JournalIds)
Symmetry == WorkerSymmetry \cup JournalSymmetry

=============================================================================
