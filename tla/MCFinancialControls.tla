------------------------ MODULE MCFinancialControls ------------------------
(***************************************************************************)
(* Instances of FinancialControls for TLC.                                 *)
(***************************************************************************)
EXTENDS FinancialControls, TLC

CONSTANTS i1, i2, t1, ref1, ref2, alice, bob

(* One tenant's items: i1 has a provider reference, i2 has none.           *)
OneTenant == [i \in Items |-> t1]
FirstReferenced == [i \in Items |-> IF i = i1 THEN ref1 ELSE NoRef]
TenDollars == [i \in Items |-> 10]
InUSD == [i \in Items |-> "USD"]

Line(r, v, s, c, st) ==
  [ref |-> r, amount |-> [value |-> v, scale |-> s], currency |-> c, status |-> st]

(* Right, wrong in currency, wrong in amount, wrong in state, unknown, and *)
(* a reference twice.                                                      *)
ManyStatements ==
  {[entries |-> E, asOf |-> 1] :
     E \in {{Line(ref1, 10, 6, "USD", "accepted")}, {Line(ref1, 10, 6, "EUR", "accepted")},
            {Line(ref1, 9, 6, "USD", "accepted")}, {Line(ref1, 10, 6, "USD", "settled")},
            {Line(ref2, 10, 6, "USD", "accepted")},
            {Line(ref1, 10, 6, "USD", "accepted"), Line(ref1, 9, 6, "USD", "accepted")}}}

(* A statement that disagrees, dated inside and after the first period.    *)
DatedStatements ==
  {[entries |-> {Line(ref2, 10, 6, "USD", "settled")}, asOf |-> d] : d \in {1, 2, 3}}

(* The right amount written with two decimals.                             *)
ShortAmount == {[entries |-> {Line(ref1, 10, 2, "USD", "accepted")}, asOf |-> 1]}

FirstDay == {<<1, 1>>}
FirstTwoDays == {<<1, 2>>}

=============================================================================
