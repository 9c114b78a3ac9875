-------------------------- MODULE FuelTransactionsMC --------------------------
(***************************************************************************)
(* Small instances of FuelTransactions for TLC: days 1 and 2 are the last  *)
(* of one month and fiscal quarter and the first of the next.              *)
(***************************************************************************)
EXTENDS FuelTransactions, TLC

CONSTANTS m1, m2, q1, q2

TwoDays == {1, 2}
TwoMonths == (1 :> m1 @@ 2 :> m2)
TwoQuarters == (1 :> q1 @@ 2 :> q2)

Symmetry == Permutations(Issuances) \cup Permutations(Txns)
=============================================================================
