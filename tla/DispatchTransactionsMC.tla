------------------------ MODULE DispatchTransactionsMC ------------------------
(***************************************************************************)
(* Small instances of DispatchTransactions for TLC.  The sessions, drivers,*)
(* vehicles and dispatches are interchangeable.                            *)
(***************************************************************************)
EXTENDS DispatchTransactions, TLC

Symmetry ==
    Permutations(Dispatches) \cup Permutations(Drivers) \cup Permutations(Vehicles)
        \cup Permutations(Txns)
=============================================================================
