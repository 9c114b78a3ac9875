----------------------------- MODULE AuditChainMC -----------------------------
(***************************************************************************)
(* Small instances of AuditChain for TLC.                                  *)
(***************************************************************************)
EXTENDS AuditChain, TLC

Symmetry == Permutations(Workers) \cup Permutations(Events \ Poison)
=============================================================================
