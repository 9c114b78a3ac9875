----------------------------- MODULE ExportJobsMC -----------------------------
(***************************************************************************)
(* Small instances of ExportJobs for TLC.  Workers, tokens and downloads   *)
(* are interchangeable.                                                    *)
(***************************************************************************)
EXTENDS ExportJobs, TLC

Symmetry == Permutations(Workers) \cup Permutations(Tokens) \cup Permutations(Downloads)
=============================================================================
