---------------------------- MODULE MCScanJobs ----------------------------
(***************************************************************************)
(* ScanJobs for TLC: model values for versions, symbols and workers, and    *)
(* the symmetry of the last two.                                            *)
(***************************************************************************)
EXTENDS ScanJobs, TLC

Interchangeable == Permutations(Symbols) \cup Permutations(Workers)
=============================================================================
