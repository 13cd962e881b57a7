--------------------------- MODULE MCSetupAlerts ---------------------------
(***************************************************************************)
(* SetupAlerts for TLC: symbols and monitors are interchangeable.           *)
(***************************************************************************)
EXTENDS SetupAlerts, TLC

Interchangeable == Permutations(Symbols) \cup Permutations(Monitors)
=============================================================================
