-------------------------- MODULE ScanJobLifecycle --------------------------
(***************************************************************************)
(* What the scan-job queue promises, without workers, messages or clocks:   *)
(* a job waits, runs at most MaxAttempts times, settles once, and may then  *)
(* be forgotten.  Jobs of one exclusive group (the live checks of one       *)
(* monitor) are never unsettled at the same time.                           *)
(***************************************************************************)
EXTENDS Naturals

CONSTANTS Jobs,         \* the jobs that may ever exist
          Exclusive,    \* sets of jobs of which one at a time is unsettled
          MaxAttempts

VARIABLES phase,        \* how far each job has come
          tries         \* how often it was started

lifecycleVars == <<phase, tries>>

Unsettled == {"waiting", "running"}

Init ==
    /\ phase = [j \in Jobs |-> "none"]
    /\ tries = [j \in Jobs |-> 0]

Enqueue(j) ==
    /\ phase[j] = "none"
    /\ \A group \in Exclusive :
          j \in group => \A other \in group : phase[other] \notin Unsettled
    /\ phase' = [phase EXCEPT ![j] = "waiting"]
    /\ UNCHANGED tries

Start(j) ==
    /\ phase[j] = "waiting"
    /\ tries[j] < MaxAttempts
    /\ phase' = [phase EXCEPT ![j] = "running"]
    /\ tries' = [tries EXCEPT ![j] = @ + 1]

\* An attempt that ended without a verdict goes back, if one is left.
Yield(j) ==
    /\ phase[j] = "running"
    /\ tries[j] < MaxAttempts
    /\ phase' = [phase EXCEPT ![j] = "waiting"]
    /\ UNCHANGED tries

Settle(j) ==
    /\ phase[j] \in Unsettled
    /\ phase' = [phase EXCEPT ![j] = "settled"]
    /\ UNCHANGED tries

Forget(j) ==
    /\ phase[j] = "settled"
    /\ phase' = [phase EXCEPT ![j] = "forgotten"]
    /\ UNCHANGED tries

Next == \E j \in Jobs : Enqueue(j) \/ Start(j) \/ Yield(j) \/ Settle(j) \/ Forget(j)

Spec == Init /\ [][Next]_lifecycleVars
=============================================================================
