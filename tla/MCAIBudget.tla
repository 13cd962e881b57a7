---------------------------- MODULE MCAIBudget ----------------------------
(***************************************************************************)
(* AIBudget for TLC: whose turns the requests are.                         *)
(***************************************************************************)
EXTENDS AIBudget, TLC

CONSTANTS t1, t2, t3, t4, k1, k2, k3, u1, u2

\* t2 is the retry of t1
ThreeTurns == (t1 :> k1) @@ (t2 :> k1) @@ (t3 :> k2)
FourTurns == ThreeTurns @@ (t4 :> k3)
OneUser == [k \in {k1, k2} |-> u1]
TwoUsers == (k1 :> u1) @@ (k2 :> u2) @@ (k3 :> u1)

Ceilings == ("global_daily" :> 2) @@ ("global_monthly" :> Absent)
                @@ ("user_messages_daily" :> 1)
OneCeiling == "global_daily" :> 2
TurnCeiling == "user_daily" :> 1
=============================================================================
