---------------------------- MODULE MCChatTurns ----------------------------
(***************************************************************************)
(* ChatTurns for TLC: which requests carry which message.                  *)
(***************************************************************************)
EXTENDS ChatTurns, TLC

CONSTANTS r1, r2, r3, r4, m1, m2

\* m1 is sent again by r2
Resent == (r1 :> m1) @@ (r2 :> m1) @@ (r3 :> m2)
BothResent == Resent @@ (r4 :> m2)
=============================================================================
