-------------------------- MODULE MCAlertDelivery --------------------------
(***************************************************************************)
(* AlertDelivery for TLC: which process serves which channel.               *)
(***************************************************************************)
EXTENDS AlertDelivery, TLC

CONSTANTS t1, t2, e1

OneTelegram == t1 :> "telegram"
OneEach == (t1 :> "telegram") @@ (e1 :> "email")
TwoTelegram == (t1 :> "telegram") @@ (t2 :> "telegram")

FirstAlert == {<<1, "telegram">>}
=============================================================================
