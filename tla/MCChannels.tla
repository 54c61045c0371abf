----------------------------- MODULE MCChannels -----------------------------
(* The instance TLC checks. *)
EXTENDS Connections, TLC

CONSTANTS b1, b2, l1, l2

OneHasTwo == (b1 :> {l1, l2}) @@ (b2 :> {l1})
=============================================================================
