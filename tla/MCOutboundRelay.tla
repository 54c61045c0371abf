-------------------------- MODULE MCOutboundRelay --------------------------
(* The instances TLC checks.  Worker identities are interchangeable; rows    *)
(* are not, since a batch is delivered in id order.                          *)
EXTENDS OutboundRelay, TLC

CONSTANTS w1, w2

OneReply == {1}

WorkerSymmetry == Permutations(Workers)
=============================================================================
