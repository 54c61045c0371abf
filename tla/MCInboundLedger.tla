-------------------------- MODULE MCInboundLedger --------------------------
(* The instances TLC checks. *)
EXTENDS InboundLedger, TLC

CONSTANTS w1, w2, i1, i2

WorkerSymmetry == Permutations(Workers)
=============================================================================
