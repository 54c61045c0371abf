----------------------------- MODULE MCSyncJobs -----------------------------
(* The instances TLC checks. *)
EXTENDS SyncJobs, TLC

CONSTANTS w1, w2, j1, j2, k1, k2

\* Pages of history: one walk longer than a run, or such a walk beside a
\* short one.
OneLong == (k1 :> 3)
TwoShort == (k1 :> 2 @@ k2 :> 1)
=============================================================================
