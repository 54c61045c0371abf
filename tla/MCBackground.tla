----------------------------- MODULE MCBackground -----------------------------
(* SyncJobs, QueueWake, InboxStreams and Retention share nothing here: a    *)
(* behaviour is one of one of them, with its fairness, while the others     *)
(* stay where they are.                                                     *)
EXTENDS MCSyncJobs, QueueWake, InboxStreams, Retention

VARIABLE moving

BackgroundInit ==
    /\ moving \in {"jobs", "poller", "streams", "sweeper"}
    /\ Init /\ WakeInit /\ StreamsInit /\ RetentionInit

BackgroundNext ==
    \/ moving = "jobs" /\ Next /\ UNCHANGED <<moving, wakeVars, streamVars, retentionVars>>
    \/ moving = "poller" /\ WakeNext /\ UNCHANGED <<moving, vars, streamVars, retentionVars>>
    \/ moving = "streams" /\ StreamsNext /\ UNCHANGED <<moving, vars, wakeVars, retentionVars>>
    \/ moving = "sweeper" /\ RetentionNext /\ UNCHANGED <<moving, vars, wakeVars, streamVars>>

BackgroundFairness ==
    \/ moving = "jobs" /\ Fairness
    \/ moving = "poller" /\ WakeFairness
    \/ moving = "streams" /\ StreamFairness
    \/ moving = "sweeper" /\ RetentionFairness

BackgroundSpec ==
    /\ BackgroundInit
    /\ [][BackgroundNext]_<<moving, vars, wakeVars, streamVars, retentionVars>>
    /\ BackgroundFairness

\* A session, and an event of the inbound ledger; only ledgers are kept.
SessionAndEvent == ("session" :> "sessions") @@ ("event" :> "inbound_events")
LedgersADay == [table \in Tables |-> IF table \in Ledgers THEN 1 ELSE 0]
=============================================================================
