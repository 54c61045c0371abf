---------------------------- MODULE MCRetention ----------------------------
(* The sweeper alone, with a session and an event of the inbound ledger.    *)
EXTENDS Retention, TLC

SessionAndEvent == ("session" :> "sessions") @@ ("event" :> "inbound_events")
LedgersADay == [table \in Tables |-> IF table \in Ledgers THEN 1 ELSE 0]
=============================================================================
