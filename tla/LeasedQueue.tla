---------------------------- MODULE LeasedQueue ----------------------------
(***************************************************************************)
(* What the three ledgers of the system promise alike: outbound_events,    *)
(* inbound_events and sync_jobs.  An entry waits, is held by one holder    *)
(* under a lease, and settles.  Only the holder that owns an entry and is  *)
(* still working on it settles or returns it; what a holder does to an     *)
(* entry it no longer owns has no effect; and an entry is taken from its   *)
(* owner only once its lease is over.  OutboundRelay, InboundLedger and    *)
(* SyncJobs implement this specification.                                  *)
(***************************************************************************)
CONSTANTS
    Entries, Holders, Nobody,
    Outcomes,     \* how an entry may settle
    Amendments    \* the changes of a settled entry that are allowed, as pairs

VARIABLES
    state,   \* [Entries -> absent, waiting, held or an outcome]
    owner,   \* [Entries -> Holders \cup {Nobody}]
    hands,   \* [Holders -> the entries it is working on]
    lapsed   \* the held entries whose lease is over

queueVars == <<state, owner, hands, lapsed>>

Init ==
    /\ state = [e \in Entries |-> "absent"]
    /\ owner = [e \in Entries |-> Nobody]
    /\ hands = [h \in Holders |-> {}]
    /\ lapsed = {}

Waiting == {e \in Entries : state[e] = "waiting"}
Held == {e \in Entries : state[e] = "held"}

Offer(e) ==
    /\ state[e] = "absent"
    /\ state' = [state EXCEPT ![e] = "waiting"]
    /\ UNCHANGED <<owner, hands, lapsed>>

\* A batch goes to one holder in one step.
Take(h, S) ==
    /\ hands' = [hands EXCEPT ![h] = S]
    /\ state' = [e \in Entries |-> IF e \in S THEN "held" ELSE state[e]]
    /\ owner' = [e \in Entries |-> IF e \in S THEN h ELSE owner[e]]
    /\ UNCHANGED lapsed

Returned(e, to) ==
    /\ state' = [state EXCEPT ![e] = to]
    /\ owner' = [owner EXCEPT ![e] = Nobody]
    /\ lapsed' = lapsed \ {e}

\* The owner is done with an entry, or puts it back.
Finish(h, e, to) ==
    /\ owner[e] = h /\ state[e] = "held"
    /\ hands' = [hands EXCEPT ![h] = @ \ {e}]
    /\ Returned(e, to)

\* The owner shows that it is alive, and perhaps stops.
Renew(h, e, keeps) ==
    /\ owner[e] = h /\ state[e] = "held"
    /\ lapsed' = lapsed \ {e}
    /\ hands' = IF keeps THEN hands ELSE [hands EXCEPT ![h] = @ \ {e}]
    /\ UNCHANGED <<state, owner>>

\* A holder stops working on entries: it dies, or finds them gone.
LetGo(h, S) ==
    /\ hands' = [hands EXCEPT ![h] = @ \ S]
    /\ UNCHANGED <<state, owner, lapsed>>

Lapse(S) ==
    /\ lapsed' = lapsed \cup S
    /\ UNCHANGED <<state, owner, hands>>

Reap(e, to) ==
    /\ e \in lapsed
    /\ Returned(e, to)
    /\ UNCHANGED hands

Amend(e, change) ==
    /\ state[e] = change[1]
    /\ state' = [state EXCEPT ![e] = change[2]]
    /\ UNCHANGED <<owner, hands, lapsed>>

Next ==
    \/ \E h \in Holders :
        \/ \E S \in SUBSET hands[h] : LetGo(h, S)
        \/ \E S \in SUBSET Waiting : Take(h, S)
        \/ \E e \in hands[h] :
            \/ \E to \in Outcomes \cup {"waiting"} : Finish(h, e, to)
            \/ \E keeps \in BOOLEAN : Renew(h, e, keeps)
    \/ \E e \in Entries : Offer(e)
    \/ \E S \in SUBSET Held : Lapse(S)
    \/ \E e \in Held, to \in Outcomes \cup {"waiting"} : Reap(e, to)
    \/ \E change \in Amendments, e \in Entries : Amend(e, change)

Spec == Init /\ [][Next]_queueVars
=============================================================================
