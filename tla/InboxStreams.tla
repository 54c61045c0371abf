---------------------------- MODULE InboxStreams ----------------------------
(***************************************************************************)
(* The live inbox: InboxController.stream and InboxEventsService, which    *)
(* fan the changes a transaction announces out to the browsers of the same *)
(* business.                                                               *)
(*                                                                         *)
(* A stream takes a slot of its business, hears of the kinds of thread its *)
(* owner could see when it was opened, and ends by expiring, by the client *)
(* closing it or by an error, in any order and more than once.             *)
(***************************************************************************)
EXTENDS Naturals, FiniteSets

CONSTANTS
    Firms,       \* enterprises
    Kinds,       \* conversation kinds
    Streams,     \* streams that may be opened
    MaxStreams,  \* SSE_MAX_STREAMS_PER_ENTERPRISE
    MaxChanges   \* bound: changes announced in a behaviour

ASSUME StreamsAssumption == MaxStreams \in Nat \ {0} /\ MaxChanges \in Nat

VARIABLES
    stream,      \* the response of each stream: its business, its kinds, its timers
    subscribers, \* the subscriber sets of InboxEventsService, by business
    sees,        \* the kinds each business's employee may see now
    listening,   \* the LISTEN connection is up
    announced,   \* changes announced so far
    told,        \* history: what each stream was told
    revokedAt    \* history: kinds taken from the owner of a stream since it was opened

streamVars == <<stream, subscribers, sees, listening, announced, told, revokedAt>>

Unopened == [status |-> "unopened"]

StreamsInit ==
    /\ stream = [s \in Streams |-> Unopened]
    /\ subscribers = [f \in Firms |-> {}]
    /\ sees = [f \in Firms |-> Kinds]
    /\ listening = FALSE
    /\ announced = 0
    /\ told = [s \in Streams |-> {}]
    /\ revokedAt = [s \in Streams |-> {}]

-----------------------------------------------------------------------------
HasRoom(f) == Cardinality(subscribers[f]) < MaxStreams

Opened_WithoutExpiry(f) == [status |-> "open", firm |-> f, kinds |-> sees[f], timers |-> FALSE]

Opened(f) == [status |-> "open", firm |-> f, kinds |-> sees[f], timers |-> TRUE]

\* A business that has no room is answered 503 and nothing changes.
subscribe(s, f) ==
    /\ stream[s] = Unopened
    /\ sees[f] # {}
    /\ HasRoom(f)
    /\ stream' = [stream EXCEPT ![s] = Opened(f)]
    /\ subscribers' = [subscribers EXCEPT ![f] = @ \cup {s}]
    /\ UNCHANGED <<sees, listening, announced, told, revokedAt>>

unsubscribe(s) == [subscribers EXCEPT ![stream[s].firm] = @ \ {s}]

\* The expiry timer, or the 'close' or 'error' of the response, which come
\* once more when close() has ended the response itself.
close(s, expired) ==
    /\ stream[s].status # "unopened"
    /\ expired => stream[s].timers
    /\ stream' = [stream EXCEPT ![s].status = "closed", ![s].timers = FALSE]
    /\ subscribers' = unsubscribe(s)
    /\ UNCHANGED <<sees, listening, announced, told, revokedAt>>

\* An employee's roles change: streams that are open keep what they had.
SightChanges(f, kind) ==
    LET kinds == IF kind \in sees[f] THEN sees[f] \ {kind} ELSE sees[f] \cup {kind} IN
    /\ sees' = [sees EXCEPT ![f] = kinds]
    /\ revokedAt' = [s \in Streams |->
          IF stream[s].status = "open" /\ stream[s].firm = f
          THEN revokedAt[s] \cup (stream[s].kinds \ kinds) ELSE revokedAt[s]]
    /\ UNCHANGED <<stream, subscribers, listening, announced, told>>

-----------------------------------------------------------------------------
connectEvents ==
    /\ ~listening
    /\ listening' = TRUE
    /\ UNCHANGED <<stream, subscribers, sees, announced, told, revokedAt>>

\* Clients fall back to polling until the listener is back.
ListenerBreaks ==
    /\ listening
    /\ listening' = FALSE
    /\ UNCHANGED <<stream, subscribers, sees, announced, told, revokedAt>>

deliverableChange(s, f, kind) == stream[s].firm = f /\ kind \in stream[s].kinds

\* notifyChanged commits with its transaction, and dispatch tells everyone
\* subscribed then.
dispatch(f, kind) ==
    /\ announced < MaxChanges
    /\ announced' = announced + 1
    /\ told' = [s \in Streams |->
          IF listening /\ s \in subscribers[f] /\ deliverableChange(s, f, kind)
          THEN told[s] \cup {<<f, kind>>} ELSE told[s]]
    /\ UNCHANGED <<stream, subscribers, sees, listening, revokedAt>>

StreamsNext ==
    \/ \E s \in Streams :
        \/ \E f \in Firms : subscribe(s, f)
        \/ \E expired \in BOOLEAN : close(s, expired)
    \/ \E f \in Firms :
        \/ \E kind \in Kinds : SightChanges(f, kind) \/ dispatch(f, kind)
    \/ connectEvents \/ ListenerBreaks

StreamsSpec == StreamsInit /\ [][StreamsNext]_streamVars

\* The timer of SSE_MAX_STREAM_MS fires.
StreamFairness == \A s \in Streams : WF_streamVars(close(s, TRUE))

-----------------------------------------------------------------------------
\* The slots a business has taken are its open streams, no more than allowed
\* and none left behind by a stream that ended in any of the ways it may end,
\* twice over.
SlotsAreReturned ==
    \A f \in Firms :
        /\ subscribers[f] = {s \in Streams : stream[s].status = "open" /\ stream[s].firm = f}
        /\ Cardinality(subscribers[f]) <= MaxStreams

\* A stream is told of threads of its own business alone and of kinds its
\* owner could see, at the latest when the stream was opened.
ToldOnlyWhatMayBeSeen ==
    \A s \in Streams, f \in Firms, kind \in Kinds :
        <<f, kind>> \in told[s] =>
            f = stream[s].firm /\ (kind \in sees[f] \/ kind \in revokedAt[s] \/ stream[s].status = "closed")

\* A stream does not outlive the decision that opened it: once a kind is taken
\* from its owner, the stream ends.
RevokedSightEnds ==
    \A s \in Streams : (revokedAt[s] # {}) ~> (stream[s].status = "closed")

\* StreamsAreSound: slots come back, a stream carries only what its owner may
\* see, and what its owner may no longer see stops within a stream's life
\* (subscribe, deliverableChange, close, the expiry timer).
StreamsAreSound == [](SlotsAreReturned /\ ToldOnlyWhatMayBeSeen) /\ RevokedSightEnds
=============================================================================
