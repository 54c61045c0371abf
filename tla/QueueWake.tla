------------------------------ MODULE QueueWake ------------------------------
(***************************************************************************)
(* How a worker learns that there is work: BasePoller, which polls on a    *)
(* timer, and QueueListenerService, which wakes it when a commit notifies. *)
(*                                                                         *)
(* Node runs one callback at a time, so each callback is one step and a    *)
(* callback that awaits is several.  A notification reaches the sessions   *)
(* that listen when it is committed and nobody else.  What a poll does     *)
(* with the rows it claims is in the modules of the workers.               *)
(***************************************************************************)
EXTENDS Naturals

CONSTANTS
    PollBatch,    \* WORKER_BATCH_SIZE
    MaxRows,      \* bound: rows that become due in a behaviour
    MaxPollErrors,\* bound: polls that throw
    MaxDrops      \* bound: connections of the listener that break

ASSUME WakeAssumption ==
    PollBatch \in Nat \ {0} /\ MaxRows \in Nat /\ MaxPollErrors \in Nat /\ MaxDrops \in Nat

VARIABLES
    waiting,   \* rows that wait to be claimed
    arrived,   \* rows that became due so far
    notices,   \* notifications on their way to the listener
    poller,    \* timer, running, wakeRequested, and what the poll has handled
    listener,  \* clients that listen, connections being opened, the reconnect timer
    lateEnds,  \* 'end' events of dropped clients still to come
    stopping,  \* onApplicationShutdown was called
    pollErrors, drops,
    unannounced \* history: a due row that no notification was received for

wakeVars == <<waiting, arrived, notices, poller, listener, lateEnds, stopping, pollErrors, drops, unannounced>>

\* The delays the code uses: none or the debounce, the poll interval and the
\* longer interval of an idle queue.
Timers == {"none", "soon", "busy", "idle"}

PollerType ==
    [timer : Timers, phase : {"resting", "started", "claimed"},
     wakeRequested : BOOLEAN, handled : 0 .. PollBatch]

ListenerType == [clients : Nat, opening : Nat, reconnect : BOOLEAN]

WakeTypeOK ==
    /\ waiting \in 0 .. MaxRows /\ arrived \in 0 .. MaxRows /\ notices \in Nat
    /\ poller \in PollerType /\ listener \in ListenerType
    /\ lateEnds \in Nat /\ stopping \in BOOLEAN /\ unannounced \in BOOLEAN

WakeInit ==
    /\ waiting = 0 /\ arrived = 0 /\ notices = 0
    /\ poller = [timer |-> "soon", phase |-> "resting", wakeRequested |-> FALSE, handled |-> 0]
    /\ listener = [clients |-> 0, opening |-> 1, reconnect |-> FALSE]
    /\ lateEnds = 0 /\ stopping = FALSE
    /\ pollErrors = 0 /\ drops = 0
    /\ unannounced = FALSE

-----------------------------------------------------------------------------
(* Rows arrive: heard, when something is enqueued, or because the time *)
(* of a retry has come.                                                    *)

notifyQueue(heard) == IF heard THEN listener.clients ELSE 0

RowBecomesDue(heard) ==
    /\ arrived < MaxRows
    /\ arrived' = arrived + 1 /\ waiting' = waiting + 1
    /\ notices' = notices + notifyQueue(heard)
    /\ unannounced' = (unannounced \/ notifyQueue(heard) = 0)
    /\ UNCHANGED <<poller, listener, lateEnds, stopping, pollErrors, drops>>

-----------------------------------------------------------------------------
(* BasePoller.                                                             *)

schedule(p, delay) == IF stopping THEN p ELSE [p EXCEPT !.timer = delay]

wake(p) ==
    IF stopping THEN p
    ELSE IF p.phase # "resting" THEN [p EXCEPT !.wakeRequested = TRUE]
    ELSE schedule([p EXCEPT !.wakeRequested = TRUE], "soon")

\* A wake-up that comes while the poll runs survives it.
tick ==
    /\ poller.timer # "none" /\ poller.phase = "resting"
    /\ poller' = [timer |-> "none", phase |-> "started", wakeRequested |-> FALSE, handled |-> 0]
    /\ UNCHANGED <<waiting, arrived, notices, listener, lateEnds, stopping, pollErrors, drops, unannounced>>

Claimable == IF waiting < PollBatch THEN waiting ELSE PollBatch

pollOnce ==
    /\ poller.phase = "started"
    /\ poller' = [poller EXCEPT !.phase = "claimed", !.handled = Claimable]
    /\ waiting' = waiting - Claimable
    /\ unannounced' = (unannounced /\ waiting # Claimable)
    /\ UNCHANGED <<arrived, notices, listener, lateEnds, stopping, pollErrors, drops>>

\* Logged; the rows wait for the next poll.
PollThrows ==
    /\ poller.phase = "started" /\ pollErrors < MaxPollErrors
    /\ pollErrors' = pollErrors + 1
    /\ poller' = [poller EXCEPT !.phase = "claimed", !.handled = 0]
    /\ unannounced' = (waiting > 0)
    /\ UNCHANGED <<waiting, arrived, notices, listener, lateEnds, stopping, drops>>

NextDelay_IgnoringWake(p) ==
    IF p.handled >= PollBatch THEN "soon"
    ELSE IF p.handled > 0 THEN "busy" ELSE "idle"

NextDelay(p) ==
    IF p.wakeRequested \/ p.handled >= PollBatch THEN "soon"
    ELSE IF p.handled > 0 THEN "busy" ELSE "idle"

AfterPoll_OnlyIfHandled(p) ==
    IF p.handled = 0 /\ ~p.wakeRequested THEN p ELSE schedule(p, NextDelay(p))

AfterPoll(p) == schedule(p, NextDelay(p))

PollEnds ==
    /\ poller.phase = "claimed"
    /\ poller' = [AfterPoll(poller) EXCEPT !.phase = "resting", !.wakeRequested = FALSE]
    /\ UNCHANGED <<waiting, arrived, notices, listener, lateEnds, stopping, pollErrors, drops, unannounced>>

\* The timers of both are cleared and the poll that runs is awaited.
onApplicationShutdown ==
    /\ ~stopping
    /\ stopping' = TRUE
    /\ poller' = [poller EXCEPT !.timer = "none"]
    /\ listener' = [listener EXCEPT !.reconnect = FALSE, !.clients = IF @ > 0 THEN @ - 1 ELSE 0]
    /\ notices' = IF listener.clients <= 1 THEN 0 ELSE notices
    /\ UNCHANGED <<waiting, arrived, lateEnds, pollErrors, drops, unannounced>>

-----------------------------------------------------------------------------
(* QueueListenerService.                                                   *)

Notification ==
    /\ notices > 0
    /\ notices' = notices - 1
    /\ poller' = wake(poller)
    /\ UNCHANGED <<waiting, arrived, listener, lateEnds, stopping, pollErrors, drops, unannounced>>

connect(succeeds) ==
    /\ listener.opening > 0
    /\ succeeds \/ drops < MaxDrops
    /\ drops' = IF succeeds THEN drops ELSE drops + 1
    /\ listener' = [clients |-> IF succeeds /\ ~stopping THEN listener.clients + 1 ELSE listener.clients,
                    opening |-> listener.opening - 1,
                    reconnect |-> listener.reconnect \/ (~succeeds /\ ~stopping)]
    /\ UNCHANGED <<waiting, arrived, notices, poller, lateEnds, stopping, pollErrors, unannounced>>

\* The current client is let go; its 'end' comes later.
scheduleReconnect(dropped) ==
    IF stopping \/ listener.reconnect THEN [listener EXCEPT !.clients = @ - dropped]
    ELSE [listener EXCEPT !.reconnect = TRUE, !.clients = @ - dropped]

\* What was under way to the last client is lost with it.
Deaf(dropped) == dropped = 1 /\ listener.clients = 1

ConnectionBreaks ==
    /\ listener.clients > 0 /\ drops < MaxDrops
    /\ drops' = drops + 1
    /\ listener' = scheduleReconnect(1)
    /\ lateEnds' = lateEnds + 1
    /\ notices' = IF Deaf(1) THEN 0 ELSE notices
    /\ unannounced' = (unannounced \/ (Deaf(1) /\ waiting > 0))
    /\ UNCHANGED <<waiting, arrived, poller, stopping, pollErrors>>

\* An 'end' that comes after the reconnect timer has fired drops the client
\* that has replaced the one it belongs to.
EndArrives ==
    LET drop == IF stopping \/ listener.reconnect \/ listener.clients = 0 THEN 0 ELSE 1 IN
    /\ lateEnds > 0
    /\ listener' = scheduleReconnect(drop)
    /\ lateEnds' = lateEnds - 1 + drop
    /\ notices' = IF Deaf(drop) THEN 0 ELSE notices
    /\ unannounced' = (unannounced \/ (Deaf(drop) /\ waiting > 0))
    /\ UNCHANGED <<waiting, arrived, poller, stopping, pollErrors, drops>>

ReconnectTimer ==
    /\ listener.reconnect
    /\ listener' = [listener EXCEPT !.reconnect = FALSE, !.opening = @ + 1]
    /\ UNCHANGED <<waiting, arrived, notices, poller, lateEnds, stopping, pollErrors, drops, unannounced>>

WakeNext ==
    \/ \E heard \in BOOLEAN : RowBecomesDue(heard)
    \/ tick \/ pollOnce \/ PollThrows \/ PollEnds \/ onApplicationShutdown
    \/ Notification \/ ConnectionBreaks \/ EndArrives \/ ReconnectTimer
    \/ \E succeeds \in BOOLEAN : connect(succeeds)

WakeSpec == WakeInit /\ [][WakeNext]_wakeVars

\* Timers fire and a poll that was started ends.
WakeFairness == WF_wakeVars(tick) /\ WF_wakeVars(pollOnce \/ PollThrows) /\ WF_wakeVars(PollEnds)

-----------------------------------------------------------------------------
\* The worker does not rest for a whole interval over a row it was notified
\* of: the notification is still on its way, or the worker polls again at
\* once, also when it came between the claim and the end of a poll.
NoLostWakeUp ==
    (poller.timer \in {"busy", "idle"} /\ waiting > 0) => (notices > 0 \/ unannounced)

\* A process that has been told to stop, and whose last poll has ended, starts
\* no other.
NoPollAfterShutdown == (stopping /\ poller.phase = "resting") => poller.timer = "none"

\* WakeIsKept: no wake-up is lost and none outlives the shutdown, whichever
\* timer, notification or reconnection comes late (wake, tick, schedule).
WakeIsKept == WakeTypeOK /\ NoLostWakeUp /\ NoPollAfterShutdown

\* EveryRowIsTaken: the timer is the guarantee: whatever notifications are
\* lost and however the listener's connection breaks, a due row is claimed,
\* unless the process stops (schedule, tick).
EveryRowIsTaken == (waiting > 0) ~> (waiting = 0 \/ stopping)
=============================================================================
