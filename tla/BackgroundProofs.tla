--------------------------- MODULE BackgroundProofs ---------------------------
(***************************************************************************)
(* The background processes. No wake-up is lost, for every batch size,     *)
(* number of rows, number of failing polls and number of broken            *)
(* connections; a backfill walks the whole history, for every set of jobs  *)
(* and workers, every length of a walk and every attempt budget; the calls *)
(* to the platform add up, for any number of processes and pools; a live   *)
(* stream gives its slot back; and the sweeper takes only what is old.     *)
(***************************************************************************)
EXTENDS QueueWake, SyncJobs, UsageMonitor, InboxStreams, Retention, Aggregates, SequenceTheorems

-----------------------------------------------------------------------------
(* The poll loop and its wake-up.                                            *)

\* The timer runs only while the poller rests and the process is not stopping.
TimerOnlyAtRest ==
    /\ poller.phase # "resting" => poller.timer = "none"
    /\ stopping => poller.timer = "none"

\* What is left behind by a poll that will not be followed by another at once
\* has been announced to nobody, or its announcement is still to come.
PollLeavesNothing ==
    (/\ poller.phase = "claimed" /\ waiting > 0
     /\ ~poller.wakeRequested /\ poller.handled < PollBatch /\ ~stopping)
        => (notices > 0 \/ unannounced)

\* The inductive invariant: NoLostWakeUp speaks of a poller at rest and is
\* decided by how the poll before it ended.
WakeInv ==
    /\ WakeTypeOK /\ waiting <= arrived
    /\ TimerOnlyAtRest /\ PollLeavesNothing /\ NoLostWakeUp

\* What an edit of the two records leaves (schedule, connect).
LEMMA PollerEdits ==
    ASSUME NEW p \in PollerType, NEW n \in 0 .. PollBatch
    PROVE  [p EXCEPT !.phase = "claimed", !.handled = n] \in PollerType
  BY Zenon DEF PollerType

LEMMA ListenerEdits ==
    ASSUME NEW l \in ListenerType, NEW n \in Nat, NEW b \in BOOLEAN
    PROVE  /\ [l EXCEPT !.clients = n] \in ListenerType
           /\ [l EXCEPT !.reconnect = b, !.clients = n] \in ListenerType
           /\ [l EXCEPT !.reconnect = b, !.opening = n] \in ListenerType
  BY Zenon DEF ListenerType

\* A client that is let go was there (scheduleReconnect).
LEMMA ReconnectType ==
    ASSUME WakeTypeOK, NEW n \in {0, 1}, n <= listener.clients
    PROVE  scheduleReconnect(n) \in ListenerType
  <1>1. listener.clients - n \in Nat
    BY DEF WakeTypeOK, ListenerType
  <1>2. [listener EXCEPT !.clients = @ - n] \in ListenerType
    BY <1>1, ListenerEdits, Zenon DEF WakeTypeOK
  <1>3. [listener EXCEPT !.reconnect = TRUE, !.clients = @ - n] \in ListenerType
    BY <1>1, ListenerEdits, Zenon DEF WakeTypeOK
  <1> QED BY <1>2, <1>3, Zenon DEF scheduleReconnect

\* The process starts with one poll planned and nothing to announce
\* (onApplicationBootstrap).
LEMMA WakeInitially == ASSUME WakeInit PROVE WakeInv
  <1>1. poller \in PollerType /\ listener \in ListenerType
    BY WakeAssumption DEF WakeInit, PollerType, ListenerType, Timers
  <1>2. waiting \in 0 .. MaxRows /\ arrived \in 0 .. MaxRows /\ notices \in Nat /\ waiting <= arrived
    BY WakeAssumption DEF WakeInit
  <1>3. lateEnds \in Nat /\ stopping \in BOOLEAN /\ unannounced \in BOOLEAN
    BY DEF WakeInit
  <1>4. TimerOnlyAtRest /\ PollLeavesNothing /\ NoLostWakeUp
    BY DEF WakeInit, TimerOnlyAtRest, PollLeavesNothing, NoLostWakeUp
  <1> QED BY <1>1, <1>2, <1>3, <1>4 DEF WakeInv, WakeTypeOK

\* A row that becomes due is announced to every client that listens, or counts
\* as unannounced (notifyQueue).
LEMMA RowBecomesDueKeeps == ASSUME WakeInv, NEW heard \in BOOLEAN, RowBecomesDue(heard) PROVE WakeInv'
  <1>1. waiting' \in 0 .. MaxRows /\ arrived' \in 0 .. MaxRows /\ waiting' <= arrived' /\ notices' \in Nat
    BY WakeAssumption DEF RowBecomesDue, notifyQueue, WakeInv, WakeTypeOK, PollerType, ListenerType
  <1>2. poller' \in PollerType
    BY WakeAssumption DEF RowBecomesDue, notifyQueue, WakeInv, WakeTypeOK, PollerType, Timers
  <1>3. listener' \in ListenerType
    BY DEF RowBecomesDue, notifyQueue, WakeInv, WakeTypeOK, ListenerType
  <1>4. lateEnds' \in Nat /\ stopping' \in BOOLEAN
    BY DEF RowBecomesDue, notifyQueue, WakeInv, WakeTypeOK
  <1>5. unannounced' \in BOOLEAN
    BY DEF RowBecomesDue, notifyQueue, WakeInv, WakeTypeOK
  <1>6. TimerOnlyAtRest'
    BY DEF RowBecomesDue, notifyQueue, WakeInv, WakeTypeOK, PollerType, TimerOnlyAtRest
  <1>7. notices' > 0 \/ unannounced'
    <2>1. CASE notifyQueue(heard) = 0
      BY <2>1, Zenon DEF RowBecomesDue
    <2>2. CASE notifyQueue(heard) # 0
      <3>1. notifyQueue(heard) \in Nat
        BY DEF notifyQueue, WakeInv, WakeTypeOK, ListenerType
      <3>2. notices' = notices + notifyQueue(heard)
        BY DEF RowBecomesDue
      <3>3. notices' > 0
        BY <2>2, <3>1, <3>2 DEF WakeInv, WakeTypeOK
      <3> QED BY <3>3
    <2> QED BY <2>1, <2>2
  <1>8. PollLeavesNothing' /\ NoLostWakeUp'
    BY <1>7 DEF PollLeavesNothing, NoLostWakeUp
  <1> QED BY <1>1, <1>2, <1>3, <1>4, <1>5, <1>6, <1>7, <1>8 DEF WakeInv, WakeTypeOK

\* A poll starts with the timer spent and the flag cleared (tick).
LEMMA TickKeeps == ASSUME WakeInv, tick PROVE WakeInv'
  <1>1. waiting' \in 0 .. MaxRows /\ arrived' \in 0 .. MaxRows /\ waiting' <= arrived' /\ notices' \in Nat
    BY WakeAssumption DEF tick, WakeInv, WakeTypeOK, PollerType, ListenerType
  <1>2. poller' \in PollerType
    BY WakeAssumption DEF tick, WakeInv, WakeTypeOK, PollerType, Timers
  <1>3. listener' \in ListenerType
    BY DEF tick, WakeInv, WakeTypeOK, ListenerType
  <1>4. lateEnds' \in Nat /\ stopping' \in BOOLEAN
    BY DEF tick, WakeInv, WakeTypeOK
  <1>5. unannounced' \in BOOLEAN
    BY DEF tick, WakeInv, WakeTypeOK
  <1>6. TimerOnlyAtRest'
    BY DEF tick, WakeInv, WakeTypeOK, PollerType, TimerOnlyAtRest
  <1>7. PollLeavesNothing'
    BY WakeAssumption DEF tick, WakeInv, WakeTypeOK, PollerType, ListenerType, TimerOnlyAtRest, PollLeavesNothing
  <1>8. NoLostWakeUp'
    BY WakeAssumption
    DEF tick, WakeInv, WakeTypeOK, PollerType, ListenerType, TimerOnlyAtRest, PollLeavesNothing, NoLostWakeUp
  <1> QED BY <1>1, <1>2, <1>3, <1>4, <1>5, <1>6, <1>7, <1>8 DEF WakeInv, WakeTypeOK

\* A claim that is not full leaves no row behind (pollOnce).
LEMMA PollKeeps == ASSUME WakeInv, pollOnce PROVE WakeInv'
  <1>1. waiting' \in 0 .. MaxRows /\ arrived' \in 0 .. MaxRows /\ waiting' <= arrived' /\ notices' \in Nat
    BY WakeAssumption DEF pollOnce, Claimable, WakeInv, WakeTypeOK, PollerType, ListenerType
  <1>2. poller' \in PollerType
    <2>1. Claimable \in 0 .. PollBatch
      BY WakeAssumption DEF Claimable, WakeInv, WakeTypeOK
    <2> QED BY <2>1, PollerEdits, Zenon DEF pollOnce, WakeInv, WakeTypeOK
  <1>3. listener' \in ListenerType
    BY DEF pollOnce, Claimable, WakeInv, WakeTypeOK, ListenerType
  <1>4. lateEnds' \in Nat /\ stopping' \in BOOLEAN
    BY DEF pollOnce, Claimable, WakeInv, WakeTypeOK
  <1>5. unannounced' \in BOOLEAN
    BY DEF pollOnce, Claimable, WakeInv, WakeTypeOK
  <1>6. TimerOnlyAtRest'
    BY DEF pollOnce, Claimable, WakeInv, WakeTypeOK, PollerType, TimerOnlyAtRest
  <1>7. PollLeavesNothing'
    BY WakeAssumption DEF pollOnce, Claimable, WakeInv, WakeTypeOK, PollerType, ListenerType, TimerOnlyAtRest, PollLeavesNothing
  <1>8. NoLostWakeUp'
    BY WakeAssumption
    DEF pollOnce, Claimable, WakeInv, WakeTypeOK, PollerType, ListenerType, TimerOnlyAtRest, PollLeavesNothing, NoLostWakeUp
  <1> QED BY <1>1, <1>2, <1>3, <1>4, <1>5, <1>6, <1>7, <1>8 DEF WakeInv, WakeTypeOK

\* A poll that throws has used up the announcements of the rows it left.
LEMMA PollThrowsKeeps == ASSUME WakeInv, PollThrows PROVE WakeInv'
  <1>1. waiting' \in 0 .. MaxRows /\ arrived' \in 0 .. MaxRows /\ waiting' <= arrived' /\ notices' \in Nat
    BY WakeAssumption DEF PollThrows, WakeInv, WakeTypeOK, PollerType, ListenerType
  <1>2. poller' \in PollerType
    <2>1. 0 \in 0 .. PollBatch
      BY WakeAssumption
    <2> QED BY <2>1, PollerEdits, Zenon DEF PollThrows, WakeInv, WakeTypeOK
  <1>3. listener' \in ListenerType
    BY DEF PollThrows, WakeInv, WakeTypeOK, ListenerType
  <1>4. lateEnds' \in Nat /\ stopping' \in BOOLEAN
    BY DEF PollThrows, WakeInv, WakeTypeOK
  <1>5. unannounced' \in BOOLEAN
    BY DEF PollThrows, WakeInv, WakeTypeOK
  <1>6. TimerOnlyAtRest'
    BY DEF PollThrows, WakeInv, WakeTypeOK, PollerType, TimerOnlyAtRest
  <1>7. PollLeavesNothing'
    BY WakeAssumption DEF PollThrows, WakeInv, WakeTypeOK, PollerType, ListenerType, TimerOnlyAtRest, PollLeavesNothing
  <1>8. NoLostWakeUp'
    BY WakeAssumption
    DEF PollThrows, WakeInv, WakeTypeOK, PollerType, ListenerType, TimerOnlyAtRest, PollLeavesNothing, NoLostWakeUp
  <1> QED BY <1>1, <1>2, <1>3, <1>4, <1>5, <1>6, <1>7, <1>8 DEF WakeInv, WakeTypeOK

\* The delay after a poll is decided by the flag and the batch together
\* (BasePoller.tick).
LEMMA PollEndsKeeps == ASSUME WakeInv, PollEnds PROVE WakeInv'
  <1>1. waiting' \in 0 .. MaxRows /\ arrived' \in 0 .. MaxRows /\ waiting' <= arrived' /\ notices' \in Nat
    BY WakeAssumption DEF PollEnds, AfterPoll, NextDelay, schedule, WakeInv, WakeTypeOK, PollerType, ListenerType
  <1>2. poller' \in PollerType
    BY WakeAssumption DEF PollEnds, AfterPoll, NextDelay, schedule, WakeInv, WakeTypeOK, PollerType, Timers
  <1>3. listener' \in ListenerType
    BY DEF PollEnds, AfterPoll, NextDelay, schedule, WakeInv, WakeTypeOK, ListenerType
  <1>4. lateEnds' \in Nat /\ stopping' \in BOOLEAN
    BY DEF PollEnds, AfterPoll, NextDelay, schedule, WakeInv, WakeTypeOK
  <1>5. unannounced' \in BOOLEAN
    BY DEF PollEnds, AfterPoll, NextDelay, schedule, WakeInv, WakeTypeOK
  <1>6. TimerOnlyAtRest'
    BY DEF PollEnds, AfterPoll, NextDelay, schedule, WakeInv, WakeTypeOK, PollerType, TimerOnlyAtRest
  <1>7. PollLeavesNothing'
    BY WakeAssumption DEF PollEnds, AfterPoll, NextDelay, schedule, WakeInv, WakeTypeOK, PollerType, ListenerType, TimerOnlyAtRest, PollLeavesNothing
  <1>8. NoLostWakeUp'
    BY WakeAssumption
    DEF PollEnds, AfterPoll, NextDelay, schedule, WakeInv, WakeTypeOK, PollerType, ListenerType, TimerOnlyAtRest, PollLeavesNothing, NoLostWakeUp
  <1> QED BY <1>1, <1>2, <1>3, <1>4, <1>5, <1>6, <1>7, <1>8 DEF WakeInv, WakeTypeOK

\* Shutting down clears the timer, whatever was announced.
LEMMA ShutdownKeeps == ASSUME WakeInv, onApplicationShutdown PROVE WakeInv'
  <1>1. waiting' \in 0 .. MaxRows /\ arrived' \in 0 .. MaxRows /\ waiting' <= arrived' /\ notices' \in Nat
    BY WakeAssumption DEF onApplicationShutdown, WakeInv, WakeTypeOK, PollerType, ListenerType
  <1>2. poller' \in PollerType
    BY WakeAssumption DEF onApplicationShutdown, WakeInv, WakeTypeOK, PollerType, Timers
  <1>3. listener' \in ListenerType
    <2>1. (IF listener.clients > 0 THEN listener.clients - 1 ELSE 0) \in Nat
      BY DEF WakeInv, WakeTypeOK, ListenerType
    <2> QED BY <2>1, ListenerEdits, Zenon DEF onApplicationShutdown, WakeInv, WakeTypeOK
  <1>4. lateEnds' \in Nat /\ stopping' \in BOOLEAN
    BY DEF onApplicationShutdown, WakeInv, WakeTypeOK
  <1>5. unannounced' \in BOOLEAN
    BY DEF onApplicationShutdown, WakeInv, WakeTypeOK
  <1>6. TimerOnlyAtRest'
    BY DEF onApplicationShutdown, WakeInv, WakeTypeOK, PollerType, TimerOnlyAtRest
  <1>7. PollLeavesNothing'
    BY WakeAssumption DEF onApplicationShutdown, WakeInv, WakeTypeOK, PollerType, ListenerType, TimerOnlyAtRest, PollLeavesNothing
  <1>8. NoLostWakeUp'
    BY WakeAssumption
    DEF onApplicationShutdown, WakeInv, WakeTypeOK, PollerType, ListenerType, TimerOnlyAtRest, PollLeavesNothing, NoLostWakeUp
  <1> QED BY <1>1, <1>2, <1>3, <1>4, <1>5, <1>6, <1>7, <1>8 DEF WakeInv, WakeTypeOK

\* A notification sets the timer, or leaves the flag for the poll that runs
\* (wake).
LEMMA NotificationKeeps == ASSUME WakeInv, Notification PROVE WakeInv'
  <1>1. waiting' \in 0 .. MaxRows /\ arrived' \in 0 .. MaxRows /\ waiting' <= arrived' /\ notices' \in Nat
    BY WakeAssumption DEF Notification, wake, schedule, WakeInv, WakeTypeOK, PollerType, ListenerType
  <1>2. poller' \in PollerType
    BY WakeAssumption DEF Notification, wake, schedule, WakeInv, WakeTypeOK, PollerType, Timers
  <1>3. listener' \in ListenerType
    BY DEF Notification, wake, schedule, WakeInv, WakeTypeOK, ListenerType
  <1>4. lateEnds' \in Nat /\ stopping' \in BOOLEAN
    BY DEF Notification, wake, schedule, WakeInv, WakeTypeOK
  <1>5. unannounced' \in BOOLEAN
    BY DEF Notification, wake, schedule, WakeInv, WakeTypeOK
  <1>6. TimerOnlyAtRest'
    BY DEF Notification, wake, schedule, WakeInv, WakeTypeOK, PollerType, TimerOnlyAtRest
  <1>7. PollLeavesNothing'
    BY WakeAssumption DEF Notification, wake, schedule, WakeInv, WakeTypeOK, PollerType, ListenerType, TimerOnlyAtRest, PollLeavesNothing
  <1>8. NoLostWakeUp'
    BY WakeAssumption
    DEF Notification, wake, schedule, WakeInv, WakeTypeOK, PollerType, ListenerType, TimerOnlyAtRest, PollLeavesNothing, NoLostWakeUp
  <1> QED BY <1>1, <1>2, <1>3, <1>4, <1>5, <1>6, <1>7, <1>8 DEF WakeInv, WakeTypeOK

\* A connection that breaks takes with it what was on its way (scheduleReconnect).
LEMMA BreakKeeps == ASSUME WakeInv, ConnectionBreaks PROVE WakeInv'
  <1>1. waiting' \in 0 .. MaxRows /\ arrived' \in 0 .. MaxRows /\ waiting' <= arrived' /\ notices' \in Nat
    BY WakeAssumption DEF ConnectionBreaks, scheduleReconnect, Deaf, WakeInv, WakeTypeOK, PollerType, ListenerType
  <1>2. poller' \in PollerType
    BY WakeAssumption DEF ConnectionBreaks, scheduleReconnect, Deaf, WakeInv, WakeTypeOK, PollerType, Timers
  <1>3. listener' \in ListenerType
    <2>1. 1 <= listener.clients
      BY DEF ConnectionBreaks, WakeInv, WakeTypeOK, ListenerType
    <2> QED BY <2>1, ReconnectType, Zenon DEF ConnectionBreaks, WakeInv
  <1>4. lateEnds' \in Nat /\ stopping' \in BOOLEAN
    BY DEF ConnectionBreaks, scheduleReconnect, Deaf, WakeInv, WakeTypeOK
  <1>5. unannounced' \in BOOLEAN
    BY DEF ConnectionBreaks, scheduleReconnect, Deaf, WakeInv, WakeTypeOK
  <1>6. TimerOnlyAtRest'
    BY DEF ConnectionBreaks, scheduleReconnect, Deaf, WakeInv, WakeTypeOK, PollerType, TimerOnlyAtRest
  <1>7. PollLeavesNothing'
    BY WakeAssumption DEF ConnectionBreaks, scheduleReconnect, Deaf, WakeInv, WakeTypeOK, PollerType, ListenerType, TimerOnlyAtRest, PollLeavesNothing
  <1>8. NoLostWakeUp'
    BY WakeAssumption
    DEF ConnectionBreaks, scheduleReconnect, Deaf, WakeInv, WakeTypeOK, PollerType, ListenerType, TimerOnlyAtRest, PollLeavesNothing, NoLostWakeUp
  <1> QED BY <1>1, <1>2, <1>3, <1>4, <1>5, <1>6, <1>7, <1>8 DEF WakeInv, WakeTypeOK

\* A late end may drop the client that came after (QueueListenerService.connect).
LEMMA EndKeeps == ASSUME WakeInv, EndArrives PROVE WakeInv'
  <1>1. waiting' \in 0 .. MaxRows /\ arrived' \in 0 .. MaxRows /\ waiting' <= arrived' /\ notices' \in Nat
    BY WakeAssumption DEF EndArrives, scheduleReconnect, Deaf, WakeInv, WakeTypeOK, PollerType, ListenerType
  <1>2. poller' \in PollerType
    BY WakeAssumption DEF EndArrives, scheduleReconnect, Deaf, WakeInv, WakeTypeOK, PollerType, Timers
  <1>3. listener' \in ListenerType
    <2> DEFINE drop == IF stopping \/ listener.reconnect \/ listener.clients = 0 THEN 0 ELSE 1
    <2>1. drop \in {0, 1} /\ drop <= listener.clients
      BY DEF WakeInv, WakeTypeOK, ListenerType
    <2>2. scheduleReconnect(drop) \in ListenerType
      BY <2>1, ReconnectType, Zenon DEF WakeInv
    <2>3. listener' = scheduleReconnect(drop)
      BY Zenon DEF EndArrives
    <2> QED BY <2>2, <2>3, Zenon
  <1>4. lateEnds' \in Nat /\ stopping' \in BOOLEAN
    BY DEF EndArrives, scheduleReconnect, Deaf, WakeInv, WakeTypeOK
  <1>5. unannounced' \in BOOLEAN
    BY DEF EndArrives, scheduleReconnect, Deaf, WakeInv, WakeTypeOK
  <1>6. TimerOnlyAtRest'
    BY DEF EndArrives, scheduleReconnect, Deaf, WakeInv, WakeTypeOK, PollerType, TimerOnlyAtRest
  <1>7. PollLeavesNothing'
    BY WakeAssumption DEF EndArrives, scheduleReconnect, Deaf, WakeInv, WakeTypeOK, PollerType, ListenerType, TimerOnlyAtRest, PollLeavesNothing
  <1>8. NoLostWakeUp'
    BY WakeAssumption
    DEF EndArrives, scheduleReconnect, Deaf, WakeInv, WakeTypeOK, PollerType, ListenerType, TimerOnlyAtRest, PollLeavesNothing, NoLostWakeUp
  <1> QED BY <1>1, <1>2, <1>3, <1>4, <1>5, <1>6, <1>7, <1>8 DEF WakeInv, WakeTypeOK

\* The reconnect timer opens another connection.
LEMMA TimerKeeps == ASSUME WakeInv, ReconnectTimer PROVE WakeInv'
  <1>1. waiting' \in 0 .. MaxRows /\ arrived' \in 0 .. MaxRows /\ waiting' <= arrived' /\ notices' \in Nat
    BY WakeAssumption DEF ReconnectTimer, WakeInv, WakeTypeOK, PollerType, ListenerType
  <1>2. poller' \in PollerType
    BY WakeAssumption DEF ReconnectTimer, WakeInv, WakeTypeOK, PollerType, Timers
  <1>3. listener' \in ListenerType
    <2>1. listener.opening + 1 \in Nat /\ FALSE \in BOOLEAN
      BY DEF WakeInv, WakeTypeOK, ListenerType
    <2> QED BY <2>1, ListenerEdits, Zenon DEF ReconnectTimer, WakeInv, WakeTypeOK
  <1>4. lateEnds' \in Nat /\ stopping' \in BOOLEAN
    BY DEF ReconnectTimer, WakeInv, WakeTypeOK
  <1>5. unannounced' \in BOOLEAN
    BY DEF ReconnectTimer, WakeInv, WakeTypeOK
  <1>6. TimerOnlyAtRest'
    BY DEF ReconnectTimer, WakeInv, WakeTypeOK, PollerType, TimerOnlyAtRest
  <1>7. PollLeavesNothing'
    BY WakeAssumption DEF ReconnectTimer, WakeInv, WakeTypeOK, PollerType, ListenerType, TimerOnlyAtRest, PollLeavesNothing
  <1>8. NoLostWakeUp'
    BY WakeAssumption
    DEF ReconnectTimer, WakeInv, WakeTypeOK, PollerType, ListenerType, TimerOnlyAtRest, PollLeavesNothing, NoLostWakeUp
  <1> QED BY <1>1, <1>2, <1>3, <1>4, <1>5, <1>6, <1>7, <1>8 DEF WakeInv, WakeTypeOK

\* A connection comes up, or fails and plans another.
LEMMA ConnectKeeps == ASSUME WakeInv, NEW succeeds \in BOOLEAN, connect(succeeds) PROVE WakeInv'
  <1>1. waiting' \in 0 .. MaxRows /\ arrived' \in 0 .. MaxRows /\ waiting' <= arrived' /\ notices' \in Nat
    BY WakeAssumption DEF connect, WakeInv, WakeTypeOK, PollerType, ListenerType
  <1>2. poller' \in PollerType
    BY WakeAssumption DEF connect, WakeInv, WakeTypeOK, PollerType, Timers
  <1>3. listener' \in ListenerType
    BY DEF connect, WakeInv, WakeTypeOK, ListenerType
  <1>4. lateEnds' \in Nat /\ stopping' \in BOOLEAN
    BY DEF connect, WakeInv, WakeTypeOK
  <1>5. unannounced' \in BOOLEAN
    BY DEF connect, WakeInv, WakeTypeOK
  <1>6. TimerOnlyAtRest'
    BY DEF connect, WakeInv, WakeTypeOK, PollerType, TimerOnlyAtRest
  <1>7. PollLeavesNothing'
    BY WakeAssumption DEF connect, WakeInv, WakeTypeOK, PollerType, ListenerType, TimerOnlyAtRest, PollLeavesNothing
  <1>8. NoLostWakeUp'
    BY WakeAssumption
    DEF connect, WakeInv, WakeTypeOK, PollerType, ListenerType, TimerOnlyAtRest, PollLeavesNothing, NoLostWakeUp
  <1> QED BY <1>1, <1>2, <1>3, <1>4, <1>5, <1>6, <1>7, <1>8 DEF WakeInv, WakeTypeOK

\* Every callback of the poller and of the listener keeps the invariant.
LEMMA WakeStep == WakeInv /\ [WakeNext]_wakeVars => WakeInv'
  <1> SUFFICES ASSUME WakeInv, [WakeNext]_wakeVars PROVE WakeInv'
    OBVIOUS
  <1>1. CASE UNCHANGED wakeVars
    BY <1>1
    DEF wakeVars, WakeInv, WakeTypeOK, TimerOnlyAtRest, PollLeavesNothing, NoLostWakeUp
  <1>2. CASE WakeNext
    BY <1>2, RowBecomesDueKeeps, TickKeeps, PollKeeps, PollThrowsKeeps, PollEndsKeeps, ShutdownKeeps,
       NotificationKeeps, BreakKeeps, EndKeeps, TimerKeeps, ConnectKeeps
    DEF WakeNext
  <1> QED BY <1>1, <1>2

\* No wake-up is lost between a claim, the end of a poll, a lost connection and
\* a shutdown, whatever the batch size and however often connections break
\* (BasePoller, QueueListenerService).
THEOREM WakeUpsAreKept == WakeSpec => []WakeIsKept
  <1>1. WakeInv => WakeIsKept
    BY DEF WakeInv, WakeIsKept, TimerOnlyAtRest, NoPollAfterShutdown
  <1> QED BY <1>1, WakeInitially, WakeStep, PTL DEF WakeSpec

-----------------------------------------------------------------------------
(* Backfill and refresh jobs.                                                *)

\* Where a worker is on a job.
OnAJob == {"page", "save", "complete", "fail"}

Hands(w) == ToSet(wk[w].batch) \cup ({wk[w].job} \ {None})

\* A row is owned and leased while it is running, and only then; whatever was
\* enqueued has a key.
JobInv(j) ==
    /\ jobs[j].status = "running" <=> jobs[j].owner # None
    /\ jobs[j].status # "running" => jobs[j].lease = "none"
    /\ jobs[j].status # "absent" => jobs[j].key \in Keys

\* A due row is claimable and stands in the line once.
DueInv ==
    /\ \A i, k \in DOMAIN due : due[i] = due[k] => i = k
    /\ \A i \in DOMAIN due : jobs[due[i]].status \in ClaimableStatuses

\* What a worker has in its hands: each job once, and the one it is on no more
\* in its batch.
HandInv(w) ==
    /\ wk[w].job # None <=> wk[w].at \in OnAJob
    /\ wk[w].at \in {"idle", "dead"} => wk[w].batch = << >>
    /\ wk[w].at = "next" => wk[w].batch # << >>
    /\ \A i, k \in DOMAIN wk[w].batch : wk[w].batch[i] = wk[w].batch[k] => i = k
    /\ \A i \in DOMAIN wk[w].batch : /\ wk[w].batch[i] # wk[w].job
                                     /\ jobs[wk[w].batch[i]].status # "absent"
    /\ wk[w].job # None => jobs[wk[w].job].status # "absent"
    /\ wk[w].at = "fail" => wk[w].error \in TroubleKinds

\* A worker on a walk has copied what its own cursor says, whoever owns the job
\* by now; and while it owns the job nobody has saved beyond it.
WalkInv(w) ==
    wk[w].at \in {"page", "save", "complete"} =>
        /\ Holds(w, wk[w].job) => jobs[wk[w].job].cursor <= wk[w].cursor
        /\ 1 .. wk[w].cursor \subseteq copied[jobs[wk[w].job].key]
        /\ wk[w].at = "complete" => wk[w].cursor = Pages[jobs[wk[w].job].key]

\* What has been saved and completed.
SavedInv(j) ==
    /\ jobs[j].status # "absent" => 1 .. jobs[j].cursor \subseteq copied[jobs[j].key]
    /\ jobs[j].status = "completed" => 1 .. Pages[jobs[j].key] \subseteq copied[jobs[j].key]

SyncInv ==
    /\ TypeOK /\ DueInv
    /\ \A j \in Jobs : JobInv(j) /\ SavedInv(j)
    /\ \A w \in Workers : HandInv(w) /\ WalkInv(w)

LEMMA JobParts ==
    ASSUME SyncInv, NEW j \in Jobs
    PROVE  /\ jobs[j] \in JobType /\ JobInv(j) /\ SavedInv(j) /\ jobs \in [Jobs -> JobType]
           /\ jobs[j].owner \in Workers \cup {None} /\ jobs[j].cursor \in Nat
  BY DEF SyncInv, TypeOK, JobType

LEMMA WorkerParts ==
    ASSUME SyncInv, NEW w \in Workers
    PROVE  /\ wk[w] \in WorkerType /\ wk \in [Workers -> WorkerType] /\ HandInv(w) /\ WalkInv(w)
           /\ wk[w].batch \in Seq(Jobs) /\ wk[w].job \in Jobs \cup {None} /\ wk[w].cursor \in Nat
           /\ wk[w].job # None => wk[w].job \in Jobs
           /\ \A i \in DOMAIN wk[w].batch : wk[w].batch[i] \in Jobs
           /\ DOMAIN wk[w].batch = 1 .. Len(wk[w].batch) /\ Len(wk[w].batch) \in Nat
  BY DEF SyncInv, TypeOK, WorkerType

LEMMA CapRange == AttemptCap \in Nat /\ 0 \in 0 .. AttemptCap
  BY SyncAssumption DEF AttemptCap

\* The statements of the repository, on one row.
LEMMA ClaimedJob ==
    ASSUME NEW r \in JobType, NEW w \in Workers
    PROVE  /\ Claimed(r, w) \in JobType
           /\ Claimed(r, w).status = "running" /\ Claimed(r, w).owner = w
           /\ Claimed(r, w).lease = "live" /\ Claimed(r, w).key = r.key
           /\ Claimed(r, w).cursor = r.cursor
  <1>1. AttemptCap \in Nat
    BY CapRange
  <1>2. PICK n \in 0 .. AttemptCap :
          n = IF r.attempts < AttemptCap THEN r.attempts + 1 ELSE r.attempts
    BY <1>1 DEF JobType
  <1>3. Claimed(r, w) = [r EXCEPT !.status = "running", !.owner = w, !.lease = "live",
                                  !.attempts = n]
    BY <1>2 DEF Claimed
  <1> QED
    BY <1>3 DEF JobType, Statuses, LiveStatuses

LEMMA ReleasedJob ==
    ASSUME NEW r \in JobType, NEW status \in Statuses, NEW error \in {"none"} \cup TroubleKinds
    PROVE  /\ Released(r, status, error) \in JobType
           /\ Released(r, status, error).status = status
           /\ Released(r, status, error).owner = None /\ Released(r, status, error).lease = "none"
           /\ Released(r, status, error).key = r.key /\ Released(r, status, error).cursor = r.cursor
  BY DEF Released, JobType

LEMMA SavedJob ==
    ASSUME NEW r \in JobType, NEW n \in Nat
    PROVE  /\ Saved(r, n) \in JobType /\ Saved(r, n).cursor = n
           /\ Saved(r, n).lease = "live" /\ Saved(r, n).status = r.status
           /\ Saved(r, n).owner = r.owner /\ Saved(r, n).key = r.key
  BY CapRange DEF Saved, JobType

LEMMA LeasedJob ==
    ASSUME NEW r \in JobType, NEW l \in {"live", "lapsed"}
    PROVE  /\ [r EXCEPT !.lease = l] \in JobType /\ [r EXCEPT !.lease = l].lease = l
           /\ [r EXCEPT !.lease = l].status = r.status /\ [r EXCEPT !.lease = l].owner = r.owner
           /\ [r EXCEPT !.lease = l].key = r.key /\ [r EXCEPT !.lease = l].cursor = r.cursor
  BY DEF JobType

LEMMA NewJob ==
    ASSUME NEW k \in Keys
    PROVE  LET r == [Absent EXCEPT !.key = k, !.status = "pending"] IN
           /\ r \in JobType /\ r.status = "pending" /\ r.key = k
           /\ r.owner = None /\ r.lease = "none" /\ r.cursor = 0
  BY CapRange, SyncAssumption DEF Absent, JobType, Statuses, LiveStatuses

LEMMA RevivedJob ==
    ASSUME NEW r \in JobType
    PROVE  LET n == [r EXCEPT !.status = "pending", !.attempts = 0, !.error = "none"] IN
           /\ n \in JobType /\ n.status = "pending" /\ n.key = r.key
           /\ n.owner = r.owner /\ n.lease = r.lease /\ n.cursor = r.cursor
  BY CapRange DEF JobType, Statuses, LiveStatuses

LEMMA ReclaimedJob ==
    ASSUME NEW r \in JobType
    PROVE  LET n == [r EXCEPT !.status = "pending", !.owner = None, !.lease = "none"] IN
           /\ n \in JobType /\ n.status = "pending" /\ n.key = r.key
           /\ n.owner = None /\ n.lease = "none" /\ n.cursor = r.cursor
  BY DEF JobType, Statuses, LiveStatuses

\* An id keeps its key, and no page is forgotten.
KeysKept ==
    \A j \in Jobs : jobs[j].status # "absent"
        => jobs'[j].status # "absent" /\ jobs'[j].key = jobs[j].key

\* One row is written.
LEMMA JobWritten ==
    ASSUME SyncInv, NEW j \in Jobs, NEW row \in JobType, jobs' = [jobs EXCEPT ![j] = row],
           UNCHANGED copied,
           row.status # "absent", row.key \in Keys,
           jobs[j].status # "absent" => row.key = jobs[j].key,
           row.status = "running" <=> row.owner # None,
           row.status # "running" => row.lease = "none",
           1 .. row.cursor \subseteq copied[row.key],
           row.status = "completed" => 1 .. Pages[row.key] \subseteq copied[row.key]
    PROVE  /\ jobs' \in [Jobs -> JobType] /\ jobs'[j] = row
           /\ \A i \in Jobs \ {j} : jobs'[i] = jobs[i]
           /\ \A i \in Jobs : JobInv(i)' /\ SavedInv(i)'
           /\ KeysKept
  <1>1. /\ jobs' \in [Jobs -> JobType] /\ jobs'[j] = row
        /\ \A i \in Jobs \ {j} : jobs'[i] = jobs[i]
    BY JobParts
  <1>2. JobInv(j)' /\ SavedInv(j)'
    BY <1>1 DEF JobInv, SavedInv
  <1>3. \A i \in Jobs \ {j} : JobInv(i)' /\ SavedInv(i)'
    BY <1>1, JobParts DEF JobInv, SavedInv
  <1> QED
    BY <1>1, <1>2, <1>3 DEF KeysKept

LEMMA JobsRest ==
    ASSUME SyncInv, UNCHANGED <<jobs, copied>>
    PROVE  /\ jobs' \in [Jobs -> JobType] /\ KeysKept
           /\ \A i \in Jobs : jobs'[i] = jobs[i] /\ JobInv(i)' /\ SavedInv(i)'
  <1>1. jobs' \in [Jobs -> JobType] /\ KeysKept
    BY DEF SyncInv, TypeOK, KeysKept
  <1>2. \A i \in Jobs : JobInv(i) /\ SavedInv(i)
    BY JobParts
  <1>3. \A i \in Jobs : JobInv(i)' /\ SavedInv(i)'
    BY <1>2 DEF JobInv, SavedInv
  <1> QED
    BY <1>1, <1>3

LEMMA DueParts ==
    ASSUME SyncInv
    PROVE  /\ due \in Seq(Jobs) /\ Len(due) \in Nat /\ DOMAIN due = 1 .. Len(due)
           /\ \A i \in 1 .. Len(due) : due[i] \in Jobs /\ jobs[due[i]].status \in ClaimableStatuses
           /\ \A i, k \in 1 .. Len(due) : due[i] = due[k] => i = k
  BY DEF SyncInv, TypeOK, DueInv

LEMMA DueRests ==
    ASSUME SyncInv, UNCHANGED due, NEW j \in Jobs, \A i \in Jobs \ {j} : jobs'[i] = jobs[i],
           jobs[j].status \in ClaimableStatuses => jobs'[j].status \in ClaimableStatuses
    PROVE  due' \in Seq(Jobs) /\ DueInv'
  BY DueParts DEF DueInv

LEMMA DueGrows ==
    ASSUME SyncInv, NEW j \in Jobs, due' = Append(due, j), \A i \in Jobs \ {j} : jobs'[i] = jobs[i],
           j \notin ToSet(due), jobs'[j].status \in ClaimableStatuses
    PROVE  due' \in Seq(Jobs) /\ DueInv'
  <1>1. /\ due' \in Seq(Jobs) /\ Len(due') = Len(due) + 1 /\ due'[Len(due) + 1] = j
        /\ \A i \in 1 .. Len(due) : due'[i] = due[i]
        /\ DOMAIN due' = 1 .. Len(due) + 1
    BY DueParts
  <1>2. \A i \in 1 .. Len(due) : due[i] # j
    BY DueParts DEF ToSet
  <1>3. \A i \in DOMAIN due' : jobs'[due'[i]].status \in ClaimableStatuses
    BY <1>1, <1>2, DueParts
  <1>4. ASSUME NEW i \in DOMAIN due', NEW k \in DOMAIN due', due'[i] = due'[k] PROVE i = k
    BY <1>1, <1>2, <1>4, DueParts
  <1> QED
    BY <1>1, <1>3, <1>4 DEF DueInv

LEMMA NotInLine ==
    ASSUME SyncInv, NEW j \in Jobs, jobs[j].status \notin ClaimableStatuses
    PROVE  j \notin ToSet(due)
  BY DueParts DEF ToSet

-----------------------------------------------------------------------------
(* Workers.                                                                  *)

LEMMA HandRests ==
    ASSUME SyncInv, KeysKept, NEW w \in Workers, wk'[w] = wk[w]
    PROVE  HandInv(w)'
  BY WorkerParts DEF HandInv, KeysKept

LEMMA WalkRests ==
    ASSUME SyncInv, KeysKept, NEW w \in Workers, wk'[w] = wk[w],
           \A k \in Keys : copied[k] \subseteq copied'[k],
           wk[w].job # None /\ jobs'[wk[w].job].owner = w
               => jobs[wk[w].job].owner = w /\ jobs'[wk[w].job].cursor = jobs[wk[w].job].cursor
    PROVE  WalkInv(w)'
  <1> SUFFICES ASSUME wk[w].at \in {"page", "save", "complete"} PROVE WalkInv(w)'
    BY DEF WalkInv
  <1>1. PICK j \in Jobs : j = wk[w].job /\ j # None
    BY WorkerParts DEF HandInv, OnAJob
  <1>2. /\ jobs[j].status # "absent" /\ jobs'[j].key = jobs[j].key /\ jobs[j].key \in Keys
    BY <1>1, WorkerParts, JobParts DEF HandInv, KeysKept, JobInv
  <1>3. copied[jobs[j].key] \subseteq copied'[jobs'[j].key]
    BY <1>2
  <1> QED
    BY <1>1, <1>2, <1>3, WorkerParts DEF WalkInv, Holds

\* The other workers, when one takes a step.
LEMMA OthersRest ==
    ASSUME SyncInv, KeysKept, NEW w \in Workers, \A v \in Workers \ {w} : wk'[v] = wk[v],
           UNCHANGED copied,
           \A v \in Workers \ {w}, j \in Jobs : jobs'[j].owner = v
               => jobs[j].owner = v /\ jobs'[j].cursor = jobs[j].cursor
    PROVE  \A v \in Workers \ {w} : HandInv(v)' /\ WalkInv(v)'
  <1> TAKE v \in Workers \ {w}
  <1>1. HandInv(v)'
    BY HandRests
  <1>2. WalkInv(v)'
    BY WalkRests, WorkerParts
  <1> QED
    BY <1>1, <1>2

LEMMA WorkersRest ==
    ASSUME SyncInv, KeysKept, UNCHANGED <<wk, copied>>,
           \A j \in Jobs : jobs'[j].owner # None
               => jobs[j].owner = jobs'[j].owner /\ jobs'[j].cursor = jobs[j].cursor
    PROVE  /\ wk' \in [Workers -> WorkerType] /\ copied' \in [Keys -> SUBSET Nat]
           /\ \A v \in Workers : HandInv(v)' /\ WalkInv(v)'
  <1>1. wk' \in [Workers -> WorkerType] /\ copied' \in [Keys -> SUBSET Nat]
    BY DEF SyncInv, TypeOK
  <1>2. ASSUME NEW v \in Workers PROVE HandInv(v)' /\ WalkInv(v)'
    <2>1. v # None
      BY SyncAssumption
    <2>2. HandInv(v)'
      BY HandRests
    <2>3. WalkInv(v)'
      BY <2>1, WalkRests, WorkerParts
    <2> QED
      BY <2>2, <2>3
  <1> QED
    BY <1>1, <1>2

\* The end of a run and the end of a poll.
LEMMA IdleShape ==
    /\ Idle \in WorkerType /\ [Idle EXCEPT !.at = "dead"] \in WorkerType
    /\ Idle.at = "idle" /\ Idle.job = None /\ Idle.batch = << >>
    /\ [Idle EXCEPT !.at = "dead"].at = "dead" /\ [Idle EXCEPT !.at = "dead"].job = None
    /\ [Idle EXCEPT !.at = "dead"].batch = << >>
  <1>1. Idle \in WorkerType
    BY SyncAssumption DEF Idle, WorkerType, AttemptCap
  <1>2. [Idle EXCEPT !.at = "dead"] \in WorkerType
    BY <1>1 DEF WorkerType
  <1> QED
    BY <1>1, <1>2 DEF Idle

LEMMA NextShape ==
    ASSUME NEW batch \in Seq(Jobs)
    PROVE  LET n == [Idle EXCEPT !.at = "next", !.batch = batch] IN
           n \in WorkerType /\ n.at = "next" /\ n.batch = batch /\ n.job = None
  <1>1. Idle \in WorkerType /\ Idle.job = None
    BY IdleShape
  <1> QED
    BY <1>1 DEF WorkerType

LEMMA TurnShape ==
    ASSUME SyncInv, NEW w \in Workers, NEW n \in WorkerType, wk' = [wk EXCEPT ![w] = n]
    PROVE  /\ wk' \in [Workers -> WorkerType] /\ wk'[w] = n
           /\ \A v \in Workers \ {w} : wk'[v] = wk[v]
  BY WorkerParts

LEMMA OnwardEffect ==
    ASSUME SyncInv, NEW w \in Workers, Onward(w)
    PROVE  /\ wk' \in [Workers -> WorkerType] /\ \A v \in Workers \ {w} : wk'[v] = wk[v]
           /\ wk'[w].job = None /\ wk'[w].batch = wk[w].batch
           /\ wk'[w].at = IF wk[w].batch = << >> THEN "idle" ELSE "next"
  <1>1. CASE wk[w].batch = << >>
    <2>1. wk' = [wk EXCEPT ![w] = Idle]
      BY <1>1 DEF Onward
    <2> QED
      BY <1>1, <2>1, IdleShape, TurnShape
  <1>2. CASE wk[w].batch # << >>
    <2>1. PICK n : n = [Idle EXCEPT !.at = "next", !.batch = wk[w].batch]
      OBVIOUS
    <2>2. wk' = [wk EXCEPT ![w] = n]
      BY <1>2, <2>1 DEF Onward
    <2>3. n \in WorkerType /\ n.at = "next" /\ n.batch = wk[w].batch /\ n.job = None
      BY <2>1, NextShape, WorkerParts
    <2> QED
      BY <1>2, <2>2, <2>3, TurnShape
  <1> QED
    BY <1>1, <1>2

\* A worker that is on no job.
LEMMA OffJob ==
    ASSUME SyncInv, KeysKept, NEW w \in Workers, wk'[w].job = None,
           wk'[w].batch = wk[w].batch,
           wk'[w].at = IF wk[w].batch = << >> THEN "idle" ELSE "next"
    PROVE  HandInv(w)' /\ WalkInv(w)'
  <1>1. \A i \in DOMAIN wk[w].batch : wk[w].batch[i] # None
    BY SyncAssumption, WorkerParts
  <1>2. HandInv(w)'
    BY <1>1, WorkerParts DEF HandInv, KeysKept, OnAJob
  <1> QED
    BY <1>2 DEF WalkInv

LEMMA EmptyHanded ==
    ASSUME NEW w \in Workers, wk'[w].job = None, wk'[w].batch = << >>, wk'[w].at \in {"idle", "dead"}
    PROVE  HandInv(w)' /\ WalkInv(w)'
  BY DEF HandInv, WalkInv, OnAJob

-----------------------------------------------------------------------------
(* Steps on one row.                                                         *)

LEMMA EnqueueEffect ==
    ASSUME SyncInv, NEW k \in Keys, EnqueueIfAbsent(k)
    PROVE  \E j \in Jobs, row \in JobType :
               /\ jobs' = [jobs EXCEPT ![j] = row] /\ due' = Append(due, j) /\ UNCHANGED <<copied, wk>>
               /\ row.status = "pending" /\ row.owner = None /\ row.lease = "none" /\ row.key = k
               /\ \/ jobs[j].status = "absent" /\ row.cursor = 0
                  \/ jobs[j].status = "paused" /\ jobs[j].key = k /\ row.cursor = jobs[j].cursor
  <1>0. UNCHANGED <<copied, wk>>
    BY DEF EnqueueIfAbsent
  <1>1. CASE Insert(k)
    <2>1. PICK j \in Jobs : /\ jobs[j].status = "absent" /\ due' = Append(due, j)
                            /\ jobs' = [jobs EXCEPT ![j] = [Absent EXCEPT !.key = k, !.status = "pending"]]
      BY <1>1 DEF Insert
    <2> QED
      BY <1>0, <2>1, NewJob
  <1>2. CASE Revive(k)
    <2>1. PICK j \in LiveJobs(k) :
              /\ jobs[j].status = "paused" /\ due' = Append(due, j)
              /\ jobs' = [jobs EXCEPT ![j] = [jobs[j] EXCEPT !.status = "pending", !.attempts = 0,
                                                             !.error = "none"]]
      BY <1>2 DEF Revive
    <2>2. j \in Jobs /\ jobs[j].key = k
      BY DEF LiveJobs
    <2>3. jobs[j] \in JobType /\ jobs[j].owner = None /\ jobs[j].lease = "none"
      BY <2>1, <2>2, JobParts DEF JobInv
    <2>4. PICK row : row = [jobs[j] EXCEPT !.status = "pending", !.attempts = 0, !.error = "none"]
      OBVIOUS
    <2>5. /\ row \in JobType /\ row.status = "pending" /\ row.owner = None /\ row.lease = "none"
          /\ row.key = k /\ row.cursor = jobs[j].cursor
      BY <2>2, <2>3, <2>4, RevivedJob
    <2> QED
      BY <1>0, <2>1, <2>2, <2>4, <2>5
  <1> QED
    BY <1>1, <1>2 DEF EnqueueIfAbsent

LEMMA EnqueueKeeps ==
    ASSUME SyncInv, NEW k \in Keys, EnqueueIfAbsent(k)
    PROVE  SyncInv'
  <1>1. PICK j \in Jobs, row \in JobType :
               /\ jobs' = [jobs EXCEPT ![j] = row] /\ due' = Append(due, j) /\ UNCHANGED <<copied, wk>>
               /\ row.status = "pending" /\ row.owner = None /\ row.lease = "none" /\ row.key = k
               /\ \/ jobs[j].status = "absent" /\ row.cursor = 0
                  \/ jobs[j].status = "paused" /\ jobs[j].key = k /\ row.cursor = jobs[j].cursor
    BY EnqueueEffect
  <1>2. 1 .. row.cursor \subseteq copied[row.key]
    BY <1>1, JobParts DEF SavedInv
  <1>3. /\ jobs' \in [Jobs -> JobType] /\ jobs'[j] = row
        /\ \A i \in Jobs \ {j} : jobs'[i] = jobs[i]
        /\ \A i \in Jobs : JobInv(i)' /\ SavedInv(i)'
        /\ KeysKept
    BY <1>1, <1>2, JobWritten
  <1>4. due' \in Seq(Jobs) /\ DueInv'
    BY <1>1, <1>3, NotInLine, DueGrows DEF ClaimableStatuses
  <1>5. /\ wk' \in [Workers -> WorkerType] /\ copied' \in [Keys -> SUBSET Nat]
        /\ \A v \in Workers : HandInv(v)' /\ WalkInv(v)'
    BY <1>1, <1>3, WorkersRest
  <1> QED
    BY <1>3, <1>4, <1>5 DEF SyncInv, TypeOK

LEMMA LeaseExpiresEffect ==
    ASSUME SyncInv, NEW j \in Jobs, LeaseExpires(j)
    PROVE  \E row \in JobType :
               /\ jobs' = [jobs EXCEPT ![j] = row] /\ UNCHANGED <<due, copied, wk>>
               /\ jobs[j].status = "running" /\ row.lease = "lapsed" /\ row.status = jobs[j].status
               /\ row.owner = jobs[j].owner /\ row.key = jobs[j].key /\ row.cursor = jobs[j].cursor
  <1>1. PICK row : row = [jobs[j] EXCEPT !.lease = "lapsed"]
    OBVIOUS
  <1>2. jobs' = [jobs EXCEPT ![j] = row] /\ UNCHANGED <<due, copied, wk>> /\ jobs[j].lease = "live"
    BY <1>1 DEF LeaseExpires
  <1>3. jobs[j].status = "running" /\ jobs[j] \in JobType
    BY <1>2, JobParts DEF JobInv
  <1> QED
    BY <1>1, <1>2, <1>3, LeasedJob

LEMMA LeaseExpiresKeeps ==
    ASSUME SyncInv, NEW j \in Jobs, LeaseExpires(j)
    PROVE  SyncInv'
  <1>1. PICK row \in JobType :
               /\ jobs' = [jobs EXCEPT ![j] = row] /\ UNCHANGED <<due, copied, wk>>
               /\ jobs[j].status = "running" /\ row.lease = "lapsed" /\ row.status = jobs[j].status
               /\ row.owner = jobs[j].owner /\ row.key = jobs[j].key /\ row.cursor = jobs[j].cursor
    BY LeaseExpiresEffect
  <1>2. /\ row.key \in Keys /\ row.owner # None /\ 1 .. row.cursor \subseteq copied[row.key]
    BY <1>1, JobParts DEF SavedInv, JobInv
  <1>3. /\ jobs' \in [Jobs -> JobType] /\ jobs'[j] = row
        /\ \A i \in Jobs \ {j} : jobs'[i] = jobs[i]
        /\ \A i \in Jobs : JobInv(i)' /\ SavedInv(i)'
        /\ KeysKept
    BY <1>1, <1>2, JobWritten
  <1>4. due' \in Seq(Jobs) /\ DueInv'
    BY <1>1, <1>3, DueRests
  <1>5. /\ wk' \in [Workers -> WorkerType] /\ copied' \in [Keys -> SUBSET Nat]
        /\ \A v \in Workers : HandInv(v)' /\ WalkInv(v)'
    BY <1>1, <1>3, WorkersRest
  <1> QED
    BY <1>3, <1>4, <1>5 DEF SyncInv, TypeOK

LEMMA ReclaimEffect ==
    ASSUME SyncInv, NEW j \in Jobs, Reclaim(j)
    PROVE  \E row \in JobType :
               /\ jobs' = [jobs EXCEPT ![j] = row] /\ due' = Append(due, j) /\ UNCHANGED <<copied, wk>>
               /\ jobs[j].status = "running" /\ row.lease = "none" /\ row.status = "pending"
               /\ row.owner = None /\ row.key = jobs[j].key /\ row.cursor = jobs[j].cursor
  <1>1. PICK row : row = [jobs[j] EXCEPT !.status = "pending", !.owner = None, !.lease = "none"]
    OBVIOUS
  <1>2. /\ jobs' = [jobs EXCEPT ![j] = row] /\ due' = Append(due, j) /\ UNCHANGED <<copied, wk>>
        /\ jobs[j].status = "running"
    BY <1>1 DEF Reclaim, Reapable
  <1>3. jobs[j] \in JobType
    BY JobParts
  <1> QED
    BY <1>1, <1>2, <1>3, ReclaimedJob

LEMMA ReclaimKeeps ==
    ASSUME SyncInv, NEW j \in Jobs, Reclaim(j)
    PROVE  SyncInv'
  <1>1. PICK row \in JobType :
               /\ jobs' = [jobs EXCEPT ![j] = row] /\ due' = Append(due, j) /\ UNCHANGED <<copied, wk>>
               /\ jobs[j].status = "running" /\ row.lease = "none" /\ row.status = "pending"
               /\ row.owner = None /\ row.key = jobs[j].key /\ row.cursor = jobs[j].cursor
    BY ReclaimEffect
  <1>2. row.key \in Keys /\ 1 .. row.cursor \subseteq copied[row.key]
    BY <1>1, JobParts DEF SavedInv, JobInv
  <1>3. /\ jobs' \in [Jobs -> JobType] /\ jobs'[j] = row
        /\ \A i \in Jobs \ {j} : jobs'[i] = jobs[i]
        /\ \A i \in Jobs : JobInv(i)' /\ SavedInv(i)'
        /\ KeysKept
    BY <1>1, <1>2, JobWritten
  <1>4. due' \in Seq(Jobs) /\ DueInv'
    BY <1>1, <1>3, NotInLine, DueGrows DEF ClaimableStatuses
  <1>5. /\ wk' \in [Workers -> WorkerType] /\ copied' \in [Keys -> SUBSET Nat]
        /\ \A v \in Workers : HandInv(v)' /\ WalkInv(v)'
    BY <1>1, <1>3, WorkersRest
  <1> QED
    BY <1>3, <1>4, <1>5 DEF SyncInv, TypeOK

LEMMA BecomeDueKeeps ==
    ASSUME SyncInv, NEW j \in Jobs, BecomeDue(j)
    PROVE  SyncInv'
  <1>1. /\ UNCHANGED <<jobs, copied, wk>> /\ due' = Append(due, j) /\ j \notin ToSet(due)
        /\ jobs[j].status \in ClaimableStatuses
    BY DEF BecomeDue, ClaimableStatuses
  <1>2. /\ jobs' \in [Jobs -> JobType] /\ KeysKept
        /\ \A i \in Jobs : JobInv(i)' /\ SavedInv(i)'
    BY <1>1, JobsRest
  <1>3. due' \in Seq(Jobs) /\ DueInv'
    BY <1>1, DueGrows
  <1>4. /\ wk' \in [Workers -> WorkerType] /\ copied' \in [Keys -> SUBSET Nat]
        /\ \A v \in Workers : HandInv(v)' /\ WalkInv(v)'
    BY <1>1, <1>2, WorkersRest
  <1> QED
    BY <1>2, <1>3, <1>4 DEF SyncInv, TypeOK

-----------------------------------------------------------------------------
(* Steps of a worker.                                                        *)

\* A worker's step, row and hands apart.
LEMMA StepKeeps ==
    ASSUME SyncInv, NEW w \in Workers, UNCHANGED copied,
           jobs' \in [Jobs -> JobType], \A i \in Jobs : JobInv(i)' /\ SavedInv(i)', KeysKept,
           due' \in Seq(Jobs), DueInv',
           wk' \in [Workers -> WorkerType], \A v \in Workers \ {w} : wk'[v] = wk[v],
           \A v \in Workers \ {w}, j \in Jobs : jobs'[j].owner = v
               => jobs[j].owner = v /\ jobs'[j].cursor = jobs[j].cursor,
           HandInv(w)', WalkInv(w)'
    PROVE  SyncInv'
  <1>1. \A v \in Workers : HandInv(v)' /\ WalkInv(v)'
    BY OthersRest
  <1>2. copied' \in [Keys -> SUBSET Nat]
    BY DEF SyncInv, TypeOK
  <1> QED
    BY <1>1, <1>2 DEF SyncInv, TypeOK

\* A step that writes no row.
LEMMA TurnKeeps ==
    ASSUME SyncInv, NEW w \in Workers, UNCHANGED <<jobs, due, copied>>,
           wk' \in [Workers -> WorkerType], \A v \in Workers \ {w} : wk'[v] = wk[v],
           HandInv(w)', WalkInv(w)'
    PROVE  SyncInv'
  <1>1. /\ jobs' \in [Jobs -> JobType] /\ KeysKept
        /\ \A i \in Jobs : JobInv(i)' /\ SavedInv(i)'
    BY JobsRest
  <1>2. due' \in Seq(Jobs) /\ DueInv'
    BY DEF SyncInv, TypeOK, DueInv
  <1> QED
    BY <1>1, <1>2, StepKeeps

\* The owner writes the row it is on.
LEMMA OwnerKeeps ==
    ASSUME SyncInv, NEW w \in Workers, NEW j \in Jobs, Holds(w, j), NEW row \in JobType,
           jobs' = [jobs EXCEPT ![j] = row], UNCHANGED <<due, copied>>,
           row.status # "absent", row.key = jobs[j].key, row.owner \in {w, None},
           row.status = "running" <=> row.owner # None,
           row.status # "running" => row.lease = "none",
           1 .. row.cursor \subseteq copied[row.key],
           row.status = "completed" => 1 .. Pages[row.key] \subseteq copied[row.key],
           wk' \in [Workers -> WorkerType], \A v \in Workers \ {w} : wk'[v] = wk[v],
           KeysKept => HandInv(w)' /\ WalkInv(w)'
    PROVE  SyncInv'
  <1>1. jobs[j].status = "running" /\ jobs[j].key \in Keys
    BY JobParts, SyncAssumption DEF Holds, JobInv
  <1>2. /\ jobs' \in [Jobs -> JobType] /\ jobs'[j] = row
        /\ \A i \in Jobs \ {j} : jobs'[i] = jobs[i]
        /\ \A i \in Jobs : JobInv(i)' /\ SavedInv(i)'
        /\ KeysKept
    BY <1>1, JobWritten
  <1>3. due' \in Seq(Jobs) /\ DueInv'
    BY <1>1, <1>2, DueRests DEF ClaimableStatuses
  <1>4. \A v \in Workers \ {w}, i \in Jobs : jobs'[i].owner = v
               => jobs[i].owner = v /\ jobs'[i].cursor = jobs[i].cursor
    BY <1>2, SyncAssumption
  <1> QED
    BY <1>2, <1>3, <1>4, StepKeeps

LEMMA BatchParts ==
    ASSUME SyncInv
    PROVE  /\ Batch \in Seq(Jobs) /\ Len(Batch) \in 0 .. Len(due) /\ DOMAIN Batch = 1 .. Len(Batch)
           /\ \A i \in 1 .. Len(Batch) : Batch[i] = due[i]
  <1>0. PICK n : n = IF Len(due) < BatchSize THEN Len(due) ELSE BatchSize
    OBVIOUS
  <1>1. Len(due) \in Nat /\ BatchSize \in Nat
    BY DueParts, SyncAssumption
  <1>2. Batch = SubSeq(due, 1, n)
    BY <1>0, Zenon DEF Batch
  <1>3. due \in Seq(Jobs) /\ n \in Nat /\ n <= Len(due)
    BY <1>0, <1>1, DueParts
  <1>4. /\ SubSeq(due, 1, n) \in Seq(Jobs) /\ Len(SubSeq(due, 1, n)) = n
        /\ \A i \in 1 .. n : SubSeq(due, 1, n)[i] = due[i]
    BY <1>3
  <1> QED
    BY <1>2, <1>3, <1>4

\* A claim takes the head of the line, each row once.
LEMMA ClaimEffect ==
    ASSUME SyncInv, NEW w \in Workers, ClaimBatch(w)
    PROVE  /\ \A j \in Jobs \ ToSet(Batch) : jobs'[j] = jobs[j]
           /\ \A j \in ToSet(Batch) :
                 /\ j \in Jobs /\ jobs[j].status \in ClaimableStatuses
                 /\ jobs'[j] \in JobType /\ jobs'[j].status = "running" /\ jobs'[j].owner = w
                 /\ jobs'[j].lease = "live" /\ jobs'[j].key = jobs[j].key
                 /\ jobs'[j].cursor = jobs[j].cursor
           /\ jobs' \in [Jobs -> JobType]
           /\ wk' \in [Workers -> WorkerType] /\ \A v \in Workers \ {w} : wk'[v] = wk[v]
           /\ wk'[w].at = "next" /\ wk'[w].batch = Batch /\ wk'[w].job = None
           /\ UNCHANGED copied
  <1>1. \A j \in ToSet(Batch) : j \in Jobs /\ jobs[j].status \in ClaimableStatuses
    BY BatchParts, DueParts DEF ToSet
  <1>2. jobs' = [j \in Jobs |-> IF j \in ToSet(Batch) THEN Claimed(jobs[j], w) ELSE jobs[j]]
    BY DEF ClaimBatch
  <1>3. \A j \in Jobs : jobs[j] \in JobType
    BY JobParts
  <1>4. \A j \in ToSet(Batch) :
           /\ jobs'[j] \in JobType /\ jobs'[j].status = "running" /\ jobs'[j].owner = w
           /\ jobs'[j].lease = "live" /\ jobs'[j].key = jobs[j].key
           /\ jobs'[j].cursor = jobs[j].cursor
    BY <1>1, <1>2, <1>3, ClaimedJob
  <1>5. \A j \in Jobs \ ToSet(Batch) : jobs'[j] = jobs[j]
    BY <1>2
  <1>6. \A j \in Jobs : jobs'[j] \in JobType
    BY <1>3, <1>4, <1>5
  <1>7. jobs' \in [Jobs -> JobType]
    BY <1>2, <1>6
  <1>8. PICK n : n = [Idle EXCEPT !.at = "next", !.batch = Batch]
    OBVIOUS
  <1>9. n \in WorkerType /\ n.at = "next" /\ n.batch = Batch /\ n.job = None
    BY <1>8, NextShape, BatchParts
  <1>10. wk' = [wk EXCEPT ![w] = n] /\ UNCHANGED copied
    BY <1>8 DEF ClaimBatch
  <1>11. wk' \in [Workers -> WorkerType] /\ wk'[w] = n /\ \A v \in Workers \ {w} : wk'[v] = wk[v]
    BY <1>9, <1>10, TurnShape
  <1> QED
    BY <1>1, <1>4, <1>5, <1>7, <1>9, <1>10, <1>11

LEMMA ClaimKeepsLine ==
    ASSUME SyncInv, NEW w \in Workers, ClaimBatch(w)
    PROVE  due' \in Seq(Jobs) /\ DueInv'
  <1>1. PICK n \in 0 .. Len(due) : n = Len(Batch)
    BY BatchParts
  <1>2. due' = SubSeq(due, n + 1, Len(due)) /\ due \in Seq(Jobs) /\ Len(due) \in Nat /\ n \in Nat
    BY <1>1, DueParts DEF ClaimBatch
  <1>3. /\ SubSeq(due, n + 1, Len(due)) \in Seq(Jobs) /\ Len(SubSeq(due, n + 1, Len(due))) = Len(due) - n
        /\ \A i \in 1 .. Len(due) - n : SubSeq(due, n + 1, Len(due))[i] = due[i + n]
    BY <1>2
  <1>4. /\ due' \in Seq(Jobs) /\ DOMAIN due' = 1 .. Len(due) - n
        /\ \A i \in 1 .. Len(due) - n : due'[i] = due[i + n] /\ i + n \in 1 .. Len(due) /\ i + n > n
    BY <1>2, <1>3
  <1>5. ASSUME NEW i \in DOMAIN due' PROVE jobs'[due'[i]].status \in ClaimableStatuses
    <2>1. due'[i] = due[i + n] /\ i + n \in 1 .. Len(due) /\ i + n > n
      BY <1>4
    <2>2. \A m \in 1 .. n : due[m] # due[i + n]
      BY <1>1, <2>1, DueParts
    <2>3. due'[i] \notin ToSet(Batch)
      BY <1>1, <2>1, <2>2, BatchParts DEF ToSet
    <2>4. due'[i] \in Jobs /\ jobs[due'[i]].status \in ClaimableStatuses
      BY <2>1, DueParts
    <2> QED
      BY <2>3, <2>4, ClaimEffect
  <1>6. ASSUME NEW i \in DOMAIN due', NEW k \in DOMAIN due', due'[i] = due'[k] PROVE i = k
    <2>1. i + n = k + n
      BY <1>4, <1>6, DueParts
    <2> QED
      BY <1>2, <1>4, <2>1
  <1> QED
    BY <1>4, <1>5, <1>6 DEF DueInv

LEMMA ClaimKeeps ==
    ASSUME SyncInv, NEW w \in Workers, ClaimBatch(w)
    PROVE  SyncInv'
  <1>1. /\ jobs' \in [Jobs -> JobType] /\ wk' \in [Workers -> WorkerType] /\ UNCHANGED copied
        /\ \A v \in Workers \ {w} : wk'[v] = wk[v]
    BY ClaimEffect
  <1>2. ASSUME NEW j \in Jobs
        PROVE  /\ JobInv(j)' /\ SavedInv(j)'
               /\ jobs[j].status # "absent" => jobs'[j].status # "absent" /\ jobs'[j].key = jobs[j].key
    <2>1. JobInv(j) /\ SavedInv(j)
      BY JobParts
    <2>2. CASE j \in ToSet(Batch)
      <3>1. w # None /\ jobs[j].status # "absent"
        BY <2>2, ClaimEffect, SyncAssumption DEF ClaimableStatuses
      <3> QED
        BY <1>1, <2>1, <2>2, <3>1, ClaimEffect DEF JobInv, SavedInv
    <2>3. CASE j \notin ToSet(Batch)
      BY <1>1, <2>1, <2>3, ClaimEffect DEF JobInv, SavedInv
    <2> QED
      BY <2>2, <2>3
  <1>3. KeysKept
    BY <1>2 DEF KeysKept
  <1>4. \A v \in Workers \ {w}, j \in Jobs : jobs'[j].owner = v
               => jobs[j].owner = v /\ jobs'[j].cursor = jobs[j].cursor
    BY ClaimEffect
  <1>5. HandInv(w)' /\ WalkInv(w)'
    <2>1. wk'[w].at = "next" /\ wk'[w].batch = Batch /\ wk'[w].job = None
      BY ClaimEffect
    <2>2. \A i \in DOMAIN Batch : Batch[i] \in Jobs /\ Batch[i] # None /\ jobs'[Batch[i]].status = "running"
      BY ClaimEffect, SyncAssumption DEF ToSet
    <2>3. \A i, k \in DOMAIN Batch : Batch[i] = Batch[k] => i = k
      BY BatchParts, DueParts
    <2>4. Batch # << >>
      BY DEF ClaimBatch
    <2> QED
      BY <2>1, <2>2, <2>3, <2>4 DEF HandInv, WalkInv, OnAJob
  <1> QED
    BY <1>1, <1>2, <1>3, <1>4, <1>5, ClaimKeepsLine, StepKeeps

\* A worker that goes on to the next job of its batch.
LEMMA ReachEffect ==
    ASSUME SyncInv, NEW w \in Workers, ReachJob(w)
    PROVE  \E j \in Jobs, rest \in Seq(Jobs) :
             /\ j = Head(wk[w].batch) /\ rest = Tail(wk[w].batch)
             /\ wk[w].job = None /\ wk[w].batch # << >> /\ wk[w].at = "next"
             /\ DOMAIN rest = 1 .. Len(rest) /\ Len(wk[w].batch) = Len(rest) + 1 /\ Len(rest) \in Nat
             /\ wk[w].batch[1] = j /\ \A i \in 1 .. Len(rest) : rest[i] = wk[w].batch[i + 1]
             /\ jobs[j].status # "absent"
             /\ \A i \in 1 .. Len(rest) : rest[i] \in Jobs /\ rest[i] # j
                                          /\ jobs[rest[i]].status # "absent"
             /\ \A i, k \in 1 .. Len(rest) : rest[i] = rest[k] => i = k
             /\ wk' \in [Workers -> WorkerType] /\ \A v \in Workers \ {w} : wk'[v] = wk[v]
             /\ UNCHANGED <<due, copied>>
             /\ \/ /\ Holds(w, j) /\ jobs' = [jobs EXCEPT ![j] = [jobs[j] EXCEPT !.lease = "live"]]
                   /\ wk'[w].at = "page" /\ wk'[w].batch = rest /\ wk'[w].job = j
                   /\ wk'[w].cursor = jobs[j].cursor
                \/ /\ ~Holds(w, j) /\ UNCHANGED jobs
                   /\ wk'[w].job = None /\ wk'[w].batch = rest
                   /\ wk'[w].at = IF rest = << >> THEN "idle" ELSE "next"
  <1>1. PICK batch \in Seq(Jobs) : batch = wk[w].batch
    BY WorkerParts
  <1>2. /\ wk[w].at = "next" /\ wk[w].job = None /\ batch # << >>
        /\ \A i \in DOMAIN batch : jobs[batch[i]].status # "absent"
        /\ \A i, k \in DOMAIN batch : batch[i] = batch[k] => i = k
    BY <1>1, WorkerParts DEF ReachJob, HandInv, OnAJob
  <1>3. PICK j, rest : j = Head(batch) /\ rest = Tail(batch)
    OBVIOUS
  <1>4. /\ j \in Jobs /\ rest \in Seq(Jobs) /\ Len(batch) = Len(rest) + 1 /\ Len(rest) \in Nat
        /\ DOMAIN rest = 1 .. Len(rest) /\ DOMAIN batch = 1 .. Len(batch)
        /\ batch[1] = j /\ \A i \in 1 .. Len(rest) : rest[i] = batch[i + 1]
    BY <1>2, <1>3
  <1>5. \A i \in 1 .. Len(rest) : i + 1 \in DOMAIN batch /\ 1 \in DOMAIN batch /\ i + 1 # 1
    BY <1>4
  <1>6. /\ jobs[j].status # "absent"
        /\ \A i \in 1 .. Len(rest) : rest[i] \in Jobs /\ rest[i] # j /\ jobs[rest[i]].status # "absent"
    BY <1>2, <1>4, <1>5
  <1>7. ASSUME NEW i \in 1 .. Len(rest), NEW k \in 1 .. Len(rest), rest[i] = rest[k] PROVE i = k
    <2>1. batch[i + 1] = batch[k + 1] /\ i + 1 \in DOMAIN batch /\ k + 1 \in DOMAIN batch
      BY <1>4, <1>5, <1>7
    <2>2. i + 1 = k + 1
      BY <1>2, <2>1
    <2> QED
      BY <2>2
  <1>8. UNCHANGED <<due, copied>>
    BY DEF ReachJob
  <1>9. wk[w] \in WorkerType /\ jobs[j] \in JobType
    BY <1>4, WorkerParts, JobParts
  <1>10. ASSUME Holds(w, j)
         PROVE  /\ jobs' = [jobs EXCEPT ![j] = [jobs[j] EXCEPT !.lease = "live"]]
                /\ wk'[w].at = "page" /\ wk'[w].batch = rest /\ wk'[w].job = j
                /\ wk'[w].cursor = jobs[j].cursor
                /\ wk' \in [Workers -> WorkerType] /\ \A v \in Workers \ {w} : wk'[v] = wk[v]
    <2>1. PICK n : n = [Idle EXCEPT !.at = "page", !.batch = rest, !.job = j,
                                    !.attempts = jobs[j].attempts, !.cursor = jobs[j].cursor]
      OBVIOUS
    <2>2. /\ n \in WorkerType /\ n.at = "page" /\ n.batch = rest /\ n.job = j
          /\ n.cursor = jobs[j].cursor
      BY <1>4, <1>9, <2>1, IdleShape DEF WorkerType, JobType
    <2>3. /\ wk' = [wk EXCEPT ![w] = n] /\ jobs' = [jobs EXCEPT ![j] = [jobs[j] EXCEPT !.lease = "live"]]
      BY <1>1, <1>3, <1>10, <2>1 DEF ReachJob
    <2>4. wk' \in [Workers -> WorkerType] /\ wk'[w] = n /\ \A v \in Workers \ {w} : wk'[v] = wk[v]
      BY <2>2, <2>3, TurnShape
    <2> QED
      BY <2>2, <2>3, <2>4
  <1>11. ASSUME ~Holds(w, j)
         PROVE  /\ UNCHANGED jobs /\ wk'[w].job = None /\ wk'[w].batch = rest
                /\ wk'[w].at = IF rest = << >> THEN "idle" ELSE "next"
                /\ wk' \in [Workers -> WorkerType] /\ \A v \in Workers \ {w} : wk'[v] = wk[v]
    <2>1. PICK n : n = IF rest = << >> THEN Idle ELSE [wk[w] EXCEPT !.batch = rest]
      OBVIOUS
    <2>2. n \in WorkerType /\ n.job = None /\ n.batch = rest /\ n.at = IF rest = << >> THEN "idle" ELSE "next"
      BY <1>2, <1>4, <1>9, <2>1, IdleShape DEF WorkerType
    <2>3. wk' = [wk EXCEPT ![w] = n] /\ UNCHANGED jobs
      BY <1>1, <1>3, <1>11, <2>1 DEF ReachJob
    <2>4. wk' \in [Workers -> WorkerType] /\ wk'[w] = n /\ \A v \in Workers \ {w} : wk'[v] = wk[v]
      BY <2>2, <2>3, TurnShape
    <2> QED
      BY <2>2, <2>3, <2>4
  <1> j \in Jobs /\ rest \in Seq(Jobs)
    BY <1>4
  <1>12. wk' \in [Workers -> WorkerType] /\ \A v \in Workers \ {w} : wk'[v] = wk[v]
    BY <1>10, <1>11
  <1> WITNESS j \in Jobs, rest \in Seq(Jobs)
  <1> QED
    BY <1>1, <1>2, <1>3, <1>4, <1>6, <1>7, <1>8, <1>10, <1>11, <1>12

LEMMA ReachKeeps ==
    ASSUME SyncInv, NEW w \in Workers, ReachJob(w)
    PROVE  SyncInv'
  <1>1. PICK j \in Jobs, rest \in Seq(Jobs) :
             /\ jobs[j].status # "absent" /\ DOMAIN rest = 1 .. Len(rest)
             /\ \A i \in 1 .. Len(rest) : rest[i] \in Jobs /\ rest[i] # j
                                          /\ jobs[rest[i]].status # "absent"
             /\ \A i, k \in 1 .. Len(rest) : rest[i] = rest[k] => i = k
             /\ wk' \in [Workers -> WorkerType] /\ \A v \in Workers \ {w} : wk'[v] = wk[v]
             /\ UNCHANGED <<due, copied>>
             /\ \/ /\ Holds(w, j) /\ jobs' = [jobs EXCEPT ![j] = [jobs[j] EXCEPT !.lease = "live"]]
                   /\ wk'[w].at = "page" /\ wk'[w].batch = rest /\ wk'[w].job = j
                   /\ wk'[w].cursor = jobs[j].cursor
                \/ /\ ~Holds(w, j) /\ UNCHANGED jobs
                   /\ wk'[w].job = None /\ wk'[w].batch = rest
                   /\ wk'[w].at = IF rest = << >> THEN "idle" ELSE "next"
    BY ReachEffect
  <1>2. j # None /\ \A i \in 1 .. Len(rest) : rest[i] # None
    BY <1>1, SyncAssumption
  <1>3. CASE Holds(w, j)
    <2>1. PICK row \in JobType :
            /\ row = [jobs[j] EXCEPT !.lease = "live"]
            /\ row.lease = "live" /\ row.status = jobs[j].status /\ row.owner = jobs[j].owner
            /\ row.key = jobs[j].key /\ row.cursor = jobs[j].cursor
      BY JobParts, LeasedJob
    <2>2. /\ jobs[j].status = "running" /\ jobs[j].owner = w /\ jobs[j].key \in Keys
          /\ 1 .. row.cursor \subseteq copied[row.key]
      BY <1>1, <1>3, <2>1, JobParts, SyncAssumption DEF Holds, JobInv, SavedInv
    <2>3. /\ jobs' = [jobs EXCEPT ![j] = row] /\ wk'[w].at = "page" /\ wk'[w].batch = rest
          /\ wk'[w].job = j /\ wk'[w].cursor = jobs[j].cursor
      BY <1>1, <1>3, <2>1
    <2>4. jobs'[j].cursor = jobs[j].cursor /\ jobs'[j].key = jobs[j].key
      BY <2>1, <2>3, JobParts
    <2>5. ASSUME KeysKept PROVE HandInv(w)' /\ WalkInv(w)'
      <3>1. \A i \in 1 .. Len(rest) : jobs'[rest[i]].status # "absent"
        BY <1>1, <2>5 DEF KeysKept
      <3>2. jobs'[j].status # "absent"
        BY <1>1, <2>5 DEF KeysKept
      <3>3. HandInv(w)'
        BY <1>1, <1>2, <2>3, <3>1, <3>2 DEF HandInv, OnAJob
      <3>4. WalkInv(w)'
        BY <1>1, <2>1, <2>2, <2>3, <2>4, JobParts DEF WalkInv, Holds
      <3> QED
        BY <3>3, <3>4
    <2>6. /\ row.status = "running" /\ row.owner = w /\ w # None /\ row.key = jobs[j].key
          /\ UNCHANGED <<due, copied>>
          /\ wk' \in [Workers -> WorkerType] /\ \A v \in Workers \ {w} : wk'[v] = wk[v]
      BY <1>1, <2>1, <2>2, SyncAssumption
    <2> QED
      BY <1>3, <2>2, <2>3, <2>5, <2>6, OwnerKeeps
  <1>4. CASE ~Holds(w, j)
    <2>1. HandInv(w)' /\ WalkInv(w)'
      BY <1>1, <1>2, <1>4 DEF HandInv, WalkInv, OnAJob
    <2> QED
      BY <1>1, <1>4, <2>1, TurnKeeps
  <1> QED
    BY <1>3, <1>4

\* The job a worker is on.
LEMMA AtJob ==
    ASSUME SyncInv, NEW w \in Workers, wk[w].at \in OnAJob
    PROVE  /\ wk[w].job \in Jobs /\ wk[w].job # None /\ jobs[wk[w].job].status # "absent"
           /\ jobs[wk[w].job].key \in Keys
           /\ \A i \in DOMAIN wk[w].batch : wk[w].batch[i] # wk[w].job
  BY WorkerParts, JobParts DEF HandInv, JobInv

\* Moving on with the job in hand.
LEMMA SameHands ==
    ASSUME SyncInv, KeysKept, NEW w \in Workers, wk[w].at \in OnAJob, wk'[w].at \in OnAJob,
           wk'[w].job = wk[w].job, wk'[w].batch = wk[w].batch,
           wk'[w].at = "fail" => wk'[w].error \in TroubleKinds
    PROVE  HandInv(w)'
  BY WorkerParts DEF HandInv, KeysKept, OnAJob

LEMMA PageCopied ==
    ASSUME SyncInv, NEW k \in Keys, NEW p \in Nat, copied' = [copied EXCEPT ![k] = copied[k] \cup {p}]
    PROVE  /\ copied' \in [Keys -> SUBSET Nat] /\ copied'[k] = copied[k] \cup {p}
           /\ \A i \in Keys : copied[i] \subseteq copied'[i]
  BY DEF SyncInv, TypeOK

LEMMA CopyPageEffect ==
    ASSUME SyncInv, NEW w \in Workers, CopyPage(w)
    PROVE  LET j == wk[w].job
               k == jobs[j].key
               p == wk[w].cursor + 1 IN
           /\ wk[w].at = "page" /\ j \in Jobs /\ j # None /\ k \in Keys /\ p \in Nat
           /\ UNCHANGED <<jobs, due>> /\ copied' = [copied EXCEPT ![k] = copied[k] \cup {p}]
           /\ wk' \in [Workers -> WorkerType] /\ \A v \in Workers \ {w} : wk'[v] = wk[v]
           /\ wk'[w].job = j /\ wk'[w].batch = wk[w].batch /\ wk'[w].cursor = p
           /\ wk'[w].at = IF p = Pages[k] THEN "complete" ELSE "save"
  <1>1. PICK j, k, p : j = wk[w].job /\ k = jobs[j].key /\ p = wk[w].cursor + 1
    OBVIOUS
  <1>2. wk[w].at = "page" /\ j \in Jobs /\ j # None /\ k \in Keys /\ p \in Nat
    BY <1>1, AtJob, WorkerParts DEF CopyPage, OnAJob
  <1>3. PICK at \in {"complete", "save"} : at = IF p = Pages[k] THEN "complete" ELSE "save"
    OBVIOUS
  <1>4. PICK n : n = [wk[w] EXCEPT !.at = at, !.cursor = p]
    OBVIOUS
  <1>5. n \in WorkerType /\ n.at = at /\ n.cursor = p /\ n.job = j /\ n.batch = wk[w].batch
    BY <1>1, <1>2, <1>4, WorkerParts DEF WorkerType
  <1>6. wk' = [wk EXCEPT ![w] = n]
    BY <1>1, <1>3, <1>4 DEF CopyPage
  <1>7. wk' \in [Workers -> WorkerType] /\ wk'[w] = n /\ \A v \in Workers \ {w} : wk'[v] = wk[v]
    BY <1>5, <1>6, TurnShape
  <1>8. UNCHANGED <<jobs, due>> /\ copied' = [copied EXCEPT ![k] = copied[k] \cup {p}]
    BY <1>1 DEF CopyPage
  <1> QED
    BY <1>1, <1>2, <1>3, <1>5, <1>7, <1>8

LEMMA CopyPageKeeps ==
    ASSUME SyncInv, NEW w \in Workers, CopyPage(w)
    PROVE  SyncInv'
  <1>1. PICK j, k, p : j = wk[w].job /\ k = jobs[j].key /\ p = wk[w].cursor + 1
    OBVIOUS
  <1>2. /\ wk[w].at = "page" /\ j \in Jobs /\ j # None /\ k \in Keys /\ p \in Nat
        /\ UNCHANGED <<jobs, due>> /\ copied' = [copied EXCEPT ![k] = copied[k] \cup {p}]
        /\ wk' \in [Workers -> WorkerType] /\ \A v \in Workers \ {w} : wk'[v] = wk[v]
        /\ wk'[w].job = j /\ wk'[w].batch = wk[w].batch /\ wk'[w].cursor = p
        /\ wk'[w].at = IF p = Pages[k] THEN "complete" ELSE "save"
    BY <1>1, CopyPageEffect
  <1>3. /\ copied' \in [Keys -> SUBSET Nat] /\ copied'[k] = copied[k] \cup {p}
        /\ \A i \in Keys : copied[i] \subseteq copied'[i]
    BY <1>2, PageCopied
  <1>4. KeysKept
    BY <1>2 DEF KeysKept
  <1>5. ASSUME NEW i \in Jobs PROVE JobInv(i)' /\ SavedInv(i)'
    <2>1. JobInv(i) /\ SavedInv(i)
      BY JobParts
    <2>2. jobs[i].status # "absent" => copied[jobs[i].key] \subseteq copied'[jobs[i].key]
      BY <1>3, <2>1 DEF JobInv
    <2> QED
      BY <1>2, <2>1, <2>2 DEF JobInv, SavedInv
  <1>6. due' \in Seq(Jobs) /\ DueInv' /\ jobs' \in [Jobs -> JobType]
    BY <1>2 DEF SyncInv, TypeOK, DueInv
  <1>7. ASSUME NEW v \in Workers \ {w} PROVE HandInv(v)' /\ WalkInv(v)'
    <2>1. wk'[v] = wk[v]
      BY <1>2
    <2>2. HandInv(v)'
      BY <1>4, <2>1, HandRests
    <2>3. WalkInv(v)'
      BY <1>2, <1>3, <1>4, <2>1, WalkRests
    <2> QED
      BY <2>2, <2>3
  <1>8. HandInv(w)'
    BY <1>1, <1>2, <1>4, SameHands DEF OnAJob
  <1>9. WalkInv(w)'
    <2>1. /\ Holds(w, j) => jobs[j].cursor <= wk[w].cursor
          /\ 1 .. wk[w].cursor \subseteq copied[k] /\ wk[w].cursor \in Nat /\ jobs[j].cursor \in Nat
      BY <1>1, <1>2, WorkerParts, JobParts DEF WalkInv
    <2>2. Holds(w, j) => jobs[j].cursor <= p
      BY <1>1, <2>1
    <2>3. 1 .. p \subseteq copied'[k]
      BY <1>1, <1>3, <2>1
    <2> QED
      BY <1>1, <1>2, <2>2, <2>3 DEF WalkInv, Holds
  <1> QED
    BY <1>2, <1>3, <1>5, <1>6, <1>7, <1>8, <1>9 DEF SyncInv, TypeOK

\* The page, or a statement after it, fails.
LEMMA TroubleEffect ==
    ASSUME SyncInv, NEW w \in Workers, NEW t \in TroubleKinds, wk[w].at \in OnAJob,
           wk' = [wk EXCEPT ![w] = [wk[w] EXCEPT !.at = "fail", !.error = t]]
    PROVE  /\ wk' \in [Workers -> WorkerType] /\ \A v \in Workers \ {w} : wk'[v] = wk[v]
           /\ wk'[w].at = "fail" /\ wk'[w].error = t
           /\ wk'[w].job = wk[w].job /\ wk'[w].batch = wk[w].batch
  <1>1. PICK n : n = [wk[w] EXCEPT !.at = "fail", !.error = t]
    OBVIOUS
  <1>2. n \in WorkerType /\ n.at = "fail" /\ n.error = t /\ n.job = wk[w].job /\ n.batch = wk[w].batch
    BY <1>1, WorkerParts DEF WorkerType
  <1> QED
    BY <1>1, <1>2, TurnShape

LEMMA TroubleKeeps ==
    ASSUME SyncInv, NEW w \in Workers, NEW t \in TroubleKinds, wk[w].at \in OnAJob,
           wk' = [wk EXCEPT ![w] = [wk[w] EXCEPT !.at = "fail", !.error = t]],
           UNCHANGED <<jobs, due, copied>>
    PROVE  SyncInv'
  <1>1. /\ wk' \in [Workers -> WorkerType] /\ \A v \in Workers \ {w} : wk'[v] = wk[v]
        /\ wk'[w].at = "fail" /\ wk'[w].error = t
        /\ wk'[w].job = wk[w].job /\ wk'[w].batch = wk[w].batch
    BY TroubleEffect
  <1>2. KeysKept
    BY DEF KeysKept
  <1>3. HandInv(w)' /\ WalkInv(w)'
    BY <1>1, <1>2, SameHands DEF WalkInv, OnAJob
  <1> QED
    BY <1>1, <1>3, TurnKeeps

LEMMA PageFailsEffect ==
    ASSUME NEW w \in Workers, PageFails(w)
    PROVE  /\ wk[w].at \in OnAJob /\ UNCHANGED <<jobs, due, copied>>
           /\ \E t \in TroubleKinds : wk' = [wk EXCEPT ![w] = [wk[w] EXCEPT !.at = "fail", !.error = t]]
  BY SyncAssumption DEF PageFails, OnAJob

\* A saved page.
LEMMA SaveEffect ==
    ASSUME SyncInv, NEW w \in Workers, SaveProgress(w)
    PROVE  LET j == wk[w].job IN
           /\ wk[w].at = "save" /\ j \in Jobs /\ j # None /\ UNCHANGED <<due, copied>>
           /\ wk' \in [Workers -> WorkerType] /\ \A v \in Workers \ {w} : wk'[v] = wk[v]
           /\ wk'[w].batch = wk[w].batch
           /\ \/ /\ Holds(w, j) /\ jobs' = [jobs EXCEPT ![j] = Saved(jobs[j], wk[w].cursor)]
                 /\ \/ wk'[w].at = "page" /\ wk'[w].job = j /\ wk'[w].cursor = wk[w].cursor
                    \/ wk'[w].job = None /\ wk'[w].at = IF wk[w].batch = << >> THEN "idle" ELSE "next"
              \/ /\ ~Holds(w, j) /\ UNCHANGED jobs
                 /\ wk'[w].job = None /\ wk'[w].at = IF wk[w].batch = << >> THEN "idle" ELSE "next"
  <1>1. PICK j : j = wk[w].job
    OBVIOUS
  <1>2. wk[w].at = "save" /\ j \in Jobs /\ j # None /\ UNCHANGED <<due, copied>>
    BY <1>1, AtJob DEF SaveProgress, OnAJob
  <1>3. CASE Holds(w, j) /\ wk[w].pages + 1 # MaxPages
    <2>1. jobs' = [jobs EXCEPT ![j] = Saved(jobs[j], wk[w].cursor)]
      BY <1>1, <1>3 DEF SaveProgress
    <2>2. wk' = [wk EXCEPT ![w].at = "page", ![w].pages = wk[w].pages + 1]
      BY <1>1, <1>3 DEF SaveProgress
    <2>3. PICK m \in Nat : m = wk[w].pages + 1
      BY WorkerParts DEF WorkerType
    <2> PICK n : n = [wk[w] EXCEPT !.at = "page", !.pages = m]
      OBVIOUS
    <2>4. n \in WorkerType /\ n.at = "page" /\ n.job = j /\ n.batch = wk[w].batch /\ n.cursor = wk[w].cursor
      BY <1>1, WorkerParts DEF WorkerType
    <2>5. wk' = [wk EXCEPT ![w] = n]
      BY <2>2, <2>3, WorkerParts DEF WorkerType
    <2>6. wk' \in [Workers -> WorkerType] /\ wk'[w] = n /\ \A v \in Workers \ {w} : wk'[v] = wk[v]
      BY <2>4, <2>5, TurnShape
    <2> QED
      BY <1>1, <1>2, <1>3, <2>1, <2>4, <2>6
  <1>4. CASE Holds(w, j) /\ wk[w].pages + 1 = MaxPages
    <2>1. jobs' = [jobs EXCEPT ![j] = Saved(jobs[j], wk[w].cursor)] /\ Onward(w)
      BY <1>1, <1>4 DEF SaveProgress, RunEnds
    <2> QED
      BY <1>1, <1>2, <1>4, <2>1, OnwardEffect
  <1>5. CASE ~Holds(w, j)
    <2>1. UNCHANGED jobs /\ Onward(w)
      BY <1>1, <1>5 DEF SaveProgress
    <2> QED
      BY <1>1, <1>2, <1>5, <2>1, OnwardEffect
  <1> QED
    BY <1>3, <1>4, <1>5

LEMMA SaveKeeps ==
    ASSUME SyncInv, NEW w \in Workers, SaveProgress(w)
    PROVE  SyncInv'
  <1>1. PICK j : j = wk[w].job
    OBVIOUS
  <1>2. /\ wk[w].at = "save" /\ j \in Jobs /\ j # None /\ UNCHANGED <<due, copied>>
        /\ wk' \in [Workers -> WorkerType] /\ \A v \in Workers \ {w} : wk'[v] = wk[v]
        /\ wk'[w].batch = wk[w].batch
        /\ \/ /\ Holds(w, j) /\ jobs' = [jobs EXCEPT ![j] = Saved(jobs[j], wk[w].cursor)]
              /\ \/ wk'[w].at = "page" /\ wk'[w].job = j /\ wk'[w].cursor = wk[w].cursor
                 \/ wk'[w].job = None /\ wk'[w].at = IF wk[w].batch = << >> THEN "idle" ELSE "next"
           \/ /\ ~Holds(w, j) /\ UNCHANGED jobs
              /\ wk'[w].job = None /\ wk'[w].at = IF wk[w].batch = << >> THEN "idle" ELSE "next"
    BY <1>1, SaveEffect
  <1>3. CASE Holds(w, j)
    <2>0. PICK row : row = Saved(jobs[j], wk[w].cursor)
      OBVIOUS
    <2>1. /\ row \in JobType /\ row.cursor = wk[w].cursor /\ row.lease = "live"
          /\ row.status = jobs[j].status /\ row.owner = jobs[j].owner /\ row.key = jobs[j].key
      <3>1. jobs[j] \in JobType /\ wk[w].cursor \in Nat
        BY <1>2, JobParts, WorkerParts
      <3> QED
        BY <2>0, <3>1, SavedJob
    <2>2. /\ jobs[j].status = "running" /\ jobs[j].owner = w /\ jobs[j].key \in Keys /\ w # None
          /\ 1 .. row.cursor \subseteq copied[row.key]
      BY <1>1, <1>2, <1>3, <2>1, JobParts, WorkerParts, SyncAssumption DEF Holds, JobInv, WalkInv
    <2>3. jobs' = [jobs EXCEPT ![j] = row]
      BY <1>2, <1>3, <2>0
    <2>4. jobs'[j] = row
      BY <1>2, <2>3, JobParts
    <2>5. ASSUME KeysKept PROVE HandInv(w)' /\ WalkInv(w)'
      <3>1. CASE wk'[w].at = "page" /\ wk'[w].job = j /\ wk'[w].cursor = wk[w].cursor
        <4>1. HandInv(w)'
          BY <1>1, <1>2, <2>5, <3>1, SameHands DEF OnAJob
        <4>2. WalkInv(w)'
          BY <1>2, <2>1, <2>2, <2>4, <3>1, WorkerParts DEF WalkInv, Holds
        <4> QED
          BY <4>1, <4>2
      <3>2. CASE wk'[w].job = None /\ wk'[w].at = IF wk[w].batch = << >> THEN "idle" ELSE "next"
        BY <1>2, <2>5, <3>2, OffJob
      <3> QED
        BY <1>2, <1>3, <3>1, <3>2
    <2>6. row.status = "running" /\ row.owner = w
      BY <2>1, <2>2
    <2> QED
      BY <1>2, <1>3, <2>1, <2>2, <2>3, <2>5, <2>6, OwnerKeeps
  <1>4. CASE ~Holds(w, j)
    <2>1. KeysKept
      BY <1>2, <1>4 DEF KeysKept
    <2>2. HandInv(w)' /\ WalkInv(w)'
      BY <1>2, <1>4, <2>1, OffJob
    <2> QED
      BY <1>2, <1>4, <2>2, TurnKeeps
  <1> QED
    BY <1>3, <1>4

\* A run settles its job, or finds that it has moved on.
Outcome == SettledStatuses \cup {"paused", "failed", "rate_limited"}

LEMMA SettleEffect ==
    ASSUME SyncInv, NEW w \in Workers, NEW status \in Outcome,
           NEW error \in {"none"} \cup TroubleKinds, NEW j \in Jobs, j = wk[w].job,
           Settle(w, status, error)
    PROVE  \/ /\ Holds(w, j) /\ jobs[j].status = "running"
              /\ \E row \in JobType :
                    /\ jobs' = [jobs EXCEPT ![j] = row] /\ row.status = status /\ row.owner = None
                    /\ row.lease = "none" /\ row.key = jobs[j].key /\ row.cursor = jobs[j].cursor
           \/ ~Holds(w, j) /\ UNCHANGED jobs
  <1>1. CASE Holds(w, j)
    <2>1. jobs' = [jobs EXCEPT ![j] = Released(jobs[j], status, error)]
      BY <1>1 DEF Settle
    <2>2. status \in Statuses
      BY DEF Outcome, Statuses, SettledStatuses, LiveStatuses
    <2>3. jobs[j].status = "running" /\ jobs[j] \in JobType
      BY <1>1, JobParts, SyncAssumption DEF Holds, JobInv
    <2>4. PICK row : row = Released(jobs[j], status, error)
      OBVIOUS
    <2>5. /\ row \in JobType /\ row.status = status /\ row.owner = None
          /\ row.lease = "none" /\ row.key = jobs[j].key /\ row.cursor = jobs[j].cursor
      BY <2>2, <2>3, <2>4, ReleasedJob
    <2> QED
      BY <1>1, <2>1, <2>3, <2>4, <2>5
  <1>2. CASE ~Holds(w, j)
    BY <1>2 DEF Settle
  <1> QED
    BY <1>1, <1>2

LEMMA SettleKeeps ==
    ASSUME SyncInv, NEW w \in Workers, NEW status \in Outcome,
           NEW error \in {"none"} \cup TroubleKinds, wk[w].at \in OnAJob,
           Settle(w, status, error), Onward(w), UNCHANGED <<due, copied>>,
           status = "completed" => 1 .. Pages[jobs[wk[w].job].key] \subseteq copied[jobs[wk[w].job].key]
    PROVE  SyncInv'
  <1>1. PICK j \in Jobs : j = wk[w].job /\ j # None /\ jobs[j].status # "absent" /\ jobs[j].key \in Keys
    BY AtJob
  <1>2. /\ wk' \in [Workers -> WorkerType] /\ \A v \in Workers \ {w} : wk'[v] = wk[v]
        /\ wk'[w].job = None /\ wk'[w].batch = wk[w].batch
        /\ wk'[w].at = IF wk[w].batch = << >> THEN "idle" ELSE "next"
    BY OnwardEffect
  <1>3. KeysKept => HandInv(w)' /\ WalkInv(w)'
    BY <1>2, OffJob
  <1>4. CASE Holds(w, j) /\ jobs' # jobs
    <2>1. PICK row \in JobType :
            /\ jobs' = [jobs EXCEPT ![j] = row] /\ row.status = status /\ row.owner = None
            /\ row.lease = "none" /\ row.key = jobs[j].key /\ row.cursor = jobs[j].cursor
      BY <1>1, <1>4, SettleEffect
    <2>2. /\ row.status # "absent" /\ row.status # "running"
      BY <2>1 DEF Outcome, SettledStatuses
    <2>3. /\ 1 .. row.cursor \subseteq copied[row.key]
          /\ row.status = "completed" => 1 .. Pages[row.key] \subseteq copied[row.key]
      BY <1>1, <2>1, JobParts DEF SavedInv
    <2> QED
      BY <1>1, <1>2, <1>3, <1>4, <2>1, <2>2, <2>3, OwnerKeeps
  <1>5. CASE jobs' = jobs
    <2>1. KeysKept
      BY <1>5 DEF KeysKept
    <2> QED
      BY <1>2, <1>3, <1>5, <2>1, TurnKeeps
  <1> QED
    BY <1>1, <1>4, <1>5, SettleEffect

LEMMA CompletedKeeps ==
    ASSUME SyncInv, NEW w \in Workers, MarkCompleted(w)
    PROVE  SyncInv'
  <1>1. wk[w].at = "complete" /\ wk[w].at \in OnAJob
    BY DEF MarkCompleted, OnAJob
  <1>2. 1 .. Pages[jobs[wk[w].job].key] \subseteq copied[jobs[wk[w].job].key]
    BY <1>1, WorkerParts DEF WalkInv
  <1>3. "completed" \in Outcome
    BY DEF Outcome, SettledStatuses
  <1> QED
    BY <1>1, <1>2, <1>3, SettleKeeps DEF MarkCompleted

LEMMA FailureIsOutcome ==
    ASSUME SyncInv, NEW w \in Workers, wk[w].at = "fail"
    PROVE  /\ wk[w].error \in TroubleKinds
           /\ FailureStatus(w) \in Outcome /\ FailureStatus(w) # "completed"
  <1>1. wk[w].error \in TroubleKinds
    BY WorkerParts DEF HandInv
  <1> QED
    BY <1>1 DEF FailureStatus, Outcome, SettledStatuses, TroubleKinds

LEMMA FailureKeeps ==
    ASSUME SyncInv, NEW w \in Workers, HandleFailure(w)
    PROVE  SyncInv'
  <1>1. wk[w].at = "fail" /\ wk[w].at \in OnAJob
    BY DEF HandleFailure, OnAJob
  <1>2. /\ wk[w].error \in TroubleKinds
        /\ FailureStatus(w) \in Outcome /\ FailureStatus(w) # "completed"
    BY <1>1, FailureIsOutcome
  <1>3. Settle(w, FailureStatus(w), wk[w].error) /\ Onward(w) /\ UNCHANGED <<due, copied>>
    BY DEF HandleFailure
  <1> QED
    BY <1>1, <1>2, <1>3, SettleKeeps

\* A poll that ends with an exception, and a process that dies.
LEMMA TurnEndKeeps ==
    ASSUME SyncInv, NEW w \in Workers, NEW n \in {Idle, [Idle EXCEPT !.at = "dead"]},
           wk' = [wk EXCEPT ![w] = n], UNCHANGED <<jobs, due, copied>>
    PROVE  SyncInv'
  <1>1. n \in WorkerType /\ n.job = None /\ n.batch = << >> /\ n.at \in {"idle", "dead"}
    BY IdleShape
  <1>2. wk' \in [Workers -> WorkerType] /\ wk'[w] = n /\ \A v \in Workers \ {w} : wk'[v] = wk[v]
    BY <1>1, TurnShape
  <1>3. HandInv(w)' /\ WalkInv(w)'
    BY <1>1, <1>2, EmptyHanded
  <1> QED
    BY <1>2, <1>3, TurnKeeps

LEMMA StatementFailsEffect ==
    ASSUME NEW w \in Workers, StatementFails(w)
    PROVE  /\ UNCHANGED <<jobs, due, copied>>
           /\ \/ wk[w].at \in OnAJob
                 /\ wk' = [wk EXCEPT ![w] = [wk[w] EXCEPT !.at = "fail", !.error = "transient"]]
              \/ wk' = [wk EXCEPT ![w] = Idle]
  BY DEF StatementFails, OnAJob

LEMMA SyncStep == SyncInv /\ [Next]_vars => SyncInv'
  <1> SUFFICES ASSUME SyncInv, [Next]_vars PROVE SyncInv'
    OBVIOUS
  <1>1. ASSUME NEW w \in Workers, PageFails(w) \/ StatementFails(w) \/ Crash(w) PROVE SyncInv'
    <2>1. CASE PageFails(w)
      BY <2>1, PageFailsEffect, TroubleKeeps
    <2>2. CASE StatementFails(w)
      BY <2>2, StatementFailsEffect, TroubleKeeps, TurnEndKeeps DEF TroubleKinds
    <2>3. CASE Crash(w)
      BY <2>3, TurnEndKeeps DEF Crash
    <2> QED
      BY <1>1, <2>1, <2>2, <2>3
  <1>2. ASSUME NEW w \in Workers, Step(w) PROVE SyncInv'
    BY <1>1, <1>2, ReachKeeps, CopyPageKeeps, SaveKeeps, CompletedKeeps, FailureKeeps DEF Step
  <1>3. CASE UNCHANGED vars
    <2>1. KeysKept /\ jobs' = jobs /\ copied' = copied /\ due' = due /\ wk' = wk
      BY <1>3 DEF vars, KeysKept
    <2>2. /\ jobs' \in [Jobs -> JobType] /\ \A i \in Jobs : JobInv(i)' /\ SavedInv(i)'
      BY <2>1, JobsRest
    <2>3. /\ wk' \in [Workers -> WorkerType] /\ copied' \in [Keys -> SUBSET Nat]
          /\ \A v \in Workers : HandInv(v)' /\ WalkInv(v)'
      BY <2>1, WorkersRest
    <2>4. due' \in Seq(Jobs) /\ DueInv'
      BY <2>1 DEF SyncInv, TypeOK, DueInv
    <2> QED
      BY <2>2, <2>3, <2>4 DEF SyncInv, TypeOK
  <1> QED
    BY <1>1, <1>2, <1>3, ClaimKeeps, EnqueueKeeps, BecomeDueKeeps, LeaseExpiresKeeps, ReclaimKeeps DEF Next

LEMMA SyncStarts == Init => SyncInv
  <1> SUFFICES ASSUME Init PROVE SyncInv
    OBVIOUS
  <1>1. Absent \in JobType
    BY CapRange DEF Absent, JobType, Statuses
  <1>2. TypeOK
    <2>1. << >> \in Seq(Jobs)
      OBVIOUS
    <2> QED
      BY <1>1, <2>1, IdleShape DEF Init, TypeOK
  <1>3. DueInv
    BY DEF Init, DueInv
  <1>4. \A j \in Jobs : JobInv(j) /\ SavedInv(j)
    BY DEF Init, Absent, JobInv, SavedInv
  <1>5. ASSUME NEW w \in Workers PROVE HandInv(w) /\ WalkInv(w)
    <2>1. wk[w].job = None /\ wk[w].batch = << >> /\ wk[w].at = "idle"
      BY IdleShape DEF Init
    <2> QED
      BY <2>1 DEF HandInv, WalkInv, OnAJob
  <1> QED
    BY <1>2, <1>3, <1>4, <1>5 DEF SyncInv

\* Every job walks under one owner at a time, and what a walk has saved is in
\* the inbound ledger.
THEOREM SyncInvariant == Spec => []SyncInv
  BY SyncStarts, SyncStep, PTL DEF Spec

-----------------------------------------------------------------------------
(* Saved cursors only grow.                                                  *)

Forward == \A j \in Jobs : jobs[j].status # "absent" => jobs'[j].cursor >= jobs[j].cursor

LEMMA RestsForward == ASSUME SyncInv, UNCHANGED jobs PROVE Forward
  <1>1. \A j \in Jobs : jobs[j].cursor \in Nat /\ jobs'[j].cursor = jobs[j].cursor
    BY JobParts
  <1> QED
    BY <1>1 DEF Forward

LEMMA RowForward ==
    ASSUME SyncInv, NEW j \in Jobs, NEW row \in JobType, jobs' = [jobs EXCEPT ![j] = row],
           jobs[j].status # "absent" => row.cursor >= jobs[j].cursor
    PROVE  Forward
  <1>1. \A i \in Jobs : jobs[i].cursor \in Nat
    BY JobParts
  <1>2. jobs'[j] = row /\ \A i \in Jobs \ {j} : jobs'[i] = jobs[i]
    BY JobParts
  <1> QED
    BY <1>1, <1>2 DEF Forward

LEMMA SameForward ==
    ASSUME SyncInv, NEW j \in Jobs, NEW row \in JobType, jobs' = [jobs EXCEPT ![j] = row],
           jobs[j].status = "absent" \/ row.cursor = jobs[j].cursor
    PROVE  Forward
  <1>1. jobs[j].cursor \in Nat
    BY JobParts
  <1>2. jobs[j].status # "absent" => row.cursor >= jobs[j].cursor
    BY <1>1
  <1> QED
    BY <1>2, RowForward

LEMMA SettleForward ==
    ASSUME SyncInv, NEW w \in Workers, NEW status \in Outcome,
           NEW error \in {"none"} \cup TroubleKinds, wk[w].at \in OnAJob, Settle(w, status, error)
    PROVE  Forward
  <1>1. PICK j \in Jobs : j = wk[w].job /\ jobs[j].cursor \in Nat
    BY AtJob, JobParts
  <1>2. CASE UNCHANGED jobs
    BY <1>2, RestsForward
  <1>3. CASE \E row \in JobType : jobs' = [jobs EXCEPT ![j] = row] /\ row.cursor = jobs[j].cursor
    BY <1>1, <1>3, SameForward
  <1> QED
    BY <1>1, <1>2, <1>3, SettleEffect

LEMMA ForwardStep == SyncInv /\ [Next]_vars => [Forward]_vars
  <1> SUFFICES ASSUME SyncInv, [Next]_vars PROVE Forward
    OBVIOUS
  <1>0. \A j \in Jobs : jobs[j].cursor \in Nat /\ jobs[j] \in JobType
    BY JobParts
  <1>1. CASE UNCHANGED jobs
    BY <1>1, RestsForward
  <1>2. ASSUME NEW w \in Workers, ClaimBatch(w) PROVE Forward
    <2>1. \A j \in Jobs : jobs'[j].cursor = jobs[j].cursor
      BY <1>2, ClaimEffect
    <2> QED
      BY <1>0, <2>1 DEF Forward
  <1>3. ASSUME NEW w \in Workers, ReachJob(w) PROVE Forward
    <2>1. PICK j \in Jobs : \/ jobs' = [jobs EXCEPT ![j] = [jobs[j] EXCEPT !.lease = "live"]]
                            \/ UNCHANGED jobs
      BY <1>3, ReachEffect
    <2>2. PICK row \in JobType : row = [jobs[j] EXCEPT !.lease = "live"] /\ row.cursor = jobs[j].cursor
      BY <1>0, LeasedJob
    <2>3. CASE jobs' = [jobs EXCEPT ![j] = row]
      BY <2>2, <2>3, SameForward
    <2> QED
      BY <1>1, <2>1, <2>2, <2>3
  <1>4. ASSUME NEW w \in Workers, SaveProgress(w) PROVE Forward
    <2>1. PICK j \in Jobs : /\ j = wk[w].job /\ wk[w].at = "save"
                            /\ \/ Holds(w, j) /\ jobs' = [jobs EXCEPT ![j] = Saved(jobs[j], wk[w].cursor)]
                               \/ UNCHANGED jobs
      BY <1>4, SaveEffect
    <2>2. CASE Holds(w, j) /\ jobs' = [jobs EXCEPT ![j] = Saved(jobs[j], wk[w].cursor)]
      <3>1. PICK row : row = Saved(jobs[j], wk[w].cursor)
        OBVIOUS
      <3>2. row \in JobType /\ row.cursor = wk[w].cursor
        BY <1>0, <3>1, SavedJob, WorkerParts
      <3>3. jobs[j].cursor <= wk[w].cursor
        BY <2>1, <2>2, WorkerParts DEF WalkInv
      <3> QED
        BY <1>0, <2>2, <3>1, <3>2, <3>3, RowForward, WorkerParts
    <2> QED
      BY <1>1, <2>1, <2>2
  <1>5. ASSUME NEW w \in Workers, MarkCompleted(w) \/ HandleFailure(w) PROVE Forward
    <2>1. CASE MarkCompleted(w)
      <3>1. wk[w].at \in OnAJob /\ Settle(w, "completed", "none") /\ "completed" \in Outcome
        BY <2>1 DEF MarkCompleted, OnAJob, Outcome, SettledStatuses
      <3> QED
        BY <3>1, SettleForward
    <2>2. CASE HandleFailure(w)
      <3>1. wk[w].at = "fail" /\ wk[w].at \in OnAJob /\ Settle(w, FailureStatus(w), wk[w].error)
        BY <2>2 DEF HandleFailure, OnAJob
      <3> QED
        BY <3>1, FailureIsOutcome, SettleForward
    <2> QED
      BY <1>5, <2>1, <2>2
  <1>6. ASSUME NEW k \in Keys, EnqueueIfAbsent(k) PROVE Forward
    <2>1. PICK j \in Jobs, row \in JobType :
              /\ jobs' = [jobs EXCEPT ![j] = row]
              /\ jobs[j].status = "absent" \/ row.cursor = jobs[j].cursor
      BY <1>6, EnqueueEffect
    <2> QED
      BY <2>1, SameForward
  <1>7. ASSUME NEW j \in Jobs, LeaseExpires(j) \/ Reclaim(j) PROVE Forward
    <2>1. PICK row \in JobType : jobs' = [jobs EXCEPT ![j] = row] /\ row.cursor = jobs[j].cursor
      BY <1>7, LeaseExpiresEffect, ReclaimEffect
    <2> QED
      BY <2>1, SameForward
  <1>8. ASSUME \/ \E w \in Workers : CopyPage(w) \/ PageFails(w) \/ StatementFails(w) \/ Crash(w)
               \/ \E j \in Jobs : BecomeDue(j)
               \/ UNCHANGED vars
        PROVE  UNCHANGED jobs
    BY <1>8 DEF CopyPage, PageFails, StatementFails, Crash, BecomeDue, vars
  <1> QED
    BY <1>1, <1>2, <1>3, <1>4, <1>5, <1>6, <1>7, <1>8 DEF Next, Step

-----------------------------------------------------------------------------
(* Refinement: jobs are a leased queue, by the mapping Queue in SyncJobs.    *)

LEMMA RowDecides ==
    ASSUME NEW j \in Jobs, jobs'[j] = jobs[j]
    PROVE  QueueState(j)' = QueueState(j) /\ Reapable(j)' = Reapable(j)
  BY DEF QueueState, Reapable

LEMMA HandsOfOthers ==
    ASSUME NEW v \in Workers, wk'[v] = wk[v]
    PROVE  Hands(v)' = Hands(v)
  BY DEF Hands

LEMMA AllHands ==
    ASSUME UNCHANGED wk
    PROVE  [w \in Workers |-> Hands(w)]' = [w \in Workers |-> Hands(w)]
  <1>1. \A w \in Workers : Hands(w)' = Hands(w)
    BY HandsOfOthers
  <1> QED
    BY <1>1

LEMMA QueueRests ==
    ASSUME \A j \in Jobs : jobs'[j] = jobs[j], \A w \in Workers : Hands(w)' = Hands(w)
    PROVE  UNCHANGED Queue!queueVars
  <1>0. \A j \in Jobs : QueueState(j)' = QueueState(j) /\ Reapable(j)' = Reapable(j)
    BY RowDecides
  <1>1. [j \in Jobs |-> QueueState(j)]' = [j \in Jobs |-> QueueState(j)]
    BY <1>0
  <1>2. [j \in Jobs |-> jobs[j].owner]' = [j \in Jobs |-> jobs[j].owner]
    OBVIOUS
  <1>3. [w \in Workers |-> Hands(w)]' = [w \in Workers |-> Hands(w)]
    OBVIOUS
  <1>4. {j \in Jobs : Reapable(j)}' = {j \in Jobs : Reapable(j)}
    BY <1>0
  <1> QED
    BY <1>1, <1>2, <1>3, <1>4 DEF Queue!queueVars, Hands

\* A worker that drops jobs and writes nothing.
LEMMA QueueLetsGo ==
    ASSUME NEW w \in Workers, NEW S \in SUBSET Hands(w), \A j \in Jobs : jobs'[j] = jobs[j],
           Hands(w)' = Hands(w) \ S, \A v \in Workers \ {w} : Hands(v)' = Hands(v)
    PROVE  Queue!Next
  <1>0. \A j \in Jobs : QueueState(j)' = QueueState(j) /\ Reapable(j)' = Reapable(j)
    BY RowDecides
  <1>1. [v \in Workers |-> Hands(v)]' = [[v \in Workers |-> Hands(v)] EXCEPT ![w] = @ \ S]
    OBVIOUS
  <1>2. [j \in Jobs |-> QueueState(j)]' = [j \in Jobs |-> QueueState(j)]
    BY <1>0
  <1>3. [j \in Jobs |-> jobs[j].owner]' = [j \in Jobs |-> jobs[j].owner]
    OBVIOUS
  <1>4. {j \in Jobs : Reapable(j)}' = {j \in Jobs : Reapable(j)}
    BY <1>0
  <1>5. Queue!LetGo(w, S)
    BY <1>1, <1>2, <1>3, <1>4 DEF Queue!LetGo, Hands
  <1>6. S \in SUBSET [v \in Workers |-> Hands(v)][w]
    OBVIOUS
  <1> QED
    BY <1>5, <1>6 DEF Queue!Next, Hands

\* A worker that gives back a job it owns, and takes it out of its hands.
LEMMA QueueFinish ==
    ASSUME NEW w \in Workers, NEW j \in Jobs,
           NEW to \in SettledStatuses \cup {"paused"} \cup {"waiting"},
           j \in Hands(w), jobs[j].owner = w, QueueState(j) = "held",
           QueueState(j)' = to, jobs'[j].owner = None, ~Reapable(j)',
           \A i \in Jobs \ {j} : jobs'[i] = jobs[i],
           Hands(w)' = Hands(w) \ {j}, \A v \in Workers \ {w} : Hands(v)' = Hands(v)
    PROVE  Queue!Next
  <1>0. \A i \in Jobs \ {j} : QueueState(i)' = QueueState(i) /\ Reapable(i)' = Reapable(i)
    BY RowDecides
  <1>1. [i \in Jobs |-> jobs[i].owner][j] = w /\ [i \in Jobs |-> QueueState(i)][j] = "held"
    OBVIOUS
  <1>2. [v \in Workers |-> Hands(v)]' = [[v \in Workers |-> Hands(v)] EXCEPT ![w] = @ \ {j}]
    OBVIOUS
  <1>3. [i \in Jobs |-> QueueState(i)]' = [[i \in Jobs |-> QueueState(i)] EXCEPT ![j] = to]
    BY <1>0
  <1>4. [i \in Jobs |-> jobs[i].owner]' = [[i \in Jobs |-> jobs[i].owner] EXCEPT ![j] = None]
    OBVIOUS
  <1>5. {i \in Jobs : Reapable(i)}' = {i \in Jobs : Reapable(i)} \ {j}
    BY <1>0
  <1>6. Queue!Finish(w, j, to)
    BY <1>1, <1>2, <1>3, <1>4, <1>5 DEF Queue!Finish, Queue!Returned, Hands
  <1>7. j \in [v \in Workers |-> Hands(v)][w]
    OBVIOUS
  <1> QED
    BY <1>6, <1>7 DEF Queue!Next, Hands

\* The owner extends its lease or saves a page, and perhaps stops.
LEMMA QueueRenew ==
    ASSUME NEW w \in Workers, NEW j \in Jobs, NEW keeps \in BOOLEAN,
           j \in Hands(w), jobs[j].owner = w, jobs'[j].owner = w, QueueState(j) = "held",
           QueueState(j)' = "held", ~Reapable(j)', \A i \in Jobs \ {j} : jobs'[i] = jobs[i],
           Hands(w)' = IF keeps THEN Hands(w) ELSE Hands(w) \ {j},
           \A v \in Workers \ {w} : Hands(v)' = Hands(v)
    PROVE  Queue!Next
  <1>0. \A i \in Jobs \ {j} : QueueState(i)' = QueueState(i) /\ Reapable(i)' = Reapable(i)
    BY RowDecides
  <1>1. [i \in Jobs |-> jobs[i].owner][j] = w /\ [i \in Jobs |-> QueueState(i)][j] = "held"
    OBVIOUS
  <1>2. [v \in Workers |-> Hands(v)]'
          = IF keeps THEN [v \in Workers |-> Hands(v)]
            ELSE [[v \in Workers |-> Hands(v)] EXCEPT ![w] = @ \ {j}]
    <2>1. CASE keeps
      BY <2>1
    <2>2. CASE ~keeps
      BY <2>2
    <2> QED
      BY <2>1, <2>2
  <1>3. [i \in Jobs |-> QueueState(i)]' = [i \in Jobs |-> QueueState(i)]
    BY <1>0
  <1>4. [i \in Jobs |-> jobs[i].owner]' = [i \in Jobs |-> jobs[i].owner]
    OBVIOUS
  <1>5. {i \in Jobs : Reapable(i)}' = {i \in Jobs : Reapable(i)} \ {j}
    BY <1>0
  <1>6. Queue!Renew(w, j, keeps)
    BY <1>1, <1>2, <1>3, <1>4, <1>5 DEF Queue!Renew, Hands
  <1>7. j \in [v \in Workers |-> Hands(v)][w]
    OBVIOUS
  <1> QED
    BY <1>6, <1>7 DEF Queue!Next, Hands

LEMMA QueueOffer ==
    ASSUME NEW j \in Jobs, QueueState(j) = "absent", QueueState(j)' = "waiting",
           jobs'[j].owner = jobs[j].owner, ~Reapable(j), ~Reapable(j)',
           \A i \in Jobs \ {j} : jobs'[i] = jobs[i], UNCHANGED wk
    PROVE  Queue!Next
  <1>0. \A i \in Jobs \ {j} : QueueState(i)' = QueueState(i) /\ Reapable(i)' = Reapable(i)
    BY RowDecides
  <1>1. [i \in Jobs |-> QueueState(i)][j] = "absent"
    OBVIOUS
  <1>2. [i \in Jobs |-> QueueState(i)]' = [[i \in Jobs |-> QueueState(i)] EXCEPT ![j] = "waiting"]
    BY <1>0
  <1>3. [i \in Jobs |-> jobs[i].owner]' = [i \in Jobs |-> jobs[i].owner]
    OBVIOUS
  <1>4. {i \in Jobs : Reapable(i)}' = {i \in Jobs : Reapable(i)}
    BY <1>0
  <1>5. Queue!Offer(j)
    BY <1>1, <1>2, <1>3, <1>4, AllHands DEF Queue!Offer, Hands
  <1> QED
    BY <1>5 DEF Queue!Next

\* A paused job that is asked for again.
LEMMA QueueWakes ==
    ASSUME NEW j \in Jobs, QueueState(j) = "paused", QueueState(j)' = "waiting",
           jobs'[j].owner = jobs[j].owner, ~Reapable(j), ~Reapable(j)',
           \A i \in Jobs \ {j} : jobs'[i] = jobs[i], UNCHANGED wk
    PROVE  Queue!Next
  <1>0. \A i \in Jobs \ {j} : QueueState(i)' = QueueState(i) /\ Reapable(i)' = Reapable(i)
    BY RowDecides
  <1>1. [i \in Jobs |-> QueueState(i)][j] = "paused"
    OBVIOUS
  <1>2. [i \in Jobs |-> QueueState(i)]' = [[i \in Jobs |-> QueueState(i)] EXCEPT ![j] = "waiting"]
    BY <1>0
  <1>3. [i \in Jobs |-> jobs[i].owner]' = [i \in Jobs |-> jobs[i].owner]
    OBVIOUS
  <1>4. {i \in Jobs : Reapable(i)}' = {i \in Jobs : Reapable(i)}
    BY <1>0
  <1>5. PICK change : change = <<"paused", "waiting">>
    OBVIOUS
  <1>6. Queue!Amend(j, change)
    BY <1>1, <1>2, <1>3, <1>4, <1>5, AllHands DEF Queue!Amend, Hands
  <1> QED
    BY <1>5, <1>6 DEF Queue!Next

LEMMA EnqueueIsQueueStep ==
    ASSUME SyncInv, NEW k \in Keys, EnqueueIfAbsent(k)
    PROVE  Queue!Next
  <1>1. PICK j \in Jobs, row \in JobType :
               /\ jobs' = [jobs EXCEPT ![j] = row] /\ UNCHANGED wk
               /\ row.status = "pending" /\ row.owner = None
               /\ jobs[j].status \in {"absent", "paused"}
    BY EnqueueEffect
  <1>2. jobs'[j] = row /\ \A i \in Jobs \ {j} : jobs'[i] = jobs[i]
    BY <1>1, JobParts
  <1>3. jobs[j].owner = None
    BY <1>1, JobParts DEF JobInv
  <1>4. ~Reapable(j) /\ ~Reapable(j)' /\ QueueState(j)' = "waiting" /\ QueueState(j) = jobs[j].status
    BY <1>1, <1>2 DEF Reapable, QueueState, ClaimableStatuses
  <1> QED
    BY <1>1, <1>2, <1>3, <1>4, QueueOffer, QueueWakes

\* A claim takes the head of the line, all of the batch at once.
LEMMA QueueTake ==
    ASSUME SyncInv, NEW w \in Workers, ClaimBatch(w)
    PROVE  Queue!Next
  <1>1. PICK S : S = ToSet(Batch)
    OBVIOUS
  <1>2. /\ S \in SUBSET Jobs
        /\ \A j \in S : /\ QueueState(j) = "waiting" /\ QueueState(j)' = "held"
                        /\ ~Reapable(j) /\ ~Reapable(j)' /\ jobs'[j].owner = w
        /\ \A j \in Jobs \ S : jobs'[j] = jobs[j]
    BY <1>1, ClaimEffect DEF QueueState, Reapable, ClaimableStatuses
  <1>3. \A j \in Jobs \ S : QueueState(j)' = QueueState(j) /\ Reapable(j)' = Reapable(j)
    BY <1>2, RowDecides
  <1>4. Hands(w)' = S /\ \A v \in Workers \ {w} : Hands(v)' = Hands(v)
    BY <1>1, ClaimEffect DEF Hands
  <1>5. [v \in Workers |-> Hands(v)]' = [[v \in Workers |-> Hands(v)] EXCEPT ![w] = S]
    BY <1>4
  <1>6. [j \in Jobs |-> QueueState(j)]'
          = [j \in Jobs |-> IF j \in S THEN "held" ELSE [i \in Jobs |-> QueueState(i)][j]]
    BY <1>2, <1>3
  <1>7. [j \in Jobs |-> jobs[j].owner]'
          = [j \in Jobs |-> IF j \in S THEN w ELSE [i \in Jobs |-> jobs[i].owner][j]]
    BY <1>2
  <1>8. {j \in Jobs : Reapable(j)}' = {j \in Jobs : Reapable(j)}
    BY <1>2, <1>3
  <1>9. Queue!Take(w, S)
    BY <1>5, <1>6, <1>7, <1>8 DEF Queue!Take, Hands
  <1>10. S \in SUBSET Queue!Waiting
    BY <1>2 DEF Queue!Waiting
  <1> QED
    BY <1>9, <1>10 DEF Queue!Next

LEMMA QueueLapse ==
    ASSUME SyncInv, NEW j \in Jobs, LeaseExpires(j)
    PROVE  Queue!Next
  <1>1. PICK row \in JobType :
               /\ jobs' = [jobs EXCEPT ![j] = row] /\ UNCHANGED wk
               /\ jobs[j].status = "running" /\ row.lease = "lapsed" /\ row.status = jobs[j].status
               /\ row.owner = jobs[j].owner
    BY LeaseExpiresEffect
  <1>2. jobs'[j] = row /\ \A i \in Jobs \ {j} : jobs'[i] = jobs[i]
    BY <1>1, JobParts
  <1>3. QueueState(j) = "held" /\ QueueState(j)' = "held" /\ Reapable(j)'
    BY <1>1, <1>2 DEF QueueState, Reapable, ClaimableStatuses
  <1>4. \A i \in Jobs \ {j} : QueueState(i)' = QueueState(i) /\ Reapable(i)' = Reapable(i)
    BY <1>2, RowDecides
  <1>5. [i \in Jobs |-> QueueState(i)]' = [i \in Jobs |-> QueueState(i)]
    BY <1>3, <1>4
  <1>6. [i \in Jobs |-> jobs[i].owner]' = [i \in Jobs |-> jobs[i].owner]
    BY <1>1, <1>2
  <1>7. {i \in Jobs : Reapable(i)}' = {i \in Jobs : Reapable(i)} \cup {j}
    BY <1>3, <1>4
  <1>8. Queue!Lapse({j})
    BY <1>1, <1>5, <1>6, <1>7, AllHands DEF Queue!Lapse, Hands
  <1>9. {j} \in SUBSET Queue!Held
    BY <1>3 DEF Queue!Held
  <1> QED
    BY <1>8, <1>9 DEF Queue!Next

\* The reaper takes only what has lapsed.
LEMMA QueueReap ==
    ASSUME SyncInv, NEW j \in Jobs, Reclaim(j)
    PROVE  Queue!Next
  <1>1. PICK row \in JobType :
               /\ jobs' = [jobs EXCEPT ![j] = row] /\ UNCHANGED wk
               /\ jobs[j].status = "running" /\ row.status = "pending" /\ row.owner = None
    BY ReclaimEffect
  <1>2. jobs'[j] = row /\ \A i \in Jobs \ {j} : jobs'[i] = jobs[i]
    BY <1>1, JobParts
  <1>3. QueueState(j) = "held" /\ QueueState(j)' = "waiting" /\ Reapable(j) /\ ~Reapable(j)'
    BY <1>1, <1>2 DEF QueueState, Reapable, ClaimableStatuses, Reclaim
  <1>4. \A i \in Jobs \ {j} : QueueState(i)' = QueueState(i) /\ Reapable(i)' = Reapable(i)
    BY <1>2, RowDecides
  <1>5. j \in {i \in Jobs : Reapable(i)}
    BY <1>3
  <1>6. [i \in Jobs |-> QueueState(i)]' = [[i \in Jobs |-> QueueState(i)] EXCEPT ![j] = "waiting"]
    <2>1. QueueState(j)' = "waiting" /\ \A i \in Jobs \ {j} : QueueState(i)' = QueueState(i)
      BY <1>3, <1>4
    <2>2. \A i \in Jobs : QueueState(i)' = IF i = j THEN "waiting" ELSE QueueState(i)
      BY <2>1
    <2> QED
      BY <2>2
  <1>7. [i \in Jobs |-> jobs[i].owner]' = [[i \in Jobs |-> jobs[i].owner] EXCEPT ![j] = None]
    <2>1. \A i \in Jobs : jobs'[i].owner = IF i = j THEN None ELSE jobs[i].owner
      BY <1>1, <1>2
    <2> QED
      BY <2>1
  <1>8. {i \in Jobs : Reapable(i)}' = {i \in Jobs : Reapable(i)} \ {j}
    BY <1>3, <1>4
  <1>9. Queue!Reap(j, "waiting")
    BY <1>1, <1>5, <1>6, <1>7, <1>8, AllHands DEF Queue!Reap, Queue!Returned, Hands
  <1>10. j \in Queue!Held
    BY <1>3 DEF Queue!Held
  <1> QED
    BY <1>9, <1>10 DEF Queue!Next

\* The next job of the batch: its lease is renewed, or it has moved on.
LEMMA ReachIsQueueStep ==
    ASSUME SyncInv, NEW w \in Workers, ReachJob(w)
    PROVE  Queue!Next
  <1>0. PICK j \in Jobs, rest \in Seq(Jobs) :
             /\ j = Head(wk[w].batch) /\ rest = Tail(wk[w].batch)
             /\ wk[w].job = None /\ wk[w].batch # << >> /\ wk[w].at = "next"
             /\ DOMAIN rest = 1 .. Len(rest) /\ Len(wk[w].batch) = Len(rest) + 1 /\ Len(rest) \in Nat
             /\ wk[w].batch[1] = j /\ \A i \in 1 .. Len(rest) : rest[i] = wk[w].batch[i + 1]
             /\ jobs[j].status # "absent"
             /\ \A i \in 1 .. Len(rest) : rest[i] \in Jobs /\ rest[i] # j
                                          /\ jobs[rest[i]].status # "absent"
             /\ \A i, k \in 1 .. Len(rest) : rest[i] = rest[k] => i = k
             /\ wk' \in [Workers -> WorkerType] /\ \A v \in Workers \ {w} : wk'[v] = wk[v]
             /\ UNCHANGED <<due, copied>>
             /\ \/ /\ Holds(w, j) /\ jobs' = [jobs EXCEPT ![j] = [jobs[j] EXCEPT !.lease = "live"]]
                   /\ wk'[w].at = "page" /\ wk'[w].batch = rest /\ wk'[w].job = j
                   /\ wk'[w].cursor = jobs[j].cursor
                \/ /\ ~Holds(w, j) /\ UNCHANGED jobs
                   /\ wk'[w].job = None /\ wk'[w].batch = rest
                   /\ wk'[w].at = IF rest = << >> THEN "idle" ELSE "next"
    BY ReachEffect
  <1>1. /\ wk[w].job = None
        /\ DOMAIN rest = 1 .. Len(rest) /\ Len(wk[w].batch) = Len(rest) + 1 /\ Len(rest) \in Nat
        /\ wk[w].batch[1] = j /\ \A i \in 1 .. Len(rest) : rest[i] = wk[w].batch[i + 1]
        /\ \A i \in 1 .. Len(rest) : rest[i] # j
        /\ \A v \in Workers \ {w} : wk'[v] = wk[v]
        /\ wk'[w].batch = rest
        /\ \/ /\ Holds(w, j) /\ jobs' = [jobs EXCEPT ![j] = [jobs[j] EXCEPT !.lease = "live"]]
              /\ wk'[w].job = j
           \/ ~Holds(w, j) /\ UNCHANGED jobs /\ wk'[w].job = None
    BY <1>0
  <1>2. ToSet(wk[w].batch) = {j} \cup ToSet(rest) /\ j \notin ToSet(rest)
    <2>1. DOMAIN wk[w].batch = 1 .. Len(wk[w].batch)
      BY WorkerParts
    <2>2. \A i \in DOMAIN wk[w].batch : i = 1 \/ (i - 1 \in 1 .. Len(rest) /\ wk[w].batch[i] = rest[i - 1])
      BY <1>1, <2>1
    <2>3. \A i \in 1 .. Len(rest) : i + 1 \in DOMAIN wk[w].batch
      BY <1>1, <2>1
    <2>4. 1 \in DOMAIN wk[w].batch
      BY <1>1, <2>1
    <2> QED
      BY <1>1, <2>2, <2>3, <2>4 DEF ToSet
  <1>3. \A v \in Workers \ {w} : Hands(v)' = Hands(v)
    BY <1>1, HandsOfOthers
  <1>4. j # None /\ Hands(w) = {j} \cup ToSet(rest)
    BY <1>1, <1>2, SyncAssumption DEF Hands
  <1>5. CASE Holds(w, j)
    <2>1. Hands(w)' = Hands(w)
      BY <1>1, <1>4, <1>5 DEF Hands
    <2>2. PICK row \in JobType :
            /\ row = [jobs[j] EXCEPT !.lease = "live"]
            /\ row.lease = "live" /\ row.status = jobs[j].status /\ row.owner = jobs[j].owner
      BY JobParts, LeasedJob
    <2>3. jobs'[j] = row /\ \A i \in Jobs \ {j} : jobs'[i] = jobs[i]
      BY <1>1, <1>5, <2>2, JobParts
    <2>4. jobs[j].owner = w /\ jobs[j].status = "running"
      BY <1>5, JobParts, SyncAssumption DEF Holds, JobInv
    <2>5. QueueState(j) = "held" /\ QueueState(j)' = "held" /\ ~Reapable(j)'
      BY <2>2, <2>3, <2>4 DEF QueueState, Reapable, ClaimableStatuses
    <2>6. PICK keeps \in BOOLEAN : keeps
      OBVIOUS
    <2> QED
      BY <1>3, <1>4, <2>1, <2>2, <2>3, <2>4, <2>5, <2>6, QueueRenew
  <1>6. CASE ~Holds(w, j)
    <2>1. Hands(w)' = ToSet(rest) /\ \A i \in Jobs : jobs'[i] = jobs[i]
      BY <1>1, <1>6 DEF Hands
    <2>2. Hands(w)' = Hands(w) \ {j} /\ {j} \in SUBSET Hands(w)
      BY <1>2, <1>4, <2>1
    <2> QED
      BY <1>3, <2>1, <2>2, QueueLetsGo
  <1> QED
    BY <1>5, <1>6

\* What a worker that moves on has in its hands.
LEMMA HandsOnward ==
    ASSUME SyncInv, NEW w \in Workers, wk[w].at \in OnAJob,
           wk'[w].job = None, wk'[w].batch = wk[w].batch
    PROVE  wk[w].job \in Hands(w) /\ Hands(w)' = Hands(w) \ {wk[w].job}
  <1>1. wk[w].job # None /\ wk[w].job \notin ToSet(wk[w].batch)
    BY AtJob DEF ToSet
  <1> QED
    BY <1>1 DEF Hands

LEMMA SaveIsQueueStep ==
    ASSUME SyncInv, NEW w \in Workers, SaveProgress(w)
    PROVE  Queue!Next
  <1>1. PICK j \in Jobs :
           /\ j = wk[w].job /\ wk[w].at = "save"
           /\ \A v \in Workers \ {w} : wk'[v] = wk[v]
           /\ wk'[w].batch = wk[w].batch
           /\ \/ /\ Holds(w, j) /\ jobs' = [jobs EXCEPT ![j] = Saved(jobs[j], wk[w].cursor)]
                 /\ wk'[w].job = j \/ wk'[w].job = None
              \/ ~Holds(w, j) /\ UNCHANGED jobs /\ wk'[w].job = None
    BY SaveEffect
  <1>2. wk[w].at \in OnAJob
    BY <1>1 DEF OnAJob
  <1>3. \A v \in Workers \ {w} : Hands(v)' = Hands(v)
    BY <1>1, HandsOfOthers
  <1>4. j \in Hands(w) /\ j # None
    BY <1>1, <1>2, AtJob DEF Hands
  <1>5. wk'[w].job = None => Hands(w)' = Hands(w) \ {j}
    BY <1>1, <1>2, HandsOnward
  <1>6. CASE Holds(w, j)
    <2>1. PICK keeps \in BOOLEAN : keeps <=> wk'[w].job = j
      OBVIOUS
    <2>2. Hands(w)' = IF keeps THEN Hands(w) ELSE Hands(w) \ {j}
      <3>1. wk'[w].job = j => Hands(w)' = Hands(w)
        BY <1>1 DEF Hands
      <3> QED
        BY <1>1, <1>5, <1>6, <2>1, <3>1
    <2>3. PICK row : row = Saved(jobs[j], wk[w].cursor)
      OBVIOUS
    <2>4. row \in JobType /\ row.lease = "live" /\ row.status = jobs[j].status /\ row.owner = jobs[j].owner
      BY <2>3, SavedJob, JobParts, WorkerParts
    <2>5. jobs'[j] = row /\ \A i \in Jobs \ {j} : jobs'[i] = jobs[i]
      BY <1>1, <1>6, <2>3, JobParts
    <2>6. jobs[j].owner = w /\ jobs[j].status = "running"
      BY <1>6, JobParts, SyncAssumption DEF Holds, JobInv
    <2>7. QueueState(j) = "held" /\ QueueState(j)' = "held" /\ ~Reapable(j)'
      BY <2>4, <2>5, <2>6 DEF QueueState, Reapable, ClaimableStatuses
    <2> QED
      BY <1>3, <1>4, <2>2, <2>4, <2>5, <2>6, <2>7, QueueRenew
  <1>7. CASE ~Holds(w, j)
    <2>1. \A i \in Jobs : jobs'[i] = jobs[i]
      BY <1>1, <1>7
    <2>2. {j} \in SUBSET Hands(w) /\ Hands(w)' = Hands(w) \ {j}
      BY <1>1, <1>4, <1>5, <1>7
    <2> QED
      BY <1>3, <2>1, <2>2, QueueLetsGo
  <1> QED
    BY <1>6, <1>7

\* A settling statement: the fence lets it through, or the job has moved on and
\* the worker lets it go.
LEMMA SettleIsQueueStep ==
    ASSUME SyncInv, NEW w \in Workers, NEW status \in Outcome,
           NEW error \in {"none"} \cup TroubleKinds, wk[w].at \in OnAJob,
           Settle(w, status, error), Onward(w)
    PROVE  Queue!Next
  <1>1. PICK j \in Jobs : j = wk[w].job
    BY AtJob
  <1>2. /\ \A v \in Workers \ {w} : wk'[v] = wk[v]
        /\ wk'[w].job = None /\ wk'[w].batch = wk[w].batch
    BY OnwardEffect
  <1>3. \A v \in Workers \ {w} : Hands(v)' = Hands(v)
    BY <1>2, HandsOfOthers
  <1>4. j \in Hands(w) /\ Hands(w)' = Hands(w) \ {j}
    BY <1>1, <1>2, HandsOnward
  <1>5. CASE ~Holds(w, j)
    <2>1. \A i \in Jobs : jobs'[i] = jobs[i]
      BY <1>1, <1>5, SettleEffect
    <2>2. {j} \in SUBSET Hands(w)
      BY <1>4
    <2> QED
      BY <1>3, <1>4, <2>1, <2>2, QueueLetsGo
  <1>6. CASE Holds(w, j)
    <2>1. PICK row \in JobType :
            jobs' = [jobs EXCEPT ![j] = row] /\ row.status = status /\ row.owner = None
      BY <1>1, <1>6, SettleEffect
    <2>2. jobs'[j] = row /\ \A i \in Jobs \ {j} : jobs'[i] = jobs[i]
      BY <2>1, JobParts
    <2>3. jobs[j].owner = w /\ jobs[j].status = "running"
      BY <1>6, JobParts, SyncAssumption DEF Holds, JobInv
    <2>4. PICK to \in SettledStatuses \cup {"paused"} \cup {"waiting"} :
            to = IF status \in ClaimableStatuses THEN "waiting" ELSE status
      BY DEF Outcome, ClaimableStatuses
    <2>5. QueueState(j) = "held" /\ QueueState(j)' = to /\ ~Reapable(j)'
      BY <2>1, <2>2, <2>3, <2>4 DEF QueueState, Reapable, ClaimableStatuses, Outcome, SettledStatuses
    <2> QED
      BY <1>3, <1>4, <2>1, <2>2, <2>3, <2>5, QueueFinish
  <1> QED
    BY <1>5, <1>6

LEMMA EndIsQueueStep ==
    ASSUME SyncInv, NEW w \in Workers, NEW n \in {Idle, [Idle EXCEPT !.at = "dead"]},
           wk' = [wk EXCEPT ![w] = n], UNCHANGED jobs
    PROVE  Queue!Next
  <1>1. n \in WorkerType /\ n.job = None /\ n.batch = << >>
    BY IdleShape
  <1>2. wk'[w] = n /\ \A v \in Workers \ {w} : wk'[v] = wk[v]
    BY <1>1, TurnShape
  <1>3. Hands(w)' = {} /\ \A v \in Workers \ {w} : Hands(v)' = Hands(v)
    BY <1>1, <1>2, HandsOfOthers DEF Hands, ToSet
  <1>4. PICK S : S = Hands(w)
    OBVIOUS
  <1>5. S \in SUBSET Hands(w) /\ Hands(w)' = Hands(w) \ S /\ \A j \in Jobs : jobs'[j] = jobs[j]
    BY <1>3, <1>4
  <1> QED
    BY <1>3, <1>5, QueueLetsGo

\* Every step of the jobs is a step of the queue, or none.
LEMMA StepIsQueueStep == SyncInv /\ [Next]_vars => [Queue!Next]_(Queue!queueVars)
  <1> SUFFICES ASSUME SyncInv, [Next]_vars
               PROVE  Queue!Next \/ UNCHANGED Queue!queueVars
    OBVIOUS
  <1>1. ASSUME UNCHANGED jobs, \A w \in Workers : Hands(w)' = Hands(w) PROVE UNCHANGED Queue!queueVars
    BY <1>1, QueueRests
  <1>2. ASSUME UNCHANGED <<jobs, wk>> PROVE UNCHANGED Queue!queueVars
    BY <1>1, <1>2, HandsOfOthers
  <1>3. ASSUME NEW w \in Workers, CopyPage(w) PROVE UNCHANGED Queue!queueVars
    <2>1. /\ UNCHANGED jobs /\ \A v \in Workers \ {w} : wk'[v] = wk[v]
          /\ wk'[w].job = wk[w].job /\ wk'[w].batch = wk[w].batch
      BY <1>3, CopyPageEffect
    <2> QED
      BY <1>1, <2>1, HandsOfOthers DEF Hands
  <1>4. ASSUME NEW w \in Workers, NEW t \in TroubleKinds, wk[w].at \in OnAJob, UNCHANGED jobs,
               wk' = [wk EXCEPT ![w] = [wk[w] EXCEPT !.at = "fail", !.error = t]]
        PROVE  UNCHANGED Queue!queueVars
    <2>1. /\ \A v \in Workers \ {w} : wk'[v] = wk[v]
          /\ wk'[w].job = wk[w].job /\ wk'[w].batch = wk[w].batch
      BY <1>4, TroubleEffect
    <2> QED
      BY <1>1, <1>4, <2>1, HandsOfOthers DEF Hands
  <1>5. ASSUME NEW w \in Workers, StatementFails(w) PROVE Queue!Next \/ UNCHANGED Queue!queueVars
    BY <1>4, <1>5, StatementFailsEffect, EndIsQueueStep DEF TroubleKinds
  <1>6. ASSUME NEW w \in Workers, Crash(w) PROVE Queue!Next
    BY <1>6, EndIsQueueStep DEF Crash
  <1>7. ASSUME NEW w \in Workers, MarkCompleted(w) \/ HandleFailure(w) PROVE Queue!Next
    <2>1. CASE MarkCompleted(w)
      <3>1. wk[w].at \in OnAJob /\ Settle(w, "completed", "none") /\ Onward(w) /\ "completed" \in Outcome
        BY <2>1 DEF MarkCompleted, OnAJob, Outcome, SettledStatuses
      <3> QED
        BY <3>1, SettleIsQueueStep
    <2>2. CASE HandleFailure(w)
      <3>1. /\ wk[w].at = "fail" /\ wk[w].at \in OnAJob /\ Settle(w, FailureStatus(w), wk[w].error)
            /\ Onward(w)
        BY <2>2 DEF HandleFailure, OnAJob
      <3> QED
        BY <3>1, FailureIsOutcome, SettleIsQueueStep
    <2> QED
      BY <1>7, <2>1, <2>2
  <1>8. ASSUME NEW w \in Workers, Step(w) PROVE Queue!Next \/ UNCHANGED Queue!queueVars
    BY <1>3, <1>4, <1>7, <1>8, PageFailsEffect, ReachIsQueueStep, SaveIsQueueStep DEF Step
  <1>9. ASSUME (\E j \in Jobs : BecomeDue(j)) \/ UNCHANGED vars PROVE UNCHANGED <<jobs, wk>>
    BY <1>9 DEF BecomeDue, vars
  <1> QED
    BY <1>2, <1>5, <1>6, <1>8, <1>9, QueueTake, EnqueueIsQueueStep, QueueLapse, QueueReap DEF Next

\* Whatever workers a job passes through, and whichever of them stall, die or
\* come back late: each writes only while the job is its own, the saved cursor
\* never goes back and never runs ahead of what was copied, and a job is
\* completed only when the whole history is in the inbound ledger (claimBatch,
\* the fences of saveProgress, markCompleted, markFailed and extendLease,
\* reclaimExpiredLeases).
THEOREM WalksAreWhole == Spec => WalkIsWhole
  <1>1. SyncInv => TypeOK /\ CompletedMeansCopied /\ CursorIsCopied
    BY DEF SyncInv, SavedInv, CompletedMeansCopied, CursorIsCopied
  <1>2. SyncInv /\ [Next]_vars
          => [\A j \in Jobs : jobs[j].status # "absent" => jobs'[j].cursor >= jobs[j].cursor]_vars
    BY ForwardStep DEF Forward
  <1>3. Init => Queue!Init
    <2> SUFFICES ASSUME Init PROVE Queue!Init
      OBVIOUS
    <2>1. \A j \in Jobs : QueueState(j) = "absent" /\ jobs[j].owner = None /\ ~Reapable(j)
      BY DEF Init, Absent, QueueState, Reapable, ClaimableStatuses
    <2>2. \A w \in Workers : Hands(w) = {}
      BY IdleShape DEF Init, Hands, ToSet
    <2> QED
      BY <2>1, <2>2 DEF Queue!Init, Hands
  <1>4. Spec => [](TypeOK /\ CompletedMeansCopied /\ CursorIsCopied)
    BY <1>1, SyncInvariant, PTL
  <1>5. Spec => CursorNeverRewinds
    BY <1>2, SyncInvariant, PTL DEF Spec, CursorNeverRewinds
  <1>6. Spec => Queue!Spec
    BY <1>3, StepIsQueueStep, SyncInvariant, PTL DEF Spec, Queue!Spec
  <1> QED
    BY <1>4, <1>5, <1>6 DEF WalkIsWhole

-----------------------------------------------------------------------------
(* The usage monitor.                                                        *)

\* A bucket in memory: one that is not there holds nothing.
Bucket == {b \in [calls : Nat, throttled : Nat, pct : Percents \cup {0}] :
               b.throttled <= b.calls /\ (b.calls = 0 => b = Nothing)}

UsageRowType == {r \in [calls : Nat, throttled : Nat, pct : Percents \cup {0},
                        owner : Tenants \cup {NoOwner}] : r.throttled <= r.calls}

UsageTables ==
    /\ now \in 1 .. LastBucket
    /\ pending \in [Processes -> [UsageKeys -> Bucket]]
    /\ taken \in [Processes -> [UsageKeys -> Bucket]]
    /\ usageRow \in [UsageKeys -> UsageRowType]
    /\ holders \in [Pools -> SUBSET Tenants]
    /\ wasSole \in [Pools -> SUBSET Tenants]
    /\ cached \in [Processes -> [Pools -> Tenants \cup {NoOwner, Unresolved}]]
    /\ observed \in [Pools -> Nat] /\ forgone \in [Pools -> Nat]
    /\ peak \in [UsageKeys -> Nat]

\* No reading is above the peak, so one that reaches it is not overtaken.
UnderThePeak ==
    \A k \in UsageKeys :
        /\ usageRow[k].pct <= peak[k]
        /\ \A p \in Processes : pending[p][k].pct <= peak[k] /\ taken[p][k].pct <= peak[k]

\* An owner that is cached or could be looked up now was alone on the pool, and
\* what a flush is about to write has been looked up.
OwnersWereAlone ==
    /\ OwnerWasAlone
    /\ \A s \in Pools : Cardinality(holders[s]) = 1 => holders[s] \subseteq wasSole[s]
    /\ \A p \in Processes, s \in Pools : cached[p][s] \in wasSole[s] \cup {NoOwner, Unresolved}
    /\ \A p \in Processes : \A k \in Present(taken[p]) : cached[p][k[1]] # Unresolved

\* The inductive invariant.
UsageInv ==
    /\ UsageTables
    /\ CallsConserved /\ Total(observed) <= MaxCalls
    /\ UnderThePeak /\ PeakIsKept
    /\ OwnersWereAlone

-----------------------------------------------------------------------------
(* Counts.                                                                   *)

LEMMA TotalIsSum == \A S, f : f = [x \in S |-> f[x]] => Total(f) = SumOver(f, S)
  BY DEF Total, SumOver

LEMMA KeysAreFinite == IsFiniteSet(UsageKeys)
  <1>1. IsFiniteSet(1 .. LastBucket)
    BY FS_Interval, UsageAssumption DEF UsageAssumption
  <1> QED
    BY <1>1, FS_Product, UsageAssumption DEF UsageKeys, UsageAssumption

\* The calls of a set of buckets that are of one pool.
OfPool(b, s) == [k \in UsageKeys |-> IF k[1] = s THEN b[k].calls ELSE 0]

LEMMA CallsInIsSum == \A b, s : CallsIn(b, s) = SumOver(OfPool(b, s), UsageKeys)
  BY TotalIsSum DEF CallsIn, OfPool

Counts(b) == \A k \in UsageKeys : b[k].calls \in Nat

LEMMA CallsInRange ==
    ASSUME NEW b, Counts(b), NEW s
    PROVE  /\ CallsIn(b, s) \in Nat
           /\ \A k \in UsageKeys : k[1] = s => b[k].calls <= CallsIn(b, s)
  <1> DEFINE q == OfPool(b, s)
  <1>1. \A k \in UsageKeys : q[k] \in Nat /\ (k[1] = s => q[k] = b[k].calls)
    BY DEF OfPool, Counts
  <1> HIDE DEF q
  <1>2. SumOver(q, UsageKeys) \in Nat /\ \A k \in UsageKeys : q[k] <= SumOver(q, UsageKeys)
    BY <1>1, KeysAreFinite, SumIsNat
  <1> QED
    BY <1>1, <1>2, CallsInIsSum DEF q

\* Buckets merged call by call.
LEMMA CallsInAdds ==
    ASSUME NEW b, Counts(b), NEW c, Counts(c), NEW d, NEW s,
           \A k \in UsageKeys : d[k].calls = b[k].calls + c[k].calls
    PROVE  CallsIn(d, s) = CallsIn(b, s) + CallsIn(c, s)
  <1> DEFINE q == OfPool(b, s)
             r == OfPool(c, s)
             h == OfPool(d, s)
  <1>1. \A k \in UsageKeys : q[k] \in Int /\ r[k] \in Int /\ h[k] = q[k] + r[k]
    BY DEF OfPool, Counts
  <1> HIDE DEF q, r, h
  <1>2. SumOver(h, UsageKeys) = SumOver(q, UsageKeys) + SumOver(r, UsageKeys)
    BY <1>1, KeysAreFinite, SumsAdd
  <1> QED
    BY <1>2, CallsInIsSum DEF q, r, h

LEMMA NoCallsIn ==
    ASSUME NEW b, \A k \in UsageKeys : b[k].calls = 0, NEW s
    PROVE  CallsIn(b, s) = 0
  <1> DEFINE q == OfPool(b, s)
  <1>1. \A k \in UsageKeys : q[k] = 0
    BY DEF OfPool
  <1> HIDE DEF q
  <1>2. SumOver(q, UsageKeys) = 0
    BY <1>1, KeysAreFinite, SumOfZeros
  <1> QED
    BY <1>2, CallsInIsSum DEF q

\* One bucket counts one more call.
LEMMA CallsInCounts ==
    ASSUME NEW b, Counts(b), NEW k \in UsageKeys, NEW d,
           \A o \in UsageKeys : d[o].calls = IF o = k THEN b[o].calls + 1 ELSE b[o].calls,
           NEW s
    PROVE  CallsIn(d, s) = CallsIn(b, s) + IF k[1] = s THEN 1 ELSE 0
  <1> DEFINE q == OfPool(b, s)
             r == OfPool(d, s)
  <1>1. \A o \in UsageKeys : q[o] \in Int /\ r[o] \in Int /\ (o # k => r[o] = q[o])
    BY DEF OfPool, Counts
  <1>2. r[k] = q[k] + IF k[1] = s THEN 1 ELSE 0
    BY DEF OfPool, Counts
  <1> HIDE DEF q, r
  <1>3. SumOver(r, UsageKeys) = SumOver(q, UsageKeys) - q[k] + r[k]
    BY <1>1, KeysAreFinite, SumChangesAt
  <1>4. SumOver(q, UsageKeys) \in Int
    BY <1>1, KeysAreFinite, SumIsInt
  <1>5. SumOver(r, UsageKeys) = SumOver(q, UsageKeys) + IF k[1] = s THEN 1 ELSE 0
    BY <1>1, <1>2, <1>3, <1>4
  <1> QED
    BY <1>5, CallsInIsSum DEF q, r

\* What the processes hold of a pool.
Held(s) == [p \in Processes |-> CallsIn(pending[p], s) + CallsIn(taken[p], s)]

LEMMA HeldParts ==
    ASSUME UsageTables
    PROVE  /\ \A p \in Processes : Counts(pending[p]) /\ Counts(taken[p])
           /\ Counts(usageRow)
           /\ \A s \in Pools : /\ CallsIn(usageRow, s) \in Nat
                               /\ \A p \in Processes : /\ CallsIn(pending[p], s) \in Nat
                                                       /\ CallsIn(taken[p], s) \in Nat
                                                       /\ Held(s)[p] \in Nat
           /\ \A s \in Pools : /\ Total(Held(s)) \in Nat
                               /\ \A p \in Processes : Held(s)[p] <= Total(Held(s))
  <1>1. \A p \in Processes : Counts(pending[p]) /\ Counts(taken[p])
    BY DEF UsageTables, Counts, Bucket
  <1>2. Counts(usageRow)
    BY DEF UsageTables, Counts, UsageRowType
  <1>3. ASSUME NEW s \in Pools, NEW p \in Processes
        PROVE  /\ CallsIn(pending[p], s) \in Nat /\ CallsIn(taken[p], s) \in Nat
               /\ Held(s)[p] \in Nat
    BY <1>1, CallsInRange DEF Held
  <1>4. ASSUME NEW s \in Pools
        PROVE  /\ Total(Held(s)) \in Nat
               /\ \A p \in Processes : Held(s)[p] <= Total(Held(s))
    <2> DEFINE q == Held(s)
    <2>1. IsFiniteSet(Processes)
      BY UsageAssumption DEF UsageAssumption
    <2>2. \A p \in Processes : q[p] \in Nat
      BY <1>3
    <2>3. Total(q) = SumOver(q, Processes)
      BY TotalIsSum DEF Held
    <2> HIDE DEF q
    <2>4. SumOver(q, Processes) \in Nat /\ \A p \in Processes : q[p] <= SumOver(q, Processes)
      BY <2>1, <2>2, SumIsNat
    <2> QED
      BY <2>3, <2>4 DEF q
  <1>5. \A s : CallsIn(usageRow, s) \in Nat
    BY <1>2, CallsInRange
  <1> QED
    BY <1>1, <1>2, <1>3, <1>4, <1>5

\* A step of one process changes what is held by what it changes of its own.
LEMMA HeldChanges ==
    ASSUME UsageTables, UsageTables', NEW p \in Processes, NEW s \in Pools,
           \A o \in Processes : o # p => pending'[o] = pending[o] /\ taken'[o] = taken[o]
    PROVE  Total(Held(s))' = Total(Held(s)) - Held(s)[p]
                                + CallsIn(pending'[p], s) + CallsIn(taken'[p], s)
  <1> DEFINE q == Held(s)
             r == Held(s)'
  <1>1. IsFiniteSet(Processes)
    BY UsageAssumption DEF UsageAssumption
  <1>2. \A o \in Processes : q[o] \in Nat /\ CallsIn(pending[o], s) \in Nat /\ CallsIn(taken[o], s) \in Nat
    BY HeldParts
  <1>3. \A o \in Processes : Counts(pending'[o]) /\ Counts(taken'[o])
    BY DEF UsageTables, Counts, Bucket
  <1>4. \A o \in Processes : CallsIn(pending'[o], s) \in Nat /\ CallsIn(taken'[o], s) \in Nat
    BY <1>3, CallsInRange
  <1>5. r = [o \in Processes |-> CallsIn(pending'[o], s) + CallsIn(taken'[o], s)]
    BY DEF Held
  <1>6. \A o \in Processes : r[o] \in Nat /\ (o # p => r[o] = q[o])
    BY <1>2, <1>4, <1>5 DEF Held
  <1>7. Total(q) = SumOver(q, Processes)
    BY TotalIsSum DEF Held
  <1>8. Total(r) = SumOver(r, Processes)
    BY <1>5, TotalIsSum
  <1>9. Total(Held(s))' = Total(r)
    OBVIOUS
  <1>10. r[p] = CallsIn(pending'[p], s) + CallsIn(taken'[p], s)
    BY <1>5
  <1> HIDE DEF q, r
  <1>11. \A o \in Processes : q[o] \in Int /\ r[o] \in Int /\ (o # p => r[o] = q[o])
    BY <1>2, <1>6
  <1>12. SumOver(r, Processes) = SumOver(q, Processes) - q[p] + r[p]
    BY <1>1, <1>11, SumChangesAt
  <1>13. SumOver(q, Processes) \in Int
    BY <1>1, <1>11, SumIsInt
  <1>14. Total(Held(s))' = SumOver(q, Processes) - q[p] + (CallsIn(pending'[p], s) + CallsIn(taken'[p], s))
    BY <1>8, <1>9, <1>10, <1>12
  <1>15. SumOver(q, Processes) = Total(Held(s))
    BY <1>7 DEF q
  <1>16. q[p] = Held(s)[p]
    BY DEF q
  <1>17. q[p] \in Nat
    BY <1>2
  <1> QED
    BY <1>4, <1>13, <1>14, <1>15, <1>16, <1>17

LEMMA Conserved ==
    /\ CallsConserved <=>
         \A s \in Pools : observed[s] = CallsIn(usageRow, s) + forgone[s] + Total(Held(s))
    /\ CallsConserved' <=>
         \A s \in Pools : observed'[s] = CallsIn(usageRow', s) + forgone'[s] + Total(Held(s))'
  BY DEF CallsConserved, Held

LEMMA ObservedAddsUp ==
    ASSUME UsageTables
    PROVE  Total(observed) \in Nat /\ \A s \in Pools : observed[s] <= Total(observed)
  <1>1. IsFiniteSet(Pools) /\ \A s \in Pools : observed[s] \in Nat
    BY UsageAssumption DEF UsageAssumption, UsageTables
  <1>2. Total(observed) = SumOver(observed, Pools)
    BY TotalIsSum DEF UsageTables
  <1> QED
    BY <1>1, <1>2, SumIsNat

LEMMA EmptyBuckets ==
    /\ Empty \in [UsageKeys -> Bucket] /\ Nothing \in Bucket
    /\ \A s : CallsIn(Empty, s) = 0
    /\ Present(Empty) = {}
    /\ \A k \in UsageKeys : Empty[k] = Nothing
  <1>1. Nothing \in Bucket
    BY DEF Nothing, Bucket
  <1>2. \A k \in UsageKeys : Empty[k] = Nothing /\ Empty[k].calls = 0
    BY DEF Empty, Nothing
  <1>3. \A s : CallsIn(Empty, s) = 0
    BY <1>2, NoCallsIn
  <1>4. Present(Empty) = {}
    BY <1>2 DEF Present
  <1> QED
    BY <1>1, <1>2, <1>3, <1>4 DEF Empty

LEMMA UsageInitially == ASSUME UsageInit PROVE UsageInv
  <1> USE DEF UsageInit
  <1>1. UsageTables
    <2>1. 1 \in 1 .. LastBucket
      BY UsageAssumption DEF UsageAssumption
    <2>2. pending \in [Processes -> [UsageKeys -> Bucket]] /\ taken \in [Processes -> [UsageKeys -> Bucket]]
      BY EmptyBuckets
    <2>3. usageRow \in [UsageKeys -> UsageRowType]
      BY DEF UsageRowType
    <2>4. wasSole \in [Pools -> SUBSET Tenants]
      OBVIOUS
    <2> QED
      BY <2>1, <2>2, <2>3, <2>4 DEF UsageTables
  <1>2. CallsConserved
    <2> SUFFICES ASSUME NEW s \in Pools
                 PROVE  observed[s] = CallsIn(usageRow, s) + forgone[s] + Total(Held(s))
      BY Conserved
    <2>1. CallsIn(usageRow, s) = 0
      BY NoCallsIn
    <2>2. Total(Held(s)) = 0
      <3> DEFINE q == Held(s)
      <3>1. \A p \in Processes : q[p] = 0
        BY EmptyBuckets DEF Held
      <3>2. Total(q) = SumOver(q, Processes)
        BY TotalIsSum DEF Held
      <3> HIDE DEF q
      <3>3. SumOver(q, Processes) = 0
        BY <3>1, SumOfZeros, UsageAssumption DEF UsageAssumption
      <3> QED
        BY <3>2, <3>3 DEF q
    <2> QED
      BY <2>1, <2>2
  <1>3. Total(observed) <= MaxCalls
    <2>1. Total(observed) = SumOver(observed, Pools)
      BY TotalIsSum
    <2>2. SumOver(observed, Pools) = 0
      BY SumOfZeros, UsageAssumption DEF UsageAssumption
    <2> QED
      BY <2>1, <2>2, UsageAssumption DEF UsageAssumption
  <1>4. UnderThePeak /\ PeakIsKept
    BY EmptyBuckets DEF UnderThePeak, PeakIsKept, Nothing
  <1>5. OwnersWereAlone
    BY EmptyBuckets DEF OwnersWereAlone, OwnerWasAlone
  <1> QED
    BY <1>1, <1>2, <1>3, <1>4, <1>5 DEF UsageInv

-----------------------------------------------------------------------------
(* The steps.                                                                *)

LEMMA HighestIs ==
    \A a, b \in Percents \cup {0} :
        /\ highest(a, b) \in Percents \cup {0} /\ highest(a, b) \in Nat
        /\ a <= highest(a, b) /\ b <= highest(a, b)
        /\ highest(a, b) = a \/ highest(a, b) = b
  BY UsageAssumption DEF highest, UsageAssumption

LEMMA FoldIsBucket ==
    ASSUME NEW b \in Bucket, NEW pct \in Percents, NEW throttled \in BOOLEAN
    PROVE  LET f == fold(b, pct, throttled)
           IN  f \in Bucket /\ f.calls = b.calls + 1 /\ f.pct = highest(b.pct, pct)
  <1> DEFINE f == fold(b, pct, throttled)
  <1>1. b.calls \in Nat /\ b.throttled \in Nat /\ b.throttled <= b.calls /\ b.pct \in Percents \cup {0}
    BY DEF Bucket
  <1>2. highest(b.pct, pct) \in Percents \cup {0}
    BY <1>1, HighestIs
  <1>3. PICK t \in Nat : t = b.throttled + (IF throttled THEN 1 ELSE 0) /\ t <= b.calls + 1
    BY <1>1
  <1>4. f = [calls |-> b.calls + 1, throttled |-> t, pct |-> highest(b.pct, pct)]
    BY <1>3 DEF fold
  <1>5. b.calls + 1 \in Nat /\ b.calls + 1 # 0
    BY <1>1
  <1> QED
    BY <1>2, <1>3, <1>4, <1>5 DEF Bucket

\* What is in the tables, spelled out for one process and one bucket.
LEMMA BucketParts ==
    ASSUME UsageTables
    PROVE  /\ \A p \in Processes : pending[p] \in [UsageKeys -> Bucket] /\ taken[p] \in [UsageKeys -> Bucket]
           /\ \A p \in Processes, k \in UsageKeys :
                 /\ pending[p][k] \in Bucket /\ taken[p][k] \in Bucket
                 /\ pending[p][k].pct \in Percents \cup {0} /\ pending[p][k].pct \in Nat
                 /\ taken[p][k].pct \in Percents \cup {0} /\ taken[p][k].pct \in Nat
           /\ \A k \in UsageKeys :
                 /\ usageRow[k].pct \in Percents \cup {0} /\ usageRow[k].pct \in Nat
                 /\ peak[k] \in Nat /\ k[1] \in Pools
  <1>1. \A p \in Processes, k \in UsageKeys : pending[p][k] \in Bucket /\ taken[p][k] \in Bucket
    BY DEF UsageTables
  <1>0. \A x \in Percents \cup {0} : x \in Nat
    BY UsageAssumption DEF UsageAssumption
  <1>2. \A b \in Bucket : b.pct \in Percents \cup {0}
    BY DEF Bucket
  <1>3. \A k \in UsageKeys : usageRow[k].pct \in Percents \cup {0}
    BY DEF UsageTables, UsageRowType
  <1>4. \A k \in UsageKeys : peak[k] \in Nat /\ k[1] \in Pools
    BY DEF UsageTables, UsageKeys
  <1> QED
    BY <1>0, <1>1, <1>2, <1>3, <1>4 DEF UsageTables

\* A step of one process that accounts for what it changes loses no call.
LEMMA ConservedStep ==
    ASSUME UsageInv, UsageTables', NEW p \in Processes,
           \A o \in Processes : o # p => pending'[o] = pending[o] /\ taken'[o] = taken[o],
           \A s \in Pools :
               observed'[s] + CallsIn(usageRow, s) + forgone[s]
                            + CallsIn(pending[p], s) + CallsIn(taken[p], s)
             = observed[s] + CallsIn(usageRow', s) + forgone'[s]
                            + CallsIn(pending'[p], s) + CallsIn(taken'[p], s)
    PROVE  CallsConserved'
  <1> SUFFICES ASSUME NEW s \in Pools
               PROVE  observed'[s] = CallsIn(usageRow', s) + forgone'[s] + Total(Held(s))'
    BY Conserved
  <1>1. observed[s] = CallsIn(usageRow, s) + forgone[s] + Total(Held(s))
    BY Conserved DEF UsageInv
  <1>2. Total(Held(s))' = Total(Held(s)) - Held(s)[p]
                               + CallsIn(pending'[p], s) + CallsIn(taken'[p], s)
    BY HeldChanges DEF UsageInv
  <1>3. Held(s)[p] = CallsIn(pending[p], s) + CallsIn(taken[p], s)
    BY DEF Held
  <1>4. /\ CallsIn(usageRow, s) \in Nat /\ Total(Held(s)) \in Nat
        /\ CallsIn(pending[p], s) \in Nat /\ CallsIn(taken[p], s) \in Nat
    BY HeldParts DEF UsageInv
  <1>5. /\ CallsIn(usageRow', s) \in Nat
        /\ CallsIn(pending'[p], s) \in Nat /\ CallsIn(taken'[p], s) \in Nat
    <2>1. Counts(usageRow') /\ Counts(pending'[p]) /\ Counts(taken'[p])
      BY DEF UsageTables, Counts, Bucket, UsageRowType
    <2> QED
      BY <2>1, CallsInRange
  <1>6. /\ observed[s] \in Nat /\ forgone[s] \in Nat
        /\ observed'[s] \in Nat /\ forgone'[s] \in Nat
    BY DEF UsageInv, UsageTables
  <1>7. observed'[s] + CallsIn(usageRow, s) + forgone[s]
                     + CallsIn(pending[p], s) + CallsIn(taken[p], s)
      = observed[s] + CallsIn(usageRow', s) + forgone'[s]
                     + CallsIn(pending'[p], s) + CallsIn(taken'[p], s)
    OBVIOUS
  <1> QED
    BY <1>1, <1>2, <1>3, <1>4, <1>5, <1>6, <1>7

LEMMA ObserveKeeps ==
    ASSUME UsageInv, NEW p \in Processes, NEW s \in Pools, NEW pct \in Percents,
           NEW throttled \in BOOLEAN, observe(p, s, pct, throttled)
    PROVE  UsageInv'
  <1> DEFINE k == <<s, now>>
             full == BufferFull(p, k)
  <1>0. UsageTables /\ k \in UsageKeys
    BY DEF UsageInv, UsageTables, UsageKeys
  <1>1. /\ Total(observed) < MaxCalls /\ observed' = [observed EXCEPT ![s] = @ + 1]
        /\ UNCHANGED <<now, taken, usageRow, holders, cached, wasSole>>
    BY DEF observe
  <1>2. full => forgone' = [forgone EXCEPT ![s] = @ + 1] /\ UNCHANGED <<pending, peak>>
    BY DEF observe
  <1>3. ~full => /\ pending' = [pending EXCEPT ![p][k] = fold(@, pct, throttled)]
                 /\ peak' = [peak EXCEPT ![k] = highest(@, pct)]
                 /\ UNCHANGED forgone
    BY DEF observe
  <1> HIDE DEF full
  <1> DEFINE f == fold(pending[p][k], pct, throttled)
  <1>4. /\ pending[p][k] \in Bucket /\ f \in Bucket /\ f.calls = pending[p][k].calls + 1
        /\ f.pct = highest(pending[p][k].pct, pct)
    BY <1>0, BucketParts, FoldIsBucket
  <1> DEFINE g == [pending[p] EXCEPT ![k] = f]
  <1>13. ~full => pending' = [pending EXCEPT ![p] = g]
    BY <1>0, <1>3 DEF UsageTables
  <1> HIDE DEF f
  <1>14. g \in [UsageKeys -> Bucket] /\ \A j \in UsageKeys : g[j] = IF j = k THEN f ELSE pending[p][j]
    BY <1>0, <1>4, BucketParts
  <1> HIDE DEF g
  <1>5. ~full => \A o \in Processes : \A j \in UsageKeys :
                     pending'[o][j] = IF o = p /\ j = k THEN f ELSE pending[o][j]
    BY <1>0, <1>13, <1>14 DEF UsageTables
  <1>6. highest(peak[k], pct) \in Nat /\ peak[k] <= highest(peak[k], pct) /\ pct <= highest(peak[k], pct)
        /\ (highest(peak[k], pct) = peak[k] \/ highest(peak[k], pct) = pct)
    BY <1>0, UsageAssumption DEF UsageTables, highest, UsageAssumption
  <1>7. UsageTables'
    <2>1. pending' \in [Processes -> [UsageKeys -> Bucket]]
      BY <1>0, <1>2, <1>13, <1>14 DEF UsageTables
    <2>2. peak' \in [UsageKeys -> Nat]
      BY <1>0, <1>2, <1>3, <1>6 DEF UsageTables
    <2>3. forgone' \in [Pools -> Nat] /\ observed' \in [Pools -> Nat]
      BY <1>0, <1>1, <1>2, <1>3 DEF UsageTables
    <2> QED
      BY <1>0, <1>1, <2>1, <2>2, <2>3 DEF UsageTables
  <1>8. CallsConserved'
    <2>1. \A o \in Processes : o # p => pending'[o] = pending[o] /\ taken'[o] = taken[o]
      BY <1>0, <1>1, <1>2, <1>3 DEF UsageTables
    <2>2. ASSUME NEW t \in Pools
          PROVE  observed'[t] + CallsIn(usageRow, t) + forgone[t]
                            + CallsIn(pending[p], t) + CallsIn(taken[p], t)
               = observed[t] + CallsIn(usageRow', t) + forgone'[t]
                            + CallsIn(pending'[p], t) + CallsIn(taken'[p], t)
      <3>1. observed'[t] = observed[t] + IF t = s THEN 1 ELSE 0
        BY <1>0, <1>1 DEF UsageTables
      <3>2. full => forgone'[t] = forgone[t] + IF t = s THEN 1 ELSE 0
        BY <1>0, <1>2 DEF UsageTables
      <3>3. ~full => CallsIn(pending'[p], t) = CallsIn(pending[p], t) + IF t = s THEN 1 ELSE 0
        <4>1. Counts(pending[p])
          BY <1>0, HeldParts
        <4>2. k[1] = t <=> t = s
          OBVIOUS
        <4>3. ~full => \A o \in UsageKeys :
                  pending'[p][o].calls = IF o = k THEN pending[p][o].calls + 1 ELSE pending[p][o].calls
          BY <1>4, <1>5
        <4>4. ~full => CallsIn(pending'[p], t) = CallsIn(pending[p], t) + IF k[1] = t THEN 1 ELSE 0
          <5> HIDE DEF k
          <5> QED
            BY <1>0, <4>1, <4>3, CallsInCounts
        <4> QED
          BY <4>2, <4>4
      <3>4. /\ CallsIn(usageRow, t) \in Nat /\ CallsIn(pending[p], t) \in Nat /\ CallsIn(taken[p], t) \in Nat
            /\ observed[t] \in Nat /\ forgone[t] \in Nat
        BY <1>0, HeldParts DEF UsageTables
      <3>5. CASE full
        BY <1>1, <1>2, <3>1, <3>2, <3>4, <3>5
      <3>6. CASE ~full
        BY <1>1, <1>3, <3>1, <3>3, <3>4, <3>6
      <3> QED
        BY <3>5, <3>6
    <2> QED
      BY <1>7, <2>1, <2>2, ConservedStep
  <1>9. Total(observed') <= MaxCalls
    <2>1. Total(observed) = SumOver(observed, Pools) /\ Total(observed') = SumOver(observed', Pools)
      BY <1>0, <1>7, TotalIsSum DEF UsageTables
    <2>2. \A t \in Pools : observed[t] \in Int /\ observed'[t] \in Int /\ (t # s => observed'[t] = observed[t])
      BY <1>0, <1>1 DEF UsageTables
    <2>3. SumOver(observed', Pools) = SumOver(observed, Pools) - observed[s] + observed'[s]
      BY <2>2, SumChangesAt, UsageAssumption DEF UsageAssumption
    <2>4. observed'[s] = observed[s] + 1 /\ observed[s] \in Nat
      BY <1>0, <1>1 DEF UsageTables
    <2>5. Total(observed) \in Nat
      BY <1>0, ObservedAddsUp
    <2> QED
      BY <1>1, <2>1, <2>3, <2>4, <2>5, UsageAssumption DEF UsageAssumption
  <1>10. UnderThePeak'
    <2>1. UnderThePeak
      BY DEF UsageInv
    <2>2. CASE full
      BY <1>1, <1>2, <2>1, <2>2 DEF UnderThePeak
    <2>3. CASE ~full
      <3>1. \A j \in UsageKeys : j # k => peak'[j] = peak[j]
        BY <1>0, <1>3, <2>3 DEF UsageTables
      <3>2. peak'[k] = highest(peak[k], pct)
        BY <1>0, <1>3, <2>3 DEF UsageTables
      <3>3. f.pct <= peak'[k]
        <4>1. pending[p][k].pct <= peak[k]
          BY <1>0, <2>1 DEF UnderThePeak
        <4>2. /\ pending[p][k].pct \in Nat /\ peak[k] \in Nat /\ pct \in Nat
              /\ f.pct = highest(pending[p][k].pct, pct) /\ peak'[k] = highest(peak[k], pct)
          BY <1>0, <1>4, <3>2, BucketParts, UsageAssumption DEF UsageAssumption
        <4> QED
          BY <4>1, <4>2 DEF highest
      <3> SUFFICES ASSUME NEW j \in UsageKeys
                   PROVE  /\ usageRow[j].pct <= peak'[j]
                          /\ \A o \in Processes : pending'[o][j].pct <= peak'[j] /\ taken[o][j].pct <= peak'[j]
        BY <1>1 DEF UnderThePeak
      <3>4. usageRow[j].pct <= peak[j] /\ \A o \in Processes : pending[o][j].pct <= peak[j] /\ taken[o][j].pct <= peak[j]
        BY <2>1 DEF UnderThePeak
      <3>5. CASE j # k
        BY <1>5, <2>3, <3>1, <3>4, <3>5
      <3>6. CASE j = k
        <4>1. /\ usageRow[k].pct \in Nat /\ peak[k] \in Nat
              /\ \A o \in Processes : pending[o][k].pct \in Nat /\ taken[o][k].pct \in Nat
          BY <1>0, BucketParts
        <4>2. usageRow[k].pct <= peak'[k] /\ \A o \in Processes : pending[o][k].pct <= peak'[k] /\ taken[o][k].pct <= peak'[k]
          BY <1>6, <3>2, <3>4, <3>6, <4>1
        <4> QED
          BY <1>5, <2>3, <3>3, <3>6, <4>2
      <3> QED
        BY <3>5, <3>6
    <2> QED
      BY <2>2, <2>3
  <1>11. PeakIsKept'
    <2>1. PeakIsKept /\ UnderThePeak
      BY DEF UsageInv
    <2>2. CASE full
      <3>1. \A t \in Pools : forgone'[t] = 0 => forgone[t] = 0
        BY <1>0, <1>2, <2>2 DEF UsageTables
      <3> QED
        BY <1>0, <1>1, <1>2, <2>1, <2>2, <3>1, BucketParts DEF PeakIsKept
    <2>3. CASE ~full
      <3> SUFFICES ASSUME NEW j \in UsageKeys, forgone[j[1]] = 0
                   PROVE  \/ usageRow[j].pct = peak'[j]
                          \/ \E o \in Processes : pending'[o][j].pct = peak'[j] \/ taken[o][j].pct = peak'[j]
        BY <1>1, <1>3, <2>3 DEF PeakIsKept
      <3>1. \/ usageRow[j].pct = peak[j]
            \/ \E o \in Processes : pending[o][j].pct = peak[j] \/ taken[o][j].pct = peak[j]
        BY <2>1 DEF PeakIsKept
      <3>2. CASE j # k
        <4>1. peak'[j] = peak[j]
          BY <1>0, <1>3, <2>3, <3>2 DEF UsageTables
        <4> QED
          BY <1>5, <2>3, <3>1, <3>2, <4>1
      <3>3. CASE j = k
        <4>1. peak'[k] = highest(peak[k], pct)
          BY <1>0, <1>3, <2>3 DEF UsageTables
        <4>2. pending[p][k].pct <= peak[k] /\ pending[p][k].pct \in Nat /\ peak[k] \in Nat /\ pct \in Nat
          BY <1>0, <2>1, BucketParts, UsageAssumption DEF UnderThePeak, UsageAssumption
        <4>3. CASE pct > peak[k]
          <5>1. f.pct = pct /\ peak'[k] = pct
            BY <1>4, <4>1, <4>2, <4>3 DEF highest
          <5> QED
            BY <1>0, <1>5, <2>3, <3>3, <5>1
        <4>4. CASE ~(pct > peak[k])
          <5>1. peak'[k] = peak[k]
            BY <4>1, <4>2, <4>4 DEF highest
          <5>2. pending[p][k].pct = peak[k] => f.pct = peak[k]
            BY <1>4, <4>2, <4>4 DEF highest
          <5>3. \A o \in Processes : pending[o][k].pct = peak[k] => pending'[o][k].pct = peak[k]
            BY <1>0, <1>5, <2>3, <5>2
          <5> QED
            BY <3>1, <3>3, <5>1, <5>3
        <4> QED
          BY <4>3, <4>4
      <3> QED
        BY <3>2, <3>3
    <2> QED
      BY <2>2, <2>3
  <1>12. OwnersWereAlone'
    BY <1>1 DEF UsageInv, OwnersWereAlone, OwnerWasAlone, Present
  <1> QED
    BY <1>7, <1>8, <1>9, <1>10, <1>11, <1>12 DEF UsageInv

\* A bucket that is there holds a call, and one that is not holds nothing.
LEMMA PresentHolds ==
    ASSUME NEW b \in [UsageKeys -> Bucket], NEW k \in UsageKeys
    PROVE  k \notin Present(b) => b[k].calls = 0 /\ b[k].pct = 0
  <1>1. b[k] \in Bucket
    OBVIOUS
  <1>2. b[k].calls \in Nat /\ (b[k].calls = 0 => b[k] = Nothing)
    BY <1>1 DEF Bucket
  <1> QED
    BY <1>2 DEF Present, Nothing

LEMMA OwnerIsAlone ==
    ASSUME UsageTables, OwnersWereAlone, NEW s \in Pools
    PROVE  OwnerOf(s) \in wasSole[s] \cup {NoOwner} /\ OwnerOf(s) # Unresolved
  <1>1. CASE Cardinality(holders[s]) = 1
    <2>0. holders[s] # {}
      <3>1. Cardinality({}) = 0
        BY FS_EmptySet
      <3> QED
        BY <1>1, <3>1
    <2>1. holders[s] # {} /\ holders[s] \subseteq wasSole[s] /\ holders[s] \subseteq Tenants
      BY <1>1, <2>0 DEF OwnersWereAlone, UsageTables
    <2>2. OwnerOf(s) \in holders[s]
      BY <1>1, <2>1 DEF OwnerOf
    <2> QED
      BY <2>1, <2>2, UsageAssumption DEF UsageAssumption
  <1>2. CASE Cardinality(holders[s]) # 1
    BY <1>2 DEF OwnerOf, NoOwner, Unresolved
  <1> QED
    BY <1>1, <1>2

LEMMA TakeKeeps ==
    ASSUME UsageInv, NEW p \in Processes, TakeBuckets(p)
    PROVE  UsageInv'
  <1>0. UsageTables
    BY DEF UsageInv
  <1>1. /\ taken[p] = Empty
        /\ taken' = [taken EXCEPT ![p] = pending[p]] /\ pending' = [pending EXCEPT ![p] = Empty]
        /\ UNCHANGED <<now, usageRow, holders, observed, forgone, wasSole, peak>>
    BY DEF TakeBuckets, clearPending
  <1>2. cached' = [cached EXCEPT ![p] = [s \in Pools |->
                     IF cached[p][s] = Unresolved /\ \E k \in Present(pending[p]) : k[1] = s
                     THEN OwnerOf(s) ELSE cached[p][s]]]
    BY <1>0 DEF TakeBuckets, resolveOwners, UsageTables
  <1>3. /\ taken'[p] = pending[p] /\ pending'[p] = Empty
        /\ \A o \in Processes : o # p => pending'[o] = pending[o] /\ taken'[o] = taken[o]
    BY <1>0, <1>1 DEF UsageTables
  <1>4. /\ \A s \in Pools :
             cached'[p][s] = IF cached[p][s] = Unresolved /\ \E k \in Present(pending[p]) : k[1] = s
                             THEN OwnerOf(s) ELSE cached[p][s]
        /\ \A o \in Processes : o # p => cached'[o] = cached[o]
    BY <1>0, <1>2 DEF UsageTables
  <1>5. \A s \in Pools : OwnerOf(s) \in wasSole[s] \cup {NoOwner} /\ OwnerOf(s) # Unresolved
    BY <1>0, OwnerIsAlone DEF UsageInv
  <1>6. UsageTables'
    <2>1. pending' \in [Processes -> [UsageKeys -> Bucket]] /\ taken' \in [Processes -> [UsageKeys -> Bucket]]
      BY <1>0, <1>1, EmptyBuckets DEF UsageTables
    <2>2. \A s \in Pools : OwnerOf(s) \in Tenants \cup {NoOwner, Unresolved}
      BY <1>0, <1>5 DEF UsageTables
    <2>3. cached' \in [Processes -> [Pools -> Tenants \cup {NoOwner, Unresolved}]]
      BY <1>0, <1>2, <2>2 DEF UsageTables
    <2> QED
      BY <1>0, <1>1, <2>1, <2>3 DEF UsageTables
  <1>7. CallsConserved'
    <2>1. ASSUME NEW s \in Pools
          PROVE  observed'[s] + CallsIn(usageRow, s) + forgone[s]
                            + CallsIn(pending[p], s) + CallsIn(taken[p], s)
               = observed[s] + CallsIn(usageRow', s) + forgone'[s]
                            + CallsIn(pending'[p], s) + CallsIn(taken'[p], s)
      <3>1. CallsIn(taken[p], s) = 0 /\ CallsIn(pending'[p], s) = 0
        BY <1>1, <1>3, EmptyBuckets
      <3>2. /\ CallsIn(usageRow, s) \in Nat /\ CallsIn(pending[p], s) \in Nat
            /\ observed[s] \in Nat /\ forgone[s] \in Nat
        BY <1>0, HeldParts DEF UsageTables
      <3>3. observed'[s] = observed[s] /\ forgone'[s] = forgone[s] /\ usageRow' = usageRow
        BY <1>1
      <3> QED
        BY <1>3, <3>1, <3>2, <3>3
    <2> QED
      BY <1>3, <1>6, <2>1, ConservedStep
  <1>8. Total(observed') <= MaxCalls
    BY <1>1 DEF UsageInv
  <1>9. \A k \in UsageKeys : Empty[k].pct = 0
    BY EmptyBuckets DEF Nothing
  <1>10. UnderThePeak'
    <2>1. \A k \in UsageKeys : peak[k] \in Nat
      BY <1>0 DEF UsageTables
    <2> QED
      BY <1>1, <1>3, <1>9, <2>1 DEF UnderThePeak, UsageInv
  <1>11. PeakIsKept'
    <2> SUFFICES ASSUME NEW k \in UsageKeys, forgone[k[1]] = 0
                 PROVE  \/ usageRow[k].pct = peak[k]
                        \/ \E o \in Processes : pending'[o][k].pct = peak[k] \/ taken'[o][k].pct = peak[k]
      BY <1>1 DEF PeakIsKept
    <2>1. \/ usageRow[k].pct = peak[k]
          \/ \E o \in Processes : pending[o][k].pct = peak[k] \/ taken[o][k].pct = peak[k]
      BY DEF UsageInv, PeakIsKept
    <2>2. taken[p][k].pct = pending'[p][k].pct
      BY <1>1, <1>3
    <2> QED
      BY <1>3, <2>1, <2>2
  <1>12. OwnersWereAlone'
    <2>1. OwnersWereAlone
      BY DEF UsageInv
    <2>2. OwnerWasAlone'
      BY <1>1, <2>1 DEF OwnersWereAlone, OwnerWasAlone
    <2>3. \A o \in Processes, s \in Pools : cached'[o][s] \in wasSole[s] \cup {NoOwner, Unresolved}
      BY <1>4, <1>5, <2>1 DEF OwnersWereAlone
    <2>4. ASSUME NEW o \in Processes, NEW k \in Present(taken'[o]) PROVE cached'[o][k[1]] # Unresolved
      <3>1. k \in UsageKeys /\ k[1] \in Pools
        BY DEF Present, UsageKeys
      <3>2. CASE o = p
        BY <1>3, <1>4, <1>5, <2>4, <3>1, <3>2
      <3>3. CASE o # p
        BY <1>3, <1>4, <2>1, <2>4, <3>3 DEF OwnersWereAlone
      <3> QED
        BY <3>2, <3>3
    <2>5. \A s \in Pools : Cardinality(holders'[s]) = 1 => holders'[s] \subseteq wasSole'[s]
      BY <1>1, <2>1 DEF OwnersWereAlone
    <2>6. \A o \in Processes : \A k \in Present(taken'[o]) : cached'[o][k[1]] # Unresolved
      BY <2>4
    <2>7. \A o \in Processes : Present(taken[o])' = Present(taken'[o])
      BY DEF Present
    <2> QED
      BY <1>1, <2>2, <2>3, <2>5, <2>6, <2>7 DEF OwnersWereAlone
  <1> QED
    BY <1>6, <1>7, <1>8, <1>10, <1>11, <1>12 DEF UsageInv

LEMMA AgesKeeps ==
    ASSUME UsageInv, NEW p \in Processes, NEW s \in Pools, CacheEntryAges(p, s)
    PROVE  UsageInv'
  <1>0. UsageTables /\ OwnersWereAlone
    BY DEF UsageInv
  <1>1. /\ taken[p] = Empty /\ cached' = [cached EXCEPT ![p][s] = Unresolved]
        /\ UNCHANGED <<now, pending, taken, usageRow, holders, observed, forgone, wasSole, peak>>
    BY DEF CacheEntryAges
  <1>2. UsageTables'
    BY <1>0, <1>1 DEF UsageTables
  <1>3. CallsConserved' /\ Total(observed') <= MaxCalls /\ UnderThePeak' /\ PeakIsKept'
    BY <1>1 DEF UsageInv, CallsConserved, UnderThePeak, PeakIsKept
  <1>4. \A o \in Processes, x \in Pools :
            cached'[o][x] = IF o = p /\ x = s THEN Unresolved ELSE cached[o][x]
    BY <1>0, <1>1 DEF UsageTables
  <1>5. OwnersWereAlone'
    <2>1. OwnerWasAlone'
      BY <1>0, <1>1 DEF OwnersWereAlone, OwnerWasAlone
    <2>2. \A o \in Processes, x \in Pools : cached'[o][x] \in wasSole[x] \cup {NoOwner, Unresolved}
      BY <1>0, <1>4 DEF OwnersWereAlone
    <2>3. ASSUME NEW o \in Processes, NEW k \in Present(taken[o]) PROVE cached'[o][k[1]] # Unresolved
      <3>1. o # p
        BY <1>1, <2>3, EmptyBuckets
      <3>2. k[1] \in Pools
        BY DEF Present, UsageKeys
      <3> QED
        BY <1>0, <1>4, <2>3, <3>1, <3>2 DEF OwnersWereAlone
    <2>4. \A x \in Pools : Cardinality(holders'[x]) = 1 => holders'[x] \subseteq wasSole'[x]
      BY <1>0, <1>1 DEF OwnersWereAlone
    <2>5. \A o \in Processes : Present(taken[o])' = Present(taken[o])
      BY <1>1 DEF Present
    <2> QED
      BY <1>1, <2>1, <2>2, <2>3, <2>4, <2>5 DEF OwnersWereAlone
  <1> QED
    BY <1>2, <1>3, <1>5 DEF UsageInv

\* A flush adds a bucket to its row.
LEMMA RecordOneIs ==
    ASSUME NEW old \in UsageRowType, NEW b \in Bucket, NEW owner \in Tenants \cup {NoOwner}
    PROVE  LET row == recordOne(old, b, owner)
           IN  /\ row \in UsageRowType
               /\ row.calls = old.calls + b.calls
               /\ row.pct = highest(old.pct, b.pct)
               /\ row.owner = IF old.owner # NoOwner THEN old.owner ELSE owner
  <1>1. /\ old.calls \in Nat /\ old.throttled \in Nat /\ old.throttled <= old.calls
        /\ old.pct \in Percents \cup {0} /\ old.owner \in Tenants \cup {NoOwner}
    BY DEF UsageRowType
  <1>2. /\ b.calls \in Nat /\ b.throttled \in Nat /\ b.throttled <= b.calls
        /\ b.pct \in Percents \cup {0}
    BY DEF Bucket
  <1>3. highest(old.pct, b.pct) \in Percents \cup {0}
    BY <1>1, <1>2, HighestIs
  <1>4. /\ old.calls + b.calls \in Nat /\ old.throttled + b.throttled \in Nat
        /\ old.throttled + b.throttled <= old.calls + b.calls
    BY <1>1, <1>2
  <1> QED
    BY <1>1, <1>3, <1>4 DEF recordOne, UsageRowType

LEMMA RecordKeeps ==
    ASSUME UsageInv, NEW p \in Processes, Record(p)
    PROVE  UsageInv'
  <1> DEFINE b == taken[p]
             here == Present(b)
             row(k) == recordOne(usageRow[k], b[k], cached[p][k[1]])
  <1>0. UsageTables /\ OwnersWereAlone /\ UnderThePeak /\ PeakIsKept
    BY DEF UsageInv
  <1>1. /\ usageRow' = [k \in UsageKeys |-> IF k \in here THEN row(k) ELSE usageRow[k]]
        /\ taken' = [taken EXCEPT ![p] = Empty]
        /\ UNCHANGED <<now, pending, holders, cached, observed, forgone, wasSole, peak>>
    BY DEF Record
  <1>2. taken'[p] = Empty /\ \A o \in Processes : o # p => taken'[o] = taken[o]
    BY <1>0, <1>1 DEF UsageTables
  <1>3. b \in [UsageKeys -> Bucket] /\ \A k \in UsageKeys : usageRow[k] \in UsageRowType
    BY <1>0 DEF UsageTables
  <1>4. ASSUME NEW k \in here
        PROVE  /\ k \in UsageKeys /\ k[1] \in Pools
               /\ cached[p][k[1]] \in wasSole[k[1]] \cup {NoOwner}
               /\ cached[p][k[1]] \in Tenants \cup {NoOwner}
    <2>1. k \in UsageKeys /\ k[1] \in Pools
      BY DEF Present, UsageKeys
    <2>2. cached[p][k[1]] \in wasSole[k[1]] \cup {NoOwner}
      BY <1>0, <2>1 DEF OwnersWereAlone
    <2>3. wasSole[k[1]] \subseteq Tenants
      BY <1>0, <2>1 DEF UsageTables
    <2> QED
      BY <2>1, <2>2, <2>3
  <1>5. ASSUME NEW k \in here
        PROVE  /\ row(k) \in UsageRowType /\ row(k).calls = usageRow[k].calls + b[k].calls
               /\ row(k).pct = highest(usageRow[k].pct, b[k].pct)
               /\ row(k).owner = IF usageRow[k].owner # NoOwner THEN usageRow[k].owner ELSE cached[p][k[1]]
    BY <1>3, <1>4, RecordOneIs
  <1>6. \A k \in UsageKeys : k \notin here => b[k].calls = 0 /\ b[k].pct = 0
    BY <1>3, PresentHolds
  <1> HIDE DEF row, here
  <1>7. \A k \in UsageKeys : usageRow'[k] = IF k \in here THEN row(k) ELSE usageRow[k]
    BY <1>1
  <1>8. UsageTables'
    <2>1. usageRow' \in [UsageKeys -> UsageRowType]
      BY <1>1, <1>3, <1>5
    <2>2. taken' \in [Processes -> [UsageKeys -> Bucket]]
      BY <1>0, <1>1, EmptyBuckets DEF UsageTables
    <2> QED
      BY <1>0, <1>1, <2>1, <2>2 DEF UsageTables
  <1>9. CallsConserved'
    <2>1. Counts(usageRow) /\ Counts(b)
      BY <1>0, HeldParts
    <2>2. \A k \in UsageKeys : usageRow'[k].calls = usageRow[k].calls + b[k].calls
      BY <1>5, <1>6, <1>7, <2>1 DEF Counts
    <2>3. ASSUME NEW s \in Pools
          PROVE  observed'[s] + CallsIn(usageRow, s) + forgone[s]
                            + CallsIn(pending[p], s) + CallsIn(taken[p], s)
               = observed[s] + CallsIn(usageRow', s) + forgone'[s]
                            + CallsIn(pending'[p], s) + CallsIn(taken'[p], s)
      <3>1. CallsIn(usageRow', s) = CallsIn(usageRow, s) + CallsIn(b, s)
        BY <2>1, <2>2, CallsInAdds
      <3>2. CallsIn(taken'[p], s) = 0
        BY <1>2, EmptyBuckets
      <3>3. /\ CallsIn(usageRow, s) \in Nat /\ CallsIn(pending[p], s) \in Nat /\ CallsIn(b, s) \in Nat
            /\ observed[s] \in Nat /\ forgone[s] \in Nat
        BY <1>0, HeldParts DEF UsageTables
      <3> QED
        BY <1>1, <3>1, <3>2, <3>3
    <2>4. \A o \in Processes : o # p => pending'[o] = pending[o] /\ taken'[o] = taken[o]
      BY <1>1, <1>2
    <2> QED
      BY <1>8, <2>3, <2>4, ConservedStep
  <1>10. Total(observed') <= MaxCalls
    BY <1>1 DEF UsageInv
  <1>11. ASSUME NEW k \in UsageKeys
         PROVE  /\ usageRow'[k].pct <= peak[k]
                /\ usageRow[k].pct = peak[k] => usageRow'[k].pct = peak[k]
                /\ b[k].pct = peak[k] /\ k \in here => usageRow'[k].pct = peak[k]
    <2>1. /\ usageRow[k].pct \in Nat /\ b[k].pct \in Nat /\ peak[k] \in Nat
          /\ usageRow[k].pct <= peak[k] /\ b[k].pct <= peak[k]
      BY <1>0, BucketParts DEF UnderThePeak
    <2>2. k \in here => usageRow'[k].pct = highest(usageRow[k].pct, b[k].pct)
      BY <1>5, <1>7
    <2>3. k \notin here => usageRow'[k].pct = usageRow[k].pct
      BY <1>7
    <2> QED
      BY <2>1, <2>2, <2>3 DEF highest
  <1>12. \A k \in UsageKeys : peak[k] \in Nat /\ taken'[p][k].pct = 0
    BY <1>0, <1>2, EmptyBuckets DEF UsageTables, Nothing
  <1>13. UnderThePeak'
    BY <1>0, <1>1, <1>2, <1>11, <1>12 DEF UnderThePeak
  <1>14. PeakIsKept'
    <2> SUFFICES ASSUME NEW k \in UsageKeys, forgone[k[1]] = 0
                 PROVE  \/ usageRow'[k].pct = peak[k]
                        \/ \E o \in Processes : pending[o][k].pct = peak[k] \/ taken'[o][k].pct = peak[k]
      BY <1>1 DEF PeakIsKept
    <2>1. \/ usageRow[k].pct = peak[k]
          \/ \E o \in Processes : pending[o][k].pct = peak[k] \/ taken[o][k].pct = peak[k]
      BY <1>0 DEF PeakIsKept
    <2>2. b[k].pct = peak[k] => usageRow'[k].pct = peak[k] \/ taken'[p][k].pct = peak[k]
      BY <1>6, <1>11, <1>12
    <2> QED
      BY <1>2, <1>11, <2>1, <2>2
  <1>15. OwnersWereAlone'
    <2>1. OwnerWasAlone'
      <3> SUFFICES ASSUME NEW k \in UsageKeys, usageRow'[k].owner # NoOwner
                   PROVE  usageRow'[k].owner \in wasSole[k[1]]
        BY <1>1 DEF OwnerWasAlone
      <3>1. usageRow[k].owner # NoOwner => usageRow[k].owner \in wasSole[k[1]]
        BY <1>0 DEF OwnersWereAlone, OwnerWasAlone
      <3>2. k \in here => usageRow'[k].owner = IF usageRow[k].owner # NoOwner THEN usageRow[k].owner
                                               ELSE cached[p][k[1]]
        BY <1>5, <1>7
      <3>3. k \notin here => usageRow'[k].owner = usageRow[k].owner
        BY <1>7
      <3> QED
        BY <1>4, <3>1, <3>2, <3>3
    <2>2. \A o \in Processes : Present(taken[o])' = Present(taken'[o])
      BY DEF Present
    <2>3. \A o \in Processes : \A k \in Present(taken'[o]) : cached[o][k[1]] # Unresolved
      BY <1>0, <1>2, EmptyBuckets DEF OwnersWereAlone
    <2> QED
      BY <1>0, <1>1, <2>1, <2>2, <2>3 DEF OwnersWereAlone
  <1> QED
    BY <1>8, <1>9, <1>10, <1>13, <1>14, <1>15 DEF UsageInv

\* What a process loses is counted as forgone: a flush that fails, or a death.
LEMMA LossKeeps ==
    ASSUME UsageInv, NEW p \in Processes, NEW left \in {pending[p], Empty},
           pending' = [pending EXCEPT ![p] = left], taken' = [taken EXCEPT ![p] = Empty],
           forgone' = [s \in Pools |-> forgone[s] + CallsIn(taken[p], s)
                                         + IF left = pending[p] THEN 0 ELSE CallsIn(pending[p], s)],
           cached' = cached \/ cached' = [cached EXCEPT ![p] = [s \in Pools |-> Unresolved]],
           UNCHANGED <<now, usageRow, holders, observed, wasSole, peak>>
    PROVE  UsageInv'
  <1>0. UsageTables /\ OwnersWereAlone /\ UnderThePeak /\ PeakIsKept
    BY DEF UsageInv
  <1>1. /\ pending'[p] = left /\ taken'[p] = Empty
        /\ \A o \in Processes : o # p => pending'[o] = pending[o] /\ taken'[o] = taken[o]
    BY <1>0 DEF UsageTables
  <1>2. left \in [UsageKeys -> Bucket]
    BY <1>0, EmptyBuckets, BucketParts
  <1>3. \A s \in Pools : /\ CallsIn(pending[p], s) \in Nat /\ CallsIn(taken[p], s) \in Nat
                         /\ CallsIn(usageRow, s) \in Nat
                         /\ forgone[s] \in Nat /\ observed[s] \in Nat
    BY <1>0, HeldParts DEF UsageTables
  <1>4. \A s \in Pools : forgone'[s] = forgone[s] + CallsIn(taken[p], s)
                                         + IF left = pending[p] THEN 0 ELSE CallsIn(pending[p], s)
    OBVIOUS
  <1>5. \A s \in Pools : forgone'[s] \in Nat
    BY <1>3, <1>4
  <1>6. UsageTables'
    <2>1. pending' \in [Processes -> [UsageKeys -> Bucket]] /\ taken' \in [Processes -> [UsageKeys -> Bucket]]
      BY <1>0, <1>2, EmptyBuckets DEF UsageTables
    <2>2. forgone' \in [Pools -> Nat]
      BY <1>5
    <2>3. cached' \in [Processes -> [Pools -> Tenants \cup {NoOwner, Unresolved}]]
      BY <1>0 DEF UsageTables
    <2> QED
      BY <1>0, <2>1, <2>2, <2>3 DEF UsageTables
  <1>7. CallsConserved'
    <2>1. ASSUME NEW s \in Pools
          PROVE  observed'[s] + CallsIn(usageRow, s) + forgone[s]
                            + CallsIn(pending[p], s) + CallsIn(taken[p], s)
               = observed[s] + CallsIn(usageRow', s) + forgone'[s]
                            + CallsIn(pending'[p], s) + CallsIn(taken'[p], s)
      <3>1. CallsIn(taken'[p], s) = 0
        BY <1>1, EmptyBuckets
      <3>2. CallsIn(pending'[p], s) = IF left = pending[p] THEN CallsIn(pending[p], s) ELSE 0
        BY <1>1, EmptyBuckets
      <3>3. usageRow' = usageRow /\ observed' = observed
        OBVIOUS
      <3>4. CASE left = pending[p]
        BY <1>3, <1>4, <3>1, <3>2, <3>3, <3>4
      <3>5. CASE left # pending[p]
        BY <1>3, <1>4, <3>1, <3>2, <3>3, <3>5
      <3> QED
        BY <3>4, <3>5
    <2> QED
      BY <1>1, <1>6, <2>1, ConservedStep
  <1>8. Total(observed') <= MaxCalls
    BY DEF UsageInv
  <1>9. \A k \in UsageKeys : Empty[k].pct = 0 /\ peak[k] \in Nat
    BY <1>0, EmptyBuckets DEF Nothing, UsageTables
  <1>10. UnderThePeak'
    BY <1>0, <1>1, <1>9 DEF UnderThePeak
  <1>11. PeakIsKept'
    <2> SUFFICES ASSUME NEW k \in UsageKeys, forgone'[k[1]] = 0
                 PROVE  \/ usageRow[k].pct = peak[k]
                        \/ \E o \in Processes : pending'[o][k].pct = peak[k] \/ taken'[o][k].pct = peak[k]
      BY DEF PeakIsKept
    <2>1. k[1] \in Pools
      BY DEF UsageKeys
    <2>2. /\ forgone[k[1]] = 0 /\ CallsIn(taken[p], k[1]) = 0
          /\ left # pending[p] => CallsIn(pending[p], k[1]) = 0
      BY <1>3, <1>4, <2>1
    <2>3. \/ usageRow[k].pct = peak[k]
          \/ \E o \in Processes : pending[o][k].pct = peak[k] \/ taken[o][k].pct = peak[k]
      BY <1>0, <2>2 DEF PeakIsKept
    <2>4. /\ taken[p] \in [UsageKeys -> Bucket] /\ pending[p] \in [UsageKeys -> Bucket]
          /\ Counts(taken[p]) /\ Counts(pending[p])
      BY <1>0, BucketParts, HeldParts
    <2>5. \A b \in {taken[p], pending[p]} : CallsIn(b, k[1]) = 0 => b[k].pct = 0
      <3> SUFFICES ASSUME NEW b \in {taken[p], pending[p]}, CallsIn(b, k[1]) = 0 PROVE b[k].pct = 0
        OBVIOUS
      <3>1. b[k].calls <= 0 /\ b[k].calls \in Nat
        BY <2>4, CallsInRange DEF Counts
      <3>2. k \notin Present(b)
        BY <3>1 DEF Present
      <3> QED
        BY <2>4, <3>2, PresentHolds
    <2>6. taken[p][k].pct = taken'[p][k].pct
      BY <1>1, <1>9, <2>2, <2>5
    <2>7. pending[p][k].pct = pending'[p][k].pct
      BY <1>1, <1>9, <2>2, <2>5
    <2> QED
      BY <1>1, <2>3, <2>6, <2>7
  <1>12. OwnersWereAlone'
    <2>1. OwnerWasAlone'
      BY <1>0 DEF OwnersWereAlone, OwnerWasAlone
    <2>2. \A o \in Processes, s \in Pools : cached'[o][s] = cached[o][s] \/ (o = p /\ cached'[o][s] = Unresolved)
      BY <1>0 DEF UsageTables
    <2>3. \A o \in Processes, s \in Pools : cached'[o][s] \in wasSole[s] \cup {NoOwner, Unresolved}
      BY <1>0, <2>2 DEF OwnersWereAlone
    <2>4. ASSUME NEW o \in Processes, NEW k \in Present(taken'[o]) PROVE cached'[o][k[1]] # Unresolved
      <3>1. o # p
        BY <1>1, <2>4, EmptyBuckets
      <3>2. k \in Present(taken[o]) /\ k[1] \in Pools
        BY <1>1, <2>4, <3>1 DEF Present, UsageKeys
      <3> QED
        BY <1>0, <2>2, <3>1, <3>2 DEF OwnersWereAlone
    <2>5. \A s \in Pools : Cardinality(holders'[s]) = 1 => holders'[s] \subseteq wasSole'[s]
      BY <1>0 DEF OwnersWereAlone
    <2>6. \A o \in Processes : Present(taken[o])' = Present(taken'[o])
      BY DEF Present
    <2> QED
      BY <2>1, <2>3, <2>4, <2>5, <2>6 DEF OwnersWereAlone
  <1> QED
    BY <1>6, <1>7, <1>8, <1>10, <1>11, <1>12 DEF UsageInv

LEMMA FailsKeeps ==
    ASSUME UsageInv, NEW p \in Processes, RecordFails(p)
    PROVE  UsageInv'
  <1>1. pending' = [pending EXCEPT ![p] = pending[p]]
    BY DEF RecordFails, UsageInv, UsageTables
  <1>2. \A s \in Pools : CallsIn(taken[p], s) \in Nat /\ forgone[s] \in Nat
    BY HeldParts DEF UsageInv, UsageTables
  <1>3. forgone' = [s \in Pools |-> forgone[s] + CallsIn(taken[p], s)
                                      + IF pending[p] = pending[p] THEN 0 ELSE CallsIn(pending[p], s)]
    BY <1>2 DEF RecordFails
  <1> QED
    BY <1>1, <1>3, LossKeeps DEF RecordFails

LEMMA DiesKeeps ==
    ASSUME UsageInv, NEW p \in Processes, ProcessDies(p)
    PROVE  UsageInv'
  <1>1. \A s \in Pools : /\ CallsIn(taken[p], s) \in Nat /\ CallsIn(pending[p], s) \in Nat
                         /\ forgone[s] \in Nat
    BY HeldParts DEF UsageInv, UsageTables
  <1>2. \A s \in Pools : Empty = pending[p] => CallsIn(pending[p], s) = 0
    BY EmptyBuckets
  <1>3. forgone' = [s \in Pools |-> forgone[s] + CallsIn(taken[p], s)
                                      + IF Empty = pending[p] THEN 0 ELSE CallsIn(pending[p], s)]
    BY <1>1, <1>2 DEF ProcessDies
  <1> QED
    BY <1>3, LossKeeps DEF ProcessDies

LEMMA ConnectedKeeps ==
    ASSUME UsageInv, NEW s \in Pools, NEW t \in Tenants, PageConnected(s, t)
    PROVE  UsageInv'
  <1>0. UsageTables /\ OwnersWereAlone
    BY DEF UsageInv
  <1>1. /\ t \notin holders[s] /\ holders' = [holders EXCEPT ![s] = @ \cup {t}]
        /\ wasSole' = [wasSole EXCEPT ![s] = IF holders[s] = {} THEN @ \cup {t} ELSE @]
        /\ UNCHANGED <<now, pending, taken, usageRow, cached, observed, forgone, peak>>
    BY DEF PageConnected
  <1>2. UsageTables'
    BY <1>0, <1>1 DEF UsageTables
  <1>3. CallsConserved' /\ Total(observed') <= MaxCalls /\ UnderThePeak' /\ PeakIsKept'
    BY <1>1 DEF UsageInv, CallsConserved, UnderThePeak, PeakIsKept
  <1>4. \A x \in Pools : wasSole[x] \subseteq wasSole'[x]
    BY <1>0, <1>1 DEF UsageTables
  <1>5. ASSUME NEW x \in Pools, Cardinality(holders'[x]) = 1 PROVE holders'[x] \subseteq wasSole'[x]
    <2>1. CASE x # s
      BY <1>0, <1>1, <1>5, <2>1 DEF OwnersWereAlone, UsageTables
    <2>2. CASE x = s
      <3>1. holders[s] \subseteq Tenants
        BY <1>0 DEF UsageTables
      <3>2. IsFiniteSet(holders[s])
        BY <3>1, FS_Subset, UsageAssumption DEF UsageAssumption
      <3>3. holders'[s] = holders[s] \cup {t}
        BY <1>0, <1>1 DEF UsageTables
      <3>4. Cardinality(holders[s]) \in Nat /\ Cardinality(holders'[s]) = Cardinality(holders[s]) + 1
        BY <1>1, <3>2, <3>3, FS_AddElement, FS_CardinalityType
      <3>5. Cardinality(holders[s]) = 0
        BY <1>5, <2>2, <3>4
      <3>6. holders[s] = {}
        BY <3>2, <3>5, FS_EmptySet
      <3> QED
        BY <1>0, <1>1, <2>2, <3>3, <3>6 DEF UsageTables
    <2> QED
      BY <2>1, <2>2
  <1>6. OwnersWereAlone'
    <2>1. OwnerWasAlone'
      <3>1. \A k \in UsageKeys : k[1] \in Pools
        BY DEF UsageKeys
      <3> QED
        BY <1>0, <1>1, <1>4, <3>1 DEF OwnersWereAlone, OwnerWasAlone
    <2>2. \A o \in Processes, x \in Pools : cached'[o][x] \in wasSole'[x] \cup {NoOwner, Unresolved}
      BY <1>0, <1>1, <1>4 DEF OwnersWereAlone
    <2>3. \A o \in Processes : \A k \in Present(taken[o]) : cached'[o][k[1]] # Unresolved
      BY <1>0, <1>1 DEF OwnersWereAlone
    <2>4. \A o \in Processes : Present(taken[o])' = Present(taken[o])
      BY <1>1 DEF Present
    <2> QED
      BY <1>5, <2>1, <2>2, <2>3, <2>4 DEF OwnersWereAlone
  <1> QED
    BY <1>2, <1>3, <1>6 DEF UsageInv

LEMMA UsageTickKeeps ==
    ASSUME UsageInv, Tick
    PROVE  UsageInv'
  <1>1. UsageTables'
    BY UsageAssumption DEF UsageInv, UsageTables, Tick, UsageAssumption
  <1> QED
    BY <1>1 DEF UsageInv, Tick, CallsConserved, UnderThePeak, PeakIsKept, OwnersWereAlone,
                OwnerWasAlone, Present

LEMMA UsageStep == UsageInv /\ [UsageNext]_usageVars => UsageInv'
  <1> SUFFICES ASSUME UsageInv, [UsageNext]_usageVars PROVE UsageInv'
    OBVIOUS
  <1>1. ASSUME NEW p \in Processes, NEW s \in Pools, NEW pct \in Percents, NEW throttled \in BOOLEAN,
               observe(p, s, pct, throttled)
        PROVE  UsageInv'
    BY <1>1, ObserveKeeps
  <1>2. ASSUME NEW p \in Processes, TakeBuckets(p) PROVE UsageInv'
    BY <1>2, TakeKeeps
  <1>3. ASSUME NEW p \in Processes, Record(p) PROVE UsageInv'
    BY <1>3, RecordKeeps
  <1>4. ASSUME NEW p \in Processes, RecordFails(p) PROVE UsageInv'
    BY <1>4, FailsKeeps
  <1>5. ASSUME NEW p \in Processes, ProcessDies(p) PROVE UsageInv'
    BY <1>5, DiesKeeps
  <1>6. ASSUME NEW p \in Processes, NEW s \in Pools, CacheEntryAges(p, s) PROVE UsageInv'
    BY <1>6, AgesKeeps
  <1>7. ASSUME NEW s \in Pools, NEW t \in Tenants, PageConnected(s, t) PROVE UsageInv'
    BY <1>7, ConnectedKeeps
  <1>8. CASE Tick
    BY <1>8, UsageTickKeeps
  <1>9. CASE UNCHANGED usageVars
    BY <1>9 DEF usageVars, UsageInv, UsageTables, CallsConserved, UnderThePeak, PeakIsKept,
                OwnersWereAlone, OwnerWasAlone, Present
  <1> QED
    BY <1>1, <1>2, <1>3, <1>4, <1>5, <1>6, <1>7, <1>8, <1>9 DEF UsageNext

-----------------------------------------------------------------------------
(* What the monitor shows.                                                   *)

\* The counts of the type invariant: no bucket and no row holds more calls than
\* were observed.
LEMMA UsageInvGivesTypes == ASSUME UsageInv PROVE UsageTypeOK
  <1>0. UsageTables
    BY DEF UsageInv
  <1>1. ASSUME NEW k \in UsageKeys
        PROVE  /\ usageRow[k].calls \in 0 .. MaxCalls
               /\ \A p \in Processes : pending[p][k] \in BucketType /\ taken[p][k] \in BucketType
    <2> DEFINE s == k[1]
    <2>1. s \in Pools
      BY DEF UsageKeys
    <2>2. observed[s] = CallsIn(usageRow, s) + forgone[s] + Total(Held(s))
      BY <2>1, Conserved DEF UsageInv
    <2>3. /\ observed[s] <= Total(observed) /\ Total(observed) \in Nat /\ Total(observed) <= MaxCalls
          /\ observed[s] \in Nat /\ forgone[s] \in Nat /\ MaxCalls \in Nat
      BY <1>0, <2>1, ObservedAddsUp, UsageAssumption DEF UsageInv, UsageTables, UsageAssumption
    <2>4. /\ CallsIn(usageRow, s) \in Nat /\ Total(Held(s)) \in Nat
          /\ Counts(usageRow)
      BY <1>0, <2>1, HeldParts
    <2>5. usageRow[k].calls <= CallsIn(usageRow, s) /\ usageRow[k].calls \in Nat
      BY <2>4, CallsInRange DEF Counts
    <2>6. ASSUME NEW p \in Processes
          PROVE  pending[p][k].calls <= MaxCalls /\ taken[p][k].calls <= MaxCalls
      <3>1. /\ Held(s)[p] <= Total(Held(s)) /\ Counts(pending[p]) /\ Counts(taken[p])
            /\ CallsIn(pending[p], s) \in Nat /\ CallsIn(taken[p], s) \in Nat
        BY <1>0, <2>1, HeldParts
      <3>2. Held(s)[p] = CallsIn(pending[p], s) + CallsIn(taken[p], s)
        BY DEF Held
      <3>3. /\ pending[p][k].calls <= CallsIn(pending[p], s) /\ taken[p][k].calls <= CallsIn(taken[p], s)
            /\ pending[p][k].calls \in Nat /\ taken[p][k].calls \in Nat
        BY <3>1, CallsInRange DEF Counts
      <3> QED
        BY <2>2, <2>3, <2>4, <3>1, <3>2, <3>3
    <2>7. \A b \in Bucket : b.calls <= MaxCalls => b \in BucketType
      <3> SUFFICES ASSUME NEW b \in Bucket, b.calls <= MaxCalls PROVE b \in BucketType
        OBVIOUS
      <3>1. /\ b = [calls |-> b.calls, throttled |-> b.throttled, pct |-> b.pct]
            /\ b.calls \in Nat /\ b.throttled \in Nat /\ b.throttled <= b.calls /\ b.pct \in Percents \cup {0}
        BY DEF Bucket
      <3>2. b.calls \in 0 .. MaxCalls /\ b.throttled \in 0 .. MaxCalls
        BY <2>3, <3>1
      <3> QED
        BY <3>1, <3>2 DEF BucketType
    <2>8. \A p \in Processes : pending[p][k] \in Bucket /\ taken[p][k] \in Bucket
      BY <1>0, BucketParts
    <2>9. usageRow[k].calls \in 0 .. MaxCalls
      BY <2>2, <2>3, <2>4, <2>5
    <2> QED
      BY <2>6, <2>7, <2>8, <2>9
  <1>2. /\ \A p \in Processes : pending[p] \in [UsageKeys -> BucketType] /\ taken[p] \in [UsageKeys -> BucketType]
        /\ pending = [p \in Processes |-> pending[p]] /\ taken = [p \in Processes |-> taken[p]]
    BY <1>0, <1>1 DEF UsageTables
  <1>3. pending \in [Processes -> [UsageKeys -> BucketType]] /\ taken \in [Processes -> [UsageKeys -> BucketType]]
    BY <1>2
  <1>4. \A k \in UsageKeys : usageRow[k].throttled <= usageRow[k].calls /\ usageRow[k].owner \in Tenants \cup {NoOwner}
    BY <1>0 DEF UsageTables, UsageRowType
  <1> QED
    BY <1>0, <1>1, <1>3, <1>4 DEF UsageTypeOK, UsageTables

\* A recent refusal is part of a sum of natural numbers.
LEMMA RefusalShows == ASSUME UsageInv PROVE RefusalIsShown
  <1> SUFFICES ASSUME NEW s \in Pools, NEW k \in Recorded(s),
                      usageRow[k].throttled > 0, k[2] + 1 >= now
               PROVE  /\ toPool(s) = "throttled"
                      /\ \A t \in Tenants : s \in PoolsOf(t) => worstStatus(PoolsOf(t)) = "throttled"
    BY DEF RefusalIsShown
  <1> DEFINE R == {r \in Recorded(s) : r[2] + 1 >= now}
             q == [r \in R |-> usageRow[r].throttled]
  <1>1. k \in R /\ R \subseteq UsageKeys
    BY DEF Recorded
  <1>2. IsFiniteSet(R)
    BY <1>1, KeysAreFinite, FS_Subset
  <1>3. \A r \in R : q[r] \in Nat
    <2>1. \A r \in UsageKeys : usageRow[r].throttled \in Nat
      BY DEF UsageInv, UsageTables, UsageRowType
    <2> QED
      BY <1>1, <2>1
  <1>4. RecentThrottled(s) = Total(q)
    BY DEF RecentThrottled
  <1>5. q[k] = usageRow[k].throttled
    BY <1>1
  <1>6. Total(q) = SumOver(q, R)
    <2>1. q = [r \in R |-> q[r]]
      OBVIOUS
    <2> HIDE DEF q, R
    <2> QED
      BY <2>1, TotalIsSum
  <1> HIDE DEF q, R
  <1>7. q[k] <= SumOver(q, R) /\ SumOver(q, R) \in Nat /\ q[k] \in Nat
    BY <1>1, <1>2, <1>3, SumIsNat
  <1>8. RecentThrottled(s) > 0
    BY <1>4, <1>5, <1>6, <1>7
  <1>9. toPool(s) = "throttled"
    BY <1>8 DEF toPool, statusOf
  <1> QED
    BY <1>9 DEF worstStatus

\* UsageIsAccounted for any number of processes, pools, tenants and readings:
\* the shared rows and the buckets in memory add up to the calls observed,
\* whichever flushes fail and processes die (MetaUsageCollector.flush,
\* ProviderApiUsageRepository.record, RateLimitService.overview).
THEOREM UsageAddsUp == UsageSpec => []UsageIsAccounted
  <1>1. UsageInit => UsageInv
    BY UsageInitially
  <1>2. UsageInv => UsageIsAccounted
    BY UsageInvGivesTypes, RefusalShows DEF UsageIsAccounted, UsageInv, OwnersWereAlone
  <1> QED
    BY <1>1, <1>2, UsageStep, PTL DEF UsageSpec

-----------------------------------------------------------------------------
(* The live inbox.                                                           *)

LiveStream == [status : {"open", "closed"}, firm : Firms, kinds : SUBSET Kinds, timers : BOOLEAN]

StreamTables ==
    /\ stream \in [Streams -> {Unopened} \cup LiveStream]
    /\ subscribers \in [Firms -> SUBSET Streams]
    /\ sees \in [Firms -> SUBSET Kinds]
    /\ told \in [Streams -> SUBSET (Firms \X Kinds)]
    /\ revokedAt \in [Streams -> SUBSET Kinds]

OpenOf(f) == {s \in Streams : stream[s].status = "open" /\ stream[s].firm = f}

SlotsAreFinite == \A f \in Firms : IsFiniteSet(subscribers[f])

\* A stream carries what its owner saw when it was opened.
ToldAsOpened ==
    \A s \in Streams, f \in Firms, kind \in Kinds : <<f, kind>> \in told[s] =>
        stream[s] # Unopened /\ f = stream[s].firm /\ kind \in stream[s].kinds

\* What the owner of an open stream no longer sees has been taken since.
LostSightIsKnown ==
    \A s \in Streams : stream[s].status = "open" =>
        stream[s].kinds \subseteq sees[stream[s].firm] \cup revokedAt[s]

StreamsInv == StreamTables /\ SlotsAreFinite /\ SlotsAreReturned /\ ToldAsOpened /\ LostSightIsKnown

LEMMA StreamIs ==
    ASSUME StreamTables, NEW s \in Streams
    PROVE  /\ stream[s] = Unopened => stream[s].status = "unopened"
           /\ stream[s] # Unopened => stream[s] \in LiveStream /\ stream[s].status \in {"open", "closed"}
           /\ stream[s].status = "unopened" => stream[s] = Unopened
  BY DEF StreamTables, LiveStream, Unopened

LEMMA StreamsStart == StreamsInit => StreamsInv
  <1> SUFFICES ASSUME StreamsInit PROVE StreamsInv
    OBVIOUS
  <1>1. \A s \in Streams : stream[s].status = "unopened"
    BY DEF StreamsInit, Unopened
  <1>2. StreamTables /\ ToldAsOpened
    BY DEF StreamsInit, StreamTables, ToldAsOpened
  <1>3. \A f \in Firms : IsFiniteSet(subscribers[f]) /\ Cardinality(subscribers[f]) = 0
    BY FS_EmptySet DEF StreamsInit
  <1>4. SlotsAreReturned
    BY <1>1, <1>3, StreamsAssumption DEF StreamsAssumption, SlotsAreReturned, StreamsInit
  <1> QED
    BY <1>1, <1>2, <1>3, <1>4 DEF StreamsInv, SlotsAreFinite, LostSightIsKnown

\* A slot is taken when there is room for it.
LEMMA SubscribeKeeps ==
    ASSUME StreamsInv, NEW s \in Streams, NEW f \in Firms, subscribe(s, f)
    PROVE  StreamsInv'
  <1> DEFINE new == Opened(f)
  <1>1. /\ stream[s] = Unopened /\ Cardinality(subscribers[f]) < MaxStreams
        /\ stream' = [stream EXCEPT ![s] = new]
        /\ subscribers' = [subscribers EXCEPT ![f] = @ \cup {s}]
        /\ UNCHANGED <<sees, listening, announced, told, revokedAt>>
    BY DEF subscribe, HasRoom
  <1>2. new \in LiveStream /\ new.status = "open" /\ new.firm = f /\ new.kinds = sees[f] /\ new # Unopened
    BY DEF Opened, LiveStream, StreamsInv, StreamTables, Unopened
  <1> HIDE DEF new
  <1>3. /\ stream'[s] = new /\ \A o \in Streams \ {s} : stream'[o] = stream[o]
        /\ subscribers'[f] = subscribers[f] \cup {s} /\ \A g \in Firms \ {f} : subscribers'[g] = subscribers[g]
    BY <1>1 DEF StreamsInv, StreamTables
  <1>4. StreamTables'
    BY <1>1, <1>2 DEF StreamsInv, StreamTables
  <1>5. stream[s].status = "unopened"
    BY <1>1, StreamIs DEF StreamsInv
  <1>6. s \notin subscribers[f]
    BY <1>5 DEF StreamsInv, SlotsAreReturned
  <1>7. /\ IsFiniteSet(subscribers[f] \cup {s})
        /\ Cardinality(subscribers[f] \cup {s}) = Cardinality(subscribers[f]) + 1
        /\ Cardinality(subscribers[f]) \in Nat
    BY <1>6, FS_AddElement, FS_CardinalityType DEF StreamsInv, SlotsAreFinite
  <1>8. SlotsAreFinite'
    BY <1>3, <1>7 DEF StreamsInv, SlotsAreFinite
  <1>9. SlotsAreReturned'
    <2>1. ASSUME NEW g \in Firms
          PROVE  subscribers'[g] = {o \in Streams : stream'[o].status = "open" /\ stream'[o].firm = g}
      BY <1>2, <1>3, <1>5 DEF StreamsInv, SlotsAreReturned
    <2>2. ASSUME NEW g \in Firms
          PROVE  Cardinality(subscribers'[g]) <= MaxStreams
      BY <1>1, <1>3, <1>7, StreamsAssumption DEF StreamsAssumption, StreamsInv, SlotsAreReturned
    <2> QED
      BY <2>1, <2>2 DEF SlotsAreReturned
  <1>10. ToldAsOpened'
    BY <1>1, <1>3 DEF StreamsInv, ToldAsOpened
  <1>11. LostSightIsKnown'
    BY <1>1, <1>2, <1>3 DEF StreamsInv, LostSightIsKnown
  <1> QED
    BY <1>4, <1>8, <1>9, <1>10, <1>11 DEF StreamsInv

\* A stream that has ended gives back a slot it no longer has without effect.
LEMMA CloseKeeps ==
    ASSUME StreamsInv, NEW s \in Streams, NEW expired \in BOOLEAN, close(s, expired)
    PROVE  StreamsInv'
  <1>1. PICK f : f = stream[s].firm
    OBVIOUS
  <1>2. stream[s] \in LiveStream /\ f \in Firms
    BY <1>1, StreamIs DEF close, StreamsInv, LiveStream
  <1>3. PICK ended : ended = [stream[s] EXCEPT !.status = "closed", !.timers = FALSE]
    OBVIOUS
  <1>4. /\ ended \in LiveStream /\ ended.status = "closed" /\ ended # Unopened
        /\ ended.firm = f /\ ended.kinds = stream[s].kinds
    BY <1>1, <1>2, <1>3 DEF LiveStream, Unopened
  <1>5. /\ stream' = [stream EXCEPT ![s] = ended]
        /\ subscribers' = [subscribers EXCEPT ![f] = @ \ {s}]
        /\ UNCHANGED <<sees, listening, announced, told, revokedAt>>
    BY <1>1, <1>3 DEF close, unsubscribe, StreamsInv, StreamTables
  <1>6. /\ stream'[s] = ended /\ \A o \in Streams \ {s} : stream'[o] = stream[o]
        /\ subscribers'[f] = subscribers[f] \ {s} /\ \A g \in Firms \ {f} : subscribers'[g] = subscribers[g]
    BY <1>2, <1>5 DEF StreamsInv, StreamTables
  <1>7. StreamTables'
    BY <1>4, <1>5 DEF StreamsInv, StreamTables
  <1>8. SlotsAreFinite' /\ \A g \in Firms : Cardinality(subscribers'[g]) <= MaxStreams
    <2>1. ASSUME NEW g \in Firms
          PROVE  IsFiniteSet(subscribers'[g]) /\ Cardinality(subscribers'[g]) <= MaxStreams
      <3>1. IsFiniteSet(subscribers[g]) /\ subscribers'[g] \subseteq subscribers[g]
        BY <1>6 DEF StreamsInv, SlotsAreFinite
      <3>2. /\ IsFiniteSet(subscribers'[g]) /\ Cardinality(subscribers'[g]) <= Cardinality(subscribers[g])
            /\ Cardinality(subscribers'[g]) \in Nat /\ Cardinality(subscribers[g]) \in Nat
        BY <3>1, FS_Subset, FS_CardinalityType
      <3> QED
        BY <3>2, StreamsAssumption DEF StreamsAssumption, StreamsInv, SlotsAreReturned
    <2> QED
      BY <2>1 DEF SlotsAreFinite
  <1>9. \A g \in Firms : subscribers'[g] = {o \in Streams : stream'[o].status = "open" /\ stream'[o].firm = g}
    BY <1>1, <1>4, <1>6 DEF StreamsInv, SlotsAreReturned
  <1>10. ToldAsOpened'
    BY <1>1, <1>4, <1>5, <1>6 DEF StreamsInv, ToldAsOpened
  <1>11. LostSightIsKnown'
    BY <1>4, <1>5, <1>6 DEF StreamsInv, LostSightIsKnown
  <1> QED
    BY <1>7, <1>8, <1>9, <1>10, <1>11 DEF StreamsInv, SlotsAreReturned

LEMMA SightChangesKeeps ==
    ASSUME StreamsInv, NEW f \in Firms, NEW kind \in Kinds, SightChanges(f, kind)
    PROVE  StreamsInv'
  <1>1. PICK kinds : kinds = IF kind \in sees[f] THEN sees[f] \ {kind} ELSE sees[f] \cup {kind}
    OBVIOUS
  <1>2. /\ sees' = [sees EXCEPT ![f] = kinds]
        /\ revokedAt' = [s \in Streams |->
              IF stream[s].status = "open" /\ stream[s].firm = f
              THEN revokedAt[s] \cup (stream[s].kinds \ kinds) ELSE revokedAt[s]]
        /\ UNCHANGED <<stream, subscribers, listening, announced, told>>
    BY <1>1 DEF SightChanges
  <1>3. kinds \in SUBSET Kinds
    BY <1>1 DEF StreamsInv, StreamTables
  <1>4. /\ sees' \in [Firms -> SUBSET Kinds]
        /\ sees'[f] = kinds /\ \A g \in Firms \ {f} : sees'[g] = sees[g]
    BY <1>2, <1>3 DEF StreamsInv, StreamTables
  <1>5. ASSUME NEW s \in Streams, stream[s].status = "open"
        PROVE  stream[s].kinds \in SUBSET Kinds /\ stream[s].firm \in Firms
    BY <1>5, StreamIs DEF StreamsInv, LiveStream, Unopened
  <1>6. revokedAt' \in [Streams -> SUBSET Kinds]
    BY <1>2, <1>5 DEF StreamsInv, StreamTables
  <1>7. LostSightIsKnown'
    <2> SUFFICES ASSUME NEW s \in Streams, stream[s].status = "open"
                 PROVE  stream[s].kinds \subseteq sees'[stream[s].firm] \cup revokedAt'[s]
      BY <1>2 DEF LostSightIsKnown
    <2>1. CASE stream[s].firm = f
      BY <1>2, <1>4, <2>1
    <2>2. CASE stream[s].firm # f
      BY <1>2, <1>4, <1>5, <2>2 DEF StreamsInv, LostSightIsKnown
    <2> QED
      BY <2>1, <2>2
  <1> QED
    BY <1>2, <1>4, <1>6, <1>7 DEF StreamsInv, StreamTables, SlotsAreFinite, SlotsAreReturned, ToldAsOpened

\* Who is told has a slot, and so is open, with the kind of thread it is.
LEMMA DispatchKeeps ==
    ASSUME StreamsInv, NEW f \in Firms, NEW kind \in Kinds, dispatch(f, kind)
    PROVE  StreamsInv'
  <1>1. /\ told' = [s \in Streams |->
              IF listening /\ s \in subscribers[f] /\ deliverableChange(s, f, kind)
              THEN told[s] \cup {<<f, kind>>} ELSE told[s]]
        /\ UNCHANGED <<stream, subscribers, sees, listening, revokedAt>>
    BY DEF dispatch
  <1>2. told' \in [Streams -> SUBSET (Firms \X Kinds)]
    BY <1>1 DEF StreamsInv, StreamTables
  <1>3. ASSUME NEW s \in Streams, s \in subscribers[f]
        PROVE  stream[s] # Unopened
    BY <1>3 DEF StreamsInv, SlotsAreReturned, Unopened
  <1>4. ToldAsOpened'
    BY <1>1, <1>3 DEF StreamsInv, ToldAsOpened, deliverableChange
  <1> QED
    BY <1>1, <1>2, <1>4 DEF StreamsInv, StreamTables, SlotsAreFinite, SlotsAreReturned, LostSightIsKnown

LEMMA StreamsStep == StreamsInv /\ [StreamsNext]_streamVars => StreamsInv'
  <1> SUFFICES ASSUME StreamsInv, [StreamsNext]_streamVars PROVE StreamsInv'
    OBVIOUS
  <1>1. CASE UNCHANGED <<stream, subscribers, sees, told, revokedAt>>
    BY <1>1 DEF StreamsInv, StreamTables, SlotsAreFinite, SlotsAreReturned, ToldAsOpened, LostSightIsKnown
  <1>2. CASE connectEvents \/ ListenerBreaks \/ UNCHANGED streamVars
    BY <1>1, <1>2 DEF connectEvents, ListenerBreaks, streamVars
  <1> QED
    BY <1>2, SubscribeKeeps, CloseKeeps, SightChangesKeeps, DispatchKeeps DEF StreamsNext

LEMMA StreamsInvGives == StreamsInv => SlotsAreReturned /\ ToldOnlyWhatMayBeSeen
  <1> SUFFICES ASSUME StreamsInv PROVE ToldOnlyWhatMayBeSeen
    BY DEF StreamsInv
  <1>1. ASSUME NEW s \in Streams, NEW f \in Firms, NEW kind \in Kinds, <<f, kind>> \in told[s]
        PROVE  f = stream[s].firm /\ (kind \in sees[f] \/ kind \in revokedAt[s] \/ stream[s].status = "closed")
    BY <1>1, StreamIs DEF StreamsInv, ToldAsOpened, LostSightIsKnown
  <1> QED
    BY <1>1 DEF ToldOnlyWhatMayBeSeen

\* The safety of StreamsAreSound, for any number of businesses, streams and
\* kinds of thread: slots come back however often a stream ends, and it carries
\* only what its owner saw (subscribe, close, deliverableChange).
THEOREM StreamsKeepSlots == StreamsSpec => [](SlotsAreReturned /\ ToldOnlyWhatMayBeSeen)
  BY StreamsStart, StreamsStep, StreamsInvGives, PTL DEF StreamsSpec

-----------------------------------------------------------------------------
(* The sweeper.                                                              *)

SweepableRow == [is : {"there"}, created : Nat, expires : Nat, ended : Nat,
                 status : {"work", "settled", "dead_letter"}, referenced : BOOLEAN]

\* A pass started on a day that has come.
RetentionInv ==
    /\ today \in Nat /\ sweeping.since \in Nat /\ sweeping.since <= today
    /\ sweeping = [at |-> sweeping.at, pass |-> sweeping.pass, since |-> sweeping.since]
    /\ keptRow \in [SweptRows -> {NotWritten, Swept} \cup SweepableRow]

LEMMA RetentionStart == RetentionInit => RetentionInv
  BY DEF RetentionInit, RetentionInv, NotSweeping

LEMMA RowIs ==
    ASSUME RetentionInv, NEW r \in SweptRows, keptRow[r].is = "there"
    PROVE  keptRow[r] \in SweepableRow
  BY DEF RetentionInv, NotWritten, Swept

\* What may be deleted is older than its retention, and nobody needs it.
LEMMA DeletableIsNotNeeded ==
    ASSUME RetentionInv, NEW r \in SweptRows, Deletable(r)
    PROVE  ~StillNeeded(r)
  <1>1. PICK row \in SweepableRow : row = keptRow[r]
    BY RowIs DEF Deletable
  <1>2. PICK table \in Tables : table = TableOf[r]
    BY RetentionAssumption DEF RetentionAssumption
  <1>3. PICK kept \in Nat : kept = RetentionDays[table]
    BY <1>2, RetentionAssumption DEF RetentionAssumption
  <1>4. PICK since \in Nat : since = sweeping.since /\ since <= today /\ kept <= since
    BY <1>2, <1>3 DEF Deletable, RetentionInv
  <1>5. today \in Nat /\ daysAgo(table) = since - kept /\ since - kept <= today /\ since - kept \in Nat
    BY <1>3, <1>4 DEF daysAgo, RetentionInv
  <1>6. CASE table \in {"verifications", "sessions", "oauth_states"}
    <2>1. row.ended # Never \/ row.expires < since - kept
      BY <1>1, <1>2, <1>5, <1>6 DEF Deletable, VerificationDue, SessionDue, OauthStateDue, Before
    <2>2. row.expires \in Nat /\ table \notin Ledgers
      BY <1>1, <1>6 DEF SweepableRow, Ledgers
    <2> QED
      BY <1>1, <1>2, <1>5, <1>6, <2>1, <2>2 DEF StillNeeded
  <1>7. CASE table = "inbound_events"
    <2>1. row.status = "settled" /\ row.created < since - kept
      BY <1>1, <1>2, <1>5, <1>7 DEF Deletable, InboundEventDue, SweptStatuses, Before
    <2>2. RedeliveryDays \in Nat /\ RedeliveryDays <= kept /\ row.created \in Nat
      BY <1>1, <1>3, <1>7, RetentionAssumption DEF RetentionAssumption, SweepableRow
    <2>3. ~(today <= row.created + RedeliveryDays)
      BY <1>4, <1>5, <2>1, <2>2
    <2> QED
      BY <1>1, <1>2, <1>7, <2>1, <2>3 DEF StillNeeded
  <1>8. CASE table \in {"outbound_events", "sync_jobs"}
    <2>1. row.status = "settled"
      BY <1>1, <1>2, <1>8 DEF Deletable, OutboundEventDue, SyncJobDue, SweptStatuses
    <2> QED
      BY <1>1, <1>2, <1>8, <2>1 DEF StillNeeded
  <1>9. CASE table = "provider_api_usage"
    BY <1>2, <1>9 DEF StillNeeded, Ledgers
  <1> QED
    BY <1>2, <1>6, <1>7, <1>8, <1>9 DEF Deletable

\* Rows and the day it is are all the invariant is about.
LEMMA RestKeeps ==
    ASSUME RetentionInv, UNCHANGED <<today, keptRow>>,
           sweeping' = sweeping \/ sweeping' = NotSweeping
    PROVE  RetentionInv' /\ NothingNeededIsSwept
  BY DEF RetentionInv, NotSweeping, NothingNeededIsSwept

\* A row that is written or changed is there afterwards.
LEMMA RowStands ==
    ASSUME RetentionInv, NEW r \in SweptRows, NEW row \in SweepableRow,
           keptRow' = [keptRow EXCEPT ![r] = row], UNCHANGED <<today, sweeping>>
    PROVE  RetentionInv' /\ NothingNeededIsSwept
  BY DEF RetentionInv, NothingNeededIsSwept, SweepableRow

LEMMA DrainKeeps ==
    ASSUME RetentionInv, NEW batch \in SUBSET SweptRows, drain(batch)
    PROVE  RetentionInv' /\ NothingNeededIsSwept
  <1>1. \A r \in batch : Deletable(r)
    BY DEF drain, IsBatch
  <1>2. keptRow' = [r \in SweptRows |-> IF r \in batch THEN Swept ELSE keptRow[r]]
    BY DEF drain
  <1>3. NothingNeededIsSwept
    <2> SUFFICES ASSUME NEW r \in SweptRows, keptRow[r].is = "there", StillNeeded(r)
                 PROVE  keptRow'[r].is = "there"
      BY DEF NothingNeededIsSwept
    <2>1. r \notin batch
      BY <1>1, DeletableIsNotNeeded
    <2> QED
      BY <1>2, <2>1
  <1>4. keptRow' \in [SweptRows -> {NotWritten, Swept} \cup SweepableRow]
    BY <1>2 DEF RetentionInv
  <1>5. /\ sweeping' = [at |-> sweeping'.at, pass |-> sweeping'.pass, since |-> sweeping'.since]
        /\ sweeping'.since = sweeping.since /\ today' = today
    <2>1. PICK a, p, d : sweeping = [at |-> a, pass |-> p, since |-> d]
      BY DEF RetentionInv
    <2>2. sweeping' = AfterBatch(Cardinality(batch)) /\ today' = today
      BY DEF drain
    <2> QED
      BY <2>1, <2>2 DEF AfterBatch
  <1> QED
    BY <1>3, <1>4, <1>5 DEF RetentionInv

LEMMA RetentionStep ==
    RetentionInv /\ [RetentionNext]_retentionVars =>
        /\ RetentionInv' /\ NothingNeededIsSwept
        /\ entitlement.status # "issued" => entitlement'.status = entitlement.status
  <1> SUFFICES ASSUME RetentionInv, [RetentionNext]_retentionVars
               PROVE  /\ RetentionInv' /\ NothingNeededIsSwept
                      /\ entitlement.status # "issued" => entitlement'.status = entitlement.status
    OBVIOUS
  <1>1. entitlement.status # "issued" => entitlement'.status = entitlement.status
    BY DEF RetentionNext, Write, End, ComesToRest, RevokeEntitlement, DayPasses, sweep, SweepCrashes,
           expireEntitlements, expireLapsed, drain, DrainThrows, expireDue, retentionVars
  <1>2. CASE \E r \in SweptRows : Write(r)
    <2>1. PICK r \in SweptRows : Write(r)
      BY <1>2
    <2>2. [is |-> "there", created |-> today, expires |-> today, ended |-> Never,
           status |-> "work", referenced |-> FALSE] \in SweepableRow
      BY RetentionAssumption DEF RetentionAssumption, RetentionInv, SweepableRow, Never
    <2> QED
      BY <1>1, <2>1, <2>2, RowStands DEF Write
  <1>3. CASE \E r \in SweptRows : End(r)
    <2>1. PICK r \in SweptRows : End(r)
      BY <1>3
    <2>2. keptRow[r] \in SweepableRow /\ [keptRow[r] EXCEPT !.ended = today] \in SweepableRow
      BY <2>1, RowIs DEF End, SweepableRow, RetentionInv
    <2>3. keptRow' = [keptRow EXCEPT ![r] = [keptRow[r] EXCEPT !.ended = today]] /\ UNCHANGED <<today, sweeping>>
      BY <2>1 DEF End, RetentionInv
    <2> QED
      BY <1>1, <2>2, <2>3, RowStands
  <1>4. ASSUME NEW r \in SweptRows, NEW status \in {"settled", "dead_letter"}, NEW referenced \in BOOLEAN,
               ComesToRest(r, status, referenced)
        PROVE  RetentionInv' /\ NothingNeededIsSwept
    <2>1. PICK row : row = [keptRow[r] EXCEPT !.status = status, !.referenced = referenced]
      OBVIOUS
    <2>2. row \in SweepableRow
      BY <1>4, <2>1, RowIs DEF ComesToRest, SweepableRow
    <2>3. keptRow' = [keptRow EXCEPT ![r] = row] /\ UNCHANGED <<today, sweeping>>
      BY <1>4, <2>1 DEF ComesToRest, RetentionInv
    <2> QED
      BY <2>2, <2>3, RowStands
  <1>5. CASE DayPasses
    BY <1>1, <1>5 DEF DayPasses, RetentionInv, NothingNeededIsSwept
  <1>6. CASE sweep
    BY <1>1, <1>6 DEF sweep, RetentionInv, NothingNeededIsSwept
  <1>7. CASE \/ RevokeEntitlement \/ SweepCrashes \/ expireEntitlements \/ expireDue
             \/ \E batch \in SUBSET SweptRows : DrainThrows(batch)
             \/ UNCHANGED retentionVars
    BY <1>1, <1>7, RestKeeps
       DEF RevokeEntitlement, SweepCrashes, expireEntitlements, expireDue, DrainThrows, retentionVars
  <1> QED
    BY <1>1, <1>2, <1>3, <1>4, <1>5, <1>6, <1>7, DrainKeeps DEF RetentionNext

\* The safety of RetentionIsSafe, for any rows, terms, batch size and number of
\* passes, wherever a pass breaks off: nothing that is still needed is deleted,
\* and a right that has ended is not relabelled (the deletes' conditions,
\* expireLapsed).
THEOREM SweepsTakeOnlyTheOld ==
    RetentionSpec =>
        /\ [][NothingNeededIsSwept]_retentionVars
        /\ [][entitlement.status # "issued" => entitlement'.status = entitlement.status]_retentionVars
  BY RetentionStart, RetentionStep, PTL DEF RetentionSpec

=============================================================================
