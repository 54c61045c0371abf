--------------------------- MODULE OutboundRelay ---------------------------
(***************************************************************************)
(* The outbound half of the transport ledger: a reply is stored together    *)
(* with the outbound_events row that announces it, relay workers claim due  *)
(* rows under a lease and call the platform, a reaper returns rows whose    *)
(* worker died, and a reconciler reads back the sends whose outcome the     *)
(* platform never confirmed.                                                *)
(*                                                                          *)
(* Time.  Three durations race each other and are counted in ticks: the     *)
(* lease, the platform request timeout and the reaper's grace on a row in   *)
(* status 'sending'.  They are kept as countdowns, so the model is finite   *)
(* without bounding the run.  The other delays (backoff, the rate-limit     *)
(* park, the 24-hour maximum wait, the read-back delay and window) are      *)
(* longer or unrelated, and are stages a row moves through at any moment.   *)
(***************************************************************************)
EXTENDS Integers, FiniteSets, GraphErrors

CONSTANTS
    Events,          \* ids of outbound_events rows, each announcing one reply
    Workers,         \* relay processes; a restarted one is a new identity
    NoWorker,        \* lease_owner IS NULL
    NoEvent,         \* a worker between two rows of its batch
    BatchSize,       \* WORKER_BATCH_SIZE
    LeaseTicks,      \* WORKER_LEASE_SECONDS
    TimeoutTicks,    \* PLATFORM_REQUEST_TIMEOUT_MS
    StallTicks,      \* longest pause between the lease check and the request
    GraceTicks,      \* SENDING_REAP_GRACE_MS
    MaxSendAttempts, \* MAX_SEND_ATTEMPTS
    AttemptBound,    \* attempt_count is counted up to here: "this many or more"
    Faults,          \* which faults the environment may inject
    Errors           \* the errors Meta may answer with

\* What the environment of a relay can do to it.
\*   crash     the process dies at any moment
\*   db        a statement fails after the send, outside any transaction
\*   pressure  the account's own Meta allowance reaches the soft limit
\*   late      a request that timed out here is still processed by Meta
\*   aging     a reply outlives OUTBOUND_RATE_LIMIT_MAX_WAIT_MS
FaultKinds == {"crash", "db", "pressure", "late", "aging"}

ASSUME RelayAssumption ==
    /\ Events \subseteq Nat
    /\ NoWorker \notin Workers
    /\ NoEvent \notin Events
    /\ BatchSize \in Nat \ {0}
    /\ LeaseTicks \in Nat \ {0}
    /\ TimeoutTicks \in Nat
    /\ StallTicks \in Nat
    /\ GraceTicks \in Nat
    \* The grace is twice the request timeout: the second half is what a stall
    \* between the lease check and the request may use up.
    /\ TimeoutTicks + StallTicks <= GraceTicks
    /\ MaxSendAttempts \in Nat \ {0}
    /\ AttemptBound \in Nat
    /\ MaxSendAttempts < AttemptBound
    /\ Faults \subseteq FaultKinds
    /\ Errors \subseteq GraphError

VARIABLES
    row,     \* [Events -> outbound_events row]
    msg,     \* [Events -> the messages row whose outbound_event_id it is]
    wk,      \* [Workers -> what the worker process holds in memory]
    reauth,  \* provider_connections.reauth_required of the sending channel
    copies,  \* external: how many copies of the reply the customer can read
    landed,  \* external: the request of the latest attempt took effect
    latent,  \* external: requests given up on here that Meta may yet process
    verdict, \* reconciler memory: landed verdicts not yet written to messages
    unrecorded \* history: rows reaped although their send had, or may yet have,
             \* taken effect

vars == <<row, msg, wk, reauth, copies, landed, latent, verdict, unrecorded>>

\* More than two copies is no worse than two for any property here.
MaxCopies == 2

DueStatuses     == {"pending", "failed"}
SettledStatuses == {"sent", "cancelled", "dead_letter"}
RowStatuses     == {"none", "sending"} \cup DueStatuses \cup SettledStatuses

\* How long ago an ambiguous send was settled, as the reconciler sees it.
ReadBackStages == {"fresh", "readable", "aged"}
ReadBacks      == {"none", "landed", "lost", "unknown"}

RowType ==
    [status: RowStatuses, owner: Workers \cup {NoWorker},
     lease: -(GraceTicks + 1) .. LeaseTicks,  \* ticks to lease_expires_at
     attempts: 0 .. AttemptBound, due: BOOLEAN, old: BOOLEAN,
     ambiguous: BOOLEAN, stage: ReadBackStages, readBack: ReadBacks,
     dm: BOOLEAN]  \* event_type: a direct message, which Meta echoes back, or
                   \* a comment or mention reply, which is read back

MsgType == [status: {"none", "pending", "sent", "failed"}, stamped: BOOLEAN]

\* batch     between two rows        ready     the channel was read and is usable
\* flight    the lease check passed, the request is on its way
\* accepted  Meta took it, the answer is not here yet
\* ok, err   the answer arrived      recorded  markSent applied, message next
\* settle    the row is dead-lettered, message next
Phases == {"idle", "batch", "ready", "flight", "accepted", "ok", "recorded",
           "err", "settle", "dead"}

\* A request is over, one way or the other, this long after the lease check.
Deadline == TimeoutTicks + StallTicks

WorkerType ==
    [phase: Phases, batch: SUBSET Events, ev: Events \cup {NoEvent},
     attempt: 0 .. AttemptBound, elapsed: 0 .. Deadline, err: FailureClasses \cup {"none", "local"}]

TypeOK ==
    /\ row \in [Events -> RowType]
    /\ msg \in [Events -> MsgType]
    /\ wk \in [Workers -> WorkerType]
    /\ reauth \in BOOLEAN
    /\ copies \in [Events -> 0 .. MaxCopies]
    /\ landed \in [Events -> BOOLEAN]
    /\ latent \in SUBSET Events
    /\ verdict \in SUBSET Events
    /\ unrecorded \in SUBSET Events

NoRow  == [status |-> "none", owner |-> NoWorker, lease |-> 0, attempts |-> 0,
           due |-> FALSE, old |-> FALSE, ambiguous |-> FALSE,
           stage |-> "fresh", readBack |-> "none", dm |-> FALSE]
IdleWorker == [phase |-> "idle", batch |-> {}, ev |-> NoEvent, attempt |-> 0,
               elapsed |-> 0, err |-> "none"]

Init ==
    /\ row = [e \in Events |-> NoRow]
    /\ msg = [e \in Events |-> [status |-> "none", stamped |-> FALSE]]
    /\ wk = [w \in Workers |-> IdleWorker]
    /\ reauth = FALSE
    /\ copies = [e \in Events |-> 0]
    /\ landed = [e \in Events |-> FALSE]
    /\ latent = {}
    /\ verdict = {}
    /\ unrecorded = {}

-----------------------------------------------------------------------------
(* The ledger's guarded updates (OutboundEventRepository).                  *)

\* Mutant of Fenced: the owner is not looked at.
FencedOnStatus(w, e) == row[e].status # "sent"

\* The fence every settling statement carries: we still own the row, and it
\* is not already sent.
Fenced(w, e) == row[e].owner = w /\ row[e].status # "sent"

Release(r) == [r EXCEPT !.owner = NoWorker, !.lease = 0]

Cancelled(r, amb) ==
    [Release(r) EXCEPT !.status = "cancelled", !.ambiguous = @ \/ amb,
                       !.stage = "fresh"]

\* markFailed.  The statement decides from the row's own attempt_count, the
\* caller decides from the count its claim returned.
Failed(r, retry) ==
    LET spent == ~retry \/ r.attempts >= MaxSendAttempts IN
    [Release(r) EXCEPT !.status = IF spent THEN "dead_letter" ELSE "failed",
                       !.due = FALSE]

\* Mutant of RateLimited: parks whatever the age of the reply.
ParkedForEver(r) ==
    [Release(r) EXCEPT !.status = "pending", !.due = FALSE,
                       !.attempts = IF @ \in {0, AttemptBound} THEN @ ELSE @ - 1]

\* markRateLimited.  Parks and refunds the attempt while the reply is younger
\* than OUTBOUND_RATE_LIMIT_MAX_WAIT_MS, dead-letters it after.
RateLimited(r) ==
    [Release(r) EXCEPT
        !.status   = IF r.old THEN "dead_letter" ELSE "pending",
        \* a claim counted up at the bound is not counted down again
        !.attempts = IF r.old \/ @ \in {0, AttemptBound} THEN @ ELSE @ - 1,
        !.due      = FALSE]

\* markReadBackResolved: only a landed send is promoted.
ReadBackResolved(r, o) ==
    [r EXCEPT !.readBack = o, !.status = IF o = "landed" THEN "sent" ELSE @]

\* messages.recordDelivery: COALESCE keeps an id already there, the status is
\* overwritten whatever it was.
Recorded(m, status, stamp) == [status |-> status, stamped |-> m.stamped \/ stamp]

-----------------------------------------------------------------------------
(* What a worker holds between two awaits.                                  *)

\* Rows of a batch are delivered one after the other, lowest id first.
Delivering(w, e) ==
    /\ wk[w].phase = "batch"
    /\ e \in wk[w].batch
    /\ \A f \in wk[w].batch : e <= f

At(w, phase, e) == wk[w].phase = phase /\ wk[w].ev = e

\* deliver returns: the loop of pollOnce takes the next row of the batch.
Advance(w, e) ==
    LET left == wk[w].batch \ {e} IN
    wk' = [wk EXCEPT ![w] =
              [IdleWorker EXCEPT !.batch = left,
                                 !.phase = IF left = {} THEN "idle" ELSE "batch"]]

GoTo(w, phase) == wk' = [wk EXCEPT ![w].phase = phase]

-----------------------------------------------------------------------------
(* InboxService.reply: the message and the row announcing it commit in one  *)
(* transaction.                                                             *)
Enqueue(e) ==
    /\ row[e].status = "none"
    /\ \E dm \in BOOLEAN :
        row' = [row EXCEPT ![e] = [@ EXCEPT !.status = "pending", !.due = TRUE, !.dm = dm]]
    /\ msg' = [msg EXCEPT ![e].status = "pending"]
    /\ UNCHANGED <<wk, reauth, copies, landed, latent, verdict, unrecorded>>

Claimable == {e \in Events : row[e].status \in DueStatuses /\ row[e].due}

Counted(n) == IF n < AttemptBound THEN n + 1 ELSE n

LeaseFromNow == LeaseTicks

\* claimDueBatch: one UPDATE ... FOR UPDATE SKIP LOCKED, so the whole batch is
\* taken in one step and no row is taken twice.
Claim(w) ==
    /\ wk[w].phase = "idle"
    /\ \E S \in SUBSET Claimable :
        /\ S # {}
        /\ Cardinality(S) <= BatchSize
        /\ row' = [e \in Events |->
                     IF e \in S
                     THEN [row[e] EXCEPT !.status = "sending", !.owner = w,
                                         !.lease = LeaseFromNow,
                                         !.attempts = Counted(@)]
                     ELSE row[e]]
        /\ wk' = [wk EXCEPT ![w] = [IdleWorker EXCEPT !.phase = "batch", !.batch = S]]
    /\ UNCHANGED <<msg, reauth, copies, landed, latent, verdict, unrecorded>>

-----------------------------------------------------------------------------
(* deliver, before the send.                                                *)

\* Mutant of SettleAsFailed: the message is failed even where the cancel was
\* declined.
SettleRegardless(w, e, amb) ==
    /\ row' = [row EXCEPT ![e] = IF Fenced(w, e) THEN Cancelled(@, amb) ELSE @]
    /\ msg' = [msg EXCEPT ![e] = Recorded(@, "failed", FALSE)]

\* settleAsFailed: cancel and the message write commit together, and only if
\* the fence held.
SettleAsFailed(w, e, amb) ==
    /\ row' = [row EXCEPT ![e] = IF Fenced(w, e) THEN Cancelled(@, amb) ELSE @]
    /\ msg' = [msg EXCEPT ![e] = IF Fenced(w, e) THEN Recorded(@, "failed", FALSE) ELSE @]

\* The channel is gone, unmanaged, flagged for re-authentication, or has no
\* token that decrypts.
DeliverRefused(w, e) ==
    /\ Delivering(w, e)
    /\ SettleAsFailed(w, e, FALSE)
    /\ Advance(w, e)
    /\ UNCHANGED <<reauth, copies, landed, latent, verdict, unrecorded>>

\* This account's own allowance is nearly spent: the row is parked, and what
\* markRateLimited answers is not looked at.
DeliverPressured(w, e) ==
    /\ "pressure" \in Faults
    /\ ~reauth
    /\ Delivering(w, e)
    /\ row' = [row EXCEPT ![e] = IF Fenced(w, e) THEN RateLimited(@) ELSE @]
    /\ Advance(w, e)
    /\ UNCHANGED <<msg, reauth, copies, landed, latent, verdict, unrecorded>>

\* findSendContext found a usable channel.  The attempt count is the one the
\* claim returned; it is the row's for as long as the worker owns the row, and
\* is used for nothing once it does not.
DeliverReady(w, e) ==
    /\ Delivering(w, e)
    /\ ~reauth
    /\ wk' = [wk EXCEPT ![w] = [@ EXCEPT !.phase = "ready", !.ev = e,
                                         !.attempt = row[e].attempts]]
    /\ UNCHANGED <<row, msg, reauth, copies, landed, latent, verdict, unrecorded>>

\* Mutant of stillHoldsLease: an owner whose lease has lapsed still counts.
StillOwner(w, e) == row[e].owner = w

stillHoldsLease(w, e) == row[e].owner = w /\ row[e].lease > 0

LeaseLapsed(w, e) ==
    /\ At(w, "ready", e)
    /\ ~stillHoldsLease(w, e)
    /\ Advance(w, e)
    /\ UNCHANGED <<row, msg, reauth, copies, landed, latent, verdict, unrecorded>>

BeginSend(w, e) ==
    /\ At(w, "ready", e)
    /\ stillHoldsLease(w, e)
    /\ wk' = [wk EXCEPT ![w] = [@ EXCEPT !.phase = "flight", !.elapsed = 0]]
    /\ landed' = [landed EXCEPT ![e] = FALSE]
    /\ UNCHANGED <<row, msg, reauth, copies, latent, verdict, unrecorded>>

-----------------------------------------------------------------------------
(* The platform.                                                            *)

OneMore(n) == IF n < MaxCopies THEN n + 1 ELSE n

PlatformAccepts(w, e) ==
    /\ At(w, "flight", e)
    /\ copies' = [copies EXCEPT ![e] = OneMore(@)]
    /\ landed' = [landed EXCEPT ![e] = TRUE]
    /\ GoTo(w, "accepted")
    /\ UNCHANGED <<row, msg, reauth, latent, verdict, unrecorded>>

RespondOk(w, e) ==
    /\ At(w, "accepted", e)
    /\ GoTo(w, "ok")
    /\ UNCHANGED <<row, msg, reauth, copies, landed, latent, verdict, unrecorded>>

\* A request that failed without an answer may still be processed later.
RespondError(w, e) ==
    /\ wk[w].ev = e
    /\ wk[w].phase \in {"flight", "accepted"}
    /\ \E g \in Errors :
        /\ MayHaveLanded(g, wk[w].phase = "accepted")
        /\ wk' = [wk EXCEPT ![w] = [@ EXCEPT !.phase = "err", !.err = FailureClass(g)]]
        /\ latent' \in {latent} \cup
              {latent \cup {e} : x \in {y \in {"late"} \cap Faults :
                                          g.http = "none" /\ wk[w].phase = "flight"}}
    /\ UNCHANGED <<row, msg, reauth, copies, landed, verdict, unrecorded>>

\* A payload too incomplete to send: no request was made, and the error is not
\* a GraphApiError.
SendRefusedLocally(w, e) ==
    /\ At(w, "flight", e)
    /\ wk' = [wk EXCEPT ![w] = [@ EXCEPT !.phase = "err", !.err = "local"]]
    /\ UNCHANGED <<row, msg, reauth, copies, landed, latent, verdict, unrecorded>>

\* Meta processes a request nobody is waiting for any more.  It does so within
\* SEND_READ_BACK_DELAY_MS, which is what that delay is for.
LatentLands(e) ==
    /\ e \in latent
    /\ row[e].stage = "fresh"
    /\ copies' = [copies EXCEPT ![e] = OneMore(@)]
    /\ landed' = [landed EXCEPT ![e] = TRUE]
    /\ latent' = latent \ {e}
    /\ UNCHANGED <<row, msg, wk, reauth, verdict, unrecorded>>

\* Or it never does.
LatentDropped(e) ==
    /\ e \in latent
    /\ latent' = latent \ {e}
    /\ UNCHANGED <<row, msg, wk, reauth, copies, landed, verdict, unrecorded>>

\* projectOwnMessage: Meta echoes a direct message back, and the echo stamps the
\* reply and upgrades its status.
Echo(e) ==
    /\ row[e].dm
    /\ copies[e] > 0
    /\ ~msg[e].stamped
    /\ msg' = [msg EXCEPT ![e] = Recorded(@, "sent", TRUE)]
    /\ UNCHANGED <<row, wk, reauth, copies, landed, latent, verdict, unrecorded>>

-----------------------------------------------------------------------------
(* deliver, after the send.                                                 *)

\* markSent is fenced on the lease owner alone.
MarkSent(w, e) ==
    /\ At(w, "ok", e)
    /\ IF row[e].owner = w
       THEN /\ row' = [row EXCEPT ![e] = [Release(@) EXCEPT !.status = "sent"]]
            /\ GoTo(w, "recorded")
       ELSE /\ Advance(w, e)
            /\ UNCHANGED row
    /\ UNCHANGED <<msg, reauth, copies, landed, latent, verdict, unrecorded>>

RecordDelivery(w, e) ==
    /\ At(w, "recorded", e)
    /\ msg' = [msg EXCEPT ![e] = Recorded(@, "sent", TRUE)]
    /\ Advance(w, e)
    /\ UNCHANGED <<row, reauth, copies, landed, latent, verdict, unrecorded>>

\* handleSendFailure, when the provider rejected the credential: the connection
\* is flagged, then the reply is cancelled.
FailReauth(w, e) ==
    /\ At(w, "err", e)
    /\ wk[w].err = "reauth"
    /\ reauth' = TRUE
    /\ SettleAsFailed(w, e, FALSE)
    /\ Advance(w, e)
    /\ UNCHANGED <<copies, landed, latent, verdict, unrecorded>>

\* ... when the outcome is unknown: cancelled and marked for the read-back.
FailAmbiguous(w, e) ==
    /\ At(w, "err", e)
    /\ wk[w].err = "ambiguous"
    /\ SettleAsFailed(w, e, TRUE)
    /\ Advance(w, e)
    /\ UNCHANGED <<reauth, copies, landed, latent, verdict, unrecorded>>

\* ... when Meta throttled: parked without spending an attempt, or dead-lettered
\* once too old, and only then is the message to be settled.
FailThrottled(w, e) ==
    /\ At(w, "err", e)
    /\ wk[w].err = "throttled"
    /\ row' = [row EXCEPT ![e] = IF Fenced(w, e) THEN RateLimited(@) ELSE @]
    /\ IF Fenced(w, e) /\ row[e].old THEN GoTo(w, "settle") ELSE Advance(w, e)
    /\ UNCHANGED <<msg, reauth, copies, landed, latent, verdict, unrecorded>>

\* scheduleRetry: whether the caller asks for another attempt.
scheduleRetry(w) ==
    wk[w].err \in {"retryable", "local"} /\ wk[w].attempt < MaxSendAttempts

\* ... and otherwise: retried with backoff while the budget lasts.
FailPlain(w, e) ==
    /\ At(w, "err", e)
    /\ wk[w].err \in {"terminal", "retryable", "local"}
    /\ row' = [row EXCEPT ![e] = IF Fenced(w, e) THEN Failed(@, scheduleRetry(w)) ELSE @]
    /\ IF Fenced(w, e) /\ ~scheduleRetry(w) THEN GoTo(w, "settle") ELSE Advance(w, e)
    /\ UNCHANGED <<msg, reauth, copies, landed, latent, verdict, unrecorded>>

\* The second of two statements that no transaction joins.
SettleMessage(w, e) ==
    /\ At(w, "settle", e)
    /\ msg' = [msg EXCEPT ![e] = Recorded(@, "failed", FALSE)]
    /\ Advance(w, e)
    /\ UNCHANGED <<row, reauth, copies, landed, latent, verdict, unrecorded>>

-----------------------------------------------------------------------------
(* Faults.                                                                  *)

\* A statement throws.  deliver's catch, or pollOnce's, logs it and goes on
\* to the next row; the row keeps the status it had.
StatementFails(w, e) ==
    /\ "db" \in Faults
    /\ wk[w].ev = e
    /\ wk[w].phase \in {"ready", "ok", "recorded", "err", "settle"}
    /\ Advance(w, e)
    /\ UNCHANGED <<row, msg, reauth, copies, landed, latent, verdict, unrecorded>>

\* The process dies.  A restarted one has a new lease owner, so it is another
\* member of Workers.  One survives.
Crash(w) ==
    /\ "crash" \in Faults
    /\ wk[w].phase # "dead"
    /\ \E v \in Workers \ {w} : wk[v].phase # "dead"
    /\ wk' = [wk EXCEPT ![w] = [IdleWorker EXCEPT !.phase = "dead"]]
    /\ latent' = latent \cup {e \in Events : At(w, "flight", e)}
    /\ UNCHANGED <<row, msg, reauth, copies, landed, verdict, unrecorded>>

-----------------------------------------------------------------------------
(* Time.                                                                    *)

OneTickOf(r) ==
    IF r.status = "sending" /\ r.lease > -(GraceTicks + 1)
    THEN [r EXCEPT !.lease = @ - 1] ELSE r

InFlight(w) == wk[w].phase \in {"flight", "accepted"}

\* Only what can change anything: a lease still to run out, a request under way.
Tick ==
    /\ \A w \in Workers : InFlight(w) => wk[w].elapsed < Deadline
    /\ \E e \in Events : row[e].status = "sending"
    /\ row' = [e \in Events |-> OneTickOf(row[e])]
    /\ wk' = [w \in Workers |-> IF InFlight(w) THEN [wk[w] EXCEPT !.elapsed = @ + 1]
                                ELSE wk[w]]
    /\ UNCHANGED <<msg, reauth, copies, landed, latent, verdict, unrecorded>>

\* next_attempt_at has come.
BecomeDue(e) ==
    /\ row[e].status \in DueStatuses
    /\ ~row[e].due
    /\ row' = [row EXCEPT ![e].due = TRUE]
    /\ UNCHANGED <<msg, wk, reauth, copies, landed, latent, verdict, unrecorded>>

\* The reply is older than OUTBOUND_RATE_LIMIT_MAX_WAIT_MS.
AgePastMaxWait(e) ==
    /\ "aging" \in Faults
    /\ row[e].status \in DueStatuses \cup {"sending"}
    /\ ~row[e].old
    /\ row' = [row EXCEPT ![e].old = TRUE]
    /\ UNCHANGED <<msg, wk, reauth, copies, landed, latent, verdict, unrecorded>>

\* The read-back delay, then the read-back window, goes by.
AgeReadBack(e) ==
    /\ row[e].ambiguous
    /\ row[e].stage # "aged"
    /\ e \notin latent
    /\ row' = [row EXCEPT ![e].stage = IF @ = "fresh" THEN "readable" ELSE "aged"]
    /\ UNCHANGED <<msg, wk, reauth, copies, landed, latent, verdict, unrecorded>>

\* The operator re-authenticates the connection.
Reconnect ==
    /\ reauth
    /\ reauth' = FALSE
    /\ UNCHANGED <<row, msg, wk, copies, landed, latent, verdict, unrecorded>>

-----------------------------------------------------------------------------
(* The reaper and the reconciler.                                           *)

\* Mutant of Reapable: no grace on top of the lease.
ReapableAtExpiry(e) == row[e].status = "sending" /\ row[e].lease < 0

\* reclaimExpiredLeases: the lease and then the grace have passed.  The attempt
\* stays spent, and no count is too high to be queued again.
Reapable(e) == row[e].status = "sending" /\ row[e].lease < -GraceTicks

Reclaim(e) ==
    /\ Reapable(e)
    /\ row' = [row EXCEPT ![e] = [Release(@) EXCEPT !.status = "pending", !.due = TRUE]]
    /\ unrecorded' = IF copies[e] > 0 \/ e \in latent THEN unrecorded \cup {e}
                     ELSE unrecorded
    /\ UNCHANGED <<msg, wk, reauth, copies, landed, latent, verdict>>

\* Mutant of AwaitingReadBack: read back at once.
AwaitingAtOnce(e) ==
    /\ ~row[e].dm
    /\ row[e].status = "cancelled" /\ row[e].ambiguous /\ row[e].readBack = "none"

\* listAmbiguousAwaitingReadBack
AwaitingReadBack(e) ==
    /\ ~row[e].dm
    /\ row[e].status = "cancelled"
    /\ row[e].ambiguous
    /\ row[e].readBack = "none"
    /\ row[e].stage # "fresh"

\* What the comments edge lets reconcileOne conclude.  A channel or a payload it
\* cannot look with leaves it unknown; a copy from an earlier attempt may or may
\* not be within the match window.
ReadBackOutcomes(e) ==
    IF row[e].stage = "aged" \/ reauth THEN {"unknown"}
    ELSE {"unknown"} \cup (IF landed[e] THEN {"landed"}
                           ELSE IF copies[e] > 0 THEN {"landed", "lost"}
                           ELSE {"lost"})

\* markReadBackResolved; a landed send is then corrected on the message too.
ReadBack(e) ==
    /\ AwaitingReadBack(e)
    /\ \E o \in ReadBackOutcomes(e) :
        /\ row' = [row EXCEPT ![e] = ReadBackResolved(@, o)]
        /\ verdict' = IF o = "landed" THEN verdict \cup {e} ELSE verdict
    /\ UNCHANGED <<msg, wk, reauth, copies, landed, latent, unrecorded>>

RecordReadBack(e) ==
    /\ e \in verdict
    /\ msg' = [msg EXCEPT ![e] = Recorded(@, "sent", TRUE)]
    /\ verdict' = verdict \ {e}
    /\ UNCHANGED <<row, wk, reauth, copies, landed, latent, unrecorded>>

\* The reconciler's process dies, or its message write fails, in between.
ForgetReadBack(e) ==
    /\ Faults \cap {"crash", "db"} # {}
    /\ e \in verdict
    /\ verdict' = verdict \ {e}
    /\ UNCHANGED <<row, msg, wk, reauth, copies, landed, latent, unrecorded>>

-----------------------------------------------------------------------------
\* Everything settled: the system is at rest until somebody replies again.
Quiet(e) ==
    /\ row[e].status \in SettledStatuses
    /\ \A w \in Workers : wk[w].ev # e
    /\ e \notin verdict \cup latent
    /\ ~AwaitingReadBack(e)

AtRest ==
    /\ \A e \in Events : Quiet(e)
    /\ UNCHANGED vars

WorkerStep(w) ==
    \/ Claim(w)
    \/ Crash(w)
    \/ \E e \in Events :
        \/ DeliverRefused(w, e) \/ DeliverPressured(w, e) \/ DeliverReady(w, e)
        \/ LeaseLapsed(w, e)    \/ BeginSend(w, e)
        \/ PlatformAccepts(w, e) \/ RespondOk(w, e) \/ RespondError(w, e)
        \/ SendRefusedLocally(w, e)
        \/ MarkSent(w, e)       \/ RecordDelivery(w, e)
        \/ FailReauth(w, e)     \/ FailAmbiguous(w, e)
        \/ FailThrottled(w, e)  \/ FailPlain(w, e)
        \/ SettleMessage(w, e)  \/ StatementFails(w, e)

EventStep(e) ==
    \/ Enqueue(e)   \/ BecomeDue(e) \/ AgePastMaxWait(e) \/ AgeReadBack(e)
    \/ Reclaim(e)   \/ LatentLands(e) \/ LatentDropped(e) \/ Echo(e)
    \/ ReadBack(e)  \/ RecordReadBack(e) \/ ForgetReadBack(e)

Next ==
    \/ \E w \in Workers : WorkerStep(w)
    \/ \E e \in Events : EventStep(e)
    \/ Tick
    \/ Reconnect
    \/ AtRest

Spec == Init /\ [][Next]_vars

-----------------------------------------------------------------------------
(* Safety.                                                                  *)

\* At most one request for a reply is under way at any moment, although the
\* reaper cannot tell a dead worker from a slow one: the lease check before the
\* send and the reaper's grace on a 'sending' row add up to this
\* (stillHoldsLease, SENDING_REAP_GRACE_MS in reclaimExpiredLeases).
NoConcurrentRequests ==
    \A v, w \in Workers :
        InFlight(v) /\ InFlight(w) /\ wk[v].ev = wk[w].ev => v = w

\* Only a row being sent has an owner: every statement that settles, parks,
\* retries or reaps a row clears its lease with the same UPDATE.
OwnedIsSending ==
    \A e \in Events : row[e].owner # NoWorker => row[e].status = "sending"

\* A worker waiting for Meta's answer still owns its row, and its lease has not
\* been over for as long as the request has been under way: so when the answer
\* arrives in time, the fences of markSent, markFailed and cancel let it through.
RequestCovered(w) ==
    InFlight(w) =>
        /\ wk[w].ev \in Events
        /\ row[wk[w].ev].owner = w
        /\ row[wk[w].ev].status = "sending"
        /\ row[wk[w].ev].lease + wk[w].elapsed > 0

LeaseCoversRequest == \A w \in Workers : RequestCovered(w)

\* The customer reads a reply twice only if the reaper queued a row again whose
\* request had taken effect, or still could, without that being recorded.  No
\* retry, park or read-back of the relay's own ever duplicates
\* (isAmbiguousFailure before mapped.retryable in handleSendFailure).
DuplicateOnlyAfterLostRecord ==
    \A e \in Events : copies[e] > 1 => e \in unrecorded

\* A read-back says 'lost', which invites the agent to send again, only if the
\* customer has nothing.  Copies of an attempt whose record was lost are the
\* exception.
LostVerdictSound ==
    \A e \in Events :
        row[e].readBack = "lost" => copies[e] = 0 \/ e \in unrecorded

\* A row says 'sent' only if the customer has the reply.
SentMeansDelivered ==
    \A e \in Events : row[e].status = "sent" => copies[e] > 0

\* What the ledger says of a reply is true of what the customer reads, whether
\* an answer, an echo or a read-back said it (markSent, reconcileOne,
\* SEND_READ_BACK_DELAY_MS).
VerdictsAreSound == LostVerdictSound /\ SentMeansDelivered

\* Once a row is settled and nobody is between the two statements that settle
\* it, the agent's message agrees: delivered replies read 'sent', cancelled and
\* dead-lettered ones do not stay 'pending'.  A failed one may read 'sent' only
\* if the customer has it.  The exceptions are a process that died between two
\* statements, the reconciler's after a landed read-back included.
\* (settleAsFailed: "the two must not diverge".)
MessageFollowsLedger ==
    \A e \in Events :
        (row[e].status \in SettledStatuses
           /\ e \notin verdict
           /\ \A w \in Workers : wk[w].ev # e /\ wk[w].phase # "dead")
        => \/ row[e].status = "sent" /\ (msg[e].status = "sent" \/ row[e].readBack = "landed")
           \/ row[e].status # "sent" /\ msg[e].status = "failed"
           \/ row[e].status # "sent" /\ msg[e].status = "sent" /\ copies[e] > 0

-----------------------------------------------------------------------------
(* Refinement.                                                              *)

QueueState(e) ==
    IF row[e].status = "none" THEN "absent"
    ELSE IF row[e].status \in DueStatuses THEN "waiting"
    ELSE IF row[e].status = "sending" THEN "held"
    ELSE row[e].status

\* The rows of its batch that a worker has yet to settle.
QueueHands(w) ==
    wk[w].batch \ (IF wk[w].phase \in {"recorded", "settle"} THEN {wk[w].ev} ELSE {})

Queue == INSTANCE LeasedQueue WITH
    Entries <- Events, Holders <- Workers, Nobody <- NoWorker,
    Outcomes <- SettledStatuses,
    \* a read-back that finds the reply
    Amendments <- {<<"cancelled", "sent">>},
    state <- [e \in Events |-> QueueState(e)],
    owner <- [e \in Events |-> row[e].owner],
    hands <- [w \in Workers |-> QueueHands(w)],
    lapsed <- {e \in Events : row[e].status = "sending" /\ row[e].lease < -GraceTicks}

\* RelayIsLeasedQueue: the ledger of replies is a leased queue.  A row changes
\* hands only through its owner or, after lease and grace, the reaper; a late
\* failure, park or cancel of a worker that lost its row does nothing; 'sent' is
\* final (the fences of markSent, markFailed, markRateLimited and cancel,
\* reclaimExpiredLeases).
RelayIsLeasedQueue == Queue!Spec

-----------------------------------------------------------------------------
(* Liveness.                                                                *)

Deliver(w, e) ==
    DeliverRefused(w, e) \/ DeliverReady(w, e) \/ DeliverPressured(w, e)

WriteBack(w, e) ==
    \/ MarkSent(w, e)      \/ FailReauth(w, e) \/ FailAmbiguous(w, e)
    \/ FailThrottled(w, e) \/ FailPlain(w, e)

\* Every poller runs again and again, every awaited call returns (the request
\* has a timeout, the statements a statement_timeout), clocks advance.  Strong
\* fairness where a stall longer than the lease makes the step miss its chance:
\* not every one of infinitely many attempts is stalled that long.  Nothing is
\* assumed of crashes, faults, echoes, acceptances or operators.
Fairness ==
    /\ WF_vars(Tick)
    /\ \A e \in Events :
        /\ WF_vars(BecomeDue(e))
        /\ WF_vars(AgePastMaxWait(e))
        /\ WF_vars(AgeReadBack(e))
        /\ WF_vars(Reclaim(e))
        /\ WF_vars(ReadBack(e))
        /\ WF_vars(RecordReadBack(e))
        /\ WF_vars(LatentDropped(e) \/ LatentLands(e))
    /\ \A w \in Workers :
        /\ WF_vars(Claim(w))
        /\ \A e \in Events :
            /\ WF_vars(Deliver(w, e))
            /\ SF_vars(stillHoldsLease(w, e) /\ Deliver(w, e))
            /\ WF_vars(LeaseLapsed(w, e))
            /\ SF_vars(BeginSend(w, e))
            /\ WF_vars(RespondOk(w, e) \/ RespondError(w, e) \/ SendRefusedLocally(w, e))
            /\ WF_vars(WriteBack(w, e))
            /\ SF_vars(row[e].owner = w /\ WriteBack(w, e))
            /\ WF_vars(RecordDelivery(w, e) \/ SettleMessage(w, e))

FairSpec == Spec /\ Fairness

\* Nothing is left to find out: the echo of a direct message or the read-back
\* of any other reply answers an ambiguous send.
Answered(e) == ~row[e].ambiguous \/ row[e].dm \/ row[e].readBack # "none"

\* No row is immortal: a queued reply is eventually sent, dead-lettered, or
\* cancelled with nothing left to find out, whatever Meta throttles and
\* whichever workers die (markRateLimited's age bound, scheduleRetry's budget,
\* the reaper; a verdict for every ambiguous reply Meta does not echo).
EveryReplySettles ==
    \A e \in Events :
        row[e].status = "pending" ~> row[e].status \in SettledStatuses /\ Answered(e)
=============================================================================
