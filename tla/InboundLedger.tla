--------------------------- MODULE InboundLedger ---------------------------
(***************************************************************************)
(* The inbound half of the transport ledger: a webhook delivery is stored   *)
(* as one inbound_events row per item, projector workers claim rows under a *)
(* lease and turn each into inbox state in one transaction, and a reaper    *)
(* returns the rows of workers that died.  The history walks of SyncJobs    *)
(* put the same items into the same ledger, under the same keys.            *)
(*                                                                          *)
(* An item is a comment, a mention or a direct message; what happens        *)
(* to it later (an edit, a hide, an unhide, a removal) is a delivery of its *)
(* own.  All items of an instance belong to one thread.  A lease carries no *)
(* duration here: nothing in the projector checks it, so it may run out at  *)
(* any moment.                                                              *)
(***************************************************************************)
EXTENDS Integers, Sequences, FiniteSets

CONSTANTS
    Items,        \* comments and messages on the platform
    Kinds,        \* which of ItemKinds are written
    Workers,      \* projector processes; a restarted one is a new identity
    NoWorker,     \* lease_owner IS NULL
    NoKey,        \* a worker between two rows of its batch
    BatchSize,    \* WORKER_BATCH_SIZE
    MaxAttempts,  \* inbound_events.max_attempts
    GraceAttempts, \* ORPHAN_EDIT_GRACE_ATTEMPTS
    MaxChanges,   \* bound: events of one item on the platform, its writing included
    AgentReads,   \* whether an agent opens the thread
    Walks,        \* the history walks that a connect or the daily refresh starts
    Faults        \* which faults the environment may inject

\*   comment, direct_message  written by a customer
\*   mention      an Instagram mention, whose delivery names no author (a mention
\*                on Facebook is projected as a comment is)
\*   own_comment  our own comment, delivered back through the same webhook
\*   echo         the echo of a direct message the portal sent and recorded
\*   app_reply    the echo of a reply typed in the platform's own app
ItemKinds == {"comment", "mention", "direct_message", "own_comment", "echo", "app_reply"}

\*   crash       the process dies at any moment
\*   db          a settling statement fails
\*   projection  the projector throws and its transaction rolls back
\*   store       one item of a delivery cannot be stored
\*   rewards     the reward engine throws
\*   slow        a lease runs out under a worker that is alive
\*   mentions    the Mentions API refuses for good, or cannot be asked
FaultKinds == {"crash", "db", "projection", "store", "rewards", "slow", "mentions"}

WalkKinds == {"comments", "mentions", "messages"}

ASSUME InboundAssumption ==
    /\ IsFiniteSet(Items)
    /\ Kinds \subseteq ItemKinds
    /\ NoWorker \notin Workers
    /\ BatchSize \in Nat \ {0}
    /\ MaxAttempts \in Nat \ {0}
    /\ GraceAttempts \in Nat /\ GraceAttempts < MaxAttempts
    /\ MaxChanges \in Nat \ {0}
    /\ AgentReads \in BOOLEAN
    /\ Walks \subseteq WalkKinds
    /\ Faults \subseteq FaultKinds
    /\ NoKey \notin Items \X {"add", "edit", "hide", "unhide", "remove"}

VARIABLES
    plat,     \* external: [Items -> what the platform shows]
    sent,     \* external: the deliveries Meta has to make, and may repeat
    resync,   \* a job that reads the thread again is in its slot (SyncJobs)
    rows,     \* [Keys -> inbound_events row], one per dedup key
    queue,    \* [Lanes -> the claimable rows that are due, by next_attempt_at]
    wk,       \* [Workers -> what the projector process holds in memory]
    msg,      \* [Items -> the messages row with this platform_message_id]
    thread,   \* the counters of the conversations row
    reading,  \* an agent is between the two statements of markRead
    offered,  \* [Items -> calls of the reward engine for this message]
    reversed  \* items whose award was asked back

vars == <<plat, sent, resync, rows, queue, wk, msg, thread, reading, offered, reversed>>
ledger == <<rows, queue>>
inbox  == <<msg, thread, reading>>
meta   == <<plat, sent, resync>>
reward == <<offered, reversed>>

Moderations == {"edit", "hide", "unhide", "remove"}
Verbs == {"add"} \cup Moderations
Keys  == Items \X Verbs

\* The n-th change of an item is one event, however often it is delivered.
Event == [item: Items, verb: Verbs, nr: 1 .. MaxChanges]

\* The claim orders by priority first: what a history walk read comes last.
Lanes == {"live", "history"}

PlatType == [kind: ItemKinds \cup {"none"}, nr: 0 .. MaxChanges, hidden: BOOLEAN,
             removed: BOOLEAN, body: 0 .. MaxChanges]

SettledStatuses == {"processed", "skipped", "dead_letter"}
RowStatuses == {"none", "pending", "processing", "failed"} \cup SettledStatuses

RowType == [status: RowStatuses, owner: Workers \cup {NoWorker}, leased: BOOLEAN,
            attempts: Nat, id: 0 .. Cardinality(Keys), nr: 0 .. MaxChanges,
            history: BOOLEAN]  \* from a walk: priority Low, a mention's author known

MsgType == [stored: BOOLEAN, hidden: BOOLEAN, removed: BOOLEAN, body: 0 .. MaxChanges,
            inbound: BOOLEAN, read: BOOLEAN]

\* batch      between two rows           projected  committed, markProcessed next
\* skipping   not projected, markSkipped next
\* failing    threw, markFailed next     offering   settled, rewards next
Phases == {"idle", "batch", "projected", "skipping", "failing", "offering", "dead"}

WorkerType == [phase: Phases, batch: SUBSET Keys, at: Keys \cup {NoKey},
               facts: {"none", "trigger", "reversal"}]

ThreadType == [count: Nat, unread: Nat]

TypeOK ==
    /\ plat \in [Items -> PlatType]
    /\ sent \in SUBSET Event
    /\ resync \in BOOLEAN
    /\ rows \in [Keys -> RowType]
    /\ queue \in [Lanes -> Seq(Keys)]
    /\ wk \in [Workers -> WorkerType]
    /\ msg \in [Items -> MsgType]
    /\ thread \in ThreadType
    /\ reading \in BOOLEAN
    /\ offered \in [Items -> Nat]
    /\ reversed \in SUBSET Items

NoRow == [status |-> "none", owner |-> NoWorker, leased |-> FALSE, attempts |-> 0,
          id |-> 0, nr |-> 0, history |-> FALSE]
NoMsg == [stored |-> FALSE, hidden |-> FALSE, removed |-> FALSE, body |-> 0,
          inbound |-> FALSE, read |-> FALSE]
IdleWorker == [phase |-> "idle", batch |-> {}, at |-> NoKey, facts |-> "none"]

Init ==
    /\ plat = [i \in Items |-> [kind |-> "none", nr |-> 0, hidden |-> FALSE,
                                removed |-> FALSE, body |-> 0]]
    /\ sent = {}
    /\ resync = FALSE
    /\ rows = [k \in Keys |-> NoRow]
    /\ queue = [lane \in Lanes |-> <<>>]
    /\ wk = [w \in Workers |-> IdleWorker]
    /\ msg = [i \in Items |-> NoMsg]
    /\ thread = [count |-> 0, unread |-> 0]
    /\ reading = FALSE
    /\ offered = [i \in Items |-> 0]
    /\ reversed = {}

-----------------------------------------------------------------------------
(* The platform, external.                                                  *)

Kind(i) == plat[i].kind

\* Somebody writes.  The portal has recorded its own send by the time the
\* platform has it, so before any echo.
Write(i, kd) ==
    /\ Kind(i) = "none"
    /\ plat' = [plat EXCEPT ![i] = [@ EXCEPT !.kind = kd, !.nr = 1]]
    /\ sent' = sent \cup {[item |-> i, verb |-> "add", nr |-> 1]}
    /\ msg' = IF kd = "echo" THEN [msg EXCEPT ![i].stored = TRUE] ELSE msg
    /\ UNCHANGED <<resync, ledger, wk, thread, reading, reward>>

\* What can happen to an item.  A comment is edited, hidden, shown again and
\* removed, a direct message edited and unsent.
Changeable(i, v) ==
    /\ Kind(i) \in {"comment", "direct_message"} /\ ~plat[i].removed
    /\ Kind(i) = "direct_message" => v \in {"edit", "remove"}
    /\ v = "hide" => ~plat[i].hidden
    /\ v = "unhide" => plat[i].hidden

Changed(p, v) ==
    [p EXCEPT !.nr = @ + 1,
              !.hidden = IF v = "hide" THEN TRUE ELSE IF v = "unhide" THEN FALSE ELSE @,
              !.removed = @ \/ v = "remove",
              !.body = IF v = "edit" THEN p.nr + 1 ELSE @]

Change(i, v) ==
    /\ Changeable(i, v)
    /\ plat[i].nr < MaxChanges
    /\ plat' = [plat EXCEPT ![i] = Changed(@, v)]
    /\ sent' = sent \cup {[item |-> i, verb |-> v, nr |-> plat[i].nr + 1]}
    /\ UNCHANGED <<resync, ledger, wk, inbox, reward>>

-----------------------------------------------------------------------------
(* The webhook (MetaWebhookService.ingest, insertIgnoringDuplicate).        *)

\* composeDedupKey: the platform's id and the verb.
DedupKey(ev) == <<ev.item, ev.verb>>

\* The next value of the ledger's id sequence.
NextId == Cardinality({k \in Keys : rows[k].id # 0}) + 1

Inserted(nr, history) ==
    [NoRow EXCEPT !.status = "pending", !.id = NextId, !.nr = nr, !.history = history]

LaneOf(history) == IF history THEN "history" ELSE "live"

LastInLine(k, history) == [queue EXCEPT ![LaneOf(history)] = Append(@, k)]
FirstInLine(k, history) == [queue EXCEPT ![LaneOf(history)] = <<k>> \o @]

\* A delivery, or one of its repetitions.  ON CONFLICT DO NOTHING: a row with
\* this key makes it a success that stores nothing.
Ingest(ev) ==
    /\ ev \in sent
    /\ IF rows[DedupKey(ev)].status = "none"
       THEN /\ rows' = [rows EXCEPT ![DedupKey(ev)] = Inserted(ev.nr, FALSE)]
            /\ queue' = LastInLine(DedupKey(ev), FALSE)
       ELSE UNCHANGED ledger
    /\ UNCHANGED <<meta, wk, inbox, reward>>

\* Per-item isolation: the delivery is answered with 200 all the same, so Meta
\* does not repeat it.
IngestFails(ev) ==
    /\ "store" \in Faults
    /\ ev \in sent /\ rows[DedupKey(ev)].status = "none"
    /\ sent' = sent \ {ev}
    /\ UNCHANGED <<plat, resync, ledger, wk, inbox, reward>>

-----------------------------------------------------------------------------
(* History (BackfillWorker; how a walk is leased, resumed and ended is       *)
(* SyncJobs).                                                               *)

\* page: the walk that reads an item.
WalkOf(kd) ==
    IF kd \in {"comment", "own_comment"} THEN "comments"
    ELSE IF kd = "mention" THEN "mentions" ELSE "messages"

\* The platform shows an item until it is removed.
Shown(i) == Kind(i) # "none" /\ ~plat[i].removed

\* A walk composes the key that the delivery of the item itself has.
HistoryKey(i) == <<i, "add">>

\* One insert of a walk, with the wording it read.  A walk may get to an item at
\* any time, or never: it reads one nested page of comments or messages only.  An
\* item the ledger has a row for, whatever became of that row, stores nothing.
Copy(i) ==
    /\ Shown(i) /\ rows[HistoryKey(i)].status = "none"
    /\ rows' = [rows EXCEPT ![HistoryKey(i)] = Inserted(plat[i].body, TRUE)]
    /\ queue' = LastInLine(HistoryKey(i), TRUE)
    /\ UNCHANGED <<meta, wk, inbox, reward>>

\* commentPage, and instagramMediaPage likewise.
CopyComment(i) ==
    WalkOf(Kind(i)) = "comments" /\ "comments" \in Walks /\ Copy(i)

\* instagramTagPage names the author, which the delivery of a mention does not.
CopyMention(i) ==
    WalkOf(Kind(i)) = "mentions" /\ "mentions" \in Walks /\ Copy(i)

\* emitMessages: the walk of the account, and the job about one thread.
CopyMessage(i) ==
    WalkOf(Kind(i)) = "messages" /\ ("messages" \in Walks \/ resync) /\ Copy(i)

\* conversationSlice: the job about one person is finished after one page,
\* whatever that page held.
EndResync ==
    /\ resync
    /\ resync' = FALSE
    /\ UNCHANGED <<plat, sent, ledger, wk, inbox, reward>>

-----------------------------------------------------------------------------
(* The projector (InboundProjectorWorker.pollOnce).                         *)

Lesser(m, n) == IF m < n THEN m ELSE n

\* How many rows of each lane are among the first BatchSize.
LiveTaken == Lesser(BatchSize, Len(queue["live"]))
Taken(lane) ==
    IF lane = "live" THEN LiveTaken
    ELSE Lesser(BatchSize - LiveTaken, Len(queue["history"]))

FirstOf(lane) == {queue[lane][j] : j \in 1 .. Taken(lane)}
FirstRows == FirstOf("live") \cup FirstOf("history")

Claimed(r, w) ==
    [r EXCEPT !.status = "processing", !.owner = w, !.leased = TRUE, !.attempts = @ + 1]

\* claimBatch: the first BatchSize due rows, in one statement.
Claim(w) ==
    /\ wk[w].phase = "idle"
    /\ FirstRows # {}
    /\ rows' = [k \in Keys |-> IF k \in FirstRows THEN Claimed(rows[k], w) ELSE rows[k]]
    /\ queue' = [lane \in Lanes |->
                   SubSeq(queue[lane], Taken(lane) + 1, Len(queue[lane]))]
    /\ wk' = [wk EXCEPT ![w] = [@ EXCEPT !.phase = "batch", !.batch = FirstRows]]
    /\ UNCHANGED <<meta, inbox, reward>>

NotAfter(k, j) ==
    IF rows[k].history = rows[j].history THEN rows[k].id <= rows[j].id ELSE rows[j].history

\* Rows of a batch are projected one after the other, by priority and id.
Projecting(w, k) ==
    /\ wk[w].phase = "batch"
    /\ k \in wk[w].batch
    /\ \A j \in wk[w].batch : NotAfter(k, j)

At(w, phase, k) == wk[w].phase = phase /\ wk[w].at = k

GoTo(w, k, phase, facts) ==
    wk' = [wk EXCEPT ![w] = [@ EXCEPT !.phase = phase, !.at = k, !.facts = facts]]

\* The loop of pollOnce takes the next row of the batch, or ends.
Advance(w, k) ==
    LET left == wk[w].batch \ {k} IN
    wk' = [wk EXCEPT ![w] = [@ EXCEPT !.phase = IF left = {} THEN "idle" ELSE "batch",
                                      !.batch = left, !.at = NoKey, !.facts = "none"]]

-----------------------------------------------------------------------------
(* What a projector's transaction commits.                                  *)

\* Mutant of Inserts: no unique index on the platform's message id.
AlwaysInserts(m) == TRUE

\* messages_platform_uniq lets the row in: ON CONFLICT DO NOTHING otherwise.
Inserts(m) == ~m.stored

\* Mutants of Counted: counts the row whether or not it was inserted; sets the
\* badge instead of raising it.
CountedAgain(t, m, inbound) ==
    [t EXCEPT !.count = @ + 1, !.unread = IF inbound THEN @ + 1 ELSE @]
BadgeOfOne(t, m, inbound) ==
    IF Inserts(m) THEN [t EXCEPT !.count = @ + 1, !.unread = IF inbound THEN 1 ELSE @]
    ELSE t

\* conversations.recordMessage, only for a message the unique index let in.
Counted(t, m, inbound) ==
    IF Inserts(m)
    THEN [t EXCEPT !.count = @ + 1, !.unread = IF inbound THEN @ + 1 ELSE @]
    ELSE t

\* insertInbound / insertRecoveredOutbound.
Stored(m, inbound, body) ==
    IF Inserts(m)
    THEN [m EXCEPT !.stored = TRUE, !.inbound = inbound, !.read = ~inbound, !.body = body]
    ELSE m

\* The wording a row carries: the first one, or the one the walk read.
Wording(k) == IF rows[k].history THEN rows[k].nr ELSE 0

\* applyPlatformModeration.
Moderated(m, v, nr) ==
    [m EXCEPT !.body    = IF v = "edit" THEN nr ELSE @,
              !.hidden  = IF v = "hide" THEN TRUE ELSE IF v = "unhide" THEN FALSE ELSE @,
              !.removed = @ \/ v = "remove"]

\* CommentProjectorService.applyModeration: a removal or a hide takes the award
\* back.  Without a stored message there is nothing to apply it to.
ProjectModeration(w, k) ==
    /\ k[2] \in Moderations /\ Kind(k[1]) = "comment"
    /\ Projecting(w, k)
    /\ IF msg[k[1]].stored
       THEN /\ msg' = [msg EXCEPT ![k[1]] = Moderated(@, k[2], rows[k].nr)]
            /\ GoTo(w, k, "projected",
                    IF k[2] \in {"remove", "hide"} THEN "reversal" ELSE "none")
       ELSE UNCHANGED msg /\ GoTo(w, k, "skipping", "none")
    /\ UNCHANGED <<meta, ledger, thread, reading, reward>>

\* handleUnsend: marked where we hold it, and skipped either way; no award is
\* taken back.
ProjectUnsend(w, k) ==
    /\ k[2] = "remove" /\ Kind(k[1]) = "direct_message"
    /\ Projecting(w, k)
    /\ msg' = IF msg[k[1]].stored THEN [msg EXCEPT ![k[1]] = Moderated(@, "remove", rows[k].nr)]
              ELSE msg
    /\ GoTo(w, k, "skipping", "none")
    /\ UNCHANGED <<meta, ledger, thread, reading, reward>>

\* handleMessageEdit: the edit of a message we hold changes nothing.  An edit may
\* overtake its message, so the first passes fail on purpose; after them the
\* delivery counts as lost, and the conversation is to be read again
\* (enqueueIfAbsent: a job that is in the slot already is left to it).
ProjectMessageEdit(w, k) ==
    /\ k[2] = "edit" /\ Kind(k[1]) = "direct_message"
    /\ Projecting(w, k)
    /\ LET waits == ~msg[k[1]].stored /\ rows[k].attempts <= GraceAttempts
           lost  == ~msg[k[1]].stored /\ ~waits IN
       /\ GoTo(w, k, IF waits THEN "failing" ELSE "skipping", "none")
       /\ resync' = (resync \/ lost)
    /\ UNCHANGED <<plat, sent, ledger, inbox, reward>>

\* Only the transaction that inserted the message hands out its facts.
Outcome(w, k, facts) ==
    IF Inserts(msg[k[1]]) THEN GoTo(w, k, "projected", facts)
    ELSE GoTo(w, k, "skipping", "none")

\* One transaction: the thread, the message, the counters.
StoreCustomer(w, k) ==
    /\ Projecting(w, k)
    /\ thread' = Counted(thread, msg[k[1]], TRUE)
    /\ msg' = [msg EXCEPT ![k[1]] = Stored(@, TRUE, Wording(k))]
    /\ Outcome(w, k, "trigger")
    /\ UNCHANGED <<meta, ledger, reading, reward>>

\* CommentProjectorService.store
ProjectComment(w, k) ==
    k[2] = "add" /\ Kind(k[1]) = "comment" /\ StoreCustomer(w, k)

\* projectMention, once the Mentions API, or the walk, has named the author.
ProjectMention(w, k) ==
    k[2] = "add" /\ Kind(k[1]) = "mention" /\ StoreCustomer(w, k)

\* A live mention that cannot be resolved has no author and is skipped for good;
\* one the API is too busy for is a projection that throws.
MentionUnreadable(w, k) ==
    /\ "mentions" \in Faults
    /\ k[2] = "add" /\ Kind(k[1]) = "mention" /\ ~rows[k].history
    /\ Projecting(w, k)
    /\ GoTo(w, k, "skipping", "none")
    /\ UNCHANGED <<meta, ledger, inbox, reward>>

\* DirectMessageProjectorService.project
ProjectDirectMessage(w, k) ==
    k[2] = "add" /\ Kind(k[1]) = "direct_message" /\ StoreCustomer(w, k)

\* DirectMessageProjectorService.projectOwnMessage: a send the portal recorded
\* is skipped, one typed in the app is stored as outbound.
ProjectOwnMessage(w, k) ==
    /\ k[2] = "add" /\ Kind(k[1]) \in {"echo", "app_reply"}
    /\ Projecting(w, k)
    /\ thread' = Counted(thread, msg[k[1]], FALSE)
    /\ msg' = [msg EXCEPT ![k[1]] = Stored(@, FALSE, Wording(k))]
    /\ Outcome(w, k, "none")
    /\ UNCHANGED <<meta, ledger, reading, reward>>

\* isOwnAuthor: skipped before anything is written.
ProjectOwnComment(w, k) ==
    /\ k[2] = "add" /\ Kind(k[1]) = "own_comment"
    /\ Projecting(w, k)
    /\ GoTo(w, k, "skipping", "none")
    /\ UNCHANGED <<meta, ledger, inbox, reward>>

\* The projector throws; its transaction leaves nothing behind.
ProjectFails(w, k) ==
    /\ "projection" \in Faults
    /\ Projecting(w, k)
    /\ GoTo(w, k, "failing", "none")
    /\ UNCHANGED <<meta, ledger, inbox, reward>>

-----------------------------------------------------------------------------
(* Settling the row (InboundEventRepository).                               *)

\* Mutant of Fenced: any worker settles any row.
Unfenced(w, k) == TRUE

Fenced(w, k) == rows[k].owner = w

Release(r, status) == [r EXCEPT !.status = status, !.owner = NoWorker, !.leased = FALSE]

Settle(w, k, status) ==
    rows' = IF Fenced(w, k) THEN [rows EXCEPT ![k] = Release(@, status)] ELSE rows

\* The rewards are offered whatever the fence said.
MarkProcessed(w, k) ==
    /\ At(w, "projected", k)
    /\ Settle(w, k, "processed")
    /\ GoTo(w, k, "offering", wk[w].facts)
    /\ UNCHANGED <<meta, queue, inbox, reward>>

MarkSkipped(w, k) ==
    /\ At(w, "skipping", k)
    /\ Settle(w, k, "skipped")
    /\ Advance(w, k)
    /\ UNCHANGED <<meta, queue, inbox, reward>>

OutOfAttempts(r) == r.attempts >= MaxAttempts

MarkFailed(w, k) ==
    /\ At(w, "failing", k)
    /\ Settle(w, k, IF OutOfAttempts(rows[k]) THEN "dead_letter" ELSE "failed")
    /\ Advance(w, k)
    /\ UNCHANGED <<meta, queue, inbox, reward>>

\* offerToRewards, then reverseRewards: neither can fail the row.
OfferToRewards(w, k) ==
    /\ At(w, "offering", k)
    /\ offered' = IF wk[w].facts = "trigger" THEN [offered EXCEPT ![k[1]] = @ + 1]
                  ELSE offered
    /\ reversed' = IF wk[w].facts = "reversal" THEN reversed \cup {k[1]} ELSE reversed
    /\ Advance(w, k)
    /\ UNCHANGED <<meta, ledger, inbox>>

RewardsThrow(w, k) ==
    /\ "rewards" \in Faults
    /\ At(w, "offering", k)
    /\ Advance(w, k)
    /\ UNCHANGED <<meta, ledger, inbox, reward>>

\* A settling statement throws.  Inside the try it becomes a failed row; when
\* markFailed itself throws, the poll ends and the rest of the batch is left to
\* the reaper.
StatementFails(w, k) ==
    /\ "db" \in Faults
    /\ \/ /\ At(w, "projected", k) \/ At(w, "skipping", k)
          /\ GoTo(w, k, "failing", "none")
       \/ /\ At(w, "failing", k)
          /\ wk' = [wk EXCEPT ![w] = IdleWorker]
    /\ UNCHANGED <<meta, ledger, inbox, reward>>

\* A dead process is replaced under a new identity, so one is always running.
Crash(w) ==
    /\ "crash" \in Faults
    /\ wk[w].phase # "dead"
    /\ \E v \in Workers \ {w} : wk[v].phase # "dead"
    /\ wk' = [wk EXCEPT ![w] = [IdleWorker EXCEPT !.phase = "dead"]]
    /\ UNCHANGED <<meta, ledger, inbox, reward>>

-----------------------------------------------------------------------------
(* Time and the reaper.                                                     *)

\* The lease runs out: under a dead worker, under one whose poll ended early,
\* or under one that is slower than WORKER_LEASE_SECONDS.
Abandoned(k) == \A w \in Workers : k \notin wk[w].batch

LeaseExpires(k) ==
    /\ rows[k].status = "processing"
    /\ rows[k].leased
    /\ Abandoned(k) \/ "slow" \in Faults
    /\ rows' = [rows EXCEPT ![k].leased = FALSE]
    /\ UNCHANGED <<meta, queue, wk, inbox, reward>>

Reclaimed(r) == Release(r, IF OutOfAttempts(r) THEN "dead_letter" ELSE "pending")

\* Mutant of Reapable: only rows in the status no claim writes any more.
ReapableLeased(k) == rows[k].status = "leased" /\ ~rows[k].leased

Reapable(k) == rows[k].status = "processing" /\ ~rows[k].leased

\* reclaimExpiredLeases: next_attempt_at is untouched, so the row is due before
\* everything that became due later.
Reclaim(k) ==
    /\ Reapable(k)
    /\ rows' = [rows EXCEPT ![k] = Reclaimed(@)]
    /\ queue' = IF Reclaimed(rows[k]).status = "pending" THEN FirstInLine(k, rows[k].history)
                ELSE queue
    /\ UNCHANGED <<meta, wk, inbox, reward>>

InQueue(k) == \E lane \in Lanes : \E j \in 1 .. Len(queue[lane]) : queue[lane][j] = k

\* The backoff of a failed row is over.
BecomeDue(k) ==
    /\ rows[k].status = "failed"
    /\ ~InQueue(k)
    /\ queue' = LastInLine(k, rows[k].history)
    /\ UNCHANGED <<meta, rows, wk, inbox, reward>>

-----------------------------------------------------------------------------
(* The agent (InboxService.markRead).                                       *)

\* Two statements, no transaction: the badge, then the messages.
MarkReadBadge ==
    /\ AgentReads /\ ~reading
    /\ thread' = [thread EXCEPT !.unread = 0]
    /\ reading' = TRUE
    /\ UNCHANGED <<meta, ledger, wk, msg, reward>>

MarkReadMessages ==
    /\ reading
    /\ msg' = [i \in Items |-> IF msg[i].stored /\ msg[i].inbound
                               THEN [msg[i] EXCEPT !.read = TRUE] ELSE msg[i]]
    /\ reading' = FALSE
    /\ UNCHANGED <<meta, ledger, wk, thread, reward>>

-----------------------------------------------------------------------------
ProjectRow(w, k) ==
    \/ ProjectModeration(w, k) \/ ProjectUnsend(w, k) \/ ProjectMessageEdit(w, k)
    \/ ProjectMention(w, k)    \/ MentionUnreadable(w, k)
    \/ ProjectComment(w, k)    \/ ProjectDirectMessage(w, k)
    \/ ProjectOwnMessage(w, k) \/ ProjectOwnComment(w, k)
    \/ ProjectFails(w, k)

SettleRow(w, k) ==
    \/ MarkProcessed(w, k) \/ MarkSkipped(w, k) \/ MarkFailed(w, k)
    \/ OfferToRewards(w, k) \/ RewardsThrow(w, k) \/ StatementFails(w, k)

Next ==
    \/ \E i \in Items, kd \in Kinds : Write(i, kd)
    \/ \E i \in Items, v \in Moderations : Change(i, v)
    \/ EndResync
    \/ \E i \in Items : CopyComment(i) \/ CopyMention(i) \/ CopyMessage(i)
    \/ \E ev \in sent : Ingest(ev) \/ IngestFails(ev)
    \/ \E w \in Workers : Claim(w) \/ Crash(w)
    \/ \E w \in Workers, k \in Keys : ProjectRow(w, k) \/ SettleRow(w, k)
    \/ \E k \in Keys : LeaseExpires(k) \/ Reclaim(k) \/ BecomeDue(k)
    \/ MarkReadBadge \/ MarkReadMessages

Spec == Init /\ [][Next]_vars

-----------------------------------------------------------------------------
(* Safety.                                                                  *)

\* The counter the inbox list renders from counts each stored message once,
\* although rows are projected again after crashes, lapsed leases and failed
\* settles (recordMessage only after insertInbound returned a row).
CountersExact ==
    thread.count = Cardinality({i \in Items : msg[i].stored /\ Kind(i) # "echo"})

\* A customer's message is offered to the reward engine at most once, by the
\* one transaction that stored it, whichever workers project it again.
OfferedAtMostOnce ==
    \A i \in Items :
        /\ offered[i] <= 1
        /\ offered[i] = 1 => \A w \in Workers :
              ~(wk[w].facts = "trigger" /\ wk[w].at = <<i, "add">>)

\* A row that is neither work nor a dead letter has done its work: what a
\* customer wrote, or we wrote in the app, is in the inbox.  A live mention
\* nobody could resolve is the exception.
NothingSilentlyDropped ==
    \A i \in Items :
        (rows[<<i, "add">>].status \in {"processed", "skipped"}
           /\ Kind(i) # "own_comment"
           /\ (Kind(i) = "mention" => rows[<<i, "add">>].history))
        => msg[i].stored

\* A row is handed to at most max_attempts workers, the ones it killed
\* included.
AttemptsWithinBudget == \A k \in Keys : rows[k].attempts <= MaxAttempts

\* NothingLostOrDoubled: whatever crashes, lapsed leases and failed statements
\* make of a delivery, and whichever history walks copy the same item, its
\* message is stored, is offered to the reward engine at most once, and its row
\* does not go round for ever (projectRow, offerToRewards, reclaimExpiredLeases
\* and markFailed, which dead-letter).
NothingLostOrDoubled ==
    /\ TypeOK
    /\ OfferedAtMostOnce
    /\ NothingSilentlyDropped
    /\ AttemptsWithinBudget

\* The badge never hides a message nobody has read, whenever one arrives while
\* an agent opens the thread: the badge is cleared before the messages are
\* marked (InboxService.markRead).
BadgeShowsUnread ==
    ~reading =>
        thread.unread >= Cardinality({i \in Items :
                            msg[i].stored /\ msg[i].inbound /\ ~msg[i].read})

-----------------------------------------------------------------------------
(* Refinement.                                                              *)

QueueState(k) ==
    IF rows[k].status = "none" THEN "absent"
    ELSE IF rows[k].status \in {"pending", "failed"} THEN "waiting"
    ELSE IF rows[k].status = "processing" THEN "held"
    ELSE rows[k].status

\* The rows of its batch that a worker has yet to settle.
QueueHands(w) == wk[w].batch \ (IF wk[w].phase = "offering" THEN {wk[w].at} ELSE {})

Queue == INSTANCE LeasedQueue WITH
    Entries <- Keys, Holders <- Workers, Nobody <- NoWorker,
    Outcomes <- SettledStatuses, Amendments <- {},
    state <- [k \in Keys |-> QueueState(k)],
    owner <- [k \in Keys |-> rows[k].owner],
    hands <- [w \in Workers |-> QueueHands(w)],
    lapsed <- {k \in Keys : Reapable(k)}

\* InboundIsLeasedQueue: the ledger of deliveries is a leased queue.  A worker
\* that lost its lease cannot take back what the next owner recorded, a settled
\* row never becomes work again, and the reaper takes a row only when its lease
\* is over (the fences of markProcessed, markSkipped and markFailed).
InboundIsLeasedQueue == Queue!Spec

-----------------------------------------------------------------------------
(* Liveness.                                                                *)

\* The pollers, the reaper and the clock keep running and every awaited call
\* returns.  Nothing is assumed of the platform, the agents or the faults.
Fairness ==
    /\ \A w \in Workers :
        /\ WF_vars(Claim(w))
        /\ WF_vars(\E k \in Keys : ProjectRow(w, k) \/ SettleRow(w, k))
    /\ WF_vars(\E k \in Keys : LeaseExpires(k))
    /\ WF_vars(\E k \in Keys : Reclaim(k))
    /\ WF_vars(\E k \in Keys : BecomeDue(k))

FairSpec == Spec /\ Fairness

\* The backlog is always cleared again: whatever is stored is eventually
\* processed, skipped or dead-lettered, however often its projection throws,
\* stalls or kills its worker.
EveryEventSettles ==
    []<>(\A k \in Keys : rows[k].status \in SettledStatuses \cup {"none"})

=============================================================================
