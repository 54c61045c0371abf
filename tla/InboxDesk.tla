------------------------------ MODULE InboxDesk ------------------------------
(***************************************************************************)
(* What agents do with a thread: InboxService.reply, setStatus and assign  *)
(* over ConversationRepository and MessageRepository, while customers go   *)
(* on writing.                                                             *)
(*                                                                         *)
(* Each request reads the thread, decides, and writes later; a client      *)
(* whose answer was lost sends the request again with its idempotency key. *)
(* Message texts, audit rows and the permission of each kind of thread are *)
(* left out; sending what was queued is in OutboundRelay and the badge in  *)
(* InboundLedger.                                                          *)
(***************************************************************************)
EXTENDS Naturals, FiniteSets, Sequences, FiniteSetsExt

CONSTANTS
    Threads,      \* conversations
    KindOf,       \* the kind of each
    IdemKeys,     \* idempotency keys that clients choose
    Requests,     \* requests in flight at the same time
    Assignees,    \* employees a thread may be given to
    StatusesAsked,\* bound: the statuses agents ask for
    WindowHours,  \* MESSAGING_WINDOW_MS
    LastHour,     \* bound: hours in a behaviour
    MaxWrites     \* bound: messages customers write in a behaviour

ThreadKinds == {"direct", "comment", "mention", "tagged", "review"}

ASSUME DeskAssumption ==
    /\ KindOf \in [Threads -> ThreadKinds]
    /\ StatusesAsked \subseteq {"open", "pending", "resolved", "closed", "archived"}
    /\ WindowHours \in Nat /\ LastHour \in Nat /\ MaxWrites \in Nat

VARIABLES
    hour,      \* the clock, from 1
    thread,    \* conversations
    outgoing,  \* outbound rows of messages, and whether each has its event
    request,   \* the requests in flight
    writes,    \* messages customers wrote so far
    received,  \* history: messages received, by thread
    answered,  \* history: what a client was told, with what it had asked
    overruled  \* history: threads whose status was written by a request that
               \* had read them before the customer's last message

deskVars == <<hour, thread, outgoing, request, writes, received, answered, overruled>>

ThreadStatuses == {"open", "pending", "resolved", "closed", "archived"}
CLOSED_TO_REPLIES == {"resolved", "closed", "archived"}
Never == 0
Nobody == "nobody"
NoRequest == [what |-> "nothing"]

ThreadType == [status : ThreadStatuses, lastInboundAt : 0 .. LastHour,
               assignedTo : Assignees \cup {Nobody}, messageCount : Nat, unseen : BOOLEAN]

DeskInit ==
    /\ hour = 1
    /\ thread = [t \in Threads |-> [status |-> "open", lastInboundAt |-> Never, assignedTo |-> Nobody,
                                    messageCount |-> 0, unseen |-> FALSE]]
    /\ outgoing = << >>
    /\ request = [r \in Requests |-> NoRequest]
    /\ writes = 0
    /\ received = [t \in Threads |-> 0]
    /\ answered = {}
    /\ overruled = {}

-----------------------------------------------------------------------------
(* Customers and time.                                                     *)

\* ConversationRepository.upsert: a new message reopens a closed thread.
StatusAfterMessage_NotArchived(status) ==
    IF status \in {"resolved", "closed"} THEN "open" ELSE status

StatusAfterMessage(status) == IF status \in {"resolved", "closed", "archived"} THEN "open" ELSE status

\* unseen marks, for the requests in flight, that the thread they read has
\* moved on.
CustomerWrites(t) ==
    /\ writes < MaxWrites
    /\ writes' = writes + 1
    /\ thread' = [thread EXCEPT ![t].status = StatusAfterMessage(@), ![t].lastInboundAt = hour,
                                ![t].messageCount = @ + 1, ![t].unseen = TRUE]
    /\ received' = [received EXCEPT ![t] = @ + 1]
    /\ request' = [r \in Requests |-> IF request[r].what # "nothing" /\ request[r].thread = t
                                      THEN [request[r] EXCEPT !.stale = TRUE] ELSE request[r]]
    /\ overruled' = overruled \ {t}
    /\ UNCHANGED <<hour, outgoing, answered>>

AnHourPasses ==
    /\ hour < LastHour
    /\ hour' = hour + 1
    /\ UNCHANGED <<thread, outgoing, request, writes, received, answered, overruled>>

-----------------------------------------------------------------------------
(* Replying.                                                               *)

replyEventTypeFor(kind) == IF kind = "review" THEN "none" ELSE kind

\* status is "unknown" where the caller has checked it already.
evaluateReplyWindow(kind, lastInboundAt, status) ==
    /\ status \notin CLOSED_TO_REPLIES
    /\ replyEventTypeFor(kind) # "none" /\ kind # "tagged"
    /\ kind = "direct" => lastInboundAt # Never /\ hour - lastInboundAt <= WindowHours

\* What the list and the thread tell the agent.
canReply(kind, lastInboundAt, status) == evaluateReplyWindow(kind, lastInboundAt, status)

ClosedFor(status, note) == status = "archived" \/ (status \in CLOSED_TO_REPLIES /\ ~note)

Begin(r, what) ==
    /\ request[r] = NoRequest
    /\ request' = [request EXCEPT ![r] = what]
    /\ UNCHANGED <<hour, thread, outgoing, writes, received, answered, overruled>>

\* requireConversation: an archived or closed thread is refused here.
reply(r, key, t, note) ==
    /\ ~ClosedFor(thread[t].status, note)
    /\ Begin(r, [what |-> "reply", phase |-> "read", key |-> key, thread |-> t, note |-> note,
                 lastInboundAt |-> thread[t].lastInboundAt, stale |-> FALSE])

HeldBy(key) == {i \in DOMAIN outgoing : outgoing[i].key = key}

\* A key that was used for another thread, or for a note, is refused.
SameRequest(q, m) == m.thread = q.thread /\ m.note = q.note

Answer(q, i) == answered' = answered \cup {[asked |-> <<q.thread, q.note>>, got |-> <<outgoing[i].thread, outgoing[i].note>>]}

End(r) == request' = [request EXCEPT ![r] = NoRequest]

findByIdempotencyKey(r) ==
    LET q == request[r] IN
    /\ q.what = "reply" /\ q.phase = "read" /\ HeldBy(q.key) # {}
    /\ \E i \in HeldBy(q.key) :
          IF SameRequest(q, outgoing[i]) THEN Answer(q, i) ELSE UNCHANGED answered
    /\ End(r)
    /\ UNCHANGED <<hour, thread, outgoing, writes, received, overruled>>

\* The channel and the window, which is judged by the customer's message that
\* was read with the thread. Connections decides whether the channel is
\* healthy; quotable: the message the reply quotes, if any, can be quoted.
CheckReply(r, healthy, quotable) ==
    LET q == request[r]
        accepted == quotable /\ (q.note \/ (healthy /\ evaluateReplyWindow(KindOf[q.thread], q.lastInboundAt, "unknown"))) IN
    /\ q.what = "reply" /\ q.phase = "read" /\ HeldBy(q.key) = {}
    /\ request' = [request EXCEPT ![r] = IF accepted THEN [@ EXCEPT !.phase = "cleared"] ELSE NoRequest]
    /\ UNCHANGED <<hour, thread, outgoing, writes, received, answered, overruled>>

\* messages_idempotency_uniq; a collision rolls the transaction back.
CollidesOnKey_Never(key) == FALSE

CollidesOnKey(key) == HeldBy(key) # {}

recordMessage(t, inserted) == IF inserted THEN [thread EXCEPT ![t].messageCount = @ + 1] ELSE thread

CommitReply(r) ==
    LET q == request[r]
        inserted == ~CollidesOnKey(q.key) IN
    /\ q.what = "reply" /\ q.phase = "cleared"
    /\ outgoing' = IF inserted
                   THEN Append(outgoing, [key |-> q.key, thread |-> q.thread, note |-> q.note, queued |-> ~q.note])
                   ELSE outgoing
    /\ thread' = recordMessage(q.thread, inserted)
    /\ End(r)
    /\ UNCHANGED <<hour, writes, received, answered, overruled>>

-----------------------------------------------------------------------------
(* Triage.                                                                 *)

\* A thread already in the state asked for is left alone.
setStatus(r, t, status) ==
    /\ thread[t].status # status
    /\ Begin(r, [what |-> "status", thread |-> t, status |-> status, stale |-> FALSE])

WriteThreadStatus(r) ==
    LET q == request[r] IN
    /\ q.what = "status"
    /\ thread' = [thread EXCEPT ![q.thread].status = q.status, ![q.thread].unseen = @ /\ q.stale]
    /\ overruled' = IF q.stale THEN overruled \cup {q.thread} ELSE overruled \ {q.thread}
    /\ End(r)
    /\ UNCHANGED <<hour, outgoing, writes, received, answered>>

\* The employee is looked up first and must be active, which Staffing decides.
assign(r, t, e) ==
    /\ thread[t].assignedTo # e
    /\ Begin(r, [what |-> "assign", thread |-> t, to |-> e, stale |-> FALSE])

WriteAssignee(r) ==
    LET q == request[r] IN
    /\ q.what = "assign"
    /\ thread' = [thread EXCEPT ![q.thread].assignedTo = q.to]
    /\ End(r)
    /\ UNCHANGED <<hour, outgoing, writes, received, answered, overruled>>

\* The process dies, or the client goes away, before anything is written.
RequestLost(r) ==
    /\ request[r] # NoRequest
    /\ End(r)
    /\ UNCHANGED <<hour, thread, outgoing, writes, received, answered, overruled>>

DeskNext ==
    \/ AnHourPasses
    \/ \E t \in Threads : CustomerWrites(t)
    \/ \E r \in Requests :
        \/ \E t \in Threads :
            \/ \E key \in IdemKeys, note \in BOOLEAN : reply(r, key, t, note)
            \/ \E status \in StatusesAsked : setStatus(r, t, status)
            \/ \E e \in Assignees \cup {Nobody} : assign(r, t, e)
        \/ findByIdempotencyKey(r) \/ (\E healthy, quotable \in BOOLEAN : CheckReply(r, healthy, quotable)) \/ CommitReply(r)
        \/ WriteThreadStatus(r) \/ WriteAssignee(r) \/ RequestLost(r)

DeskSpec == DeskInit /\ [][DeskNext]_deskVars

-----------------------------------------------------------------------------
\* A reply is stored once however often its request is sent, also when two of
\* them are handled at the same time and both find the key unused.
OneMessagePerKey == \A key \in IdemKeys : Cardinality(HeldBy(key)) <= 1

\* A client that is told its reply was stored is told so of a message in the
\* thread it named and of the sort it meant: a note is never taken for a
\* message that was sent, nor the other way round.
AnswerIsToTheRequest == \A a \in answered : a.asked = a.got

\* ReplyIsIdempotent: a request that is sent again, concurrently or later, adds
\* nothing and is answered with what it asked for (reply, findByIdempotencyKey
\* and messages_idempotency_uniq).
ReplyIsIdempotent == OneMessagePerKey /\ AnswerIsToTheRequest

\* The number a thread shows is the number of messages in it, replies refused
\* by a collision included in neither.
CountFollowsMessages ==
    \A t \in Threads :
        thread[t].messageCount
            = received[t] + Cardinality({i \in DOMAIN outgoing : outgoing[i].thread = t})

\* A thread with a customer's message that came after it was closed is open
\* again, unless a request that had read it before that message wrote its
\* status after it.
NewMessageIsNotBuried ==
    \A t \in Threads :
        (thread[t].unseen /\ thread[t].status \in CLOSED_TO_REPLIES) => t \in overruled

\* Where the inbox offers a reply, the checks that reply makes of the same
\* thread at the same moment let it through, and where it offers none they
\* refuse it.
OfferedReplyIsTaken ==
    \A kind \in ThreadKinds, status \in ThreadStatuses, at \in 0 .. hour :
        canReply(kind, at, status)
            <=> ~ClosedFor(status, FALSE) /\ evaluateReplyWindow(kind, at, "unknown")

\* ThreadStateIsTrue: what agents see of a thread is true of it while replies,
\* arrivals, assignments and status changes overlap (recordMessage, upsert,
\* setStatus, evaluateReplyWindow).
ThreadStateIsTrue == CountFollowsMessages /\ NewMessageIsNotBuried /\ OfferedReplyIsTaken
=============================================================================
