----------------------------- MODULE Moderation -----------------------------
(***************************************************************************)
(* Hiding, unhiding and deleting one comment on a post of ours:            *)
(* InboxService.moderateComment and retryModeration, the rows they write   *)
(* in messages and outbound_events, the relay that carries them out and    *)
(* what the platform reports of it.                                        *)
(*                                                                         *)
(* The copy is marked before the platform is asked, since Instagram never  *)
(* reports a moderation and Facebook does; several agents, the relay and   *)
(* the page's other administrators act at the same time.  A delivery is    *)
(* one step: its leases are in OutboundRelay, and of them only the retries *)
(* and the order of two events matter here.                                *)
(***************************************************************************)
EXTENDS Naturals, Sequences

CONSTANTS
    Agents,        \* employees who may manage comments
    MayHide,       \* those of them with comments.hide
    MayDelete,     \* those of them with comments.delete
    MaxSends,      \* MAX_SEND_ATTEMPTS
    MaxReplays,    \* MAX_MODERATION_REPLAYS
    MaxModerations,\* bound: moderation events in a behaviour
    MaxOutside,    \* bound: changes made by others on the platform
    LastStamp      \* bound: milliseconds in which something happens

ASSUME ModerationAssumption ==
    /\ MayHide \subseteq Agents /\ MayDelete \subseteq Agents
    /\ MaxSends \in Nat \ {0} /\ MaxReplays \in Nat
    /\ MaxModerations \in Nat /\ MaxOutside \in Nat /\ LastStamp \in Nat

VARIABLES
    clock,    \* the millisecond
    copy,     \* the row of the comment in messages
    event,    \* outbound_events about the comment, oldest first
    platform, \* the comment on the platform
    hooks,    \* webhooks of the comment, oldest first
    reports,  \* Facebook sends a webhook for each change, Instagram none
    outside,  \* changes others made so far
    asked,    \* history: the agent who last put each event into the queue
    died,     \* history: how often each event was dead-lettered
    overtook  \* history: an event reached the platform after a later one was queued

moderationVars == <<clock, copy, event, platform, hooks, reports, outside, asked, died, overtook>>

Actions == {"hide", "unhide", "delete"}

CopyType == [hidden : BOOLEAN, gone : BOOLEAN, byUs : BOOLEAN, updatedAt : 0 .. LastStamp]
EventType == [action : Actions, stamp : 0 .. LastStamp, attempts : 0 .. MaxSends,
              status : {"pending", "sent", "dead"}, replays : Nat]

ModerationTypeOK ==
    /\ copy \in CopyType
    /\ event \in Seq(EventType) /\ Len(event) <= MaxModerations
    /\ platform \in [hidden : BOOLEAN, gone : BOOLEAN]
    /\ hooks \in Seq(Actions)
    /\ Len(asked) = Len(event) /\ Len(died) = Len(event)

ModerationInit ==
    /\ clock = 0
    /\ copy = [hidden |-> FALSE, gone |-> FALSE, byUs |-> FALSE, updatedAt |-> 0]
    /\ event = << >>
    /\ platform = [hidden |-> FALSE, gone |-> FALSE]
    /\ hooks = << >>
    /\ reports \in BOOLEAN
    /\ outside = 0
    /\ asked = << >> /\ died = << >>
    /\ overtook = FALSE

-----------------------------------------------------------------------------
(* The two requests; each holds the row of the comment from its first read *)
(* to its commit, so that each is one step.                                *)

HiddenAfter(was, did) == did = "hide" \/ (was /\ did # "unhide")

AllowedTo(a, action) == IF action = "delete" THEN a \in MayDelete ELSE a \in MayHide

\* "Gone is gone, whoever removed it", and a comment already in the state
\* asked for is refused.
Refused(action) ==
    \/ copy.gone
    \/ action = "hide" /\ copy.hidden
    \/ action = "unhide" /\ ~copy.hidden

\* outboundDedupKey: the action and the time the row was last written.
Duplicate(action) ==
    \E i \in DOMAIN event : event[i].action = action /\ event[i].stamp = copy.updatedAt

applyOwnModeration(action) ==
    [copy EXCEPT !.hidden = HiddenAfter(copy.hidden, action),
                 !.gone = @ \/ (action = "delete"), !.byUs = @ \/ (action = "delete"),
                 !.updatedAt = clock]

moderateComment(a, action) ==
    /\ Len(event) < MaxModerations
    /\ AllowedTo(a, action) /\ ~Refused(action) /\ ~Duplicate(action)
    /\ event' = Append(event, [action |-> action, stamp |-> copy.updatedAt, attempts |-> 0,
                               status |-> "pending", replays |-> 0])
    /\ copy' = applyOwnModeration(action)
    /\ asked' = Append(asked, a) /\ died' = Append(died, 0)
    /\ UNCHANGED <<clock, platform, hooks, reports, outside, overtook>>

Dead == {i \in DOMAIN event : event[i].status = "dead"}

findDeadModerationEvent == CHOOSE i \in Dead : \A j \in Dead : j <= i

\* A comment is flagged while any event about it is dead-lettered.
findFailedModerationCommentIds == Dead # {}

requeueDeadLettered_Always(e) ==
    [e EXCEPT !.status = "pending", !.attempts = 0, !.replays = @ + 1]

requeueDeadLettered(e) ==
    IF e.replays < MaxReplays
    THEN [e EXCEPT !.status = "pending", !.attempts = 0, !.replays = @ + 1] ELSE e

\* The permission of the original action, not of retrying.
AllowedToRetry(a, i) == AllowedTo(a, IF event[i].action = "delete" THEN "delete" ELSE "hide")

retryModeration(a) ==
    LET i == findDeadModerationEvent IN
    /\ Dead # {}
    /\ AllowedToRetry(a, i)
    /\ event' = [event EXCEPT ![i] = requeueDeadLettered(@)]
    /\ event' # event
    /\ asked' = [asked EXCEPT ![i] = a]
    /\ UNCHANGED <<clock, copy, platform, hooks, reports, outside, died, overtook>>

-----------------------------------------------------------------------------
(* The relay and the platform.                                             *)

Carried(p, action) ==
    [hidden |-> HiddenAfter(p.hidden, action), gone |-> p.gone \/ action = "delete"]

Overtaken(i) == \E j \in DOMAIN event : j > i

\* The platform does it and reports it or not; the row is settled, or the answer
\* is lost and the event is sent again.
Deliver(i, heard) ==
    /\ event[i].status = "pending" /\ ~platform.gone
    /\ heard \/ event[i].attempts + 1 < MaxSends
    /\ platform' = Carried(platform, event[i].action)
    /\ hooks' = IF reports THEN Append(hooks, event[i].action) ELSE hooks
    /\ event' = [event EXCEPT ![i].status = IF heard THEN "sent" ELSE "pending",
                              ![i].attempts = IF heard THEN @ ELSE @ + 1]
    /\ overtook' = (overtook \/ Overtaken(i))
    /\ UNCHANGED <<clock, copy, reports, outside, asked, died>>

\* markFailed.
FailForNow(i) ==
    /\ event[i].status = "pending" /\ event[i].attempts + 1 < MaxSends
    /\ event' = [event EXCEPT ![i].attempts = @ + 1]
    /\ UNCHANGED <<clock, copy, platform, hooks, reports, outside, asked, died, overtook>>

\* Refused for good, or for the last time; a comment that is gone is refused.
Refuse_AsSettled(i) ==
    /\ event[i].status = "pending"
    /\ event' = [event EXCEPT ![i].status = "sent"]
    /\ UNCHANGED <<clock, copy, platform, hooks, reports, outside, asked, died, overtook>>

Refuse(i) ==
    /\ event[i].status = "pending"
    /\ event' = [event EXCEPT ![i].status = "dead"]
    /\ died' = [died EXCEPT ![i] = @ + 1]
    /\ UNCHANGED <<clock, copy, platform, hooks, reports, outside, asked, overtook>>

\* Another administrator, or the author, acts on the platform itself.
OthersAct(action) ==
    /\ outside < MaxOutside /\ ~platform.gone /\ Carried(platform, action) # platform
    /\ outside' = outside + 1
    /\ platform' = Carried(platform, action)
    /\ hooks' = IF reports THEN Append(hooks, action) ELSE hooks
    /\ UNCHANGED <<clock, copy, event, reports, asked, died, overtook>>

\* The projector applies a webhook to the copy.
applyPlatformModeration ==
    /\ hooks # << >>
    /\ copy' = [copy EXCEPT !.hidden = HiddenAfter(@, Head(hooks)),
                            !.gone = @ \/ Head(hooks) = "delete",
                            !.updatedAt = clock]
    /\ hooks' = Tail(hooks)
    /\ UNCHANGED <<clock, event, platform, reports, outside, asked, died, overtook>>

AMillisecond ==
    /\ clock < LastStamp
    /\ clock' = clock + 1
    /\ UNCHANGED <<copy, event, platform, hooks, reports, outside, asked, died, overtook>>

ModerationNext ==
    \/ \E a \in Agents : retryModeration(a) \/ \E action \in Actions : moderateComment(a, action)
    \/ \E i \in DOMAIN event :
        \/ \E heard \in BOOLEAN : Deliver(i, heard)
        \/ Refuse(i) \/ FailForNow(i)
    \/ \E action \in Actions : OthersAct(action)
    \/ applyPlatformModeration
    \/ AMillisecond

ModerationSpec == ModerationInit /\ [][ModerationNext]_moderationVars

-----------------------------------------------------------------------------
\* However many agents press the button, nothing is queued behind a delete, and
\* where only our own requests change the copy, hides and unhides alternate.
ClicksDoNotPileUp ==
    \A i, j \in DOMAIN event :
        /\ i < j => event[i].action # "delete"
        /\ (j = i + 1 /\ ~reports) => event[i].action # event[j].action

\* DisagreementSurfaces: when nothing is under way, the copy says of the
\* comment what is true on the platform, or the comment is flagged; this
\* holds as long as no event reached the platform behind a later one, and
\* nobody else changed the comment (moderateComment, applyOwnModeration).
DisagreementSurfaces ==
    ( /\ \A i \in DOMAIN event : event[i].status # "pending"
      /\ hooks = << >> /\ outside = 0 /\ ~overtook )
        => \/ findFailedModerationCommentIds
           \/ copy.hidden = platform.hidden /\ copy.gone = platform.gone

\* Whatever waits in the queue was put there, at first or again, by an agent
\* who may do it: a delete that failed is not completed by somebody who may
\* only hide.
AskedByOneWhoMay == \A i \in DOMAIN event : AllowedTo(asked[i], event[i].action)

\* An event goes out again only after it died, and only MAX_MODERATION_REPLAYS
\* times, also when two agents press retry together.
ReplaysAreBounded ==
    \A i \in DOMAIN event : event[i].replays <= died[i] /\ died[i] <= MaxReplays + 1

\* ModerationIsBounded: clicks, retries and replays of several agents never add
\* up to more than one of them could have asked for (the row lock and the
\* checks of moderateComment, retryModeration, requeueDeadLettered).
ModerationIsBounded ==
    ModerationTypeOK /\ ClicksDoNotPileUp /\ AskedByOneWhoMay /\ ReplaysAreBounded
=============================================================================
