---------------------------- MODULE MediaRefresh ----------------------------
(***************************************************************************)
(* Media links that expire, asked for again when somebody looks.           *)
(*                                                                         *)
(* A mention's post is resolved once on arrival and refreshed in the       *)
(* background of an open (InboxService.refreshMentionMediaInBackground).   *)
(* The attachments of a direct message are refreshed on request            *)
(* (refreshAttachments): the thread is read again from the platform and    *)
(* its links are matched with the stored rows by position.                 *)
(*                                                                         *)
(* One mention thread and one direct thread; a viewer is one request.      *)
(***************************************************************************)
EXTENDS Naturals, Sequences, FiniteSets, SequencesExt

CONSTANTS
    Viewers, Servers,  \* requests, API processes
    MediaFields,       \* the fields a platform may say of a post
    MediaMessages,     \* messages of the direct thread
    ItemsOf,           \* what each message carries, in the platform's order
    KeptPerMessage,    \* MAX_ATTACHMENTS_PER_MESSAGE
    EdgeWindow         \* messages of a thread the platform will describe again

\* An item: its type, what it really is, the host of the webhook's link, and
\* whether the read edge has a link for it at all.  Only of a story does the
\* type not say what it is.
MediaItem == {x \in [type : {"image", "ig_story", "share"}, truth : {"image", "video", "page"},
                     host : {"cdn", "public"}, readable : BOOLEAN] :
                 /\ x.type = "image" => x.truth = "image"
                 /\ x.type = "share" <=> x.truth = "page"}

ASSUME MediaAssumption ==
    /\ ItemsOf \in [MediaMessages -> Seq(MediaItem)]
    /\ KeptPerMessage \in Nat \ {0} /\ EdgeWindow \in Nat

VARIABLES
    postDetails,  \* the mention's row: the fields it holds
    refreshDue,   \* its stamp is older than MENTION_MEDIA_TTL_MS
    opens,        \* the row as each viewer read it
    inFlight,     \* mentionRefreshesInFlight of each process, for this thread
    calls,        \* background refreshes under way
    directThread, \* the messages of the direct thread, as the platform has them
    withdrawn,    \* items the platform no longer describes
    media,        \* message_attachments, by message
    looks         \* messages whose rows each attachment refresh has read

mentionVars == <<postDetails, refreshDue, opens, inFlight, calls>>
attachmentVars == <<directThread, withdrawn, media, looks>>
mediaVars == <<mentionVars, attachmentVars>>

NotOpen == [server |-> "none"]
NotLooking == {"none"}

MediaInit ==
    /\ postDetails \in {{}, MediaFields}
    /\ refreshDue = TRUE
    /\ opens = [v \in Viewers |-> NotOpen]
    /\ inFlight = {}
    /\ calls = {}
    /\ directThread = << >>
    /\ withdrawn = {}
    /\ media = << >>
    /\ looks = [v \in Viewers |-> NotLooking]

-----------------------------------------------------------------------------
(* Mentions *)

\* readThread loads the row, and may wait for an avatar before it goes on.
readMention(v, s) ==
    /\ opens[v] = NotOpen /\ \A c \in calls : c.by # v
    /\ opens' = [opens EXCEPT ![v] = [server |-> s, held |-> postDetails, due |-> refreshDue, overtaken |-> FALSE]]
    /\ UNCHANGED <<postDetails, refreshDue, inFlight, calls, attachmentVars>>

StampAges ==
    /\ ~refreshDue /\ refreshDue' = TRUE
    /\ UNCHANGED <<postDetails, opens, inFlight, calls, attachmentVars>>

\* One call per conversation and process, on the row as it was read.
refreshMentionMediaInBackground(v) ==
    LET open == opens[v]
        starts == open.due /\ open.server \notin inFlight
    IN
    /\ open # NotOpen
    /\ opens' = [opens EXCEPT ![v] = NotOpen]
    /\ inFlight' = IF starts THEN inFlight \cup {open.server} ELSE inFlight
    /\ calls' = IF starts
                THEN calls \cup {[server |-> open.server, by |-> v, held |-> open.held, overtaken |-> open.overtaken]}
                ELSE calls
    /\ UNCHANGED <<postDetails, refreshDue, attachmentVars>>

\* The refresh ends without an answer: no usable token, re-authorisation
\* needed, nothing described, an error.
KeepStored(c) ==
    /\ calls' = calls \ {c}
    /\ inFlight' = inFlight \ {c.server}
    /\ UNCHANGED <<postDetails, refreshDue, opens, attachmentVars>>

\* A new value wins only where there is one.
mergePostDetails(held, answer) == held \cup answer

\* mergeContextMetadata replaces postDetails as one unit.
resolveMentionMedia(c, answer) ==
    /\ postDetails' = mergePostDetails(c.held, answer)
    /\ refreshDue' = FALSE
    /\ calls' = {[other EXCEPT !.overtaken = TRUE] : other \in calls \ {c}}
    /\ opens' = [v \in Viewers |-> IF opens[v] = NotOpen THEN NotOpen ELSE [opens[v] EXCEPT !.overtaken = TRUE]]
    /\ inFlight' = inFlight \ {c.server}
    /\ UNCHANGED attachmentVars

\* A process stops: its requests, its calls and its set are gone.
ServerStops(s) ==
    /\ s \in inFlight \/ \E v \in Viewers : opens[v].server = s
    /\ opens' = [v \in Viewers |-> IF opens[v].server = s THEN NotOpen ELSE opens[v]]
    /\ calls' = {c \in calls : c.server # s}
    /\ inFlight' = inFlight \ {s}
    /\ UNCHANGED <<postDetails, refreshDue, attachmentVars>>

-----------------------------------------------------------------------------
(* Attachments *)

isExpiringMediaUrl(host) == host = "cdn"

\* The type is a label, the mime type is evidence.
MEDIA_KIND_BY_TYPE == [image |-> "image", ig_story |-> "image", share |-> "page", video |-> "video"]
toMediaKind(type, mime) == IF mime # "none" THEN mime ELSE MEDIA_KIND_BY_TYPE[type]

\* A set of positions, as the sequence the code keeps it in.
Before(S, i) == {j \in S : j < i}
InOrder(S) == [n \in 1 .. Cardinality(S) |-> CHOOSE i \in S : Cardinality(Before(S, i)) = n - 1]

\* As the webhook says it: no mime type.
WebhookItems(m) ==
    [i \in DOMAIN ItemsOf[m] |-> [item |-> i, type |-> ItemsOf[m][i].type, host |-> ItemsOf[m][i].host, mime |-> "none"]]

\* As the read edge says it: shares first, with their permalink, then what
\* has a link, named for the data it is nested under.
toWebhookAttachments(m, mimeSaid) ==
    LET left == {i \in DOMAIN ItemsOf[m] : ItemsOf[m][i].readable /\ <<m, i>> \notin withdrawn}
        IsShare(i) == ItemsOf[m][i].type = "share"
        shares == {i \in left : IsShare(i)}
        Said(i) == [item |-> i,
                    type |-> IF IsShare(i) THEN "share" ELSE ItemsOf[m][i].truth,
                    host |-> IF IsShare(i) THEN "public" ELSE ItemsOf[m][i].host,
                    mime |-> IF mimeSaid /\ ~IsShare(i) THEN ItemsOf[m][i].truth ELSE "none"]
        order == InOrder(shares) \o InOrder(left \ shares)
    IN [n \in DOMAIN order |-> Said(order[n])]

\* The first KeptPerMessage; a story's kind is a guess until a mime type says.
normalizeAttachments(items) ==
    LET kept == SubSeq(items, 1, IF Len(items) < KeptPerMessage THEN Len(items) ELSE KeptPerMessage)
    IN [n \in DOMAIN kept |->
          [item |-> kept[n].item, link |-> kept[n].item, stable |-> ~isExpiringMediaUrl(kept[n].host),
           kind |-> toMediaKind(kept[n].type, kept[n].mime), type |-> kept[n].type, mime |-> kept[n].mime,
           guessed |-> kept[n].type = "ig_story" /\ kept[n].mime = "none"]]

MessageHappens(m) ==
    /\ m \notin ToSet(directThread)
    /\ directThread' = Append(directThread, m)
    /\ UNCHANGED <<withdrawn, media, looks, mentionVars>>

Withdraw(m, i) ==
    /\ m \in ToSet(directThread) /\ <<m, i>> \notin withdrawn
    /\ withdrawn' = withdrawn \cup {<<m, i>>}
    /\ UNCHANGED <<directThread, media, looks, mentionVars>>

\* What the conversations edge returns of a thread.
Described == {directThread[n] : n \in {k \in DOMAIN directThread : k + EdgeWindow > Len(directThread)}}

insertMany(m, items) ==
    /\ m \in ToSet(directThread) \ DOMAIN media
    /\ media' = [k \in DOMAIN media \cup {m} |-> IF k = m THEN normalizeAttachments(items) ELSE media[k]]
    /\ UNCHANGED <<directThread, withdrawn, looks, mentionVars>>

listRefreshable(m) == InOrder({n \in DOMAIN media[m] : ~media[m][n].stable})

\* refreshAttachments reads the rows, then asks the platform.
readRefreshable(v) ==
    /\ looks[v] = NotLooking
    /\ \E m \in DOMAIN media : listRefreshable(m) # << >>
    /\ looks' = [looks EXCEPT ![v] = {m \in DOMAIN media : listRefreshable(m) # << >>}]
    /\ UNCHANGED <<directThread, withdrawn, media, mentionVars>>

readFreshAttachmentLinks(m, mimeSaid) ==
    LET said == toWebhookAttachments(m, mimeSaid)
        expiring == InOrder({n \in DOMAIN said : isExpiringMediaUrl(said[n].host)})
    IN [k \in DOMAIN expiring |-> said[expiring[k]]]

MatchesRows_Any(rows, links) == links # << >>

\* By position, and only when the counts agree.
MatchesRows(rows, links) == links # << >> /\ Len(links) = Len(rows)

refreshSourceUrls(m, mimeSaid) ==
    LET rows == listRefreshable(m)
        links == readFreshAttachmentLinks(m, mimeSaid)
        Position(n) == CHOOSE k \in DOMAIN rows : rows[k] = n
        Refreshed(n) == n \in ToSet(rows) /\ Position(n) \in DOMAIN links /\ MatchesRows(rows, links)
    IN [n \in DOMAIN media[m] |->
          IF ~Refreshed(n) THEN media[m][n]
          ELSE LET fresh == links[Position(n)] IN
               IF fresh.mime = "none" THEN [media[m][n] EXCEPT !.link = fresh.item]
               ELSE [media[m][n] EXCEPT !.link = fresh.item, !.mime = fresh.mime, !.guessed = FALSE]]

refreshAttachments(v, mimeSaid) ==
    /\ looks[v] # NotLooking
    /\ media' = [m \in DOMAIN media |-> IF m \in looks[v] \cap Described THEN refreshSourceUrls(m, mimeSaid) ELSE media[m]]
    /\ looks' = [looks EXCEPT ![v] = NotLooking]
    /\ UNCHANGED <<directThread, withdrawn, mentionVars>>

\* No usable token, or the thread cannot be read: an answer, not an error.
BeyondReach(v) ==
    /\ looks[v] # NotLooking
    /\ looks' = [looks EXCEPT ![v] = NotLooking]
    /\ UNCHANGED <<directThread, withdrawn, media, mentionVars>>

-----------------------------------------------------------------------------
MentionNext ==
    \/ \E v \in Viewers, s \in Servers : readMention(v, s)
    \/ \E v \in Viewers : refreshMentionMediaInBackground(v)
    \/ \E c \in calls : KeepStored(c)
    \/ \E c \in calls, answer \in SUBSET MediaFields : resolveMentionMedia(c, answer)
    \/ \E s \in Servers : ServerStops(s)
    \/ StampAges

AttachmentNext ==
    \/ \E m \in MediaMessages : MessageHappens(m)
    \/ \E m \in MediaMessages : insertMany(m, WebhookItems(m))
    \/ \E m \in Described, said \in BOOLEAN : insertMany(m, toWebhookAttachments(m, said))
    \/ \E m \in MediaMessages : \E i \in DOMAIN ItemsOf[m] : Withdraw(m, i)
    \/ \E v \in Viewers : readRefreshable(v) \/ BeyondReach(v)
    \/ \E v \in Viewers, said \in BOOLEAN : refreshAttachments(v, said)

MediaNext == MentionNext \/ AttachmentNext
MediaSpec == MediaInit /\ [][MediaNext]_mediaVars

-----------------------------------------------------------------------------
\* The set of refreshes in flight is exactly the calls under way, one per
\* process, whatever fails or stops (the finally of
\* refreshMentionMediaInBackground): no thread is shut out of refreshes.
OneRefreshAtATime ==
    /\ inFlight = {c.server : c \in calls}
    /\ \A c, d \in calls : c.server = d.server => c = d

\* A refresh never puts a link under another attachment (the comment in
\* refreshAttachments), unless the message had more than are kept.
LinksStayInPlace ==
    \A m \in DOMAIN media : \A n \in DOMAIN media[m] :
        Len(ItemsOf[m]) <= KeptPerMessage => media[m][n].link = media[m][n].item

\* What the API tells of an attachment (thread items of inbox.controller.ts).
KindIsTrueOrGuessed ==
    \A m \in DOMAIN media : \A n \in DOMAIN media[m] :
        LET row == media[m][n] IN
        row.kind = ItemsOf[m][row.item].truth \/ row.guessed \/ row.type = "ig_story"

\* A stored field of a post is lost only to a refresh that had read the row
\* before another one wrote it.
FieldLostOnlyToStaleRead ==
    ~(postDetails \subseteq postDetails') => \E c \in calls : c.overtaken /\ c \notin calls'

\* MediaIsKept: refreshes in the background, of several processes and at any
\* moment, neither mix up nor lose what is stored of a post or an attachment
\* (refreshMentionMediaInBackground, refreshAttachments, mergePostDetails).
MediaIsKept ==
    /\ [](OneRefreshAtATime /\ LinksStayInPlace /\ KindIsTrueOrGuessed)
    /\ [][FieldLostOnlyToStaleRead]_mediaVars
=============================================================================
