----------------------------- MODULE Customers -----------------------------
(***************************************************************************)
(* Who a message is from: CustomerRepository over customers,               *)
(* customer_identifiers and customer_engagements, as the two projectors,   *)
(* the resync of a conversation and the opening of a thread use it.        *)
(*                                                                         *)
(* A projection is one transaction of several statements; those of several *)
(* workers interleave.  A row that is not committed is seen by its own     *)
(* transaction only, but the unique index on active identifiers makes      *)
(* another insert of the same value wait for the outcome.                  *)
(***************************************************************************)
EXTENDS Naturals, FiniteSets

CONSTANTS
    Projections,    \* workers, each projecting one event at a time
    People,         \* a person is the scoped id the platform issued
    Handles,        \* Instagram usernames
    HandleOf,       \* the handle a person uses: two may have used the same one
    MaxCustomers,   \* bound: rows ever inserted into customers
    MaxProjected    \* bound: projections begun

ASSUME CustomersAssumption ==
    /\ HandleOf \in [People -> Handles] /\ People \cap Handles = {}
    /\ MaxCustomers \in Nat /\ MaxProjected \in Nat
    /\ Projections \cap {"unused", "gone", "committed"} = {}

VARIABLES
    person,      \* customers, by id
    identifier,  \* the active row of customer_identifiers for each value
    threadOf,    \* conversations: who each is with, and whose message opened it
    engagement,  \* customer_engagements.conversation_count by customer
    resync,      \* people a resync_conversation job is queued for
    projecting,  \* the transaction of each worker
    begun        \* projections begun so far

customerVars == <<person, identifier, threadOf, engagement, resync, projecting, begun>>

CustomerIds == 1 .. MaxCustomers
IdentifierValues == People \cup Handles
EventKinds == {"message", "echo", "comment", "mention"}
Committed == "committed"
NoCustomer == 0
Unheld == [customer |-> NoCustomer, by |-> Committed]
Resting == [stage |-> "rest"]

\* A row of customers: unused, written by an open transaction, committed, or
\* taken back.  It remembers what kind of event created it.
CustomerRow == [row : {"unused", "gone", Committed} \cup Projections, name : {"none", "known"},
                picture : {"none", "fresh", "old"}, createdBy : EventKinds \cup {"none"}]

Unused == [row |-> "unused", name |-> "none", picture |-> "none", createdBy |-> "none"]

\* A comment and a direct message are two threads of one person; a mention
\* from history is keyed on the handle, everything else on the scoped id.
KeyOf(e) == IF e.kind = "mention" THEN HandleOf[e.person] ELSE e.person
ThreadKey(e) == <<e.person, IF e.kind \in {"message", "echo"} THEN "direct" ELSE e.kind>>
ThreadsOfPeople == People \X {"direct", "comment", "mention"}

\* A live message carries no name and no handle; a comment carries both, and
\* so does a message that came from a resync.
BringsName(e) == e.kind \in {"comment", "mention"} \/ (e.kind = "message" /\ e.recovered)
BringsHandle(e) == e.kind = "comment" \/ (e.kind = "message" /\ e.recovered)

CustomersInit ==
    /\ person = [c \in CustomerIds |-> Unused]
    /\ identifier = [k \in IdentifierValues |-> Unheld]
    /\ threadOf = [t \in ThreadsOfPeople |-> [customer |-> NoCustomer, theirs |-> FALSE]]
    /\ engagement = [c \in CustomerIds |-> 0]
    /\ resync = {}
    /\ projecting = [w \in Projections |-> Resting]
    /\ begun = 0

-----------------------------------------------------------------------------
(* resolveOrCreate, statement by statement.                                *)

\* What a statement of worker w sees.
SeenBy(w, k) == identifier[k].customer # NoCustomer /\ identifier[k].by \in {w, Committed}
MustWait(w, k) == identifier[k].customer # NoCustomer /\ identifier[k].by \notin {w, Committed}

findByIdentifier(w, k) == IF SeenBy(w, k) THEN identifier[k].customer ELSE NoCustomer

NextId == CHOOSE c \in CustomerIds : person[c].row = "unused" /\ \A o \in 1 .. c - 1 : person[o].row # "unused"

\* The lookup; when it finds nothing, the insert into customers.
resolveOrCreate(w, e) ==
    LET found == findByIdentifier(w, KeyOf(e)) IN
    /\ projecting[w] = Resting
    /\ begun < MaxProjected
    /\ begun' = begun + 1
    /\ \/ /\ found # NoCustomer
          /\ projecting' = [projecting EXCEPT ![w] =
                [stage |-> "resolved", event |-> e, customer |-> found, created |-> FALSE]]
          /\ UNCHANGED person
       \/ /\ found = NoCustomer
          /\ \E c \in CustomerIds : person[c].row = "unused"
          /\ projecting' = [projecting EXCEPT ![w] =
                [stage |-> "creating", event |-> e, customer |-> NextId, created |-> TRUE]]
          /\ person' = [person EXCEPT ![NextId] =
                [row |-> w, name |-> IF BringsName(e) THEN "known" ELSE "none",
                 picture |-> "none", createdBy |-> e.kind]]
    /\ UNCHANGED <<identifier, threadOf, engagement, resync>>

\* INSERT ... ON CONFLICT DO NOTHING, which waits while another transaction
\* holds the value and has not ended.
insertIdentifier(w) ==
    LET p == projecting[w] IN
    /\ p.stage = "creating"
    /\ identifier[KeyOf(p.event)] = Unheld
    /\ identifier' = [identifier EXCEPT ![KeyOf(p.event)] = [customer |-> p.customer, by |-> w]]
    /\ projecting' = [projecting EXCEPT ![w].stage = "resolved"]
    /\ UNCHANGED <<person, threadOf, engagement, resync, begun>>

discardOrphan_Keeps(c) == person' = person

\* The row just written is an orphan and is deleted.
discardOrphan(c) == person' = [person EXCEPT ![c] = [Unused EXCEPT !.row = "gone"]]

\* The conflict fired: the winner's customer is used.
adoptWinner(w) ==
    LET p == projecting[w] IN
    /\ p.stage = "creating"
    /\ SeenBy(w, KeyOf(p.event))
    /\ discardOrphan(p.customer)
    /\ projecting' = [projecting EXCEPT ![w].stage = "resolved", ![w].created = FALSE,
                                        ![w].customer = findByIdentifier(w, KeyOf(p.event))]
    /\ UNCHANGED <<identifier, threadOf, engagement, resync, begun>>

\* The handle is a second identifier, never the primary one; a value that is
\* taken stays with whoever holds it.
linkIdentifier(w) ==
    LET p == projecting[w]
        h == HandleOf[p.event.person] IN
    /\ p.stage = "resolved"
    /\ BringsHandle(p.event) => ~MustWait(w, h)
    /\ identifier' = IF BringsHandle(p.event) /\ identifier[h] = Unheld
                     THEN [identifier EXCEPT ![h] = [customer |-> p.customer, by |-> w]] ELSE identifier
    /\ projecting' = [projecting EXCEPT ![w].stage = "linked"]
    /\ UNCHANGED <<person, threadOf, engagement, resync, begun>>

-----------------------------------------------------------------------------
(* The rest of the projection, and its commit.                             *)

\* The conversation is opened by the first message in it, and only what the
\* customer wrote counts as engagement.
recordEngagement(c, opened) == [engagement EXCEPT ![c] = @ + (IF opened THEN 1 ELSE 0)]

\* A name is filled in once, and a poorer source never replaces it.
fillName(w, c, known) ==
    [o \in CustomerIds |-> [person[o] EXCEPT !.name = IF o = c /\ known THEN "known" ELSE @,
                                             !.row = IF @ = w THEN Committed ELSE @]]

\* Only a person a live message created is asked for by name.
AskForName(w) ==
    LET p == projecting[w] IN p.created /\ p.event.kind = "message" /\ ~p.event.recovered

project(w) ==
    LET p == projecting[w]
        t == ThreadKey(p.event)
        opened == threadOf[t].customer = NoCustomer
        inbound == p.event.kind # "echo"
    IN
    /\ p.stage = "linked"
    /\ person' = fillName(w, p.customer, BringsName(p.event))
    /\ identifier' = [k \in IdentifierValues |-> IF identifier[k].by = w THEN [identifier[k] EXCEPT !.by = Committed]
                                      ELSE identifier[k]]
    /\ threadOf' = IF opened THEN [threadOf EXCEPT ![t] = [customer |-> p.customer, theirs |-> inbound]]
                   ELSE threadOf
    /\ engagement' = IF inbound THEN recordEngagement(p.customer, opened) ELSE engagement
    /\ resync' = IF AskForName(w) THEN resync \cup {p.event.person} ELSE resync
    /\ projecting' = [projecting EXCEPT ![w] = Resting]
    /\ UNCHANGED begun

\* The transaction fails or its worker dies; the ledger offers the event again.
RollBack(w) ==
    /\ projecting[w] # Resting
    /\ person' = [c \in CustomerIds |-> IF person[c].row = w THEN [Unused EXCEPT !.row = "gone"] ELSE person[c]]
    /\ identifier' = [k \in IdentifierValues |-> IF identifier[k].by = w THEN Unheld ELSE identifier[k]]
    /\ projecting' = [projecting EXCEPT ![w] = Resting]
    /\ UNCHANGED <<threadOf, engagement, resync, begun>>

-----------------------------------------------------------------------------
(* Enrichment outside a projection.                                        *)

Known(k) == identifier[k].customer # NoCustomer /\ identifier[k].by = Committed
findIdByIdentifier(p) == identifier[p].customer

\* The resync reads the participants of the thread: a gap in the name is
\* filled, and the handle linked.
nameByIdentifier(p) ==
    /\ p \in resync
    /\ resync' = resync \ {p}
    /\ Known(p)
    /\ person' = [person EXCEPT ![findIdByIdentifier(p)].name = "known"]
    /\ ~MustWait(Committed, HandleOf[p])
    /\ identifier' = IF identifier[HandleOf[p]] = Unheld
                     THEN [identifier EXCEPT ![HandleOf[p]] = [customer |-> findIdByIdentifier(p), by |-> Committed]]
                     ELSE identifier
    /\ UNCHANGED <<threadOf, engagement, projecting, begun>>

\* COALESCE: what the platform did not give stays.
applyPlatformProfile(c, name, picture) ==
    [person EXCEPT ![c].name = IF name = "none" THEN @ ELSE name,
                   ![c].picture = IF picture = "none" THEN @ ELSE picture]

\* Opening a thread refetches a picture that is missing or old; the name is
\* left to the resync.  An answer that misses the budget of the read is lost.
withFreshCustomerAvatar(p, picture) ==
    /\ Known(p)
    /\ person[findIdByIdentifier(p)].picture # "fresh"
    /\ picture # "none"
    /\ person' = applyPlatformProfile(findIdByIdentifier(p), "none", picture)
    /\ UNCHANGED <<identifier, threadOf, engagement, resync, projecting, begun>>

PictureExpires(c) ==
    /\ person[c].picture = "fresh"
    /\ person' = [person EXCEPT ![c].picture = "old"]
    /\ UNCHANGED <<identifier, threadOf, engagement, resync, projecting, begun>>

Events == [person : People, kind : EventKinds, recovered : BOOLEAN]

CustomersNext ==
    \/ \E w \in Projections :
          \/ \E e \in Events : (e.recovered => e.kind = "message") /\ resolveOrCreate(w, e)
          \/ insertIdentifier(w) \/ adoptWinner(w) \/ linkIdentifier(w) \/ project(w) \/ RollBack(w)
    \/ \E p \in People :
          \/ nameByIdentifier(p)
          \/ \E picture \in {"none", "fresh"} : withFreshCustomerAvatar(p, picture)
    \/ \E c \in CustomerIds : PictureExpires(c)

CustomersSpec == CustomersInit /\ [][CustomersNext]_customerVars

-----------------------------------------------------------------------------
(* Properties.                                                             *)

\* A burst of first messages makes one customer: every committed row of
\* customers holds an identifier, and every committed identifier points to a
\* committed row.
NoOrphanCustomer ==
    /\ \A c \in CustomerIds : person[c].row = Committed => \E k \in IdentifierValues : identifier[k].customer = c
    /\ \A k \in IdentifierValues : Known(k) => person[identifier[k].customer].row = Committed

\* A projection goes on with a customer that will exist when it commits.
ResolvedCustomerStays ==
    \A w \in Projections : projecting[w].stage \in {"resolved", "linked"} =>
        person[projecting[w].customer].row \in {w, Committed}

\* Two projections never wait for each other on an identifier: each takes the
\* identity first and the handle second.
WaitsFor(w, v) ==
    \/ projecting[w].stage = "creating" /\ identifier[KeyOf(projecting[w].event)].by = v
    \/ /\ projecting[w].stage = "resolved" /\ BringsHandle(projecting[w].event)
       /\ identifier[HandleOf[projecting[w].event.person]].by = v

NoWaitingCycle == \A w, v \in Projections : w # v => ~(WaitsFor(w, v) /\ WaitsFor(v, w))

\* What resolving a person guarantees while others do.
CustomersAreWhole == NoOrphanCustomer /\ ResolvedCustomerStays /\ NoWaitingCycle

\* The conversation count of a customer is the number of threads they opened.
EngagementCountsThreads ==
    \A c \in CustomerIds :
        engagement[c] = Cardinality({t \in ThreadsOfPeople : threadOf[t].customer = c /\ threadOf[t].theirs})

\* A person whose first trace is a live message is either named or asked for:
\* nobody stays an unnamed customer because a projection lost a race or was
\* rolled back.
NamelessIsAskedFor ==
    \A p \in People : Known(p) =>
        LET c == findIdByIdentifier(p) IN
        (person[c].createdBy = "message" /\ person[c].name = "none") => p \in resync

\* A name is never lost again, whatever enrichment comes after it.
NamesAreKept ==
    [][\A c \in CustomerIds : (person[c].row = Committed /\ person[c].name = "known")
                                  => person'[c].name = "known"]_customerVars

\* OnePersonOneCustomer: projections of one person's messages that overlap, roll
\* back or lose a race leave one whole customer, counted rightly and asked for
\* by name (CustomerRepository.resolve, discardOrphan, recordEngagement).
OnePersonOneCustomer ==
    [](CustomersAreWhole /\ EngagementCountsThreads /\ NamelessIsAskedFor) /\ NamesAreKept
=============================================================================
