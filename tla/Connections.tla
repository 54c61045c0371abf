----------------------------- MODULE Connections -----------------------------
(***************************************************************************)
(* Connecting a Facebook Page, keeping it subscribed, and letting it go:   *)
(* MetaConnectionService, OauthStateService, ConnectionsService and        *)
(* WebhookSubscriptionService over ChannelRepository and                   *)
(* ProviderConnectionRepository.                                           *)
(*                                                                         *)
(* Several businesses may connect the same Page, but the platform keeps    *)
(* one subscription of the Page to the app: what one business does to it,  *)
(* every other one feels.  Callbacks, a disconnection per business and the *)
(* reconciler run at the same time; a Graph call and the statement after   *)
(* it are separate steps.                                                  *)
(*                                                                         *)
(* A channel stands for a Page and the Instagram profile linked to it,     *)
(* which shares its row's fate and its token.  Jobs enqueued by a callback *)
(* are in SyncJobs; names, pictures and scopes are left out.               *)
(***************************************************************************)
EXTENDS Naturals, FiniteSets

CONSTANTS
    Businesses,   \* enterprises
    Logins,       \* platform users
    LoginsOf,     \* the platform users who may authorise for each business
    Suspendable,  \* businesses the platform may suspend and reinstate
    PlatformPages,        \* platform pages
    MaxStates,    \* bound: OAuth states minted in a behaviour
    MaxCallbacks, \* bound: callbacks in flight at the same time
    MaxFailures   \* bound: transient failures of the platform in a behaviour

ASSUME ConnectionsAssumption ==
    /\ LoginsOf \in [Businesses -> SUBSET Logins] /\ Suspendable \subseteq Businesses
    /\ MaxFailures \in Nat /\ MaxStates \in Nat /\ MaxCallbacks \in Nat

VARIABLES
    trading,     \* the businesses whose status is active
    state,       \* oauth_states
    callback,    \* the callback each process is handling
    connection,  \* provider_connections, by business and login
    channel,     \* channels, by business, login and page
    leaving,     \* the disconnection each business has in flight
    reconciler,  \* the channel the reconciler is working on
    subscribed,  \* the platform: pages that send their events to the app
    failures,    \* transient failures so far
    uses         \* history: callbacks that spent each state

connectionVars == <<trading, state, callback, connection, channel, leaving, reconciler,
                    subscribed, failures, uses>>

\* Nonces are numbered in the order they are minted; processes are alike, so
\* a callback is handled by the first idle one.
States == 1 .. MaxStates
Callbacks == 1 .. MaxCallbacks

AtRest == [phase |-> "idle"]

StateType == [status : {"none", "minted", "consumed", "expired"}, business : Businesses \cup {"-"}]
ConnectionType == [status : {"none", "active", "revoked"}, reauth : BOOLEAN]
ChannelType == [status : {"none", "active", "error", "disconnected"},
                token : BOOLEAN, reauth : BOOLEAN]

ConnectionsTypeOK ==
    /\ trading \subseteq Businesses
    /\ state \in [States -> StateType]
    /\ connection \in [Businesses -> [Logins -> ConnectionType]]
    /\ channel \in [Businesses -> [Logins -> [PlatformPages -> ChannelType]]]
    /\ subscribed \subseteq PlatformPages
    /\ failures \in 0 .. MaxFailures
    /\ uses \in [States -> Nat]

ConnectionsInit ==
    /\ trading = Businesses
    /\ state = [n \in States |-> [status |-> "none", business |-> "-"]]
    /\ callback = [c \in Callbacks |-> AtRest]
    /\ connection = [b \in Businesses |-> [l \in Logins |-> [status |-> "none", reauth |-> FALSE]]]
    /\ channel = [b \in Businesses |-> [l \in Logins |-> [p \in PlatformPages |->
                    [status |-> "none", token |-> FALSE, reauth |-> FALSE]]]]
    /\ leaving = [b \in Businesses |-> AtRest]
    /\ reconciler = AtRest
    /\ subscribed = {}
    /\ failures = 0
    /\ uses = [n \in States |-> 0]

-----------------------------------------------------------------------------
(* Rows.                                                                   *)

\* A row that exists is never deleted by anything in the code.
HeldUnder(b, l, p) == channel[b][l][p].status # "none"

findClaimedByAnotherConnection(b, l, pages) ==
    {p \in pages : \E m \in Logins \ {l} : HeldUnder(b, m, p)}

\* channels_enterprise_platform_uniq.
CollidesOnPage_Never(b, l, pages) == FALSE

CollidesOnPage(b, l, pages) == findClaimedByAnotherConnection(b, l, pages) # {}

CallFails == failures < MaxFailures /\ failures' = failures + 1

-----------------------------------------------------------------------------
(* The OAuth round trip.                                                   *)

mint(n, b) ==
    /\ state[n].status = "none" /\ \A o \in 1 .. (n - 1) : state[o].status # "none"
    /\ b \in trading
    /\ state' = [state EXCEPT ![n] = [status |-> "minted", business |-> b]]
    /\ UNCHANGED <<trading, callback, connection, channel, leaving, reconciler, subscribed,
                   failures, uses>>

StateExpires(n) ==
    /\ state[n].status = "minted"
    /\ state' = [state EXCEPT ![n].status = "expired"]
    /\ UNCHANGED <<trading, callback, connection, channel, leaving, reconciler, subscribed,
                   failures, uses>>

\* The browser may deliver the callback of a state more than once: the
\* signature and the expiry are checked first, the nonce is spent after.
ReceiveCallback(c, n, l) ==
    /\ callback[c] = AtRest /\ \A d \in 1 .. (c - 1) : callback[d] # AtRest
    /\ state[n].status \in {"minted", "consumed"} /\ l \in LoginsOf[state[n].business]
    /\ callback' = [callback EXCEPT ![c] = [phase |-> "signed", state |-> n, login |-> l]]
    /\ UNCHANGED <<trading, state, connection, channel, leaving, reconciler, subscribed,
                   failures, uses>>

Spendable(n) == state[n].status = "minted"

consume(c) ==
    LET n == callback[c].state IN
    /\ callback[c].phase = "signed"
    /\ IF Spendable(n)
       THEN /\ state' = [state EXCEPT ![n].status = "consumed"]
            /\ uses' = [uses EXCEPT ![n] = @ + 1]
            /\ callback' = [callback EXCEPT ![c].phase = "spent"]
       ELSE callback' = [callback EXCEPT ![c] = AtRest] /\ UNCHANGED <<state, uses>>
    /\ UNCHANGED <<trading, connection, channel, leaving, reconciler, subscribed, failures>>

\* The pages of /me/accounts, or when it lists none those that the granular
\* scopes of the token name.
discover(accounts, granular) == IF accounts # {} THEN accounts ELSE granular

\* The status is read again, the code is exchanged and the pages are found.
\* Any of these may fail, and no page at all ends the callback.
Discover(c, accounts, granular) ==
    LET pages == discover(accounts, granular) IN
    /\ callback[c].phase = "spent"
    /\ IF state[callback[c].state].business \in trading /\ pages # {}
       THEN callback' = [callback EXCEPT ![c] = [phase |-> "found", state |-> @.state,
                                                 login |-> @.login, pages |-> pages]]
       ELSE callback' = [callback EXCEPT ![c] = AtRest]
    /\ UNCHANGED <<trading, state, connection, channel, leaving, reconciler, subscribed,
                   failures, uses>>

\* The transaction begins: a page held under another login refuses it whole.
CheckClaims(c) ==
    LET q == callback[c]
        b == state[q.state].business
        claimed == findClaimedByAnotherConnection(b, q.login, q.pages) IN
    /\ q.phase = "found"
    /\ IF claimed = {}
       THEN callback' = [callback EXCEPT ![c].phase = "free"]
       ELSE callback' = [callback EXCEPT ![c] = AtRest]
    /\ UNCHANGED <<trading, state, connection, channel, leaving, reconciler, subscribed,
                   failures, uses>>

\* A page may come without a token; a token it had is then kept.
upsertChannel(row, hasToken) ==
    [status |-> IF hasToken THEN "active" ELSE "error",
     token |-> hasToken \/ row.token, reauth |-> FALSE]

Persist(c, withToken) ==
    LET q == callback[c]
        b == state[q.state].business IN
    /\ q.phase = "free"
    /\ withToken \subseteq q.pages
    /\ IF CollidesOnPage(b, q.login, q.pages)
       THEN callback' = [callback EXCEPT ![c] = AtRest] /\ UNCHANGED <<connection, channel>>
       ELSE /\ connection' = [connection EXCEPT ![b][q.login] = [status |-> "active", reauth |-> FALSE]]
            /\ channel' = [channel EXCEPT ![b][q.login] = [p \in PlatformPages |->
                             IF p \in q.pages THEN upsertChannel(@[p], p \in withToken) ELSE @[p]]]
            /\ callback' = [callback EXCEPT ![c] = [phase |-> "subscribe", todo |-> withToken]]
    /\ UNCHANGED <<trading, state, leaving, reconciler, subscribed, failures, uses>>

\* subscribePages: a failure is counted for the answer and left to the
\* reconciler.
SubscribePage(c, p) ==
    /\ callback[c].phase = "subscribe" /\ p \in callback[c].todo
    /\ \/ subscribed' = subscribed \cup {p} /\ UNCHANGED failures
       \/ CallFails /\ UNCHANGED subscribed
    /\ callback' = [callback EXCEPT ![c].todo = @ \ {p}]
    /\ UNCHANGED <<trading, state, connection, channel, leaving, reconciler, uses>>

CallbackEnds(c) ==
    /\ callback[c] # AtRest
    /\ callback[c].phase = "subscribe" => callback[c].todo = {}
    /\ callback' = [callback EXCEPT ![c] = AtRest]
    /\ UNCHANGED <<trading, state, connection, channel, leaving, reconciler, subscribed,
                   failures, uses>>

-----------------------------------------------------------------------------
(* Disconnecting: the platform is told first, the rows change after.       *)

StartDisconnect(b, l) ==
    /\ leaving[b] = AtRest
    /\ b \in trading
    /\ connection[b][l].status # "none"
    /\ leaving' = [leaving EXCEPT ![b] = [phase |-> "telling", login |-> l,
                                          todo |-> {p \in PlatformPages : channel[b][l][p].token}]]
    /\ UNCHANGED <<trading, state, callback, connection, channel, reconciler, subscribed,
                   failures, uses>>

unsubscribeQuietly(b, p) ==
    /\ leaving[b].phase = "telling" /\ p \in leaving[b].todo
    /\ \/ subscribed' = subscribed \ {p} /\ UNCHANGED failures
       \/ CallFails /\ UNCHANGED subscribed
    /\ leaving' = [leaving EXCEPT ![b].todo = @ \ {p}]
    /\ UNCHANGED <<trading, state, callback, connection, channel, reconciler, uses>>

disconnectForConnection(row) ==
    IF row.status = "none" THEN row
    ELSE [status |-> "disconnected", token |-> FALSE, reauth |-> FALSE]

\* One already revoked by a dead token is left as it is.
revoke(row) == IF row.status = "revoked" THEN row ELSE [status |-> "revoked", reauth |-> FALSE]

Disconnect(b) ==
    LET l == leaving[b].login IN
    /\ leaving[b].phase = "telling" /\ leaving[b].todo = {}
    /\ channel' = [channel EXCEPT ![b][l] = [p \in PlatformPages |-> disconnectForConnection(@[p])]]
    /\ connection' = [connection EXCEPT ![b][l] = revoke(@)]
    /\ leaving' = [leaving EXCEPT ![b] = AtRest]
    /\ UNCHANGED <<trading, state, callback, reconciler, subscribed, failures, uses>>

-----------------------------------------------------------------------------
(* The reconciler, once an hour over every healthy channel.                *)

listAllForRefresh(b, l, p) == channel[b][l][p].status = "active" /\ ~channel[b][l][p].reauth

HealthilyHeld(p) ==
    \E b \in Businesses, l \in Logins : listAllForRefresh(b, l, p) /\ channel[b][l][p].token

\* findSendContext: the token is read here and used in the steps below.
ReconcileChannel(b, l, p) ==
    /\ reconciler = AtRest
    /\ listAllForRefresh(b, l, p) /\ channel[b][l][p].token
    /\ reconciler' = [phase |-> "compare", business |-> b, login |-> l, page |-> p]
    /\ UNCHANGED <<trading, state, callback, connection, channel, leaving, subscribed,
                   failures, uses>>

\* Repaired, or found complete: the outcome on the platform is the same.
compareAndRepair_ReadOnly == UNCHANGED subscribed

compareAndRepair == subscribed' = subscribed \cup {reconciler.page}

ReconcileSucceeds ==
    /\ reconciler.phase = "compare"
    /\ compareAndRepair
    /\ reconciler' = AtRest
    /\ UNCHANGED <<trading, state, callback, connection, channel, leaving, failures, uses>>

\* handleGraphFailure: a dead token flags the connection; anything else is
\* left to the next run.
ReconcileFails(dead) ==
    /\ reconciler.phase = "compare"
    /\ CallFails
    /\ IF dead
       THEN /\ connection' = [connection EXCEPT ![reconciler.business][reconciler.login] =
                                [status |-> "revoked", reauth |-> TRUE]]
            /\ reconciler' = [reconciler EXCEPT !.phase = "cascade"]
       ELSE UNCHANGED connection /\ reconciler' = AtRest
    /\ UNCHANGED <<trading, state, callback, channel, leaving, subscribed, uses>>

\* The second statement of markReauthRequired flags the channels.
markReauth(row) == IF row.status = "none" THEN row ELSE [row EXCEPT !.reauth = TRUE]

CascadeReauth ==
    /\ reconciler.phase = "cascade"
    /\ channel' = [channel EXCEPT ![reconciler.business][reconciler.login] =
                     [p \in PlatformPages |-> markReauth(@[p])]]
    /\ reconciler' = AtRest
    /\ UNCHANGED <<trading, state, callback, connection, leaving, subscribed, failures, uses>>

-----------------------------------------------------------------------------
\* Tenancy decides when; here it only matters that a business may stop.
TradingChanges(b) ==
    /\ trading' = IF b \in trading THEN trading \ {b} ELSE trading \cup {b}
    /\ UNCHANGED <<state, callback, connection, channel, leaving, reconciler, subscribed,
                   failures, uses>>

ConnectionsNext ==
    \/ \E n \in States, b \in Businesses : mint(n, b)
    \/ \E n \in States : StateExpires(n)
    \/ \E c \in Callbacks :
        \/ \E n \in States, l \in Logins : ReceiveCallback(c, n, l)
        \/ \E accounts, granular \in SUBSET PlatformPages : Discover(c, accounts, granular)
        \/ \E withToken \in SUBSET PlatformPages : Persist(c, withToken)
        \/ \E p \in PlatformPages : SubscribePage(c, p)
        \/ consume(c) \/ CheckClaims(c) \/ CallbackEnds(c)
    \/ \E b \in Businesses :
        \/ \E l \in Logins : StartDisconnect(b, l)
        \/ \E p \in PlatformPages : unsubscribeQuietly(b, p)
        \/ Disconnect(b)
        \/ \E l \in Logins, p \in PlatformPages : ReconcileChannel(b, l, p)
    \/ \E b \in Suspendable : TradingChanges(b)
    \/ ReconcileSucceeds \/ CascadeReauth
    \/ \E dead \in BOOLEAN : ReconcileFails(dead)

ConnectionsSpec == ConnectionsInit /\ [][ConnectionsNext]_connectionVars

\* The cron runs for ever and reaches the healthy channels of every page; a
\* Graph call ends.
ReconcilerFairness ==
    /\ \A p \in PlatformPages :
          SF_connectionVars(\E b \in Businesses, l \in Logins : ReconcileChannel(b, l, p))
    /\ WF_connectionVars(ReconcileSucceeds \/ CascadeReauth \/ \E dead \in BOOLEAN : ReconcileFails(dead))

ConnectionsFairSpec == ConnectionsSpec /\ ReconcilerFairness

-----------------------------------------------------------------------------
\* A state establishes one connection at most, also when the browser delivers
\* its callback twice at the same time.
StateSpentOnce == \A n \in States : uses[n] <= 1

\* Within one business a page has one channel, also when two logins are
\* authorised at the same time and both callbacks found the page unclaimed.
OnePageOneConnection ==
    \A b \in Businesses, p \in PlatformPages : Cardinality({l \in Logins : HeldUnder(b, l, p)}) <= 1

\* Whatever callbacks and reconciliations were under way when a business let
\* go, a disconnected channel holds no token that a later call could use.
NoTokenAfterDisconnect ==
    \A b \in Businesses, l \in Logins, p \in PlatformPages :
        channel[b][l][p].status = "disconnected" => ~channel[b][l][p].token

\* ConnectionsAreSound: callbacks, disconnections and reconciliations of several
\* businesses and logins at the same time leave one connection per page and
\* nothing usable of a closed one (OauthStateService.consume,
\* findClaimedByAnotherConnection and the index, disconnectForConnection).
ConnectionsAreSound ==
    ConnectionsTypeOK /\ StateSpentOnce /\ OnePageOneConnection /\ NoTokenAfterDisconnect

\* PageIsResubscribed: a page some business is healthily connected to, and
\* that another business's disconnection or a lost call has unsubscribed, is
\* subscribed again, or that health ends (WebhookSubscriptionService).
PageIsResubscribed ==
    \A p \in PlatformPages : HealthilyHeld(p) ~> (p \in subscribed \/ ~HealthilyHeld(p))
=============================================================================
