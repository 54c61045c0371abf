----------------------------- MODULE Retention -----------------------------
(***************************************************************************)
(* The scheduled sweeps of SweeperWorker: the nightly retention pass, one  *)
(* try block over eight drains, and the hourly expiry of entitlements.     *)
(*                                                                         *)
(* Time is in days; a pass may run more than once a day.  LastDay stands   *)
(* for that day and every later one.                                       *)
(***************************************************************************)
EXTENDS Naturals, Sequences, FiniteSetsExt

CONSTANTS
    SweptRows, TableOf,    \* the rows a run follows, and their tables
    RetentionDays,         \* by table
    RedeliveryDays,        \* how late the platform may repeat a delivery
    SweepBatch, MaxPasses, \* SWEEP_BATCH, MAX_SWEEP_PASSES
    LastDay,               \* bound: days told apart
    MaxSweepCrashes        \* bound: sweeps cut short by a dying process

SweepOrder == <<"verifications", "sessions", "oauth_states", "inbound_events", "outbound_events",
                "sync_jobs", "provider_api_usage", "enterprise_features">>
Tables == {SweepOrder[i] : i \in 1 .. 7}
Ledgers == {"inbound_events", "outbound_events", "sync_jobs"}

ASSUME RetentionAssumption ==
    /\ TableOf \in [SweptRows -> Tables]
    /\ RetentionDays \in [Tables -> Nat] /\ RedeliveryDays \in Nat
    /\ RedeliveryDays <= RetentionDays["inbound_events"]
    /\ SweepBatch \in Nat \ {0} /\ MaxPasses \in Nat \ {0}
    /\ LastDay \in Nat /\ MaxSweepCrashes \in Nat

VARIABLES
    today,
    keptRow,       \* each row: not yet there, there, or swept
    sweeping,      \* the nightly pass: which drain it is in and since when
    feature,       \* an enterprise_features row with a term
    entitlement,   \* a reward_entitlements row with a term
    sweepCrashes

retentionVars == <<today, keptRow, sweeping, feature, entitlement, sweepCrashes>>

Never == LastDay + 1
NotWritten == [is |-> "absent"]
Swept == [is |-> "swept"]
NotSweeping == [at |-> 0, pass |-> 0, since |-> 0]

RetentionInit ==
    /\ today = 0
    /\ keptRow = [r \in SweptRows |-> NotWritten]
    /\ sweeping = NotSweeping
    /\ feature = [status |-> "active", expires |-> 1]
    /\ entitlement = [status |-> "issued", expires |-> 1]
    /\ sweepCrashes = 0

-----------------------------------------------------------------------------
(* The rows *)

\* A ledger row is work until it settles; the others lapse by themselves.
Write(r) ==
    /\ keptRow[r] = NotWritten
    /\ keptRow' = [keptRow EXCEPT ![r] = [is |-> "there", created |-> today, expires |-> today, ended |-> Never,
                                          status |-> "work", referenced |-> FALSE]]
    /\ UNCHANGED <<today, sweeping, feature, entitlement, sweepCrashes>>

\* A code or a state is consumed, a session revoked; a session may be revoked
\* after it has expired.
End(r) ==
    /\ TableOf[r] \in {"verifications", "sessions", "oauth_states"} /\ keptRow[r].is = "there"
    /\ keptRow[r].ended = Never /\ (TableOf[r] = "sessions" \/ today <= keptRow[r].expires)
    /\ keptRow' = [keptRow EXCEPT ![r].ended = today]
    /\ UNCHANGED <<today, sweeping, feature, entitlement, sweepCrashes>>

\* A ledger row comes to rest: settled, and then a message may refer to it
\* (messages.inbound_event_id, outbound_event_id), or in the dead letters.
ComesToRest(r, status, referenced) ==
    /\ TableOf[r] \in Ledgers /\ keptRow[r].is = "there" /\ keptRow[r].status = "work"
    /\ keptRow' = [keptRow EXCEPT ![r].status = status, ![r].referenced = referenced]
    /\ UNCHANGED <<today, sweeping, feature, entitlement, sweepCrashes>>

\* A reversed award takes its entitlement back.
RevokeEntitlement ==
    /\ entitlement.status = "issued"
    /\ entitlement' = [entitlement EXCEPT !.status = "revoked"]
    /\ UNCHANGED <<today, keptRow, sweeping, feature, sweepCrashes>>

DayPasses ==
    /\ today < LastDay
    /\ today' = today + 1
    /\ UNCHANGED <<keptRow, sweeping, feature, entitlement, sweepCrashes>>

-----------------------------------------------------------------------------
(* What a pass may delete *)

\* SETTLED_INBOUND_STATUSES and SETTLED_OUTBOUND_STATUSES; completed and
\* cancelled sync jobs.
SweptStatuses == {"settled"}

daysAgo(table) == sweeping.since - RetentionDays[table]

Before_Inclusive(at, table) == at <= daysAgo(table)

\* Older than the cutoff.
Before(at, table) == at < daysAgo(table)

\* Consumed rows age from the consumption, the others from their expiry.
VerificationDue(row) == Before(IF row.ended # Never THEN row.ended ELSE row.expires, "verifications")

\* Revoked sessions age from the revocation, the others from their expiry.
SessionDue(row) == Before(IF row.ended # Never THEN row.ended ELSE row.expires, "sessions")

OauthStateDue(row) ==
    /\ row.ended # Never \/ Before(row.expires, "oauth_states")
    /\ Before(row.created, "oauth_states")

InboundEventDue(row) == row.status \in SweptStatuses /\ Before(row.created, "inbound_events")
OutboundEventDue(row) == row.status \in SweptStatuses /\ Before(row.created, "outbound_events")
SyncJobDue(row) == row.status \in SweptStatuses /\ Before(row.created, "sync_jobs")
UsageDue(row) == Before(row.created, "provider_api_usage")

Deletable(r) ==
    LET row == keptRow[r] table == TableOf[r] IN
    /\ row.is = "there" /\ sweeping.since >= RetentionDays[table]
    /\ \/ table = "verifications" /\ VerificationDue(row)
       \/ table = "sessions" /\ SessionDue(row)
       \/ table = "oauth_states" /\ OauthStateDue(row)
       \/ table = "inbound_events" /\ InboundEventDue(row)
       \/ table = "outbound_events" /\ OutboundEventDue(row)
       \/ table = "sync_jobs" /\ SyncJobDue(row)
       \/ table = "provider_api_usage" /\ UsageDue(row)

\* A batch of the oldest.
IsBatch(batch, table) ==
    LET deletable == {r \in SweptRows : TableOf[r] = table /\ Deletable(r)} IN
    /\ batch \subseteq deletable
    /\ Cardinality(batch) = Min({SweepBatch, Cardinality(deletable)})
    /\ \A r \in batch, other \in deletable \ batch : keptRow[r].created <= keptRow[other].created

\* The foreign keys of messages have no ON DELETE.
Refused(batch) == \E r \in batch : keptRow[r].referenced

-----------------------------------------------------------------------------
(* The nightly pass *)

sweep ==
    /\ sweeping.at = 0
    /\ sweeping' = [at |-> 1, pass |-> 0, since |-> today]
    /\ UNCHANGED <<today, keptRow, feature, entitlement, sweepCrashes>>

\* drain: batches until one is not full, or the pass count is reached.
AfterBatch(deleted) ==
    IF deleted < SweepBatch \/ sweeping.pass + 1 = MaxPasses
    THEN [sweeping EXCEPT !.at = @ + 1, !.pass = 0]
    ELSE [sweeping EXCEPT !.pass = @ + 1]

drain(batch) ==
    /\ sweeping.at \in 1 .. 7
    /\ IsBatch(batch, SweepOrder[sweeping.at]) /\ ~Refused(batch)
    /\ keptRow' = [r \in SweptRows |-> IF r \in batch THEN Swept ELSE keptRow[r]]
    /\ sweeping' = AfterBatch(Cardinality(batch))
    /\ UNCHANGED <<today, feature, entitlement, sweepCrashes>>

\* The statement is refused, the pass is logged as failed and ends.
DrainThrows(batch) ==
    /\ sweeping.at \in 1 .. 7
    /\ IsBatch(batch, SweepOrder[sweeping.at]) /\ Refused(batch)
    /\ sweeping' = NotSweeping
    /\ UNCHANGED <<today, keptRow, feature, entitlement, sweepCrashes>>

\* The last drain retires features whose term has run out.
expireDue ==
    /\ sweeping.at = 8
    /\ feature' = IF feature.status = "active" /\ feature.expires <= today
                  THEN [feature EXCEPT !.status = "expired"] ELSE feature
    /\ sweeping' = NotSweeping
    /\ UNCHANGED <<today, keptRow, entitlement, sweepCrashes>>

SweepCrashes ==
    /\ sweeping.at # 0 /\ sweepCrashes < MaxSweepCrashes
    /\ sweepCrashes' = sweepCrashes + 1
    /\ sweeping' = NotSweeping
    /\ UNCHANGED <<today, keptRow, feature, entitlement>>

\* Only from issued: what was revoked stays revoked.
expireLapsed == entitlement.status = "issued" /\ entitlement.expires <= today

expireEntitlements ==
    /\ expireLapsed
    /\ entitlement' = [entitlement EXCEPT !.status = "expired"]
    /\ UNCHANGED <<today, keptRow, sweeping, feature, sweepCrashes>>

-----------------------------------------------------------------------------
SweepStep == (\E batch \in SUBSET SweptRows : drain(batch) \/ DrainThrows(batch)) \/ expireDue

RetentionNext ==
    \/ \E r \in SweptRows : Write(r) \/ End(r)
    \/ \E r \in SweptRows, referenced \in BOOLEAN : ComesToRest(r, "settled", referenced)
    \/ \E r \in SweptRows : ComesToRest(r, "dead_letter", FALSE)
    \/ RevokeEntitlement \/ DayPasses \/ sweep \/ SweepCrashes \/ expireEntitlements
    \/ \E batch \in SUBSET SweptRows : drain(batch) \/ DrainThrows(batch)
    \/ expireDue

\* Days pass, the schedule fires and a pass that runs goes on.
RetentionFairness ==
    /\ WF_retentionVars(DayPasses)
    /\ WF_retentionVars(sweep)
    /\ WF_retentionVars(SweepStep)
    /\ WF_retentionVars(expireEntitlements)

RetentionSpec == RetentionInit /\ [][RetentionNext]_retentionVars /\ RetentionFairness

-----------------------------------------------------------------------------
\* Work, a dead letter, a code, state or session somebody may still present,
\* and the row a repeated delivery has to collide with.
StillNeeded(r) ==
    \/ TableOf[r] = "inbound_events" /\ today <= keptRow[r].created + RedeliveryDays
    \/ TableOf[r] \in Ledgers /\ keptRow[r].status \in {"work", "dead_letter"}
    \/ TableOf[r] \in {"verifications", "sessions", "oauth_states"} /\ keptRow[r].ended = Never
       /\ today <= keptRow[r].expires

NothingNeededIsSwept == \A r \in SweptRows : keptRow[r].is = "there" /\ StillNeeded(r) => keptRow'[r].is = "there"

\* An entitlement whose term is over is retired, and never relabelled.
LapsedRightRetires ==
    /\ [][entitlement.status # "issued" => entitlement'.status = entitlement.status]_retentionVars
    /\ (entitlement.status = "issued" /\ entitlement.expires <= today) ~> entitlement.status # "issued"

\* RetentionIsSafe: no pass takes what is still needed, however long it runs
\* and wherever it breaks off, and the hourly sweep retires every lapsed right
\* (the deletes' conditions, LEDGER_RETENTION_DAYS, expireLapsed).
RetentionIsSafe == [][NothingNeededIsSwept]_retentionVars /\ LapsedRightRetires

\* LapsedFeatureRetires: a feature whose term is over is retired by the
\* nightly pass (the comments before its ledgers and its last drain).
LapsedFeatureRetires == (feature.expires <= today) ~> (feature.status # "active")
=============================================================================
