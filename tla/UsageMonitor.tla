---------------------------- MODULE UsageMonitor ----------------------------
(***************************************************************************)
(* Counting the calls made to the platform: MetaUsageCollector in every    *)
(* process, the upsert of ProviderApiUsageRepository they all write to,    *)
(* and what RateLimitService shows of it.                                  *)
(*                                                                         *)
(* Each process folds its observations into buckets in memory and flushes  *)
(* them on a timer; a flush takes the buckets first and writes later, and  *)
(* more calls, other processes' flushes, a failure or a crash come between.*)
(* Of the readings the highest percentage is kept; the calls that failed   *)
(* and the minutes to wait are counted the same way and left out.          *)
(***************************************************************************)
EXTENDS Naturals, FiniteSets, FiniteSetsExt

CONSTANTS
    Processes,   \* the API and worker processes
    Pools,       \* the pools a reading names: the app's, and one per page
    Tenants,     \* businesses that may hold the page of a pool
    Percents,    \* readings
    WarnPct, ThrottlePct, \* META_USAGE_WARN_PCT, META_USAGE_THROTTLE_PCT
    MaxPending,  \* META_USAGE_MAX_PENDING_BUCKETS
    LastBucket,  \* bound: buckets of time in a behaviour
    MaxCalls     \* bound: calls observed in a behaviour

NoOwner == "no owner"
Unresolved == "unresolved"

ASSUME UsageAssumption ==
    /\ IsFiniteSet(Processes) /\ IsFiniteSet(Pools) /\ IsFiniteSet(Tenants)
    /\ NoOwner \notin Tenants /\ Unresolved \notin Tenants
    /\ Percents \subseteq Nat /\ WarnPct \in Nat /\ ThrottlePct \in Nat
    /\ MaxPending \in Nat \ {0} /\ LastBucket \in Nat \ {0} /\ MaxCalls \in Nat

VARIABLES
    now,      \* the current bucket of time
    pending,  \* each process's buckets in memory
    taken,    \* the buckets each process's flush is writing
    usageRow,      \* provider_api_usage
    holders,  \* the tenants connected to each pool's page
    cached,   \* each process's cached owner of a pool
    observed, \* history: calls, by pool
    forgone,  \* history: calls dropped at the limit or lost with a flush, by pool
    wasSole,  \* history: tenants that were once alone on a pool
    peak      \* history: highest reading by pool and bucket

usageVars == <<now, pending, taken, usageRow, holders, cached, observed, forgone, wasSole, peak>>

UsageKeys == Pools \X (1 .. LastBucket)

\* calls = 0 stands for a bucket that is not there.
Nothing == [calls |-> 0, throttled |-> 0, pct |-> 0]
Empty == [k \in UsageKeys |-> Nothing]
BucketType == [calls : 0 .. MaxCalls, throttled : 0 .. MaxCalls, pct : Percents \cup {0}]

UsageTypeOK ==
    /\ now \in 1 .. LastBucket
    /\ pending \in [Processes -> [UsageKeys -> BucketType]]
    /\ taken \in [Processes -> [UsageKeys -> BucketType]]
    /\ DOMAIN usageRow = UsageKeys
    /\ \A k \in UsageKeys : /\ usageRow[k].calls \in 0 .. MaxCalls
                       /\ usageRow[k].throttled <= usageRow[k].calls
                       /\ usageRow[k].owner \in Tenants \cup {NoOwner}

UsageInit ==
    /\ now = 1
    /\ pending = [p \in Processes |-> Empty]
    /\ taken = [p \in Processes |-> Empty]
    /\ usageRow = [k \in UsageKeys |-> [calls |-> 0, throttled |-> 0, pct |-> 0, owner |-> NoOwner]]
    /\ holders \in [Pools -> SUBSET Tenants]
    /\ cached = [p \in Processes |-> [s \in Pools |-> Unresolved]]
    /\ observed = [s \in Pools |-> 0]
    /\ forgone = [s \in Pools |-> 0]
    /\ wasSole = [s \in Pools |-> IF Cardinality(holders[s]) = 1 THEN holders[s] ELSE {}]
    /\ peak = [k \in UsageKeys |-> 0]

-----------------------------------------------------------------------------
(* The collector.                                                          *)

Total(counts) == MapThenSumSet(LAMBDA x : counts[x], DOMAIN counts)

highest(a, b) == IF a > b THEN a ELSE b

Present(buckets) == {k \in UsageKeys : buckets[k].calls > 0}

\* A bucket that is not there yet is refused when the buffer is full.
BufferFull(p, k) == pending[p][k].calls = 0 /\ Cardinality(Present(pending[p])) >= MaxPending

fold(bucket, pct, throttled) ==
    [calls |-> bucket.calls + 1,
     throttled |-> bucket.throttled + IF throttled THEN 1 ELSE 0,
     pct |-> highest(bucket.pct, pct)]

observe(p, s, pct, throttled) ==
    LET k == <<s, now>> IN
    /\ Total(observed) < MaxCalls
    /\ observed' = [observed EXCEPT ![s] = @ + 1]
    /\ IF BufferFull(p, k)
       THEN forgone' = [forgone EXCEPT ![s] = @ + 1] /\ UNCHANGED <<pending, peak>>
       ELSE /\ pending' = [pending EXCEPT ![p][k] = fold(@, pct, throttled)]
            /\ peak' = [peak EXCEPT ![k] = highest(@, pct)]
            /\ UNCHANGED forgone
    /\ UNCHANGED <<now, taken, usageRow, holders, cached, wasSole>>

\* The buffer is emptied before the first await.
clearPending_Later(p) == UNCHANGED pending

clearPending(p) == pending' = [pending EXCEPT ![p] = Empty]

\* A pool held by several businesses belongs to none of them.
OwnerOf(s) == IF Cardinality(holders[s]) = 1 THEN CHOOSE t \in holders[s] : TRUE ELSE NoOwner

\* The owners that are not cached are looked up as the flush begins.
resolveOwners(p, buckets) ==
    cached' = [cached EXCEPT ![p] = [s \in Pools |->
                 IF @[s] = Unresolved /\ \E k \in Present(buckets) : k[1] = s
                 THEN OwnerOf(s) ELSE @[s]]]

TakeBuckets(p) ==
    /\ Present(pending[p]) # {} /\ taken[p] = Empty
    /\ taken' = [taken EXCEPT ![p] = pending[p]]
    /\ clearPending(p)
    /\ resolveOwners(p, pending[p])
    /\ UNCHANGED <<now, usageRow, holders, observed, forgone, wasSole, peak>>

\* META_USAGE_SCOPE_CACHE_MS has passed.
CacheEntryAges(p, s) ==
    /\ cached[p][s] # Unresolved
    /\ taken[p] = Empty
    /\ cached' = [cached EXCEPT ![p][s] = Unresolved]
    /\ UNCHANGED <<now, pending, taken, usageRow, holders, observed, forgone, wasSole, peak>>

\* INSERT ... ON CONFLICT: counts are added, percentages maximised, and an
\* owner once written stays.
recordOne(old, b, owner) ==
    [calls |-> old.calls + b.calls, throttled |-> old.throttled + b.throttled,
     pct |-> highest(old.pct, b.pct), owner |-> IF old.owner # NoOwner THEN old.owner ELSE owner]

Record(p) ==
    /\ taken[p] # Empty
    /\ usageRow' = [k \in UsageKeys |-> IF k \in Present(taken[p])
                              THEN recordOne(usageRow[k], taken[p][k], cached[p][k[1]]) ELSE usageRow[k]]
    /\ taken' = [taken EXCEPT ![p] = Empty]
    /\ UNCHANGED <<now, pending, holders, cached, observed, forgone, wasSole, peak>>

CallsIn(buckets, s) == Total([k \in UsageKeys |-> IF k[1] = s THEN buckets[k].calls ELSE 0])

\* The statement fails: logged, and this flush is lost.
RecordFails(p) ==
    /\ taken[p] # Empty
    /\ taken' = [taken EXCEPT ![p] = Empty]
    /\ forgone' = [s \in Pools |-> forgone[s] + CallsIn(taken[p], s)]
    /\ UNCHANGED <<now, pending, usageRow, holders, cached, observed, wasSole, peak>>

ProcessDies(p) ==
    /\ pending[p] # Empty \/ taken[p] # Empty
    /\ pending' = [pending EXCEPT ![p] = Empty]
    /\ taken' = [taken EXCEPT ![p] = Empty]
    /\ cached' = [cached EXCEPT ![p] = [s \in Pools |-> Unresolved]]
    /\ forgone' = [s \in Pools |-> forgone[s] + CallsIn(taken[p], s) + CallsIn(pending[p], s)]
    /\ UNCHANGED <<now, usageRow, holders, observed, wasSole, peak>>

\* Connections decides; a channel that is disconnected still counts.
PageConnected(s, t) ==
    /\ t \notin holders[s]
    /\ holders' = [holders EXCEPT ![s] = @ \cup {t}]
    /\ wasSole' = [wasSole EXCEPT ![s] = IF holders[s] = {} THEN @ \cup {t} ELSE @]
    /\ UNCHANGED <<now, pending, taken, usageRow, cached, observed, forgone, peak>>

Tick ==
    /\ now < LastBucket
    /\ now' = now + 1
    /\ UNCHANGED <<pending, taken, usageRow, holders, cached, observed, forgone, wasSole, peak>>

-----------------------------------------------------------------------------
(* What the monitor shows.                                                 *)

Recorded(s) == {k \in UsageKeys : k[1] = s /\ usageRow[k].calls > 0}

\* The newest row of a pool, and the refusals of the last quarter of an hour:
\* here the current bucket and the one before it.
Latest(s) == CHOOSE k \in Recorded(s) : \A o \in Recorded(s) : o[2] <= k[2]
RecentThrottled(s) ==
    Total([k \in {r \in Recorded(s) : r[2] + 1 >= now} |-> usageRow[k].throttled])

statusOf(used, latestThrottled, recentThrottled) ==
    IF latestThrottled > 0 \/ recentThrottled > 0 \/ used >= ThrottlePct THEN "throttled"
    ELSE IF used >= WarnPct THEN "warning" ELSE "ok"

toPool(s) == statusOf(usageRow[Latest(s)].pct, usageRow[Latest(s)].throttled, RecentThrottled(s))

PoolsOf(t) == {s \in Pools : Recorded(s) # {} /\ usageRow[Latest(s)].owner = t}

worstStatus(pools) ==
    IF \E s \in pools : toPool(s) = "throttled" THEN "throttled"
    ELSE IF \E s \in pools : toPool(s) = "warning" THEN "warning" ELSE "ok"

UsageNext ==
    \/ \E p \in Processes :
        \/ \E s \in Pools, pct \in Percents, throttled \in BOOLEAN : observe(p, s, pct, throttled)
        \/ TakeBuckets(p) \/ Record(p) \/ RecordFails(p) \/ ProcessDies(p)
        \/ \E s \in Pools : CacheEntryAges(p, s)
    \/ \E s \in Pools, t \in Tenants : PageConnected(s, t)
    \/ Tick

UsageSpec == UsageInit /\ [][UsageNext]_usageVars

-----------------------------------------------------------------------------
\* Every call observed is in memory, under way, recorded or known to be lost,
\* exactly once, whatever flushes, failures and crashes of the processes
\* overlap.
CallsConserved ==
    \A s \in Pools :
        observed[s] = CallsIn(usageRow, s) + forgone[s]
            + Total([p \in Processes |-> CallsIn(pending[p], s) + CallsIn(taken[p], s)])

\* When nothing of a pool was lost, the highest reading of each bucket of time
\* is still somewhere, and no later and lower flush of another process has
\* hidden it.
PeakIsKept ==
    \A k \in UsageKeys :
        forgone[k[1]] = 0 =>
            \/ usageRow[k].pct = peak[k]
            \/ \E p \in Processes : pending[p][k].pct = peak[k] \/ taken[p][k].pct = peak[k]

\* Usage is shown under a business only if that business was at some time the
\* only one connected to the page; a pool shared from the start is shown under
\* nobody.
OwnerWasAlone ==
    \A k \in UsageKeys : usageRow[k].owner # NoOwner => usageRow[k].owner \in wasSole[k[1]]

\* A call the platform refused is shown as throttling, of the pool and of the
\* business it belongs to, for as long as it is recent, also when a later
\* bucket without refusals has been recorded.
RefusalIsShown ==
    \A s \in Pools :
        (\E k \in Recorded(s) : usageRow[k].throttled > 0 /\ k[2] + 1 >= now)
            => /\ toPool(s) = "throttled"
               /\ \A t \in Tenants : s \in PoolsOf(t) => worstStatus(PoolsOf(t)) = "throttled"

\* UsageIsAccounted: the monitor's rows add up to what the processes observed,
\* although each flushes its own buckets whenever it likes (flush, record,
\* GREATEST, resolveOwners, statusOf).
UsageIsAccounted ==
    UsageTypeOK /\ CallsConserved /\ PeakIsKept /\ OwnerWasAlone /\ RefusalIsShown
=============================================================================
