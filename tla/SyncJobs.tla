------------------------------ MODULE SyncJobs ------------------------------
(***************************************************************************)
(* Backfill and refresh jobs.  A job walks the history of one channel page  *)
(* by page: a worker leases a batch of due jobs, gives each a fresh lease   *)
(* when it reaches it, copies at most MaxPages pages into the inbound       *)
(* ledger, and saves the cursor after every page.  A run that stops short   *)
(* of the end leaves the job running; its lease lapses and the reaper       *)
(* returns it.                                                              *)
(*                                                                          *)
(* A key stands for (channel_id, job_kind, target_platform_id); every       *)
(* action is one statement, or one Graph call with the inserts of its page. *)
(***************************************************************************)
EXTENDS Naturals, Sequences, FiniteSets, SequencesExt

CONSTANTS
    Keys,        \* what can be walked
    Jobs,        \* ids of sync_jobs rows
    Pages,       \* [Keys -> pages of history]
    Workers,     \* BackfillWorker processes
    None,        \* no owner, no job, no key
    BatchSize,   \* worker.batchSize
    MaxPages,    \* SYNC_MAX_PAGES_PER_RUN
    MaxAttempts, \* SYNC_MAX_ATTEMPTS
    RowsPerKey,  \* bound: how many rows a key ever gets
    Troubles,    \* how a page may fail, of TroubleKinds
    Faults       \* which faults happen, of {"crash", "stall", "db"}

\* What handleFailure tells apart.  "blocked" is a channel or a token no retry
\* fixes (re-authorisation, permission, a channel that is gone).
TroubleKinds == {"transient", "permanent", "rate_limit", "blocked"}

ASSUME SyncAssumption ==
    /\ Pages \in [Keys -> Nat \ {0}]
    /\ BatchSize \in Nat \ {0} /\ MaxPages \in Nat \ {0} /\ MaxAttempts \in Nat \ {0}
    /\ RowsPerKey \in Nat \ {0}
    /\ Troubles \subseteq TroubleKinds
    /\ Faults \subseteq {"crash", "stall", "db"}
    /\ None \notin Workers \cup Jobs \cup Keys

\* CLAIMABLE_SYNC_JOB_STATUSES, and the predicate of sync_jobs_live_uniq.
ClaimableStatuses == {"pending", "failed", "rate_limited"}
LiveStatuses      == {"pending", "running", "paused", "rate_limited"}
SettledStatuses   == {"completed", "dead_letter"}
Statuses == {"absent", "failed"} \cup LiveStatuses \cup SettledStatuses

\* Bound: attempts past the budget are alike.
AttemptCap == MaxAttempts + 1

VARIABLES
    jobs,    \* [Jobs -> sync_jobs row]
    due,     \* claimable rows in the order they came due
    copied,  \* [Keys -> pages whose items are in the inbound ledger]
    wk       \* [Workers -> what the process holds in memory]

vars == <<jobs, due, copied, wk>>

JobType == [key: Keys \cup {None}, status: Statuses, owner: Workers \cup {None},
            lease: {"none", "live", "lapsed"}, attempts: 0 .. AttemptCap,
            cursor: Nat, error: {"none"} \cup TroubleKinds]

\* attempts is the count the claim returned; pages is what this run has saved.
WorkerType == [at: {"idle", "next", "page", "save", "complete", "fail", "dead"},
               batch: Seq(Jobs), job: Jobs \cup {None}, attempts: 0 .. AttemptCap,
               cursor: Nat, pages: Nat, error: {"none"} \cup TroubleKinds]

TypeOK ==
    /\ jobs \in [Jobs -> JobType]
    /\ due \in Seq(Jobs)
    /\ copied \in [Keys -> SUBSET Nat]
    /\ wk \in [Workers -> WorkerType]

Absent == [key |-> None, status |-> "absent", owner |-> None, lease |-> "none",
           attempts |-> 0, cursor |-> 0, error |-> "none"]

Idle == [at |-> "idle", batch |-> <<>>, job |-> None, attempts |-> 0, cursor |-> 0,
         pages |-> 0, error |-> "none"]

Init ==
    /\ jobs = [j \in Jobs |-> Absent]
    /\ due = <<>>
    /\ copied = [k \in Keys |-> {}]
    /\ wk = [w \in Workers |-> Idle]

-----------------------------------------------------------------------------
(* Enqueueing (SyncJobRepository.enqueueIfAbsent).                          *)

LiveJobs(k) == {j \in Jobs : jobs[j].key = k /\ jobs[j].status \in LiveStatuses}

Insert(k) ==
    /\ LiveJobs(k) = {}
    /\ Cardinality({j \in Jobs : jobs[j].key = k}) < RowsPerKey
    /\ \E j \in Jobs :
        /\ jobs[j].status = "absent"
        /\ jobs' = [jobs EXCEPT ![j] = [Absent EXCEPT !.key = k, !.status = "pending"]]
        /\ due' = Append(due, j)

\* The only way out of paused; the cursor is kept.
Revive(k) ==
    \E j \in LiveJobs(k) :
        /\ jobs[j].status = "paused"
        /\ jobs' = [jobs EXCEPT ![j] = [@ EXCEPT !.status = "pending", !.attempts = 0,
                                                 !.error = "none"]]
        /\ due' = Append(due, j)

\* A connect, the daily refresh, a resync.  A job that is live and not paused
\* makes it a no-op.
EnqueueIfAbsent(k) == (Insert(k) \/ Revive(k)) /\ UNCHANGED <<copied, wk>>

-----------------------------------------------------------------------------
(* Claiming (SyncJobRepository.claimBatch).                                 *)

Batch == SubSeq(due, 1, IF Len(due) < BatchSize THEN Len(due) ELSE BatchSize)

\* A failed row is outside the index while it waits and enters it as running:
\* the statement is refused when another row of its key is live.
Conflict(batch) ==
    \E j \in ToSet(batch) : \E i \in Jobs \ {j} :
        /\ jobs[i].key = jobs[j].key
        /\ jobs[i].status \in LiveStatuses \/ i \in ToSet(batch)

Claimed(row, w) ==
    [row EXCEPT !.status = "running", !.owner = w, !.lease = "live",
                !.attempts = IF @ < AttemptCap THEN @ + 1 ELSE @]

ClaimBatch(w) ==
    /\ wk[w].at = "idle"
    /\ Batch # <<>>
    /\ ~Conflict(Batch)
    /\ jobs' = [j \in Jobs |-> IF j \in ToSet(Batch) THEN Claimed(jobs[j], w) ELSE jobs[j]]
    /\ due' = SubSeq(due, Len(Batch) + 1, Len(due))
    /\ wk' = [wk EXCEPT ![w] = [Idle EXCEPT !.at = "next", !.batch = Batch]]
    /\ UNCHANGED copied

-----------------------------------------------------------------------------
(* The run (BackfillWorker).                                                *)

\* Mutant of Holds: ownership is not checked.
HoldsNothing(w, j) == TRUE

\* Settling statements are fenced on the owner; a row that is given back or
\* settled has none.
Holds(w, j) == jobs[j].owner = w

\* The loop of pollOnce goes on to the next job, or the poll is over.
Onward(w) ==
    wk' = [wk EXCEPT ![w] = IF wk[w].batch = <<>> THEN Idle
                            ELSE [Idle EXCEPT !.at = "next", !.batch = wk[w].batch]]

\* extendLease: a job that has moved on is left alone.
ReachJob(w) ==
    LET j == Head(wk[w].batch)
        rest == Tail(wk[w].batch) IN
    /\ wk[w].at = "next"
    /\ IF Holds(w, j)
       THEN /\ jobs' = [jobs EXCEPT ![j] = [@ EXCEPT !.lease = "live"]]
            /\ wk' = [wk EXCEPT ![w] = [Idle EXCEPT
                        !.at = "page", !.batch = rest, !.job = j,
                        !.attempts = jobs[j].attempts, !.cursor = jobs[j].cursor]]
       ELSE /\ UNCHANGED jobs
            /\ wk' = [wk EXCEPT ![w] = IF rest = <<>> THEN Idle ELSE [@ EXCEPT !.batch = rest]]
    /\ UNCHANGED <<due, copied>>

\* One page from Graph into the inbound ledger, where a page copied before
\* collides with itself.
CopyPage(w) ==
    LET k == jobs[wk[w].job].key
        p == wk[w].cursor + 1 IN
    /\ wk[w].at = "page"
    /\ copied' = [copied EXCEPT ![k] = @ \cup {p}]
    /\ wk' = [wk EXCEPT ![w] = [@ EXCEPT !.at = IF p = Pages[k] THEN "complete" ELSE "save",
                                         !.cursor = p]]
    /\ UNCHANGED <<jobs, due>>

\* The call, an insert, or the look at the channel before it, fails.
PageFails(w) ==
    /\ wk[w].at = "page"
    /\ \E t \in Troubles :
        wk' = [wk EXCEPT ![w] = [@ EXCEPT !.at = "fail", !.error = t]]
    /\ UNCHANGED <<jobs, due, copied>>

\* Mutant of Saved: the lease of a saved page is cleared.
SavedUnleased(row, cursor) ==
    [row EXCEPT !.cursor = cursor, !.attempts = 0, !.lease = "none"]

\* A saved page is not a failure: the count starts again.
Saved(row, cursor) ==
    [row EXCEPT !.cursor = cursor, !.attempts = 0, !.lease = "live"]

\* Out of pages, not out of history.
RunEnds(w) == Onward(w)

\* saveProgress, fenced; a run whose lease has moved on stops.
SaveProgress(w) ==
    LET j == wk[w].job IN
    /\ wk[w].at = "save"
    /\ IF Holds(w, j)
       THEN /\ jobs' = [jobs EXCEPT ![j] = Saved(@, wk[w].cursor)]
            /\ IF wk[w].pages + 1 = MaxPages THEN RunEnds(w)
               ELSE wk' = [wk EXCEPT ![w].at = "page", ![w].pages = @ + 1]
       ELSE UNCHANGED jobs /\ Onward(w)
    /\ UNCHANGED <<due, copied>>

Released(row, status, error) ==
    [row EXCEPT !.status = status, !.owner = None, !.lease = "none", !.error = error]

\* A settling statement that finds another owner changes nothing.
Settle(w, status, error) ==
    LET j == wk[w].job IN
    jobs' = IF Holds(w, j) THEN [jobs EXCEPT ![j] = Released(@, status, error)] ELSE jobs

MarkCompleted(w) ==
    /\ wk[w].at = "complete"
    /\ Settle(w, "completed", "none")
    /\ Onward(w)
    /\ UNCHANGED <<due, copied>>

\* scheduleRetry, on the count the claim returned.
Spent(w) == wk[w].attempts >= MaxAttempts

FailureStatus(w) ==
    CASE wk[w].error = "rate_limit" -> "rate_limited"
      [] wk[w].error = "blocked"    -> "paused"
      [] wk[w].error = "permanent"  -> "dead_letter"
      [] wk[w].error = "transient"  -> IF Spent(w) THEN "dead_letter" ELSE "failed"

HandleFailure(w) ==
    /\ wk[w].at = "fail"
    /\ Settle(w, FailureStatus(w), wk[w].error)
    /\ Onward(w)
    /\ UNCHANGED <<due, copied>>

\* A statement of the run throws, and handleFailure takes it as transient; one
\* outside the run's try ends the poll and leaves the batch leased.
StatementFails(w) ==
    /\ "db" \in Faults
    /\ \/ /\ wk[w].at \in {"save", "complete"}
          /\ wk' = [wk EXCEPT ![w] = [@ EXCEPT !.at = "fail", !.error = "transient"]]
       \/ /\ wk[w].at \in {"next", "fail"}
          /\ wk' = [wk EXCEPT ![w] = Idle]
    /\ UNCHANGED <<jobs, due, copied>>

-----------------------------------------------------------------------------
(* Time, the reaper and crashes.                                            *)

\* next_attempt_at or rate_limited_until passes.
BecomeDue(j) ==
    /\ jobs[j].status \in {"failed", "rate_limited"}
    /\ j \notin ToSet(due)
    /\ due' = Append(due, j)
    /\ UNCHANGED <<jobs, copied, wk>>

\* Whether a worker is on the job, or has yet to reach it.
Attended(j) == \E w \in Workers : wk[w].job = j \/ j \in ToSet(wk[w].batch)

\* A lease lapses when nobody is on the job, or under a worker that stalls.
LeaseExpires(j) ==
    /\ jobs[j].lease = "live"
    /\ Attended(j) => "stall" \in Faults
    /\ jobs' = [jobs EXCEPT ![j] = [@ EXCEPT !.lease = "lapsed"]]
    /\ UNCHANGED <<due, copied, wk>>

Reapable(j) == jobs[j].status = "running" /\ jobs[j].lease = "lapsed"

\* LeaseReaperWorker: whatever the count.
Reclaim(j) ==
    /\ Reapable(j)
    /\ jobs' = [jobs EXCEPT ![j] = [@ EXCEPT !.status = "pending", !.owner = None,
                                             !.lease = "none"]]
    /\ due' = Append(due, j)
    /\ UNCHANGED <<copied, wk>>

\* Another process replaces it under a new lease owner, so one keeps running.
Crash(w) ==
    /\ "crash" \in Faults
    /\ wk[w].at # "dead"
    /\ \E v \in Workers \ {w} : wk[v].at # "dead"
    /\ wk' = [wk EXCEPT ![w] = [Idle EXCEPT !.at = "dead"]]
    /\ UNCHANGED <<jobs, due, copied>>

Step(w) ==
    \/ ReachJob(w) \/ CopyPage(w) \/ PageFails(w) \/ SaveProgress(w)
    \/ MarkCompleted(w) \/ HandleFailure(w)

Next ==
    \/ \E w \in Workers : ClaimBatch(w) \/ Step(w) \/ StatementFails(w) \/ Crash(w)
    \/ \E k \in Keys : EnqueueIfAbsent(k)
    \/ \E j \in Jobs : BecomeDue(j) \/ LeaseExpires(j) \/ Reclaim(j)

Spec == Init /\ [][Next]_vars

-----------------------------------------------------------------------------
(* Safety.                                                                  *)

\* The saved cursor of a job never goes back, although a worker that stalled
\* past its lease wakes up in the middle of its walk and saves.
CursorNeverRewinds ==
    [][\A j \in Jobs : jobs[j].status # "absent" => jobs'[j].cursor >= jobs[j].cursor]_vars

\* A completed job has copied every page of its history, however often it was
\* interrupted, parked, paused or taken over.
CompletedMeansCopied ==
    \A j \in Jobs : jobs[j].status = "completed" =>
        1 .. Pages[jobs[j].key] \subseteq copied[jobs[j].key]

\* The saved cursor never runs ahead of what is in the inbound ledger: what a
\* crash costs is a page copied twice, never one left out.
CursorIsCopied ==
    \A j \in Jobs : jobs[j].status # "absent" =>
        1 .. jobs[j].cursor \subseteq copied[jobs[j].key]

QueueState(j) ==
    IF jobs[j].status \in ClaimableStatuses THEN "waiting"
    ELSE IF jobs[j].status = "running" THEN "held"
    ELSE jobs[j].status

Queue == INSTANCE LeasedQueue WITH
    Entries <- Jobs, Holders <- Workers, Nobody <- None,
    Outcomes <- SettledStatuses \cup {"paused"},
    \* only enqueueIfAbsent wakes a paused job
    Amendments <- {<<"paused", "waiting">>},
    state <- [j \in Jobs |-> QueueState(j)],
    owner <- [j \in Jobs |-> jobs[j].owner],
    hands <- [w \in Workers |-> ToSet(wk[w].batch) \cup ({wk[w].job} \ {None})],
    lapsed <- {j \in Jobs : Reapable(j)}

\* WalkIsWhole: sync jobs are a leased queue, a late failure of a worker that
\* lost the lease included, and the walks of all the workers a job passes
\* through add up to its whole history, in order (walk, saveProgress,
\* markCompleted, markFailed).
WalkIsWhole ==
    /\ [](TypeOK /\ CompletedMeansCopied /\ CursorIsCopied)
    /\ CursorNeverRewinds
    /\ Queue!Spec

-----------------------------------------------------------------------------
(* Liveness.                                                                *)

\* Pollers poll, awaited calls return, delays and leases of jobs nobody is on
\* pass, and the reaper runs every minute.
Fairness ==
    /\ \A w \in Workers : WF_vars(Step(w)) /\ WF_vars(ClaimBatch(w))
    /\ \A j \in Jobs : WF_vars(BecomeDue(j)) /\ WF_vars(LeaseExpires(j)) /\ WF_vars(Reclaim(j))

FairSpec == Spec /\ Fairness

\* Every job that is enqueued comes to rest: completed, dead-lettered, or
\* paused for a human.
EveryJobSettles ==
    \A j \in Jobs : jobs[j].status = "pending"
        ~> jobs[j].status \in SettledStatuses \cup {"paused"}

=============================================================================
