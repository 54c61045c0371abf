------------------------ MODULE OutboundRelayProofs ------------------------
(***************************************************************************)
(* Theorems about OutboundRelay, for every set of replies and workers and   *)
(* every lease, timeout, stall and grace that satisfy RelayAssumption.      *)
(***************************************************************************)
EXTENDS OutboundRelay, TLAPS

LEMMA LeaseRange ==
  /\ 0 \in -(GraceTicks + 1) .. LeaseTicks
  /\ LeaseTicks \in -(GraceTicks + 1) .. LeaseTicks
  BY RelayAssumption

LEMMA StatusNames ==
  /\ {"pending", "sending", "sent", "failed", "cancelled", "dead_letter"} \subseteq RowStatuses
  /\ {"readable", "aged"} \subseteq ReadBackStages
  BY DEF RowStatuses, DueStatuses, SettledStatuses, ReadBackStages

LEMMA ReleaseType == ASSUME NEW r \in RowType PROVE Release(r) \in RowType
  BY LeaseRange DEF Release, RowType

LEMMA RefundType ==
  ASSUME NEW n \in 0 .. AttemptBound, n # 0 PROVE n - 1 \in 0 .. AttemptBound
  BY RelayAssumption

LEMMA CancelledType ==
  ASSUME NEW r \in RowType, NEW amb \in BOOLEAN PROVE Cancelled(r, amb) \in RowType
  BY ReleaseType DEF Cancelled, RowType, RowStatuses, SettledStatuses, ReadBackStages

LEMMA FailedType ==
  ASSUME NEW r \in RowType, NEW retry \in BOOLEAN PROVE Failed(r, retry) \in RowType
<1> DEFINE status == IF ~retry \/ r.attempts >= MaxSendAttempts THEN "dead_letter" ELSE "failed"
<1>1. status \in RowStatuses
  BY StatusNames
<1>2. Failed(r, retry) = [Release(r) EXCEPT !.status = status, !.due = FALSE]
  BY DEF Failed
<1> HIDE DEF status
<1> QED BY <1>1, <1>2, ReleaseType DEF RowType

LEMMA RateLimitedType == ASSUME NEW r \in RowType PROVE RateLimited(r) \in RowType
  BY ReleaseType, RefundType
  DEF Release, RateLimited, RowType, RowStatuses, SettledStatuses, DueStatuses

LEMMA RecordedType ==
  ASSUME NEW m \in MsgType, NEW s \in {"sent", "failed"}, NEW b \in BOOLEAN
  PROVE  Recorded(m, s, b) \in MsgType
  BY DEF Recorded, MsgType

LEMMA IdleWorkerType == IdleWorker \in WorkerType
  BY RelayAssumption DEF IdleWorker, WorkerType, Phases, Deadline

LEMMA FailureClassType == \A g \in GraphError : FailureClass(g) \in FailureClasses
  BY DEF FailureClass, FailureClasses

LEMMA ReadBackResolvedType ==
  ASSUME NEW r \in RowType, NEW o \in ReadBacks PROVE ReadBackResolved(r, o) \in RowType
  BY StatusNames DEF ReadBackResolved, RowType

LEMMA CountedType == \A n \in 0 .. AttemptBound : Counted(n) \in 0 .. AttemptBound
  BY RelayAssumption DEF Counted

LEMMA OneMoreType == \A n \in 0 .. MaxCopies : OneMore(n) \in 0 .. MaxCopies
  BY DEF OneMore, MaxCopies

LEMMA OneTickType == ASSUME NEW r \in RowType PROVE OneTickOf(r) \in RowType
<1>1. \A l \in -(GraceTicks + 1) .. LeaseTicks :
        l > -(GraceTicks + 1) => l - 1 \in -(GraceTicks + 1) .. LeaseTicks
  BY RelayAssumption
<1> QED BY <1>1 DEF OneTickOf, RowType

LEMMA DeadlineType == Deadline \in Nat
  BY RelayAssumption DEF Deadline

\* What the end of deliver leaves of a worker.
LEMMA AdvanceType ==
  ASSUME TypeOK, NEW w \in Workers, NEW e, Advance(w, e)
  PROVE  wk' \in [Workers -> WorkerType]
<1> DEFINE left == wk[w].batch \ {e}
           next == [IdleWorker EXCEPT !.batch = left,
                                      !.phase = IF left = {} THEN "idle" ELSE "batch"]
<1>1. left \in SUBSET Events
  BY DEF TypeOK, WorkerType
<1>2. next \in WorkerType
  BY <1>1, IdleWorkerType DEF WorkerType, Phases
<1> QED BY <1>2 DEF Advance, TypeOK

LEMMA GoToType ==
  ASSUME TypeOK, NEW w \in Workers, NEW p \in Phases, GoTo(w, p)
  PROVE  wk' \in [Workers -> WorkerType]
  BY DEF GoTo, TypeOK, WorkerType

LEMMA SettleType ==
  ASSUME TypeOK, NEW w \in Workers, NEW e \in Events, NEW amb \in BOOLEAN,
         SettleAsFailed(w, e, amb)
  PROVE  row' \in [Events -> RowType] /\ msg' \in [Events -> MsgType]
  BY CancelledType, RecordedType DEF SettleAsFailed, TypeOK

LEMMA ClaimedType ==
  ASSUME NEW r \in RowType, NEW w \in Workers, NEW n \in 0 .. AttemptBound
  PROVE  [r EXCEPT !.status = "sending", !.owner = w, !.lease = LeaseTicks, !.attempts = n] \in RowType
<1>1. "sending" \in RowStatuses /\ LeaseTicks \in -(GraceTicks + 1) .. LeaseTicks
  BY LeaseRange, StatusNames
<1> QED BY <1>1, Zenon DEF RowType

LEMMA TypeInit == Init => TypeOK
<1> SUFFICES ASSUME Init PROVE TypeOK
  OBVIOUS
<1>1. NoRow \in RowType
  BY LeaseRange, RelayAssumption
  DEF NoRow, RowType, RowStatuses, ReadBackStages, ReadBacks
<1>2. [status |-> "none", stamped |-> FALSE] \in MsgType
  BY DEF MsgType
<1>3. 0 \in 0 .. MaxCopies
  BY DEF MaxCopies
<1> QED BY <1>1, <1>2, <1>3, IdleWorkerType DEF Init, TypeOK

LEMMA TypeWorkerStep ==
  ASSUME TypeOK, NEW w \in Workers, WorkerStep(w) PROVE TypeOK'
<1>1. CASE Claim(w)
  <2>1. PICK S \in SUBSET Claimable :
          /\ row' = [e \in Events |->
                       IF e \in S
                       THEN [row[e] EXCEPT !.status = "sending", !.owner = w,
                                           !.lease = LeaseFromNow,
                                           !.attempts = Counted(@)]
                       ELSE row[e]]
          /\ wk' = [wk EXCEPT ![w] = [IdleWorker EXCEPT !.phase = "batch", !.batch = S]]
    BY <1>1 DEF Claim
  <2>2. \A e \in Events :
          [row[e] EXCEPT !.status = "sending", !.owner = w, !.lease = LeaseFromNow,
                         !.attempts = Counted(@)] \in RowType
    <3> SUFFICES ASSUME NEW e \in Events
                 PROVE  [row[e] EXCEPT !.status = "sending", !.owner = w, !.lease = LeaseFromNow,
                                       !.attempts = Counted(@)] \in RowType
      OBVIOUS
    <3>1. row[e] \in RowType
      BY DEF TypeOK
    <3>2. Counted(row[e].attempts) \in 0 .. AttemptBound
      BY <3>1, CountedType DEF RowType
    <3> QED BY <3>1, <3>2, ClaimedType DEF LeaseFromNow
  <2>3. row' \in [Events -> RowType]
    BY <2>1, <2>2 DEF TypeOK
  <2>4. [IdleWorker EXCEPT !.phase = "batch", !.batch = S] \in WorkerType
    BY IdleWorkerType DEF WorkerType, Phases, Claimable
  <2>5. wk' \in [Workers -> WorkerType]
    BY <2>1, <2>4 DEF TypeOK
  <2> QED BY <1>1, <2>3, <2>5 DEF Claim, TypeOK
<1>2. CASE Crash(w)
  <2>1. [IdleWorker EXCEPT !.phase = "dead"] \in WorkerType
    BY IdleWorkerType DEF WorkerType, Phases
  <2>2. wk' \in [Workers -> WorkerType]
    BY <1>2, <2>1 DEF Crash, TypeOK
  <2> QED BY <1>2, <2>2 DEF Crash, TypeOK
<1>3. ASSUME NEW e \in Events, DeliverRefused(w, e) PROVE TypeOK'
  BY <1>3, SettleType, AdvanceType DEF DeliverRefused, TypeOK
<1>4. ASSUME NEW e \in Events, DeliverPressured(w, e) PROVE TypeOK'
  <2>1. row' \in [Events -> RowType]
    BY <1>4, RateLimitedType DEF DeliverPressured, TypeOK
  <2> QED BY <1>4, <2>1, AdvanceType DEF DeliverPressured, TypeOK
<1>5. ASSUME NEW e \in Events, DeliverReady(w, e) PROVE TypeOK'
  <2>1. row[e].attempts \in 0 .. AttemptBound
    BY DEF TypeOK, RowType
  <2>2. [wk[w] EXCEPT !.phase = "ready", !.ev = e, !.attempt = row[e].attempts]
          \in WorkerType
    BY <2>1 DEF TypeOK, WorkerType, Phases
  <2>3. wk' \in [Workers -> WorkerType]
    BY <1>5, <2>2 DEF DeliverReady, TypeOK
  <2> QED BY <1>5, <2>3 DEF DeliverReady, TypeOK
<1>6. ASSUME NEW e \in Events, LeaseLapsed(w, e) PROVE TypeOK'
  BY <1>6, AdvanceType DEF LeaseLapsed, TypeOK
<1>7. ASSUME NEW e \in Events, BeginSend(w, e) PROVE TypeOK'
  <2>1. [wk[w] EXCEPT !.phase = "flight", !.elapsed = 0] \in WorkerType
    <3>1. 0 \in 0 .. Deadline
      BY DeadlineType
    <3> QED BY <3>1 DEF TypeOK, WorkerType, Phases
  <2>2. wk' \in [Workers -> WorkerType]
    BY <1>7, <2>1 DEF BeginSend, TypeOK
  <2> QED BY <1>7, <2>2 DEF BeginSend, TypeOK
<1>8. ASSUME NEW e \in Events, PlatformAccepts(w, e) PROVE TypeOK'
  BY <1>8, GoToType, OneMoreType DEF PlatformAccepts, TypeOK, Phases
<1>9. ASSUME NEW e \in Events, RespondOk(w, e) PROVE TypeOK'
  BY <1>9, GoToType DEF RespondOk, TypeOK, Phases
<1>10. ASSUME NEW e \in Events, RespondError(w, e) PROVE TypeOK'
  <2>1. PICK g \in Errors :
          /\ wk' = [wk EXCEPT ![w] = [@ EXCEPT !.phase = "err", !.err = FailureClass(g)]]
          /\ latent' \in {latent} \cup
               {latent \cup {e} : x \in {y \in {"late"} \cap Faults :
                                           g.http = "none" /\ wk[w].phase = "flight"}}
    BY <1>10 DEF RespondError
  <2>2. FailureClass(g) \in FailureClasses
    BY FailureClassType, RelayAssumption
  <2>3. [wk[w] EXCEPT !.phase = "err", !.err = FailureClass(g)] \in WorkerType
    BY <2>2 DEF TypeOK, WorkerType, Phases
  <2>5. wk' \in [Workers -> WorkerType]
    BY <2>1, <2>3 DEF TypeOK
  <2>4. latent' \in SUBSET Events
    BY <2>1 DEF TypeOK
  <2> QED BY <1>10, <2>4, <2>5 DEF RespondError, TypeOK
<1>11. ASSUME NEW e \in Events, SendRefusedLocally(w, e) PROVE TypeOK'
  <2>1. [wk[w] EXCEPT !.phase = "err", !.err = "local"] \in WorkerType
    BY DEF TypeOK, WorkerType, Phases
  <2>2. wk' \in [Workers -> WorkerType]
    BY <1>11, <2>1 DEF SendRefusedLocally, TypeOK
  <2> QED BY <1>11, <2>2 DEF SendRefusedLocally, TypeOK
<1>12. ASSUME NEW e \in Events, MarkSent(w, e) PROVE TypeOK'
  <2>1. [Release(row[e]) EXCEPT !.status = "sent"] \in RowType
    BY ReleaseType DEF TypeOK, RowType, RowStatuses, SettledStatuses
  <2>2. row' \in [Events -> RowType]
    BY <1>12, <2>1 DEF MarkSent, TypeOK
  <2>3. wk' \in [Workers -> WorkerType]
    BY <1>12, GoToType, AdvanceType DEF MarkSent, Phases
  <2> QED BY <1>12, <2>2, <2>3 DEF MarkSent, TypeOK
<1>13. ASSUME NEW e \in Events, RecordDelivery(w, e) PROVE TypeOK'
  BY <1>13, AdvanceType, RecordedType DEF RecordDelivery, TypeOK
<1>14. ASSUME NEW e \in Events, FailReauth(w, e) PROVE TypeOK'
  BY <1>14, SettleType, AdvanceType DEF FailReauth, TypeOK
<1>15. ASSUME NEW e \in Events, FailAmbiguous(w, e) PROVE TypeOK'
  BY <1>15, SettleType, AdvanceType DEF FailAmbiguous, TypeOK
<1>16. ASSUME NEW e \in Events, FailThrottled(w, e) PROVE TypeOK'
  <2>1. row' \in [Events -> RowType]
    BY <1>16, RateLimitedType DEF FailThrottled, TypeOK
  <2>2. wk' \in [Workers -> WorkerType]
    BY <1>16, GoToType, AdvanceType DEF FailThrottled, Phases
  <2> QED BY <1>16, <2>1, <2>2 DEF FailThrottled, TypeOK
<1>17. ASSUME NEW e \in Events, FailPlain(w, e) PROVE TypeOK'
  <2>1. row' \in [Events -> RowType]
    <3>1. scheduleRetry(w) \in BOOLEAN
      BY DEF scheduleRetry
    <3> QED BY <1>17, <3>1, FailedType DEF FailPlain, TypeOK
  <2>2. wk' \in [Workers -> WorkerType]
    BY <1>17, GoToType, AdvanceType DEF FailPlain, Phases
  <2> QED BY <1>17, <2>1, <2>2 DEF FailPlain, TypeOK
<1>18. ASSUME NEW e \in Events, SettleMessage(w, e) PROVE TypeOK'
  BY <1>18, AdvanceType, RecordedType DEF SettleMessage, TypeOK
<1>19. ASSUME NEW e \in Events, StatementFails(w, e) PROVE TypeOK'
  BY <1>19, AdvanceType DEF StatementFails, TypeOK
<1> QED BY <1>1, <1>2, <1>3, <1>4, <1>5, <1>6, <1>7, <1>8, <1>9, <1>10, <1>11,
           <1>12, <1>13, <1>14, <1>15, <1>16, <1>17, <1>18, <1>19 DEF WorkerStep

\* Time moves a row through its stages without touching who owns it.
LEMMA AgedType ==
  ASSUME NEW r \in RowType, NEW stage \in ReadBackStages
  PROVE  /\ [r EXCEPT !.due = TRUE] \in RowType
         /\ [r EXCEPT !.old = TRUE] \in RowType
         /\ [r EXCEPT !.stage = stage] \in RowType
<1>1. [r EXCEPT !.due = TRUE] \in RowType
  BY Zenon DEF RowType
<1>2. [r EXCEPT !.old = TRUE] \in RowType
  BY Zenon DEF RowType
<1>3. [r EXCEPT !.stage = stage] \in RowType
  BY Zenon DEF RowType
<1> QED BY <1>1, <1>2, <1>3

LEMMA TypeEventStep ==
  ASSUME TypeOK, NEW e \in Events, EventStep(e) PROVE TypeOK'
<1> USE StatusNames
<1>0. row[e] \in RowType
  BY DEF TypeOK
<1>1. CASE Enqueue(e)
  <2>1. \A dm \in BOOLEAN :
            [row[e] EXCEPT !.status = "pending", !.due = TRUE, !.dm = dm] \in RowType
    BY DEF TypeOK, RowType
  <2>2. [msg[e] EXCEPT !.status = "pending"] \in MsgType
    BY DEF TypeOK, MsgType
  <2> QED BY <1>1, <2>1, <2>2 DEF Enqueue, TypeOK
<1>2. CASE BecomeDue(e)
  <2>1. [row[e] EXCEPT !.due = TRUE] \in RowType
    BY <1>0, AgedType DEF ReadBackStages
  <2> QED BY <1>2, <2>1 DEF BecomeDue, TypeOK
<1>3. CASE AgePastMaxWait(e)
  <2>1. [row[e] EXCEPT !.old = TRUE] \in RowType
    BY <1>0, AgedType DEF ReadBackStages
  <2> QED BY <1>3, <2>1 DEF AgePastMaxWait, TypeOK
<1>4. CASE AgeReadBack(e)
  <2>1. [row[e] EXCEPT !.stage = IF @ = "fresh" THEN "readable" ELSE "aged"] \in RowType
    <3>1. (IF row[e].stage = "fresh" THEN "readable" ELSE "aged") \in ReadBackStages
      BY DEF ReadBackStages
    <3> QED BY <1>0, <3>1, AgedType
  <2> QED BY <1>4, <2>1 DEF AgeReadBack, TypeOK
<1>5. CASE Reclaim(e)
  <2>1. [Release(row[e]) EXCEPT !.status = "pending", !.due = TRUE] \in RowType
    <3>1. row[e] \in RowType
      BY DEF TypeOK
    <3>2. Release(row[e]) \in RowType
      BY <3>1, ReleaseType
    <3> QED BY <3>2 DEF RowType
  <2> QED BY <1>5, <2>1 DEF Reclaim, TypeOK
<1>6. CASE LatentLands(e)
  BY <1>6, OneMoreType DEF LatentLands, TypeOK
<1>7. CASE LatentDropped(e)
  BY <1>7 DEF LatentDropped, TypeOK
<1>8. CASE Echo(e)
  BY <1>8, RecordedType DEF Echo, TypeOK
<1>9. CASE ReadBack(e)
  <2>1. PICK o \in ReadBackOutcomes(e) :
          /\ row' = [row EXCEPT ![e] = ReadBackResolved(@, o)]
          /\ verdict' = IF o = "landed" THEN verdict \cup {e} ELSE verdict
    BY <1>9 DEF ReadBack
  <2>2. o \in ReadBacks
    BY DEF ReadBackOutcomes, ReadBacks
  <2>3. row' \in [Events -> RowType]
    BY <2>1, <2>2, ReadBackResolvedType DEF TypeOK
  <2>4. verdict' \in SUBSET Events
    BY <2>1 DEF TypeOK
  <2> QED BY <1>9, <2>3, <2>4 DEF ReadBack, TypeOK
<1>10. CASE RecordReadBack(e)
  BY <1>10, RecordedType DEF RecordReadBack, TypeOK
<1>11. CASE ForgetReadBack(e)
  BY <1>11 DEF ForgetReadBack, TypeOK
<1> QED BY <1>1, <1>2, <1>3, <1>4, <1>5, <1>6, <1>7, <1>8, <1>9, <1>10, <1>11
        DEF EventStep

LEMMA TypeTick == ASSUME TypeOK, Tick PROVE TypeOK'
<1>1. row' \in [Events -> RowType]
  BY OneTickType DEF Tick, TypeOK
<1>2. \A w \in Workers : InFlight(w) => [wk[w] EXCEPT !.elapsed = @ + 1] \in WorkerType
  <2> SUFFICES ASSUME NEW w \in Workers, InFlight(w)
               PROVE  [wk[w] EXCEPT !.elapsed = @ + 1] \in WorkerType
    OBVIOUS
  <2>1. wk[w].elapsed + 1 \in 0 .. Deadline
    BY DeadlineType DEF Tick, TypeOK, WorkerType
  <2> QED BY <2>1 DEF TypeOK, WorkerType
<1>3. wk' \in [Workers -> WorkerType]
  BY <1>2 DEF Tick, TypeOK
<1> QED BY <1>1, <1>3 DEF Tick, TypeOK

LEMMA TypeStep == TypeOK /\ [Next]_vars => TypeOK'
<1> SUFFICES ASSUME TypeOK, [Next]_vars PROVE TypeOK'
  OBVIOUS
<1>1. CASE Reconnect
  BY <1>1 DEF Reconnect, TypeOK
<1>2. CASE AtRest \/ UNCHANGED vars
  BY <1>2 DEF AtRest, vars, TypeOK
<1> QED BY <1>1, <1>2, TypeWorkerStep, TypeEventStep, TypeTick DEF Next

\* Every state the relay, the reaper, the reconciler and the platform can reach
\* is well typed: in particular every lease stays within its range and every
\* status is one the ledger knows.
THEOREM TypeCorrect == Spec => []TypeOK
  BY TypeInit, TypeStep, PTL DEF Spec

-----------------------------------------------------------------------------
(* One request at a time.  NoConcurrentRequests is not inductive: nothing in *)
(* it keeps the reaper away from a row whose request is still under way.     *)
(* RelayInv adds who owns the row and how lease and request age together.    *)

RelayInv == TypeOK /\ OwnedIsSending /\ LeaseCoversRequest

\* A request keeps its cover while neither its worker nor its row changes.
LEMMA CoverFrame ==
  ASSUME NEW w \in Workers, RequestCovered(w), wk'[w] = wk[w],
         wk[w].ev \in Events => row'[wk[w].ev] = row[wk[w].ev]
  PROVE  RequestCovered(w)'
  BY DEF RequestCovered, InFlight

\* What a worker does to a row it owns, or to none, leaves the requests of the
\* other workers covered: their rows are not its own.
LEMMA OthersCovered ==
  ASSUME RelayInv, NEW v \in Workers, NEW e \in Events, ~InFlight(v)',
         \A w \in Workers \ {v} : wk'[w] = wk[w],
         \A f \in Events \ {e} : row'[f] = row[f],
         row[e].owner # v => row'[e] = row[e]
  PROVE  LeaseCoversRequest'
<1> SUFFICES ASSUME NEW w \in Workers PROVE RequestCovered(w)'
  BY DEF LeaseCoversRequest
<1>1. CASE w = v
  BY <1>1 DEF RequestCovered
<1>2. CASE w # v
  <2>1. RequestCovered(w) /\ wk'[w] = wk[w]
    BY <1>2 DEF RelayInv, LeaseCoversRequest
  <2>2. CASE InFlight(w)
    <3>1. row[wk[w].ev].owner = w
      BY <2>1, <2>2 DEF RequestCovered
    <3>2. wk[w].ev \in Events => row'[wk[w].ev] = row[wk[w].ev]
      BY <1>2, <3>1
    <3> QED BY <2>1, <3>2, CoverFrame
  <2>3. CASE ~InFlight(w)
    BY <2>1, <2>3 DEF RequestCovered, InFlight
  <2> QED BY <2>2, <2>3
<1> QED BY <1>1, <1>2

LEMMA AdvanceEnds ==
  ASSUME TypeOK, NEW w \in Workers, NEW e, Advance(w, e)
  PROVE  ~InFlight(w)' /\ \A v \in Workers \ {w} : wk'[v] = wk[v]
  BY DEF Advance, InFlight, TypeOK, IdleWorker

LEMMA GoToEnds ==
  ASSUME TypeOK, NEW w \in Workers, NEW p \in {"ok", "recorded", "settle"}, GoTo(w, p)
  PROVE  ~InFlight(w)' /\ \A v \in Workers \ {w} : wk'[v] = wk[v]
  BY DEF GoTo, InFlight, TypeOK, WorkerType

LEMMA SettleFenced ==
  ASSUME TypeOK, OwnedIsSending, NEW w \in Workers, NEW e \in Events, NEW amb,
         SettleAsFailed(w, e, amb)
  PROVE  /\ \A f \in Events \ {e} : row'[f] = row[f]
         /\ row[e].owner # w => row'[e] = row[e]
         /\ OwnedIsSending'
<1>1. Cancelled(row[e], amb).owner = NoWorker
  BY DEF Cancelled, Release, TypeOK, RowType
<1> QED BY <1>1 DEF SettleAsFailed, Fenced, OwnedIsSending, TypeOK

LEMMA ParkFenced ==
  ASSUME TypeOK, OwnedIsSending, NEW w \in Workers, NEW e \in Events,
         row' = [row EXCEPT ![e] = IF Fenced(w, e) THEN RateLimited(@) ELSE @]
  PROVE  /\ \A f \in Events \ {e} : row'[f] = row[f]
         /\ row[e].owner # w => row'[e] = row[e]
         /\ OwnedIsSending'
<1>1. RateLimited(row[e]).owner = NoWorker
  BY DEF RateLimited, Release, TypeOK, RowType
<1> QED BY <1>1 DEF Fenced, OwnedIsSending, TypeOK

LEMMA FailFenced ==
  ASSUME TypeOK, OwnedIsSending, NEW w \in Workers, NEW e \in Events, NEW retry,
         row' = [row EXCEPT ![e] = IF Fenced(w, e) THEN Failed(@, retry) ELSE @]
  PROVE  /\ \A f \in Events \ {e} : row'[f] = row[f]
         /\ row[e].owner # w => row'[e] = row[e]
         /\ OwnedIsSending'
<1>1. Failed(row[e], retry).owner = NoWorker
  BY DEF Failed, Release, TypeOK, RowType
<1> QED BY <1>1 DEF Fenced, OwnedIsSending, TypeOK

\* A step of a worker that leaves every row alone and is not a request.
LEMMA RowsUntouched ==
  ASSUME RelayInv, NEW v \in Workers, ~InFlight(v)', UNCHANGED row,
         \A w \in Workers \ {v} : wk'[w] = wk[w]
  PROVE  OwnedIsSending' /\ LeaseCoversRequest'
<1>1. OwnedIsSending'
  BY DEF RelayInv, OwnedIsSending
<1>2. ASSUME NEW w \in Workers PROVE RequestCovered(w)'
  <2>1. CASE w = v
    BY <2>1 DEF RequestCovered
  <2>2. CASE w # v
    BY <2>2, CoverFrame DEF RelayInv, LeaseCoversRequest
  <2> QED BY <2>1, <2>2
<1> QED BY <1>1, <1>2 DEF LeaseCoversRequest

LEMMA InvWorkerStep ==
  ASSUME RelayInv, NEW w \in Workers, WorkerStep(w)
  PROVE  OwnedIsSending' /\ LeaseCoversRequest'
<1> USE DEF RelayInv
<1>1. CASE Claim(w)
  <2>1. PICK S \in SUBSET Claimable :
          /\ row' = [e \in Events |->
                       IF e \in S
                       THEN [row[e] EXCEPT !.status = "sending", !.owner = w,
                                           !.lease = LeaseFromNow,
                                           !.attempts = Counted(@)]
                       ELSE row[e]]
          /\ wk' = [wk EXCEPT ![w] = [IdleWorker EXCEPT !.phase = "batch", !.batch = S]]
    BY <1>1 DEF Claim
  <2>2. \A e \in Events : e \in S => row'[e].owner = w /\ row'[e].status = "sending"
    BY <2>1 DEF TypeOK, RowType
  <2>3. \A e \in Events : e \notin S => row'[e] = row[e]
    BY <2>1
  <2>4. OwnedIsSending'
    BY <2>2, <2>3 DEF OwnedIsSending
  <2>5. ~InFlight(w)' /\ \A v \in Workers \ {w} : wk'[v] = wk[v]
    BY <2>1 DEF InFlight, IdleWorker, TypeOK
  <2>6. \A e \in S : row[e].status # "sending"
    BY DEF Claimable, DueStatuses
  <2>7. ASSUME NEW v \in Workers PROVE RequestCovered(v)'
    <3>1. CASE v = w
      BY <3>1, <2>5 DEF RequestCovered
    <3>2. CASE v # w /\ InFlight(v)
      <4>1. wk[v].ev \in Events /\ wk[v].ev \notin S
        BY <3>2, <2>6 DEF LeaseCoversRequest, RequestCovered
      <4> QED BY <3>2, <4>1, <2>3, <2>5, CoverFrame DEF LeaseCoversRequest
    <3>3. CASE v # w /\ ~InFlight(v)
      BY <3>3, <2>5 DEF RequestCovered, InFlight
    <3> QED BY <3>1, <3>2, <3>3
  <2> QED BY <2>4, <2>7 DEF LeaseCoversRequest
<1>2. CASE Crash(w)
  <2>1. ~InFlight(w)' /\ \A v \in Workers \ {w} : wk'[v] = wk[v]
    BY <1>2 DEF Crash, InFlight, IdleWorker, TypeOK
  <2> QED BY <1>2, <2>1, RowsUntouched DEF Crash
<1>3. ASSUME NEW e \in Events, DeliverRefused(w, e)
      PROVE  OwnedIsSending' /\ LeaseCoversRequest'
  BY <1>3, SettleFenced, AdvanceEnds, OthersCovered DEF DeliverRefused
<1>4. ASSUME NEW e \in Events, DeliverPressured(w, e)
      PROVE  OwnedIsSending' /\ LeaseCoversRequest'
  <2>1. row' = [row EXCEPT ![e] = IF Fenced(w, e) THEN RateLimited(@) ELSE @]
    BY <1>4 DEF DeliverPressured
  <2>2. /\ \A f \in Events \ {e} : row'[f] = row[f]
        /\ row[e].owner # w => row'[e] = row[e]
        /\ OwnedIsSending'
    BY <2>1, ParkFenced
  <2>3. ~InFlight(w)' /\ \A v \in Workers \ {w} : wk'[v] = wk[v]
    BY <1>4, AdvanceEnds DEF DeliverPressured
  <2> QED BY <2>2, <2>3, OthersCovered
<1>5. ASSUME NEW e \in Events, DeliverReady(w, e)
      PROVE  OwnedIsSending' /\ LeaseCoversRequest'
  <2>1. ~InFlight(w)' /\ \A v \in Workers \ {w} : wk'[v] = wk[v]
    BY <1>5 DEF DeliverReady, InFlight, TypeOK, WorkerType
  <2> QED BY <1>5, <2>1, RowsUntouched DEF DeliverReady
<1>6. ASSUME NEW e \in Events, LeaseLapsed(w, e)
      PROVE  OwnedIsSending' /\ LeaseCoversRequest'
  BY <1>6, AdvanceEnds, RowsUntouched DEF LeaseLapsed
<1>7. ASSUME NEW e \in Events, BeginSend(w, e)
      PROVE  OwnedIsSending' /\ LeaseCoversRequest'
  <2>1. /\ wk'[w].ev = e /\ wk'[w].elapsed = 0
        /\ \A v \in Workers \ {w} : wk'[v] = wk[v]
    BY <1>7 DEF BeginSend, At, TypeOK, WorkerType
  <2>2. row' = row /\ row[e].owner = w /\ row[e].lease > 0
    BY <1>7 DEF BeginSend, stillHoldsLease
  <2>3. row[e].status = "sending"
    BY <2>2, RelayAssumption DEF OwnedIsSending
  <2>4. row[e].lease + 0 > 0
    BY <2>2, RelayAssumption DEF TypeOK, RowType
  <2>5. RequestCovered(w)'
    BY <2>1, <2>2, <2>3, <2>4 DEF RequestCovered
  <2>6. ASSUME NEW v \in Workers \ {w} PROVE RequestCovered(v)'
    BY <2>1, <2>2, CoverFrame DEF LeaseCoversRequest
  <2> QED BY <2>2, <2>5, <2>6 DEF OwnedIsSending, LeaseCoversRequest
<1>8. ASSUME NEW e \in Events, PlatformAccepts(w, e)
      PROVE  OwnedIsSending' /\ LeaseCoversRequest'
  <2>1. /\ wk'[w].ev = wk[w].ev /\ wk'[w].elapsed = wk[w].elapsed
        /\ \A v \in Workers \ {w} : wk'[v] = wk[v]
    BY <1>8 DEF PlatformAccepts, GoTo, TypeOK, WorkerType
  <2>2. row' = row /\ InFlight(w)
    BY <1>8 DEF PlatformAccepts, At, InFlight
  <2>3. RequestCovered(w)'
    BY <2>1, <2>2 DEF LeaseCoversRequest, RequestCovered
  <2>4. ASSUME NEW v \in Workers \ {w} PROVE RequestCovered(v)'
    BY <2>1, <2>2, CoverFrame DEF LeaseCoversRequest
  <2> QED BY <2>2, <2>3, <2>4 DEF OwnedIsSending, LeaseCoversRequest
<1>9. ASSUME NEW e \in Events, RespondOk(w, e)
      PROVE  OwnedIsSending' /\ LeaseCoversRequest'
  BY <1>9, GoToEnds, RowsUntouched DEF RespondOk
<1>10. ASSUME NEW e \in Events, RespondError(w, e)
      PROVE  OwnedIsSending' /\ LeaseCoversRequest'
  <2>1. ~InFlight(w)' /\ \A v \in Workers \ {w} : wk'[v] = wk[v]
    BY <1>10 DEF RespondError, InFlight, TypeOK, WorkerType
  <2> QED BY <1>10, <2>1, RowsUntouched DEF RespondError
<1>11. ASSUME NEW e \in Events, SendRefusedLocally(w, e)
      PROVE  OwnedIsSending' /\ LeaseCoversRequest'
  <2>1. ~InFlight(w)' /\ \A v \in Workers \ {w} : wk'[v] = wk[v]
    BY <1>11 DEF SendRefusedLocally, InFlight, TypeOK, WorkerType
  <2> QED BY <1>11, <2>1, RowsUntouched DEF SendRefusedLocally
<1>12. ASSUME NEW e \in Events, MarkSent(w, e)
      PROVE  OwnedIsSending' /\ LeaseCoversRequest'
  <2>1. ~InFlight(w)' /\ \A v \in Workers \ {w} : wk'[v] = wk[v]
    BY <1>12, GoToEnds, AdvanceEnds DEF MarkSent
  <2>2. /\ \A f \in Events \ {e} : row'[f] = row[f]
        /\ row[e].owner # w => row'[e] = row[e]
        /\ row[e].owner = w => row'[e].owner = NoWorker
    BY <1>12 DEF MarkSent, Release, TypeOK, RowType
  <2>3. OwnedIsSending'
    BY <2>2 DEF OwnedIsSending
  <2> QED BY <2>1, <2>2, <2>3, OthersCovered
<1>13. ASSUME NEW e \in Events, RecordDelivery(w, e)
      PROVE  OwnedIsSending' /\ LeaseCoversRequest'
  BY <1>13, AdvanceEnds, RowsUntouched DEF RecordDelivery
<1>14. ASSUME NEW e \in Events, FailReauth(w, e)
      PROVE  OwnedIsSending' /\ LeaseCoversRequest'
  BY <1>14, SettleFenced, AdvanceEnds, OthersCovered DEF FailReauth
<1>15. ASSUME NEW e \in Events, FailAmbiguous(w, e)
      PROVE  OwnedIsSending' /\ LeaseCoversRequest'
  BY <1>15, SettleFenced, AdvanceEnds, OthersCovered DEF FailAmbiguous
<1>16. ASSUME NEW e \in Events, FailThrottled(w, e)
      PROVE  OwnedIsSending' /\ LeaseCoversRequest'
  <2>1. ~InFlight(w)' /\ \A v \in Workers \ {w} : wk'[v] = wk[v]
    BY <1>16, GoToEnds, AdvanceEnds DEF FailThrottled
  <2>2. row' = [row EXCEPT ![e] = IF Fenced(w, e) THEN RateLimited(@) ELSE @]
    BY <1>16 DEF FailThrottled
  <2>3. /\ \A f \in Events \ {e} : row'[f] = row[f]
        /\ row[e].owner # w => row'[e] = row[e]
        /\ OwnedIsSending'
    BY <2>2, ParkFenced
  <2> QED BY <2>1, <2>3, OthersCovered
<1>17. ASSUME NEW e \in Events, FailPlain(w, e)
      PROVE  OwnedIsSending' /\ LeaseCoversRequest'
  <2>1. ~InFlight(w)' /\ \A v \in Workers \ {w} : wk'[v] = wk[v]
    BY <1>17, GoToEnds, AdvanceEnds DEF FailPlain
  <2>2. row' = [row EXCEPT ![e] = IF Fenced(w, e) THEN Failed(@, scheduleRetry(w)) ELSE @]
    BY <1>17 DEF FailPlain
  <2>3. /\ \A f \in Events \ {e} : row'[f] = row[f]
        /\ row[e].owner # w => row'[e] = row[e]
        /\ OwnedIsSending'
    BY <2>2, FailFenced
  <2> QED BY <2>1, <2>3, OthersCovered
<1>18. ASSUME NEW e \in Events, SettleMessage(w, e)
      PROVE  OwnedIsSending' /\ LeaseCoversRequest'
  BY <1>18, AdvanceEnds, RowsUntouched DEF SettleMessage
<1>19. ASSUME NEW e \in Events, StatementFails(w, e)
      PROVE  OwnedIsSending' /\ LeaseCoversRequest'
  BY <1>19, AdvanceEnds, RowsUntouched DEF StatementFails
<1> QED BY <1>1, <1>2, <1>3, <1>4, <1>5, <1>6, <1>7, <1>8, <1>9, <1>10, <1>11,
           <1>12, <1>13, <1>14, <1>15, <1>16, <1>17, <1>18, <1>19 DEF WorkerStep

LEMMA InvReclaim ==
  ASSUME RelayInv, NEW e \in Events, Reclaim(e)
  PROVE  OwnedIsSending' /\ LeaseCoversRequest'
<1> USE DEF RelayInv
<1>1. /\ \A f \in Events \ {e} : row'[f] = row[f]
      /\ row'[e].owner = NoWorker
      /\ wk' = wk
  BY DEF Reclaim, Release, TypeOK, RowType
<1>2. OwnedIsSending'
  BY <1>1 DEF OwnedIsSending
\* The heart of it: while the request may still be under way, the grace is not over.
<1>3. ASSUME NEW w \in Workers, InFlight(w) PROVE wk[w].ev # e
  <2>1. /\ row[wk[w].ev].lease + wk[w].elapsed > 0
        /\ wk[w].elapsed \in 0 .. Deadline
        /\ wk[w].ev \in Events
    BY <1>3 DEF LeaseCoversRequest, RequestCovered, TypeOK, WorkerType
  <2>2. row[e].lease < -GraceTicks /\ row[e].lease \in -(GraceTicks + 1) .. LeaseTicks
    BY DEF Reclaim, Reapable, TypeOK, RowType
  <2>3. Deadline <= GraceTicks
    BY RelayAssumption DEF Deadline
  <2> QED BY <2>1, <2>2, <2>3, DeadlineType, RelayAssumption
<1>4. ASSUME NEW w \in Workers PROVE RequestCovered(w)'
  <2>1. CASE InFlight(w)
    BY <1>1, <1>3, <2>1, CoverFrame DEF LeaseCoversRequest
  <2>2. CASE ~InFlight(w)
    BY <1>1, <2>2 DEF RequestCovered, InFlight
  <2> QED BY <2>1, <2>2
<1> QED BY <1>2, <1>4 DEF LeaseCoversRequest

\* A step that keeps owner, status and lease of every row, and every worker.
LEMMA InvKept ==
  ASSUME RelayInv, wk' = wk,
         \A f \in Events : /\ row'[f].owner = row[f].owner
                           /\ row'[f].lease = row[f].lease
                           /\ row[f].owner # NoWorker => row'[f].status = row[f].status
  PROVE  OwnedIsSending' /\ LeaseCoversRequest'
<1>1. OwnedIsSending'
  BY DEF RelayInv, OwnedIsSending
<1>2. ASSUME NEW w \in Workers PROVE RequestCovered(w)'
  <2>1. CASE InFlight(w)
    <3>1. /\ wk[w].ev \in Events /\ row[wk[w].ev].owner = w
          /\ row[wk[w].ev].status = "sending"
          /\ row[wk[w].ev].lease + wk[w].elapsed > 0
      BY <2>1 DEF RelayInv, LeaseCoversRequest, RequestCovered
    <3>2. w # NoWorker
      BY RelayAssumption
    <3> QED BY <3>1, <3>2 DEF RequestCovered
  <2>2. CASE ~InFlight(w)
    BY <2>2 DEF RequestCovered, InFlight
  <2> QED BY <2>1, <2>2
<1> QED BY <1>1, <1>2 DEF LeaseCoversRequest

LEMMA InvEventStep ==
  ASSUME RelayInv, NEW e \in Events, EventStep(e)
  PROVE  OwnedIsSending' /\ LeaseCoversRequest'
<1> USE DEF RelayInv
<1>1. CASE Enqueue(e)
  <2>1. row[e].owner = NoWorker
    BY <1>1 DEF Enqueue, OwnedIsSending
  <2>2. /\ \A f \in Events \ {e} : row'[f] = row[f]
        /\ row'[e].owner = row[e].owner /\ row'[e].lease = row[e].lease
    BY <1>1 DEF Enqueue, TypeOK, RowType
  <2> QED BY <1>1, <2>1, <2>2, InvKept DEF Enqueue
<1>2. CASE Reclaim(e)
  BY <1>2, InvReclaim
<1>3. CASE ReadBack(e)
  <2>1. row[e].owner = NoWorker
    BY <1>3 DEF ReadBack, AwaitingReadBack, OwnedIsSending
  <2>2. PICK o : row' = [row EXCEPT ![e] = ReadBackResolved(@, o)]
    BY <1>3 DEF ReadBack
  <2>3. /\ \A f \in Events \ {e} : row'[f] = row[f]
        /\ row'[e].owner = row[e].owner /\ row'[e].lease = row[e].lease
    BY <2>2 DEF ReadBackResolved, TypeOK, RowType
  <2> QED BY <1>3, <2>1, <2>3, InvKept DEF ReadBack
<1>4. CASE BecomeDue(e)
  <2>1. \A f \in Events : /\ row'[f].owner = row[f].owner
                          /\ row'[f].lease = row[f].lease
                          /\ row'[f].status = row[f].status
    BY <1>4 DEF BecomeDue, TypeOK, RowType
  <2> QED BY <1>4, <2>1, InvKept DEF BecomeDue
<1>5. CASE AgePastMaxWait(e)
  <2>1. \A f \in Events : /\ row'[f].owner = row[f].owner
                          /\ row'[f].lease = row[f].lease
                          /\ row'[f].status = row[f].status
    BY <1>5 DEF AgePastMaxWait, TypeOK, RowType
  <2> QED BY <1>5, <2>1, InvKept DEF AgePastMaxWait
<1>6. CASE AgeReadBack(e)
  <2>1. \A f \in Events : /\ row'[f].owner = row[f].owner
                          /\ row'[f].lease = row[f].lease
                          /\ row'[f].status = row[f].status
    BY <1>6 DEF AgeReadBack, TypeOK, RowType
  <2> QED BY <1>6, <2>1, InvKept DEF AgeReadBack
<1>7. CASE \/ LatentLands(e) \/ LatentDropped(e) \/ Echo(e)
           \/ RecordReadBack(e) \/ ForgetReadBack(e)
  BY <1>7, InvKept DEF LatentLands, LatentDropped, Echo, RecordReadBack, ForgetReadBack
<1> QED BY <1>1, <1>2, <1>3, <1>4, <1>5, <1>6, <1>7 DEF EventStep

\* Lease and request age together, and the lease stops only beyond the grace.
LEMMA InvTick ==
  ASSUME RelayInv, Tick PROVE OwnedIsSending' /\ LeaseCoversRequest'
<1> USE DEF RelayInv
<1>1. \A f \in Events :
        /\ row'[f].owner = row[f].owner /\ row'[f].status = row[f].status
        /\ row'[f].lease \in Int /\ row'[f].lease >= row[f].lease - 1
  BY RelayAssumption DEF Tick, OneTickOf, TypeOK, RowType
<1>2. OwnedIsSending'
  BY <1>1 DEF OwnedIsSending
<1>3. ASSUME NEW w \in Workers PROVE RequestCovered(w)'
  <2>1. CASE InFlight(w)
    <3>1. /\ wk'[w].ev = wk[w].ev /\ wk'[w].elapsed = wk[w].elapsed + 1
      BY <2>1 DEF Tick, TypeOK, WorkerType
    <3>2. /\ wk[w].ev \in Events /\ row[wk[w].ev].owner = w
          /\ row[wk[w].ev].status = "sending"
          /\ row[wk[w].ev].lease + wk[w].elapsed > 0
      BY <2>1 DEF LeaseCoversRequest, RequestCovered
    <3>3. wk[w].elapsed \in Int /\ row[wk[w].ev].lease \in Int
      <4>1. wk[w] \in WorkerType /\ row[wk[w].ev] \in RowType
        BY <3>2 DEF TypeOK
      <4> QED BY <4>1 DEF WorkerType, RowType
    <3>4. row'[wk[w].ev].lease + (wk[w].elapsed + 1) > 0
      BY <1>1, <3>2, <3>3
    <3> QED BY <1>1, <3>1, <3>2, <3>4 DEF RequestCovered
  <2>2. CASE ~InFlight(w)
    BY <2>2 DEF Tick, RequestCovered, InFlight, TypeOK
  <2> QED BY <2>1, <2>2
<1> QED BY <1>2, <1>3 DEF LeaseCoversRequest

LEMMA InvInit == Init => RelayInv
<1> SUFFICES ASSUME Init PROVE RelayInv
  OBVIOUS
<1>1. OwnedIsSending
  BY DEF Init, NoRow, OwnedIsSending
<1>2. LeaseCoversRequest
  BY DEF Init, IdleWorker, LeaseCoversRequest, RequestCovered, InFlight
<1> QED BY <1>1, <1>2, TypeInit DEF RelayInv

LEMMA InvStep == RelayInv /\ [Next]_vars => RelayInv'
<1> SUFFICES ASSUME RelayInv, [Next]_vars PROVE RelayInv'
  OBVIOUS
<1>1. TypeOK'
  BY TypeStep DEF RelayInv
<1>2. CASE Reconnect \/ AtRest \/ UNCHANGED vars
  <2>1. wk' = wk /\ row' = row
    BY <1>2 DEF Reconnect, AtRest, vars
  <2> QED BY <1>1, <2>1, InvKept DEF RelayInv
<1> QED BY <1>1, <1>2, InvWorkerStep, InvEventStep, InvTick DEF Next, RelayInv

\* The inductive invariant holds in every reachable state.
THEOREM RelayInvariant == Spec => []RelayInv
  BY InvInit, InvStep, PTL DEF Spec

\* A request under way is covered by its worker's lease and the reaper's grace,
\* for every lease, timeout and grace with timeout + stall <= grace.
THEOREM RequestsAreCovered == Spec => [](OwnedIsSending /\ LeaseCoversRequest)
<1>1. RelayInv => OwnedIsSending /\ LeaseCoversRequest
  BY DEF RelayInv
<1> QED BY <1>1, RelayInvariant, PTL

\* No two workers ever have a request for the same reply under way, however
\* many workers and replies there are: the reaper hands a row on only when no
\* request for it can still be running.
THEOREM OneRequestAtATime == Spec => []NoConcurrentRequests
<1>1. RelayInv => NoConcurrentRequests
  BY DEF RelayInv, LeaseCoversRequest, RequestCovered, NoConcurrentRequests
<1> QED BY <1>1, RelayInvariant, PTL

-----------------------------------------------------------------------------
(***************************************************************************)
(* OutboundRelay implements LeasedQueue, for every set of replies and       *)
(* workers.  The refinement mapping is Queue in OutboundRelay.  Two facts    *)
(* carry it: a row with an owner is being sent, so what passes a fence       *)
(* finishes a held entry, and the row being delivered is in the batch, so    *)
(* the worker that writes has the entry in its hands.                        *)
(***************************************************************************)

\* The reply a worker is delivering is one of its batch.
CurrentInBatch ==
    \A w \in Workers : wk[w].ev # NoEvent => wk[w].ev \in wk[w].batch

\* What the steps of the queue are derived from.
QueueInv == TypeOK /\ OwnedIsSending /\ CurrentInBatch

\* The reaper may take the row: an element of the queue's lapsed.
Lapsed(e) == row[e].status = "sending" /\ row[e].lease < -GraceTicks

-----------------------------------------------------------------------------
(* Steps of the queue, from what they do to rows and hands.                 *)

\* A step that moves no status between the queue's states, no owner, no lapse and
\* no hand is a stuttering step of the queue.
LEMMA QueueRests ==
  ASSUME \A e \in Events : QueueState(e)' = QueueState(e),
         \A e \in Events : row'[e].owner = row[e].owner,
         \A e \in Events : Lapsed(e)' = Lapsed(e),
         \A w \in Workers : QueueHands(w)' = QueueHands(w)
  PROVE  UNCHANGED Queue!queueVars
<1>1. [e \in Events |-> QueueState(e)]' = [e \in Events |-> QueueState(e)]
  OBVIOUS
<1>2. [e \in Events |-> row[e].owner]' = [e \in Events |-> row[e].owner]
  OBVIOUS
<1>3. [w \in Workers |-> QueueHands(w)]' = [w \in Workers |-> QueueHands(w)]
  OBVIOUS
<1>4. {e \in Events : row[e].status = "sending" /\ row[e].lease < -GraceTicks}'
        = {e \in Events : row[e].status = "sending" /\ row[e].lease < -GraceTicks}
  BY DEF Lapsed
<1> QED BY <1>1, <1>2, <1>3, <1>4 DEF Queue!queueVars

\* A worker that gives back a row it owns, and takes it out of its hands, takes
\* the queue's Finish step.
LEMMA QueueFinish ==
  ASSUME NEW w \in Workers, NEW e \in Events, NEW to \in SettledStatuses \cup {"waiting"},
         e \in QueueHands(w),
         row[e].owner = w, row[e].status = "sending",
         QueueState(e)' = to, row'[e].owner = NoWorker, row'[e].status # "sending",
         \A f \in Events \ {e} : row'[f] = row[f],
         QueueHands(w)' = QueueHands(w) \ {e},
         \A v \in Workers \ {w} : QueueHands(v)' = QueueHands(v)
  PROVE  Queue!Next
<1>1. \A f \in Events \ {e} : QueueState(f)' = QueueState(f)
  BY DEF QueueState
<1>2. QueueState(e) = "held"
  BY DEF QueueState, DueStatuses
<1>3. Queue!Finish(w, e, to)
  <2>1. [f \in Events |-> row[f].owner][e] = w /\ [f \in Events |-> QueueState(f)][e] = "held"
    BY <1>2
  <2>2. [v \in Workers |-> QueueHands(v)]'
          = [[v \in Workers |-> QueueHands(v)] EXCEPT ![w] = @ \ {e}]
    OBVIOUS
  <2>3. [f \in Events |-> QueueState(f)]' = [[f \in Events |-> QueueState(f)] EXCEPT ![e] = to]
    BY <1>1
  <2>4. [f \in Events |-> row[f].owner]' = [[f \in Events |-> row[f].owner] EXCEPT ![e] = NoWorker]
    OBVIOUS
  <2>5. {f \in Events : row[f].status = "sending" /\ row[f].lease < -GraceTicks}'
          = {f \in Events : row[f].status = "sending" /\ row[f].lease < -GraceTicks} \ {e}
    OBVIOUS
  <2> QED BY <2>1, <2>2, <2>3, <2>4, <2>5 DEF Queue!Finish, Queue!Returned
<1>4. e \in [v \in Workers |-> QueueHands(v)][w]
  OBVIOUS
<1> QED BY <1>3, <1>4 DEF Queue!Next

\* A worker that drops rows from its hands and writes nothing lets them go.
LEMMA QueueLetsGo ==
  ASSUME NEW w \in Workers, NEW S \in SUBSET QueueHands(w),
         row' = row,
         QueueHands(w)' = QueueHands(w) \ S,
         \A v \in Workers \ {w} : QueueHands(v)' = QueueHands(v)
  PROVE  Queue!Next
<1>1. \A f \in Events : QueueState(f)' = QueueState(f)
  BY DEF QueueState
<1>2. Queue!LetGo(w, S)
  <2>1. [v \in Workers |-> QueueHands(v)]'
          = [[v \in Workers |-> QueueHands(v)] EXCEPT ![w] = @ \ S]
    OBVIOUS
  <2>2. [f \in Events |-> QueueState(f)]' = [f \in Events |-> QueueState(f)]
    BY <1>1
  <2> QED BY <2>1, <2>2 DEF Queue!LetGo
<1>3. S \in SUBSET [v \in Workers |-> QueueHands(v)][w]
  OBVIOUS
<1> QED BY <1>2, <1>3 DEF Queue!Next

\* A claim takes rows that wait, all of the batch at once.
LEMMA QueueTake ==
  ASSUME QueueInv, NEW w \in Workers, Claim(w) PROVE Queue!Next
<1> DEFINE claimed(e) == [row[e] EXCEPT !.status = "sending", !.owner = w,
                                        !.lease = LeaseFromNow, !.attempts = Counted(@)]
<1>1. PICK S \in SUBSET Claimable :
        /\ row' = [e \in Events |-> IF e \in S THEN claimed(e) ELSE row[e]]
        /\ wk' = [wk EXCEPT ![w] = [IdleWorker EXCEPT !.phase = "batch", !.batch = S]]
  BY DEF Claim
<1>2. \A e \in Events : /\ claimed(e).status = "sending" /\ claimed(e).owner = w
                        /\ claimed(e).lease = LeaseTicks
  BY DEF QueueInv, TypeOK, RowType, LeaseFromNow
<1> HIDE DEF claimed
<1>3. wk'[w].batch = S /\ wk'[w].phase = "batch" /\ \A v \in Workers \ {w} : wk'[v] = wk[v]
  BY <1>1 DEF QueueInv, TypeOK, IdleWorker
<1>4. \A e \in S : e \in Events /\ row[e].status \in DueStatuses
  BY DEF Claimable
<1>5. QueueHands(w)' = S /\ \A v \in Workers \ {w} : QueueHands(v)' = QueueHands(v)
  BY <1>3 DEF QueueHands
<1>6. /\ \A e \in S : QueueState(e) = "waiting" /\ QueueState(e)' = "held" /\ row'[e].owner = w
      /\ \A e \in Events \ S : QueueState(e)' = QueueState(e) /\ row'[e] = row[e]
  BY <1>1, <1>2, <1>4 DEF QueueState, DueStatuses
<1>7. \A e \in S : ~Lapsed(e) /\ ~Lapsed(e)'
  BY <1>1, <1>2, <1>4, RelayAssumption DEF Lapsed, DueStatuses
<1>8. \A e \in Events : Lapsed(e)' = Lapsed(e)
  BY <1>6, <1>7 DEF Lapsed
<1>9. Queue!Take(w, S)
  <2>1. [v \in Workers |-> QueueHands(v)]'
          = [[v \in Workers |-> QueueHands(v)] EXCEPT ![w] = S]
    BY <1>5
  <2>2. [e \in Events |-> QueueState(e)]'
          = [e \in Events |-> IF e \in S THEN "held" ELSE [f \in Events |-> QueueState(f)][e]]
    BY <1>6
  <2>3. [e \in Events |-> row[e].owner]'
          = [e \in Events |-> IF e \in S THEN w ELSE [f \in Events |-> row[f].owner][e]]
    BY <1>6
  <2>4. {e \in Events : row[e].status = "sending" /\ row[e].lease < -GraceTicks}'
          = {e \in Events : row[e].status = "sending" /\ row[e].lease < -GraceTicks}
    BY <1>8 DEF Lapsed
  <2> QED BY <2>1, <2>2, <2>3, <2>4 DEF Queue!Take
<1>10. S \in SUBSET Queue!Waiting
  BY <1>4, <1>6 DEF Queue!Waiting
<1> QED BY <1>9, <1>10 DEF Queue!Next

-----------------------------------------------------------------------------
(* What a worker's own steps do to its hands.                               *)

\* The phases in which the current row is settled and its message is not.
Between == {"recorded", "settle"}

\* A worker that does not move keeps its hands.
LEMMA HandsOfOthers ==
  ASSUME NEW v \in Workers, wk'[v] = wk[v] PROVE QueueHands(v)' = QueueHands(v)
  BY DEF QueueHands

\* At the end of deliver the row is out of the worker's hands.
LEMMA HandsOfAdvance ==
  ASSUME TypeOK, NEW w \in Workers, NEW e, Advance(w, e)
  PROVE  /\ QueueHands(w)' = wk[w].batch \ {e}
         /\ \A v \in Workers \ {w} : QueueHands(v)' = QueueHands(v)
<1> DEFINE left == wk[w].batch \ {e}
           next == [IdleWorker EXCEPT !.batch = left,
                                      !.phase = IF left = {} THEN "idle" ELSE "batch"]
<1>1. wk' = [wk EXCEPT ![w] = next]
  BY DEF Advance
<1>2. next.batch = left /\ next.phase \notin {"recorded", "settle"}
  BY DEF IdleWorker
<1>3. wk'[w] = next /\ \A v \in Workers \ {w} : wk'[v] = wk[v]
  BY <1>1 DEF TypeOK
<1> HIDE DEF next
<1>4. QueueHands(w)' = left
  BY <1>2, <1>3 DEF QueueHands
<1> QED BY <1>3, <1>4, HandsOfOthers

\* So it is once the row is settled and only its message is left.
LEMMA HandsOfGoTo ==
  ASSUME TypeOK, NEW w \in Workers, NEW p \in Between, GoTo(w, p)
  PROVE  /\ QueueHands(w)' = wk[w].batch \ {wk[w].ev}
         /\ \A v \in Workers \ {w} : QueueHands(v)' = QueueHands(v)
<1>1. /\ wk'[w].phase = p /\ wk'[w].batch = wk[w].batch /\ wk'[w].ev = wk[w].ev
      /\ \A v \in Workers \ {w} : wk'[v] = wk[v]
  BY DEF GoTo, TypeOK, WorkerType
<1> QED BY <1>1, HandsOfOthers DEF QueueHands, Between

\* A step of one worker that leaves its batch alone and stays before the
\* statement that settles the row, and touches no row, is none of the queue's.
LEMMA WorkerRests ==
  ASSUME NEW w \in Workers, row' = row,
         wk'[w].batch = wk[w].batch,
         wk[w].phase \notin Between, wk'[w].phase \notin Between,
         \A v \in Workers \ {w} : wk'[v] = wk[v]
  PROVE  UNCHANGED Queue!queueVars
<1>1. QueueHands(w)' = QueueHands(w)
  BY DEF QueueHands, Between
<1>2. \A v \in Workers : QueueHands(v)' = QueueHands(v)
  BY <1>1, HandsOfOthers
<1>3. \A f \in Events : QueueState(f)' = QueueState(f) /\ row'[f].owner = row[f].owner
                         /\ Lapsed(f)' = Lapsed(f)
  BY DEF QueueState, Lapsed
<1> QED BY <1>2, <1>3, QueueRests

\* A worker that goes on to its next row without a write lets this one go.
LEMMA WorkerLetsGo ==
  ASSUME QueueInv, NEW w \in Workers, NEW e \in wk[w].batch, row' = row,
         wk[w].phase \notin Between, Advance(w, e)
  PROVE  Queue!Next
<1>1. QueueHands(w) = wk[w].batch
  BY DEF QueueHands, Between
<1>2. {e} \in SUBSET QueueHands(w)
  BY <1>1
<1>3. /\ QueueHands(w)' = QueueHands(w) \ {e}
      /\ \A v \in Workers \ {w} : QueueHands(v)' = QueueHands(v)
  BY <1>1, HandsOfAdvance DEF QueueInv
<1> QED BY <1>2, <1>3, QueueLetsGo

\* A worker that writes to a row it owns, whatever it writes, finishes it.
LEMMA WorkerFinishes ==
  ASSUME QueueInv, NEW w \in Workers, NEW e \in wk[w].batch, NEW r,
         row[e].owner = w, wk[w].phase \notin Between,
         row' = [row EXCEPT ![e] = r],
         r.owner = NoWorker, r.status \in DueStatuses \cup SettledStatuses,
         \/ Advance(w, e)
         \/ wk[w].ev = e /\ \E p \in Between : GoTo(w, p)
  PROVE  Queue!Next
<1> DEFINE to == IF r.status \in DueStatuses THEN "waiting" ELSE r.status
<1>1. QueueHands(w) = wk[w].batch
  BY DEF QueueHands, Between
<1>2. e \in Events
  BY DEF QueueInv, TypeOK, WorkerType
<1>3. row[e].status = "sending"
  BY <1>2, RelayAssumption DEF QueueInv, OwnedIsSending
<1>4. /\ QueueHands(w)' = QueueHands(w) \ {e}
      /\ \A v \in Workers \ {w} : QueueHands(v)' = QueueHands(v)
  BY <1>1, HandsOfAdvance, HandsOfGoTo DEF QueueInv
<1>5. row'[e] = r /\ \A f \in Events \ {e} : row'[f] = row[f]
  BY <1>2 DEF QueueInv, TypeOK
<1>6. QueueState(e)' = to /\ to \in SettledStatuses \cup {"waiting"}
  BY <1>5 DEF QueueState, DueStatuses, SettledStatuses
<1>7. r.status # "sending"
  BY DEF DueStatuses, SettledStatuses
<1> HIDE DEF to
<1> QED BY <1>1, <1>2, <1>3, <1>4, <1>5, <1>6, <1>7, QueueFinish

\* Whatever the fenced statements write gives the row back.
LEMMA GivenBack ==
  ASSUME NEW r \in RowType, NEW b
  PROVE  /\ Cancelled(r, b).owner = NoWorker /\ Cancelled(r, b).status \in SettledStatuses
         /\ Failed(r, b).owner = NoWorker /\ Failed(r, b).status \in DueStatuses \cup SettledStatuses
         /\ RateLimited(r).owner = NoWorker
         /\ RateLimited(r).status \in DueStatuses \cup SettledStatuses
<1>1. Cancelled(r, b).owner = NoWorker /\ Cancelled(r, b).status \in SettledStatuses
  BY DEF Cancelled, Release, RowType, SettledStatuses
<1>2. Failed(r, b).owner = NoWorker /\ Failed(r, b).status \in DueStatuses \cup SettledStatuses
  BY DEF Failed, Release, RowType, DueStatuses, SettledStatuses
<1>3. RateLimited(r).owner = NoWorker
  BY DEF RateLimited, Release, RowType
<1>4. RateLimited(r).status \in DueStatuses \cup SettledStatuses
  BY DEF RateLimited, Release, RowType, DueStatuses, SettledStatuses
<1> QED BY <1>1, <1>2, <1>3, <1>4

\* A fenced statement and the step to the next row, or to the message, finish
\* the row or do nothing to it.
LEMMA FencedWrite ==
  ASSUME QueueInv, NEW w \in Workers, NEW e \in wk[w].batch, NEW r,
         wk[w].phase \notin Between,
         row' = [row EXCEPT ![e] = IF Fenced(w, e) THEN r ELSE @],
         r.owner = NoWorker, r.status \in DueStatuses \cup SettledStatuses,
         \/ Advance(w, e)
         \/ Fenced(w, e) /\ wk[w].ev = e /\ \E p \in Between : GoTo(w, p)
  PROVE  Queue!Next
<1>1. e \in Events /\ row \in [Events -> RowType]
  BY DEF QueueInv, TypeOK, WorkerType
<1>2. CASE Fenced(w, e)
  <2>1. row' = [row EXCEPT ![e] = r] /\ row[e].owner = w
    BY <1>2 DEF Fenced
  <2> QED BY <2>1, WorkerFinishes
<1>3. CASE ~Fenced(w, e)
  <2>1. row' = row
    BY <1>1, <1>3
  <2> QED BY <1>3, <2>1, WorkerLetsGo
<1> QED BY <1>2, <1>3

-----------------------------------------------------------------------------
(* The row being delivered is in the batch.                                 *)

\* One worker moves: its own current row is all there is to show.
LEMMA CurrentFrame ==
  ASSUME CurrentInBatch, NEW w \in Workers,
         \A v \in Workers \ {w} : wk'[v] = wk[v],
         wk'[w].ev # NoEvent => wk'[w].ev \in wk'[w].batch
  PROVE  CurrentInBatch'
  BY DEF CurrentInBatch

\* From the lease check to the answer a worker stays on the row of its batch.
LEMMA SentOn ==
  ASSUME TypeOK, NEW w \in Workers, NEW e \in Events,
         BeginSend(w, e) \/ RespondError(w, e) \/ SendRefusedLocally(w, e)
  PROVE  \E n : wk' = [wk EXCEPT ![w] = n] /\ n.ev = wk[w].ev /\ n.batch = wk[w].batch
                                           /\ n.phase \notin Between
<1>0. wk[w] \in WorkerType
  BY DEF TypeOK
<1>1. CASE BeginSend(w, e)
  <2> DEFINE n == [wk[w] EXCEPT !.phase = "flight", !.elapsed = 0]
  <2>1. wk' = [wk EXCEPT ![w] = n]
    BY <1>1 DEF BeginSend
  <2>2. n.ev = wk[w].ev /\ n.batch = wk[w].batch /\ n.phase \notin Between
    BY <1>0 DEF WorkerType, Between
  <2> QED BY <2>1, <2>2
<1>2. CASE RespondError(w, e)
  <2>1. PICK g \in Errors :
          wk' = [wk EXCEPT ![w] = [wk[w] EXCEPT !.phase = "err", !.err = FailureClass(g)]]
    BY <1>2 DEF RespondError
  <2> DEFINE n == [wk[w] EXCEPT !.phase = "err", !.err = FailureClass(g)]
  <2>2. n.ev = wk[w].ev /\ n.batch = wk[w].batch /\ n.phase \notin Between
    BY <1>0 DEF WorkerType, Between
  <2> QED BY <2>1, <2>2
<1>3. CASE SendRefusedLocally(w, e)
  <2> DEFINE n == [wk[w] EXCEPT !.phase = "err", !.err = "local"]
  <2>1. wk' = [wk EXCEPT ![w] = n]
    BY <1>3 DEF SendRefusedLocally
  <2>2. n.ev = wk[w].ev /\ n.batch = wk[w].batch /\ n.phase \notin Between
    BY <1>0 DEF WorkerType, Between
  <2> QED BY <2>1, <2>2
<1> QED BY <1>1, <1>2, <1>3

\* No step of a worker takes the row it delivers out of its batch.
LEMMA CurrentWorkerStep ==
  ASSUME QueueInv, NEW w \in Workers, WorkerStep(w) PROVE CurrentInBatch'
<1> USE DEF QueueInv
<1>1. CASE Claim(w)
  <2>1. PICK S \in SUBSET Claimable :
          wk' = [wk EXCEPT ![w] = [IdleWorker EXCEPT !.phase = "batch", !.batch = S]]
    BY <1>1 DEF Claim
  <2>2. wk'[w].ev = NoEvent /\ \A v \in Workers \ {w} : wk'[v] = wk[v]
    BY <2>1 DEF TypeOK, IdleWorker
  <2> QED BY <2>2, CurrentFrame
<1>2. CASE Crash(w)
  <2>1. wk'[w].ev = NoEvent /\ \A v \in Workers \ {w} : wk'[v] = wk[v]
    BY <1>2 DEF Crash, TypeOK, IdleWorker
  <2> QED BY <2>1, CurrentFrame
<1>3. ASSUME NEW e, Advance(w, e) PROVE CurrentInBatch'
  <2>1. wk'[w].ev = NoEvent /\ \A v \in Workers \ {w} : wk'[v] = wk[v]
    BY <1>3 DEF Advance, TypeOK, IdleWorker
  <2> QED BY <2>1, CurrentFrame
<1>4. ASSUME wk'[w].ev = wk[w].ev, wk'[w].batch = wk[w].batch,
             \A v \in Workers \ {w} : wk'[v] = wk[v]
      PROVE  CurrentInBatch'
  BY <1>4, CurrentFrame DEF CurrentInBatch
<1>5. ASSUME NEW p, GoTo(w, p) PROVE CurrentInBatch'
  <2>1. /\ wk'[w].ev = wk[w].ev /\ wk'[w].batch = wk[w].batch
        /\ \A v \in Workers \ {w} : wk'[v] = wk[v]
    BY <1>5 DEF GoTo, TypeOK, WorkerType
  <2> QED BY <2>1, <1>4
<1>6. ASSUME NEW e \in Events, DeliverReady(w, e) PROVE CurrentInBatch'
  <2>1. /\ wk'[w].ev = e /\ wk'[w].batch = wk[w].batch
        /\ \A v \in Workers \ {w} : wk'[v] = wk[v]
    BY <1>6 DEF DeliverReady, TypeOK, WorkerType
  <2>2. e \in wk[w].batch
    BY <1>6 DEF DeliverReady, Delivering
  <2> QED BY <2>1, <2>2, CurrentFrame
<1>7. ASSUME NEW e \in Events,
             BeginSend(w, e) \/ RespondError(w, e) \/ SendRefusedLocally(w, e)
      PROVE  CurrentInBatch'
  <2>1. \E n : wk' = [wk EXCEPT ![w] = n] /\ n.ev = wk[w].ev /\ n.batch = wk[w].batch
                                          /\ n.phase \notin Between
    BY <1>7, SentOn
  <2>2. /\ wk'[w].ev = wk[w].ev /\ wk'[w].batch = wk[w].batch
        /\ \A v \in Workers \ {w} : wk'[v] = wk[v]
    BY <2>1 DEF TypeOK
  <2> QED BY <2>2, <1>4
<1>8. ASSUME NEW e \in Events,
             \/ DeliverRefused(w, e) \/ DeliverPressured(w, e) \/ LeaseLapsed(w, e)
             \/ PlatformAccepts(w, e) \/ RespondOk(w, e)
             \/ MarkSent(w, e) \/ RecordDelivery(w, e)
             \/ FailReauth(w, e) \/ FailAmbiguous(w, e) \/ FailThrottled(w, e)
             \/ FailPlain(w, e) \/ SettleMessage(w, e) \/ StatementFails(w, e)
      PROVE  Advance(w, e) \/ \E p \in Phases : GoTo(w, p)
  BY <1>8 DEF DeliverRefused, DeliverPressured, LeaseLapsed, PlatformAccepts, RespondOk,
     MarkSent, RecordDelivery, FailReauth, FailAmbiguous, FailThrottled, FailPlain,
     SettleMessage, StatementFails, Phases
<1> QED BY <1>1, <1>2, <1>3, <1>5, <1>6, <1>7, <1>8 DEF WorkerStep

\* Nor does any other step.
LEMMA CurrentStep == QueueInv /\ [Next]_vars => CurrentInBatch'
<1> SUFFICES ASSUME QueueInv, [Next]_vars PROVE CurrentInBatch'
  OBVIOUS
<1>1. CASE Tick
  <2>1. \A w \in Workers : wk'[w].ev = wk[w].ev /\ wk'[w].batch = wk[w].batch
    BY <1>1 DEF Tick, QueueInv, TypeOK, WorkerType
  <2> QED BY <2>1 DEF QueueInv, CurrentInBatch
<1>2. CASE wk' = wk
  BY <1>2 DEF QueueInv, CurrentInBatch
<1>3. ASSUME NEW e \in Events, EventStep(e) PROVE wk' = wk
  BY <1>3 DEF EventStep, Enqueue, BecomeDue, AgePastMaxWait, AgeReadBack, Reclaim,
     LatentLands, LatentDropped, Echo, ReadBack, RecordReadBack, ForgetReadBack
<1>4. CASE Reconnect \/ AtRest \/ UNCHANGED vars
  BY <1>2, <1>4 DEF Reconnect, AtRest, vars
<1> QED BY <1>1, <1>2, <1>3, <1>4, CurrentWorkerStep DEF Next

\* RelayInv is inductive and holds OwnedIsSending; the refinement needs the row in
\* the batch as well.
RefinementInv == RelayInv /\ CurrentInBatch

\* RefinementInv is inductive.
THEOREM RefinementInvariant == Spec => []RefinementInv
<1>1. Init => CurrentInBatch
  BY DEF Init, CurrentInBatch, IdleWorker
<1>2. RefinementInv /\ [Next]_vars => RefinementInv'
  BY InvStep, CurrentStep DEF RefinementInv, QueueInv, RelayInv
<1> QED BY <1>1, <1>2, InvInit, PTL DEF Spec, RefinementInv

-----------------------------------------------------------------------------
(* Every step is a step of the queue.                                       *)

\* Each step of a worker is a take, a finish, a letting go or none of the queue's.
LEMMA WorkerStepIsQueueStep ==
  ASSUME QueueInv, NEW w \in Workers, WorkerStep(w)
  PROVE  Queue!Next \/ UNCHANGED Queue!queueVars
<1> USE DEF QueueInv
<1>0. wk \in [Workers -> WorkerType] /\ row \in [Events -> RowType]
  BY DEF TypeOK
<1>1. CASE Claim(w)
  BY <1>1, QueueTake
<1>2. CASE Crash(w)
  <2>1. wk' = [wk EXCEPT ![w] = [IdleWorker EXCEPT !.phase = "dead"]] /\ row' = row
    BY <1>2 DEF Crash
  <2>2. wk'[w].batch = {} /\ \A v \in Workers \ {w} : wk'[v] = wk[v]
    BY <1>0, <2>1 DEF IdleWorker
  <2>3. QueueHands(w)' = {}
    BY <2>2 DEF QueueHands
  <2>4. QueueHands(w)' = QueueHands(w) \ QueueHands(w)
    BY <2>3
  <2> QED BY <2>1, <2>2, <2>4, HandsOfOthers, QueueLetsGo
<1>3. ASSUME NEW e \in Events, wk[w].ev = e PROVE e \in wk[w].batch
  BY <1>3, RelayAssumption DEF CurrentInBatch
<1>4. ASSUME NEW e \in Events, DeliverRefused(w, e) \/ DeliverPressured(w, e)
      PROVE  Queue!Next
  <2>1. e \in wk[w].batch /\ wk[w].phase \notin Between /\ Advance(w, e)
    BY <1>4 DEF DeliverRefused, DeliverPressured, Delivering, Between
  <2>2. PICK r \in {Cancelled(row[e], FALSE), RateLimited(row[e])} :
          row' = [row EXCEPT ![e] = IF Fenced(w, e) THEN r ELSE @]
    BY <1>4 DEF DeliverRefused, DeliverPressured, SettleAsFailed
  <2>3. r.owner = NoWorker /\ r.status \in DueStatuses \cup SettledStatuses
    BY <1>0, GivenBack
  <2> QED BY <2>1, <2>2, <2>3, FencedWrite
<1>5. ASSUME NEW e \in Events, FailReauth(w, e) \/ FailAmbiguous(w, e)
      PROVE  Queue!Next
  <2>1. wk[w].ev = e /\ wk[w].phase \notin Between /\ Advance(w, e)
    BY <1>5 DEF FailReauth, FailAmbiguous, At, Between
  <2>2. PICK r \in {Cancelled(row[e], FALSE), Cancelled(row[e], TRUE)} :
          row' = [row EXCEPT ![e] = IF Fenced(w, e) THEN r ELSE @]
    BY <1>5 DEF FailReauth, FailAmbiguous, SettleAsFailed
  <2>3. r.owner = NoWorker /\ r.status \in DueStatuses \cup SettledStatuses
    BY <1>0, GivenBack
  <2> QED BY <1>3, <2>1, <2>2, <2>3, FencedWrite
<1>6. ASSUME NEW e \in Events, FailThrottled(w, e) PROVE Queue!Next
  <2>1. wk[w].ev = e /\ wk[w].phase \notin Between
    BY <1>6 DEF FailThrottled, At, Between
  <2>2. PICK r : r = RateLimited(row[e])
    OBVIOUS
  <2>3. row' = [row EXCEPT ![e] = IF Fenced(w, e) THEN r ELSE @]
    BY <1>6, <2>2 DEF FailThrottled
  <2>4. Advance(w, e) \/ (Fenced(w, e) /\ GoTo(w, "settle"))
    BY <1>6 DEF FailThrottled
  <2>5. "settle" \in Between
    BY DEF Between
  <2>6. r.owner = NoWorker /\ r.status \in DueStatuses \cup SettledStatuses
    BY <1>0, <2>2, GivenBack
  <2> QED BY <1>3, <2>1, <2>3, <2>4, <2>5, <2>6, FencedWrite
<1>7. ASSUME NEW e \in Events, FailPlain(w, e) PROVE Queue!Next
  <2>1. wk[w].ev = e /\ wk[w].phase \notin Between
    BY <1>7 DEF FailPlain, At, Between
  <2>2. PICK r : r = Failed(row[e], scheduleRetry(w))
    OBVIOUS
  <2>3. row' = [row EXCEPT ![e] = IF Fenced(w, e) THEN r ELSE @]
    BY <1>7, <2>2 DEF FailPlain
  <2>4. Advance(w, e) \/ (Fenced(w, e) /\ GoTo(w, "settle"))
    BY <1>7 DEF FailPlain
  <2>5. "settle" \in Between
    BY DEF Between
  <2>6. r.owner = NoWorker /\ r.status \in DueStatuses \cup SettledStatuses
    BY <1>0, <2>2, GivenBack
  <2> QED BY <1>3, <2>1, <2>3, <2>4, <2>5, <2>6, FencedWrite
<1>8. ASSUME NEW e \in Events, MarkSent(w, e) PROVE Queue!Next
  <2>1. wk[w].ev = e /\ wk[w].phase \notin Between /\ e \in wk[w].batch
    BY <1>3, <1>8 DEF MarkSent, At, Between
  <2>2. CASE row[e].owner = w
    <3> DEFINE r == [Release(row[e]) EXCEPT !.status = "sent"]
    <3>1. row' = [row EXCEPT ![e] = r] /\ GoTo(w, "recorded")
      BY <1>8, <2>2 DEF MarkSent
    <3>2. r.owner = NoWorker /\ r.status \in DueStatuses \cup SettledStatuses
      BY <1>0 DEF Release, RowType, SettledStatuses
    <3>3. \E p \in Between : GoTo(w, p)
      BY <3>1 DEF Between
    <3> HIDE DEF r
    <3> QED BY <2>1, <2>2, <3>1, <3>2, <3>3, WorkerFinishes
  <2>3. CASE row[e].owner # w
    BY <1>8, <2>1, <2>3, WorkerLetsGo DEF MarkSent
  <2> QED BY <2>2, <2>3
<1>9. ASSUME NEW e \in Events, LeaseLapsed(w, e) PROVE Queue!Next
  BY <1>3, <1>9, WorkerLetsGo DEF LeaseLapsed, At, Between
<1>10. ASSUME NEW e \in Events,
              RecordDelivery(w, e) \/ SettleMessage(w, e) \/ StatementFails(w, e)
       PROVE  Queue!Next \/ UNCHANGED Queue!queueVars
  <2>1. wk[w].ev = e /\ Advance(w, e) /\ row' = row
    BY <1>10 DEF RecordDelivery, SettleMessage, StatementFails, At
  <2>2. CASE wk[w].phase \in Between
    <3>1. \A v \in Workers : QueueHands(v)' = QueueHands(v)
      BY <2>1, <2>2, HandsOfAdvance DEF QueueHands, Between
    <3>2. \A f \in Events : QueueState(f)' = QueueState(f) /\ row'[f].owner = row[f].owner
                             /\ Lapsed(f)' = Lapsed(f)
      BY <2>1 DEF QueueState, Lapsed
    <3> QED BY <3>1, <3>2, QueueRests
  <2>3. CASE wk[w].phase \notin Between
    BY <1>3, <2>1, <2>3, WorkerLetsGo
  <2> QED BY <2>2, <2>3
<1>11. ASSUME NEW e \in Events, DeliverReady(w, e) PROVE UNCHANGED Queue!queueVars
  <2>1. /\ row' = row /\ wk[w].phase \notin Between
        /\ wk' = [wk EXCEPT ![w] = [wk[w] EXCEPT !.phase = "ready", !.ev = e,
                                                 !.attempt = row[e].attempts]]
    BY <1>11 DEF DeliverReady, Delivering, Between
  <2>2. /\ wk'[w].batch = wk[w].batch /\ wk'[w].phase \notin Between
        /\ \A v \in Workers \ {w} : wk'[v] = wk[v]
    BY <1>0, <2>1 DEF WorkerType, Between
  <2> QED BY <2>1, <2>2, WorkerRests
<1>12. ASSUME NEW e \in Events,
              BeginSend(w, e) \/ RespondError(w, e) \/ SendRefusedLocally(w, e)
       PROVE  UNCHANGED Queue!queueVars
  <2>1. row' = row /\ wk[w].phase \notin Between
    BY <1>12 DEF BeginSend, RespondError, SendRefusedLocally, At, Between
  <2>2. \E n : wk' = [wk EXCEPT ![w] = n] /\ n.ev = wk[w].ev /\ n.batch = wk[w].batch
                                          /\ n.phase \notin Between
    BY <1>12, SentOn
  <2>3. /\ wk'[w].batch = wk[w].batch /\ wk'[w].phase \notin Between
        /\ \A v \in Workers \ {w} : wk'[v] = wk[v]
    BY <1>0, <2>2
  <2> QED BY <2>1, <2>3, WorkerRests
<1>13. ASSUME NEW e \in Events, PlatformAccepts(w, e) \/ RespondOk(w, e)
       PROVE  UNCHANGED Queue!queueVars
  <2>1. /\ row' = row /\ wk[w].phase \notin Between
        /\ GoTo(w, "accepted") \/ GoTo(w, "ok")
    BY <1>13 DEF PlatformAccepts, RespondOk, At, Between
  <2>2. /\ wk'[w].batch = wk[w].batch /\ wk'[w].phase \notin Between
        /\ \A v \in Workers \ {w} : wk'[v] = wk[v]
    BY <1>0, <2>1 DEF GoTo, WorkerType, Between
  <2> QED BY <2>1, <2>2, WorkerRests
<1> QED BY <1>1, <1>2, <1>4, <1>5, <1>6, <1>7, <1>8, <1>9, <1>10, <1>11, <1>12, <1>13
        DEF WorkerStep

\* Steps outside the workers that change no status, owner, lease or hand.
LEMMA EventRests ==
  ASSUME wk' = wk,
         \A f \in Events : /\ row'[f].status = row[f].status
                           /\ row'[f].owner = row[f].owner
                           /\ row'[f].lease = row[f].lease
  PROVE  UNCHANGED Queue!queueVars
<1>1. \A f \in Events : QueueState(f)' = QueueState(f) /\ Lapsed(f)' = Lapsed(f)
  BY DEF QueueState, Lapsed
<1>2. \A w \in Workers : QueueHands(w)' = QueueHands(w)
  BY HandsOfOthers
<1> QED BY <1>1, <1>2, QueueRests

\* Hands that do not move, as the function the queue sees.
LEMMA HandsRest ==
  ASSUME wk' = wk
  PROVE  [w \in Workers |-> QueueHands(w)]' = [w \in Workers |-> QueueHands(w)]
<1>1. \A w \in Workers : QueueHands(w)' = QueueHands(w)
  BY HandsOfOthers
<1> QED BY <1>1

\* A reply that is stored is offered to the queue (InboxService.reply).
LEMMA QueueOffer ==
  ASSUME QueueInv, NEW e \in Events, Enqueue(e) PROVE Queue!Next
<1>0. row \in [Events -> RowType]
  BY DEF QueueInv, TypeOK
<1>1. PICK dm \in BOOLEAN :
        row' = [row EXCEPT ![e] = [row[e] EXCEPT !.status = "pending", !.due = TRUE, !.dm = dm]]
  BY DEF Enqueue
<1>2. /\ row[e].status = "none" /\ row'[e].status = "pending"
      /\ row'[e].owner = row[e].owner /\ wk' = wk
      /\ \A f \in Events \ {e} : row'[f] = row[f]
  BY <1>0, <1>1 DEF Enqueue, RowType
<1>3. /\ QueueState(e) = "absent" /\ QueueState(e)' = "waiting"
      /\ \A f \in Events \ {e} : QueueState(f)' = QueueState(f)
  BY <1>2 DEF QueueState, DueStatuses
<1>4. Queue!Offer(e)
  <2>1. [f \in Events |-> QueueState(f)][e] = "absent"
    BY <1>3
  <2>2. [f \in Events |-> QueueState(f)]'
          = [[f \in Events |-> QueueState(f)] EXCEPT ![e] = "waiting"]
    BY <1>3
  <2>3. [f \in Events |-> row[f].owner]' = [f \in Events |-> row[f].owner]
    BY <1>2
  <2>4. {f \in Events : row[f].status = "sending" /\ row[f].lease < -GraceTicks}'
          = {f \in Events : row[f].status = "sending" /\ row[f].lease < -GraceTicks}
    BY <1>2
  <2> QED BY <1>2, <2>1, <2>2, <2>3, <2>4, HandsRest DEF Queue!Offer
<1> QED BY <1>4 DEF Queue!Next

\* The reaper takes only a row whose lease and grace are over
\* (reclaimExpiredLeases).
LEMMA QueueReap ==
  ASSUME QueueInv, NEW e \in Events, Reclaim(e) PROVE Queue!Next
<1>0. row \in [Events -> RowType]
  BY DEF QueueInv, TypeOK
<1>1. /\ row' = [row EXCEPT ![e] = [Release(row[e]) EXCEPT !.status = "pending", !.due = TRUE]]
      /\ Lapsed(e) /\ wk' = wk
  BY DEF Reclaim, Reapable, Lapsed
<1>2. /\ row'[e].status = "pending" /\ row'[e].owner = NoWorker
      /\ \A f \in Events \ {e} : row'[f] = row[f]
  BY <1>0, <1>1 DEF Release, RowType
<1>3. /\ QueueState(e) = "held" /\ QueueState(e)' = "waiting"
      /\ \A f \in Events \ {e} : QueueState(f)' = QueueState(f)
  BY <1>1, <1>2 DEF QueueState, DueStatuses, Lapsed
<1>4. Queue!Reap(e, "waiting")
  <2>1. e \in {f \in Events : row[f].status = "sending" /\ row[f].lease < -GraceTicks}
    BY <1>1 DEF Lapsed
  <2>2. [f \in Events |-> QueueState(f)]'
          = [[f \in Events |-> QueueState(f)] EXCEPT ![e] = "waiting"]
    BY <1>3
  <2>3. [f \in Events |-> row[f].owner]' = [[f \in Events |-> row[f].owner] EXCEPT ![e] = NoWorker]
    BY <1>2
  <2>4. {f \in Events : row[f].status = "sending" /\ row[f].lease < -GraceTicks}'
          = {f \in Events : row[f].status = "sending" /\ row[f].lease < -GraceTicks} \ {e}
    BY <1>2
  <2> QED BY <1>1, <2>1, <2>2, <2>3, <2>4, HandsRest DEF Queue!Reap, Queue!Returned
<1>5. e \in Queue!Held
  BY <1>3 DEF Queue!Held
<1> QED BY <1>4, <1>5 DEF Queue!Next

\* A read-back that finds the reply corrects a cancelled row to 'sent'; any other
\* leaves the queue alone (markReadBackResolved).
LEMMA QueueAmend ==
  ASSUME QueueInv, NEW e \in Events, ReadBack(e)
  PROVE  Queue!Next \/ UNCHANGED Queue!queueVars
<1>0. row \in [Events -> RowType]
  BY DEF QueueInv, TypeOK
<1>1. PICK o : row' = [row EXCEPT ![e] = ReadBackResolved(row[e], o)]
  BY DEF ReadBack
<1>2. row[e].status = "cancelled" /\ wk' = wk
  BY DEF ReadBack, AwaitingReadBack
<1>3. /\ row'[e].owner = row[e].owner /\ row'[e].lease = row[e].lease
      /\ row'[e].status = IF o = "landed" THEN "sent" ELSE "cancelled"
      /\ \A f \in Events \ {e} : row'[f] = row[f]
  BY <1>0, <1>1, <1>2 DEF ReadBackResolved, RowType
<1>4. CASE o # "landed"
  BY <1>2, <1>3, <1>4, EventRests
<1>5. CASE o = "landed"
  <2>1. /\ QueueState(e) = "cancelled" /\ QueueState(e)' = "sent"
        /\ \A f \in Events \ {e} : QueueState(f)' = QueueState(f)
    BY <1>2, <1>3, <1>5 DEF QueueState, DueStatuses
  <2>2. Queue!Amend(e, <<"cancelled", "sent">>)
    <3>1. [f \in Events |-> QueueState(f)][e] = "cancelled"
      BY <2>1
    <3>2. [f \in Events |-> QueueState(f)]'
            = [[f \in Events |-> QueueState(f)] EXCEPT ![e] = "sent"]
      BY <2>1
    <3>3. [f \in Events |-> row[f].owner]' = [f \in Events |-> row[f].owner]
      BY <1>3
    <3>4. {f \in Events : row[f].status = "sending" /\ row[f].lease < -GraceTicks}'
            = {f \in Events : row[f].status = "sending" /\ row[f].lease < -GraceTicks}
      BY <1>2, <1>3, <1>5
    <3> QED BY <1>2, <3>1, <3>2, <3>3, <3>4, HandsRest DEF Queue!Amend
  <2> QED BY <2>2 DEF Queue!Next
<1> QED BY <1>4, <1>5

\* Time only lets leases lapse: a lapsed one never comes back.
LEMMA QueueLapse ==
  ASSUME QueueInv, Tick PROVE Queue!Next
<1>00. PICK S : S = {e \in Events : row'[e].status = "sending" /\ row'[e].lease < -GraceTicks}
  OBVIOUS
<1>0. row \in [Events -> RowType] /\ wk \in [Workers -> WorkerType]
  BY DEF QueueInv, TypeOK
<1>1. \A e \in Events : /\ row'[e].status = row[e].status /\ row'[e].owner = row[e].owner
                        /\ row[e].lease \in Int /\ row'[e].lease \in Int
                        /\ row'[e].lease <= row[e].lease
  BY <1>0, RelayAssumption DEF Tick, OneTickOf, RowType
<1>2. \A w \in Workers : /\ wk'[w].phase = wk[w].phase /\ wk'[w].batch = wk[w].batch
                         /\ wk'[w].ev = wk[w].ev
  BY <1>0 DEF Tick, WorkerType
<1>3. \A w \in Workers : QueueHands(w)' = QueueHands(w)
  BY <1>2 DEF QueueHands
<1>4. \A e \in Events : QueueState(e)' = QueueState(e)
  BY <1>1 DEF QueueState
<1>5. \A e \in Events : Lapsed(e) => Lapsed(e)'
  BY <1>1, RelayAssumption DEF Lapsed
<1>6. Queue!Lapse(S)
  <2>1. [w \in Workers |-> QueueHands(w)]' = [w \in Workers |-> QueueHands(w)]
    BY <1>3
  <2>2. [e \in Events |-> QueueState(e)]' = [e \in Events |-> QueueState(e)]
    BY <1>4
  <2>3. [e \in Events |-> row[e].owner]' = [e \in Events |-> row[e].owner]
    BY <1>1
  <2>4. {e \in Events : row[e].status = "sending" /\ row[e].lease < -GraceTicks}'
          = {e \in Events : row[e].status = "sending" /\ row[e].lease < -GraceTicks} \cup S
    BY <1>00, <1>5 DEF Lapsed
  <2> QED BY <2>1, <2>2, <2>3, <2>4 DEF Queue!Lapse
<1>7. S \in SUBSET Queue!Held
  BY <1>00, <1>1 DEF Queue!Held, QueueState, Lapsed, DueStatuses
<1> QED BY <1>6, <1>7 DEF Queue!Next

\* What happens to a row outside the workers is an offer, a reaping, an amendment
\* or none of the queue's.
LEMMA EventStepIsQueueStep ==
  ASSUME QueueInv, NEW e \in Events, EventStep(e)
  PROVE  Queue!Next \/ UNCHANGED Queue!queueVars
<1>0. row \in [Events -> RowType]
  BY DEF QueueInv, TypeOK
<1>1. ASSUME BecomeDue(e) \/ AgePastMaxWait(e) \/ AgeReadBack(e)
      PROVE  UNCHANGED Queue!queueVars
  <2>1. /\ wk' = wk
        /\ \A f \in Events : /\ row'[f].status = row[f].status
                              /\ row'[f].owner = row[f].owner
                              /\ row'[f].lease = row[f].lease
    BY <1>0, <1>1 DEF BecomeDue, AgePastMaxWait, AgeReadBack, RowType
  <2> QED BY <2>1, EventRests
<1>2. ASSUME \/ LatentLands(e) \/ LatentDropped(e) \/ Echo(e)
             \/ RecordReadBack(e) \/ ForgetReadBack(e)
      PROVE  UNCHANGED Queue!queueVars
  <2>1. wk' = wk /\ row' = row
    BY <1>2 DEF LatentLands, LatentDropped, Echo, RecordReadBack, ForgetReadBack
  <2> QED BY <2>1, EventRests
<1> QED BY <1>1, <1>2, QueueOffer, QueueReap, QueueAmend DEF EventStep

\* Every step of the relay is a step of the queue, or none.
LEMMA StepIsQueueStep == QueueInv /\ [Next]_vars => [Queue!Next]_(Queue!queueVars)
<1> SUFFICES ASSUME QueueInv, [Next]_vars
             PROVE  Queue!Next \/ UNCHANGED Queue!queueVars
  OBVIOUS
<1>1. CASE Reconnect \/ AtRest \/ UNCHANGED vars
  <2>1. wk' = wk /\ row' = row
    BY <1>1 DEF Reconnect, AtRest, vars
  <2> QED BY <2>1, EventRests
<1> QED BY <1>1, WorkerStepIsQueueStep, EventStepIsQueueStep, QueueLapse DEF Next

\* The ledger of replies is a leased queue, for every set of replies, every
\* number of workers and every lease, timeout and grace: a row leaves its owner
\* only by the owner's own fenced statement or, after lease and grace, by the
\* reaper (claimDueBatch, markSent, markFailed, markRateLimited, cancel,
\* reclaimExpiredLeases, markReadBackResolved).
THEOREM RelayImplementsLeasedQueue == Spec => RelayIsLeasedQueue
<1>1. Init => Queue!Init
  <2> SUFFICES ASSUME Init PROVE Queue!Init
    OBVIOUS
  <2>1. \A e \in Events : QueueState(e) = "absent" /\ row[e].owner = NoWorker
                          /\ row[e].status # "sending"
    BY DEF Init, NoRow, QueueState
  <2>2. \A w \in Workers : QueueHands(w) = {}
    BY DEF Init, IdleWorker, QueueHands
  <2> QED BY <2>1, <2>2 DEF Queue!Init
<1>2. RefinementInv => QueueInv
  BY DEF RefinementInv, RelayInv, QueueInv
<1> QED BY <1>1, <1>2, StepIsQueueStep, RefinementInvariant, PTL
        DEF Spec, RelayIsLeasedQueue, Queue!Spec

-----------------------------------------------------------------------------
(***************************************************************************)
(* What the relay promises about the customer's copy of a reply: how often   *)
(* it is delivered, what the ledger's verdict says of it, and what the       *)
(* agent's message says once the row is settled.  For every set of replies   *)
(* and workers and all durations that satisfy RelayAssumption.               *)
(***************************************************************************)


-----------------------------------------------------------------------------
(* What the ends and the turns of deliver leave of a worker.                 *)

LEMMA AdvanceEffect ==
  ASSUME TypeOK, NEW w \in Workers, NEW e, Advance(w, e)
  PROVE  /\ wk'[w].ev = NoEvent /\ wk'[w].batch = wk[w].batch \ {e}
         /\ wk'[w].phase \in {"idle", "batch"}
         /\ \A v \in Workers \ {w} : wk'[v] = wk[v]
<1> DEFINE left == wk[w].batch \ {e}
           next == [IdleWorker EXCEPT !.batch = left,
                                      !.phase = IF left = {} THEN "idle" ELSE "batch"]
<1>1. wk' = [wk EXCEPT ![w] = next]
  BY DEF Advance
<1>2. next.ev = NoEvent /\ next.batch = left /\ next.phase \in {"idle", "batch"}
  BY DEF IdleWorker
<1>3. wk'[w] = next /\ \A v \in Workers \ {w} : wk'[v] = wk[v]
  BY <1>1 DEF TypeOK
<1> QED BY <1>2, <1>3

LEMMA GoToEffect ==
  ASSUME TypeOK, NEW w \in Workers, NEW p, GoTo(w, p)
  PROVE  /\ wk'[w].phase = p /\ wk'[w].ev = wk[w].ev /\ wk'[w].batch = wk[w].batch
         /\ wk'[w].err = wk[w].err /\ wk'[w].attempt = wk[w].attempt
         /\ \A v \in Workers \ {w} : wk'[v] = wk[v]
  BY DEF GoTo, TypeOK, WorkerType

\* From the claim to the answer a worker stays on its row and keeps its batch.
LEMMA ReadyEffect ==
  ASSUME TypeOK, NEW w \in Workers, NEW e \in Events, DeliverReady(w, e)
  PROVE  /\ wk'[w].phase = "ready" /\ wk'[w].ev = e /\ wk'[w].batch = wk[w].batch
         /\ wk'[w].attempt = row[e].attempts
         /\ \A v \in Workers \ {w} : wk'[v] = wk[v]
  BY DEF DeliverReady, TypeOK, WorkerType

LEMMA BeginEffect ==
  ASSUME TypeOK, NEW w \in Workers, NEW e \in Events, BeginSend(w, e)
  PROVE  /\ wk'[w].phase = "flight" /\ wk'[w].ev = e /\ wk'[w].batch = wk[w].batch
         /\ wk'[w].attempt = wk[w].attempt
         /\ \A v \in Workers \ {w} : wk'[v] = wk[v]
  BY DEF BeginSend, At, TypeOK, WorkerType

LEMMA LocalEffect ==
  ASSUME TypeOK, NEW w \in Workers, NEW e \in Events, SendRefusedLocally(w, e)
  PROVE  /\ wk'[w].phase = "err" /\ wk'[w].ev = e /\ wk'[w].batch = wk[w].batch
         /\ wk'[w].attempt = wk[w].attempt
         /\ \A v \in Workers \ {w} : wk'[v] = wk[v]
  BY DEF SendRefusedLocally, At, TypeOK, WorkerType

\* A failure that queues the row again is an answer Meta gave without taking the
\* request (a 4xx), so it came while the request was still on its way, and nothing
\* is left behind (isAmbiguousFailure is asked before mapped.retryable).
LEMMA ErrorEffect ==
  ASSUME TypeOK, NEW w \in Workers, NEW e \in Events, RespondError(w, e)
  PROVE  /\ wk'[w].phase = "err" /\ wk'[w].ev = e /\ wk'[w].batch = wk[w].batch
         /\ wk'[w].attempt = wk[w].attempt
         /\ \A v \in Workers \ {w} : wk'[v] = wk[v]
         /\ wk'[w].err \in {"throttled", "retryable", "local"}
              => wk[w].phase = "flight" /\ latent' = latent
         /\ latent' = latent \/ (latent' = latent \cup {e} /\ wk[w].phase = "flight")
<1>1. PICK g \in Errors :
        /\ MayHaveLanded(g, wk[w].phase = "accepted")
        /\ wk' = [wk EXCEPT ![w] = [@ EXCEPT !.phase = "err", !.err = FailureClass(g)]]
        /\ latent' \in {latent} \cup
             {latent \cup {e} : x \in {y \in {"late"} \cap Faults :
                                         g.http = "none" /\ wk[w].phase = "flight"}}
  BY DEF RespondError
<1>2. /\ wk'[w].phase = "err" /\ wk'[w].ev = e /\ wk'[w].batch = wk[w].batch
      /\ wk'[w].attempt = wk[w].attempt /\ wk'[w].err = FailureClass(g)
      /\ \A v \in Workers \ {w} : wk'[v] = wk[v]
  <2>1. wk[w].ev = e /\ wk \in [Workers -> WorkerType] /\ wk[w] \in WorkerType
    BY DEF RespondError, TypeOK
  <2> DEFINE n == [wk[w] EXCEPT !.phase = "err", !.err = FailureClass(g)]
  <2>2. /\ n.phase = "err" /\ n.ev = e /\ n.batch = wk[w].batch
        /\ n.attempt = wk[w].attempt /\ n.err = FailureClass(g)
    BY <2>1 DEF WorkerType
  <2>3. wk'[w] = n /\ \A v \in Workers \ {w} : wk'[v] = wk[v]
    BY <1>1, <2>1
  <2> QED BY <2>2, <2>3
<1>3. wk[w].phase \in {"flight", "accepted"}
  BY DEF RespondError
<1>4. latent' = latent
        \/ (latent' = latent \cup {e} /\ wk[w].phase = "flight" /\ g.http = "none")
  BY <1>1
<1>5. FailureClass(g) \in {"throttled", "retryable", "local"} => g.http = "4xx"
  <2>1. g \in GraphError
    BY <1>1, RelayAssumption
  <2>2. g.http \in {"none", "2xx", "4xx", "5xx"}
    BY <2>1 DEF GraphError, HttpStatus
  <2>3. g.http \in {"none", "2xx"} => g.code = "other" /\ g.sub = "none"
    BY <2>1 DEF GraphError
  <2>4. g.http \in {"none", "5xx"} => FailureClass(g) \in {"reauth", "ambiguous"}
    BY DEF FailureClass, isAmbiguousFailure
  <2>5. g.http = "2xx" => FailureClass(g) = "terminal"
    BY <2>3 DEF FailureClass, isAmbiguousFailure, mapGraphError, Mapped, isRateLimit
  <2> QED BY <2>2, <2>4, <2>5
<1>6. g.http = "4xx" => wk[w].phase # "accepted"
  BY <1>1 DEF MayHaveLanded
<1> QED BY <1>2, <1>3, <1>4, <1>5, <1>6

-----------------------------------------------------------------------------
(* A reply is delivered once.  Two copies need two requests that take effect, *)
(* so the invariant follows what the row, its worker and Meta know of the     *)
(* first: whoever may still send the row finds it untouched.                  *)

\* The customer has no copy of the reply, and no request can still make one.
Untouched(e) == copies[e] = 0 /\ e \notin latent

\* Failures after which the row is queued again.
Requeued == {"throttled", "retryable", "local"}

\* The worker has not sent the row yet, or knows that Meta did not take it.
NotSentBy(w, e) ==
    \/ wk[w].ev # e
    \/ wk[w].phase \in {"ready", "flight"}
    \/ wk[w].phase = "err" /\ wk[w].err \in Requeued

BetweenRows ==
    \A w \in Workers : wk[w].phase \in {"idle", "batch", "dead"} => wk[w].ev = NoEvent

QueuedIsUntouched(e) == row[e].status \in {"none"} \cup DueStatuses => Untouched(e)

HeldIsUntouched(w, e) ==
    e \in wk[w].batch /\ row[e].owner = w /\ NotSentBy(w, e) => Untouched(e)

AtMostOneCopy(e) == copies[e] = 0 \/ (copies[e] = 1 /\ e \notin latent)

Once(e) ==
    e \notin unrecorded => /\ QueuedIsUntouched(e)
                           /\ AtMostOneCopy(e)
                           /\ \A w \in Workers : HeldIsUntouched(w, e)

OnceInv == BetweenRows /\ \A e \in Events : Once(e)

\* The step of a worker on one row: it touches that row and its copies only if it
\* owns it, and gives it to nobody else.
Confined(w, e) ==
    /\ wk[w].ev \in {e, NoEvent}
    /\ wk'[w].batch \subseteq wk[w].batch
    /\ \A v \in Workers \ {w} : wk'[v] = wk[v]
    /\ \A f \in Events \ {e} : /\ row'[f] = row[f] /\ copies'[f] = copies[f]
                               /\ f \in latent' <=> f \in latent
    /\ unrecorded' = unrecorded
    /\ row'[e].owner \in {row[e].owner, NoWorker}
    /\ row[e].owner # w => /\ row'[e] = row[e] /\ copies'[e] = copies[e]
                           /\ e \in latent' <=> e \in latent

LEMMA OnceFrame ==
  ASSUME OnceInv, NEW w \in Workers, NEW e \in Events, Confined(w, e),
         row[e].owner = w /\ e \notin unrecorded =>
             QueuedIsUntouched(e)' /\ AtMostOneCopy(e)' /\ HeldIsUntouched(w, e)'
  PROVE  \A f \in Events : Once(f)'
<1>1. ASSUME NEW f \in Events \ {e} PROVE Once(f)'
  <2> SUFFICES ASSUME f \notin unrecorded
               PROVE  /\ QueuedIsUntouched(f)' /\ AtMostOneCopy(f)'
                      /\ \A v \in Workers : HeldIsUntouched(v, f)'
    BY DEF Confined, Once
  <2>1. /\ QueuedIsUntouched(f) /\ AtMostOneCopy(f)
        /\ \A v \in Workers : HeldIsUntouched(v, f)
    BY DEF OnceInv, Once
  <2>2. Untouched(f)' = Untouched(f) /\ row'[f] = row[f] /\ AtMostOneCopy(f)' = AtMostOneCopy(f)
    BY DEF Confined, Untouched, AtMostOneCopy
  <2>3. ASSUME NEW v \in Workers \ {w} PROVE HeldIsUntouched(v, f)'
    BY <2>1, <2>2 DEF Confined, HeldIsUntouched, NotSentBy
  <2>4. HeldIsUntouched(w, f)'
    <3>1. wk[w].ev # f
      BY RelayAssumption DEF Confined
    <3> QED BY <2>1, <2>2, <3>1 DEF Confined, HeldIsUntouched, NotSentBy
  <2> QED BY <2>1, <2>2, <2>3, <2>4 DEF QueuedIsUntouched
<1>2. Once(e)'
  <2> SUFFICES ASSUME e \notin unrecorded
               PROVE  /\ QueuedIsUntouched(e)' /\ AtMostOneCopy(e)'
                      /\ \A v \in Workers : HeldIsUntouched(v, e)'
    BY DEF Confined, Once
  <2>1. /\ QueuedIsUntouched(e) /\ AtMostOneCopy(e)
        /\ \A v \in Workers : HeldIsUntouched(v, e)
    BY DEF OnceInv, Once
  <2>2. CASE row[e].owner = w
    <3>1. ASSUME NEW v \in Workers \ {w} PROVE HeldIsUntouched(v, e)'
      BY <2>2, RelayAssumption DEF Confined, HeldIsUntouched
    <3> QED BY <2>2, <3>1
  <2>3. CASE row[e].owner # w
    <3>1. /\ Untouched(e)' = Untouched(e) /\ row'[e] = row[e]
          /\ AtMostOneCopy(e)' = AtMostOneCopy(e)
      BY <2>3 DEF Confined, Untouched, AtMostOneCopy
    <3>2. ASSUME NEW v \in Workers \ {w} PROVE HeldIsUntouched(v, e)'
      BY <2>1, <3>1 DEF Confined, HeldIsUntouched, NotSentBy
    <3>3. HeldIsUntouched(w, e)'
      BY <2>3, <3>1 DEF HeldIsUntouched
    <3> QED BY <2>1, <3>1, <3>2, <3>3 DEF QueuedIsUntouched
  <2> QED BY <2>2, <2>3
<1> QED BY <1>1, <1>2

LEMMA BetweenFrame ==
  ASSUME BetweenRows, NEW w \in Workers, \A v \in Workers \ {w} : wk'[v] = wk[v],
         wk'[w].phase \in {"idle", "batch", "dead"} => wk'[w].ev = NoEvent
  PROVE  BetweenRows'
  BY DEF BetweenRows

\* The statements that end a delivery leave a row that nobody owns; only a
\* failure that is retried and a park queue it again.
LEMMA SettledRow ==
  ASSUME NEW r \in RowType, NEW b
  PROVE  /\ Cancelled(r, b).owner = NoWorker /\ Cancelled(r, b).status = "cancelled"
         /\ Failed(r, b).owner = NoWorker
         /\ Failed(r, b).status = IF ~b \/ r.attempts >= MaxSendAttempts
                                  THEN "dead_letter" ELSE "failed"
         /\ RateLimited(r).owner = NoWorker
         /\ RateLimited(r).status = IF r.old THEN "dead_letter" ELSE "pending"
<1>1. Cancelled(r, b).owner = NoWorker /\ Cancelled(r, b).status = "cancelled"
  BY DEF Cancelled, Release, RowType
<1>2. /\ Failed(r, b).owner = NoWorker
      /\ Failed(r, b).status = IF ~b \/ r.attempts >= MaxSendAttempts
                               THEN "dead_letter" ELSE "failed"
  BY DEF Failed, Release, RowType
<1>3. RateLimited(r).owner = NoWorker
  BY DEF RateLimited, Release, RowType
<1>4. RateLimited(r).status = IF r.old THEN "dead_letter" ELSE "pending"
  BY DEF RateLimited, Release, RowType
<1> QED BY <1>1, <1>2, <1>3, <1>4

\* What the relay knows before each step.
DeliveryInv == RefinementInv /\ OnceInv

\* The worker is done with the row, or only the message is left to write.
Leaves(w, e) ==
    /\ wk[w].ev \in {e, NoEvent}
    /\ \/ wk'[w].ev = NoEvent /\ wk'[w].batch = wk[w].batch \ {e}
       \/ wk'[w].ev = e /\ wk'[w].batch = wk[w].batch /\ wk'[w].phase \in Between
    /\ \A v \in Workers \ {w} : wk'[v] = wk[v]

LEMMA AdvanceLeaves ==
  ASSUME TypeOK, NEW w \in Workers, NEW e, Advance(w, e), wk[w].ev \in {e, NoEvent}
  PROVE  Leaves(w, e)
  BY AdvanceEffect DEF Leaves

LEMMA GoToLeaves ==
  ASSUME TypeOK, NEW w \in Workers, NEW e, NEW p \in Between, GoTo(w, p), wk[w].ev = e
  PROVE  Leaves(w, e)
  BY GoToEffect DEF Leaves

\* A worker leaves its row: whatever it writes is fenced, and a row it queues
\* again is one nobody has sent.
LEMMA OnceLeaves ==
  ASSUME DeliveryInv, NEW w \in Workers, NEW e \in Events, NEW r,
         row' = [row EXCEPT ![e] = IF Fenced(w, e) THEN r ELSE @],
         r.owner = NoWorker,
         Fenced(w, e) /\ e \notin unrecorded /\ r.status \in {"none"} \cup DueStatuses
             => Untouched(e),
         Leaves(w, e), UNCHANGED <<copies, latent, unrecorded>>
  PROVE  OnceInv'
<1>1. BetweenRows'
  BY BetweenFrame DEF DeliveryInv, OnceInv, Leaves, Between
<1>2. row \in [Events -> RowType]
  BY DEF DeliveryInv, RefinementInv, RelayInv, TypeOK
<1>3. /\ \A f \in Events \ {e} : row'[f] = row[f]
      /\ Fenced(w, e) => row'[e] = r
      /\ ~Fenced(w, e) => row'[e] = row[e]
  BY <1>2
<1>4. Confined(w, e)
  BY <1>3 DEF Confined, Fenced, Leaves
<1>5. ASSUME row[e].owner = w, e \notin unrecorded
      PROVE  QueuedIsUntouched(e)' /\ AtMostOneCopy(e)' /\ HeldIsUntouched(w, e)'
  <2>1. row[e].status = "sending"
    BY <1>5, RelayAssumption DEF DeliveryInv, RefinementInv, RelayInv, OwnedIsSending
  <2>2. Fenced(w, e)
    BY <1>5, <2>1 DEF Fenced
  <2>3. row'[e].owner # w /\ (r.status \in {"none"} \cup DueStatuses => Untouched(e))
    BY <1>3, <1>5, <2>2, RelayAssumption
  <2>4. AtMostOneCopy(e)
    BY <1>5 DEF DeliveryInv, OnceInv, Once
  <2> QED BY <1>3, <2>2, <2>3, <2>4
          DEF QueuedIsUntouched, AtMostOneCopy, HeldIsUntouched, Untouched
<1> QED BY <1>1, <1>4, <1>5, OnceFrame DEF DeliveryInv, OnceInv

\* A worker goes on with its row, or drops it without a word.
LEMMA OnceGoesOn ==
  ASSUME DeliveryInv, NEW w \in Workers, NEW e \in Events,
         wk[w].ev \in {e, NoEvent}, row' = row, wk'[w].batch \subseteq wk[w].batch,
         wk'[w].phase \in {"idle", "batch", "dead"} => wk'[w].ev = NoEvent,
         row[e].owner = w /\ e \notin unrecorded => HeldIsUntouched(w, e)',
         \A v \in Workers \ {w} : wk'[v] = wk[v],
         UNCHANGED <<copies, latent, unrecorded>>
  PROVE  OnceInv'
<1>1. BetweenRows'
  BY BetweenFrame DEF DeliveryInv, OnceInv
<1>2. Confined(w, e)
  BY DEF Confined
<1>3. e \notin unrecorded => QueuedIsUntouched(e)' /\ AtMostOneCopy(e)'
  BY DEF DeliveryInv, OnceInv, Once, QueuedIsUntouched, AtMostOneCopy, Untouched
<1> QED BY <1>1, <1>2, <1>3, OnceFrame DEF DeliveryInv, OnceInv

\* A row a worker has in hand and has not sent is untouched.
LEMMA InHand ==
  ASSUME DeliveryInv, NEW w \in Workers, NEW e \in wk[w].batch, row[e].owner = w,
         NotSentBy(w, e), e \notin unrecorded
  PROVE  Untouched(e)
<1>1. e \in Events
  BY DEF DeliveryInv, RefinementInv, RelayInv, TypeOK, WorkerType
<1> QED BY <1>1 DEF DeliveryInv, OnceInv, Once, HeldIsUntouched

\* A worker at a row has it in its batch.
LEMMA AtInBatch ==
  ASSUME DeliveryInv, NEW w \in Workers, NEW e \in Events, wk[w].ev = e
  PROVE  e \in wk[w].batch
  BY RelayAssumption DEF DeliveryInv, RefinementInv, CurrentInBatch

LEMMA DeliveringHas ==
  ASSUME DeliveryInv, NEW w \in Workers, NEW e, Delivering(w, e)
  PROVE  e \in wk[w].batch /\ wk[w].ev = NoEvent
  BY DEF DeliveryInv, OnceInv, BetweenRows, Delivering

\* While a request is under way its worker owns the row, and until Meta takes it
\* nothing of the reply has reached the customer.
LEMMA InFlightUntouched ==
  ASSUME DeliveryInv, NEW w \in Workers, NEW e \in Events, At(w, "flight", e)
  PROVE  /\ row[e].owner = w /\ row[e].status = "sending"
         /\ e \notin unrecorded => Untouched(e)
<1>1. row[e].owner = w /\ row[e].status = "sending"
  BY DEF At, InFlight, DeliveryInv, RefinementInv, RelayInv, LeaseCoversRequest, RequestCovered
<1>2. e \in wk[w].batch /\ NotSentBy(w, e)
  BY AtInBatch DEF At, NotSentBy
<1> QED BY <1>1, <1>2, InHand

LEMMA OnceWorkerStep ==
  ASSUME DeliveryInv, NEW w \in Workers, WorkerStep(w) PROVE OnceInv'
<1>0. /\ TypeOK /\ row \in [Events -> RowType] /\ wk \in [Workers -> WorkerType]
      /\ BetweenRows /\ OwnedIsSending
  BY DEF DeliveryInv, RefinementInv, RelayInv, TypeOK, OnceInv
<1>1. CASE Claim(w)
  <2>1. PICK S \in SUBSET Claimable :
          /\ row' = [e \in Events |->
                       IF e \in S
                       THEN [row[e] EXCEPT !.status = "sending", !.owner = w,
                                           !.lease = LeaseFromNow,
                                           !.attempts = Counted(@)]
                       ELSE row[e]]
          /\ wk' = [wk EXCEPT ![w] = [IdleWorker EXCEPT !.phase = "batch", !.batch = S]]
    BY <1>1 DEF Claim
  <2>2. /\ \A e \in S : row'[e].owner = w /\ row'[e].status = "sending"
        /\ \A e \in Events \ S : row'[e] = row[e]
    BY <1>0, <2>1 DEF RowType, Claimable
  <2>3. /\ wk'[w].ev = NoEvent /\ wk'[w].batch = S
        /\ \A v \in Workers \ {w} : wk'[v] = wk[v]
    BY <1>0, <2>1 DEF IdleWorker
  <2>4. UNCHANGED <<copies, latent, unrecorded>>
    BY <1>1 DEF Claim
  <2>5. \A e \in S : e \in Events /\ row[e].status \in DueStatuses
    BY DEF Claimable
  <2>6. ASSUME NEW e \in Events, e \notin unrecorded
        PROVE  /\ QueuedIsUntouched(e)' /\ AtMostOneCopy(e)'
               /\ \A v \in Workers : HeldIsUntouched(v, e)'
    <3>1. /\ QueuedIsUntouched(e) /\ AtMostOneCopy(e)
          /\ \A v \in Workers : HeldIsUntouched(v, e)
      BY <2>6 DEF DeliveryInv, OnceInv, Once
    <3>2. Untouched(e)' = Untouched(e) /\ AtMostOneCopy(e)' = AtMostOneCopy(e)
      BY <2>4 DEF Untouched, AtMostOneCopy
    <3>3. CASE e \in S
      BY <2>5, <3>1, <3>2, <3>3 DEF QueuedIsUntouched, HeldIsUntouched
    <3>4. CASE e \notin S
      <4>1. QueuedIsUntouched(e)'
        BY <2>2, <3>1, <3>2, <3>4 DEF QueuedIsUntouched
      <4>2. ASSUME NEW v \in Workers PROVE HeldIsUntouched(v, e)'
        BY <2>2, <2>3, <3>1, <3>2, <3>4 DEF HeldIsUntouched, NotSentBy
      <4> QED BY <3>1, <3>2, <4>1, <4>2
    <3> QED BY <3>3, <3>4
  <2>7. BetweenRows'
    BY <1>0, <2>3, BetweenFrame
  <2> QED BY <2>4, <2>6, <2>7 DEF OnceInv, Once
<1>2. CASE Crash(w)
  <2>1. /\ wk'[w].ev = NoEvent /\ wk'[w].batch = {} /\ row' = row
        /\ \A v \in Workers \ {w} : wk'[v] = wk[v]
        /\ latent' = latent \cup {e \in Events : At(w, "flight", e)}
        /\ UNCHANGED <<copies, unrecorded>>
    BY <1>0, <1>2 DEF Crash, IdleWorker
  <2>2. ASSUME NEW e \in Events, e \notin unrecorded
        PROVE  /\ QueuedIsUntouched(e)' /\ AtMostOneCopy(e)'
               /\ \A v \in Workers : HeldIsUntouched(v, e)'
    <3>1. /\ QueuedIsUntouched(e) /\ AtMostOneCopy(e)
          /\ \A v \in Workers : HeldIsUntouched(v, e)
      BY <2>2 DEF DeliveryInv, OnceInv, Once
    <3>2. CASE At(w, "flight", e)
      <4>1. row[e].owner = w /\ row[e].status = "sending" /\ Untouched(e)
        BY <2>2, <3>2, InFlightUntouched
      <4> QED BY <2>1, <4>1 DEF QueuedIsUntouched, AtMostOneCopy, HeldIsUntouched,
                                Untouched, DueStatuses
    <3>3. CASE ~At(w, "flight", e)
      <4>1. Untouched(e)' = Untouched(e) /\ AtMostOneCopy(e)' = AtMostOneCopy(e)
        BY <2>1, <3>3 DEF Untouched, AtMostOneCopy
      <4> QED BY <2>1, <3>1, <4>1 DEF QueuedIsUntouched, HeldIsUntouched, NotSentBy
    <3> QED BY <3>2, <3>3
  <2>3. BetweenRows'
    BY <1>0, <2>1, BetweenFrame
  <2> QED BY <2>1, <2>2, <2>3 DEF OnceInv, Once
<1>3. ASSUME NEW e \in Events, DeliverRefused(w, e) PROVE OnceInv'
  <2> DEFINE r == Cancelled(row[e], FALSE)
  <2>1. row' = [row EXCEPT ![e] = IF Fenced(w, e) THEN r ELSE @]
    BY <1>3 DEF DeliverRefused, SettleAsFailed
  <2>2. r.owner = NoWorker /\ r.status = "cancelled"
    BY <1>0, SettledRow
  <2>3. Leaves(w, e) /\ UNCHANGED <<copies, latent, unrecorded>>
    BY <1>0, <1>3, AdvanceLeaves, DeliveringHas DEF DeliverRefused
  <2> HIDE DEF r
  <2> QED BY <2>1, <2>2, <2>3, OnceLeaves DEF DueStatuses
<1>4. ASSUME NEW e \in Events, DeliverPressured(w, e) PROVE OnceInv'
  <2> DEFINE r == RateLimited(row[e])
  <2>1. row' = [row EXCEPT ![e] = IF Fenced(w, e) THEN r ELSE @]
    BY <1>4 DEF DeliverPressured
  <2>2. r.owner = NoWorker
    BY <1>0, SettledRow
  <2>3. Fenced(w, e) /\ e \notin unrecorded => Untouched(e)
    BY <1>4, DeliveringHas, InHand, RelayAssumption DEF DeliverPressured, NotSentBy, Fenced
  <2>4. Leaves(w, e) /\ UNCHANGED <<copies, latent, unrecorded>>
    BY <1>0, <1>4, AdvanceLeaves, DeliveringHas DEF DeliverPressured
  <2> HIDE DEF r
  <2> QED BY <2>1, <2>2, <2>3, <2>4, OnceLeaves
<1>5. ASSUME NEW e \in Events, DeliverReady(w, e) PROVE OnceInv'
  <2>1. row[e].owner = w /\ e \notin unrecorded => Untouched(e)
    BY <1>5, DeliveringHas, InHand, RelayAssumption DEF DeliverReady, NotSentBy
  <2>2. row[e].owner = w /\ e \notin unrecorded => HeldIsUntouched(w, e)'
    BY <1>5, <2>1 DEF DeliverReady, HeldIsUntouched, Untouched
  <2> QED BY <1>0, <1>5, <2>2, ReadyEffect, DeliveringHas, OnceGoesOn DEF DeliverReady
<1>6. ASSUME NEW e \in Events, LeaseLapsed(w, e) \/ StatementFails(w, e) PROVE OnceInv'
  <2>1. Advance(w, e) /\ wk[w].ev = e /\ row' = row /\ UNCHANGED <<copies, latent, unrecorded>>
    BY <1>6 DEF LeaseLapsed, StatementFails, At
  <2>2. HeldIsUntouched(w, e)'
    BY <1>0, <2>1, AdvanceEffect DEF HeldIsUntouched
  <2> QED BY <1>0, <2>1, <2>2, AdvanceEffect, OnceGoesOn
<1>7. ASSUME NEW e \in Events, BeginSend(w, e) PROVE OnceInv'
  <2>1. row[e].owner = w /\ e \notin unrecorded => Untouched(e)
    BY <1>7, AtInBatch, InHand DEF BeginSend, At, NotSentBy
  <2>2. row[e].owner = w /\ e \notin unrecorded => HeldIsUntouched(w, e)'
    BY <1>7, <2>1 DEF BeginSend, HeldIsUntouched, Untouched
  <2> QED BY <1>0, <1>7, <2>2, BeginEffect, OnceGoesOn DEF BeginSend, At
<1>8. ASSUME NEW e \in Events, PlatformAccepts(w, e) PROVE OnceInv'
  <2>1. /\ wk[w].ev = e /\ wk'[w].phase = "accepted" /\ wk'[w].ev = e
        /\ wk'[w].batch = wk[w].batch /\ \A v \in Workers \ {w} : wk'[v] = wk[v]
        /\ row' = row /\ latent' = latent /\ unrecorded' = unrecorded
    BY <1>0, <1>8, GoToEffect DEF PlatformAccepts, At
  <2>2. row[e].owner = w /\ row[e].status = "sending" /\ (e \notin unrecorded => Untouched(e))
    BY <1>8, InFlightUntouched DEF PlatformAccepts
  <2>3. /\ \A f \in Events \ {e} : copies'[f] = copies[f]
        /\ copies[e] = 0 => copies'[e] = 1
    BY <1>0, <1>8 DEF PlatformAccepts, OneMore, MaxCopies, TypeOK
  <2>4. Confined(w, e)
    BY <2>1, <2>2, <2>3 DEF Confined
  <2>5. e \notin unrecorded =>
            QueuedIsUntouched(e)' /\ AtMostOneCopy(e)' /\ HeldIsUntouched(w, e)'
    BY <2>1, <2>2, <2>3 DEF QueuedIsUntouched, AtMostOneCopy, HeldIsUntouched, Untouched,
                            NotSentBy, DueStatuses
  <2>6. BetweenRows'
    BY <1>0, <2>1, BetweenFrame
  <2> QED BY <2>4, <2>5, <2>6, OnceFrame DEF DeliveryInv, OnceInv
<1>9. ASSUME NEW e \in Events, RespondOk(w, e) PROVE OnceInv'
  <2>1. wk'[w].phase = "ok" /\ wk'[w].ev = e
    BY <1>0, <1>9, GoToEffect DEF RespondOk, At
  <2>2. HeldIsUntouched(w, e)'
    BY <2>1, <1>9 DEF HeldIsUntouched, NotSentBy, RespondOk, At, DeliveryInv, RefinementInv,
                      RelayInv, LeaseCoversRequest, RequestCovered, InFlight
  <2> QED BY <1>0, <1>9, <2>1, <2>2, GoToEffect, OnceGoesOn DEF RespondOk, At
<1>10. ASSUME NEW e \in Events, RespondError(w, e) PROVE OnceInv'
  <2>1. /\ wk[w].ev = e /\ wk[w].phase \in {"flight", "accepted"} /\ row' = row
        /\ copies' = copies /\ unrecorded' = unrecorded
    BY <1>10 DEF RespondError
  <2>2. row[e].owner = w /\ row[e].status = "sending"
    BY <2>1 DEF DeliveryInv, RefinementInv, RelayInv, LeaseCoversRequest, RequestCovered, InFlight
  <2>3. /\ wk'[w].phase = "err" /\ wk'[w].ev = e /\ wk'[w].batch = wk[w].batch
        /\ \A v \in Workers \ {w} : wk'[v] = wk[v]
        /\ wk'[w].err \in Requeued => wk[w].phase = "flight" /\ latent' = latent
        /\ latent' = latent \/ (latent' = latent \cup {e} /\ wk[w].phase = "flight")
    BY <1>0, <1>10, ErrorEffect DEF Requeued
  <2>4. wk[w].phase = "flight" /\ e \notin unrecorded => Untouched(e)
    BY <2>1, InFlightUntouched DEF At
  <2>5. Confined(w, e)
    BY <2>1, <2>2, <2>3 DEF Confined
  <2>6. ASSUME e \notin unrecorded
        PROVE  QueuedIsUntouched(e)' /\ AtMostOneCopy(e)' /\ HeldIsUntouched(w, e)'
    <3>1. QueuedIsUntouched(e)'
      BY <2>1, <2>2 DEF QueuedIsUntouched, DueStatuses
    <3>2. AtMostOneCopy(e)
      BY <2>6 DEF DeliveryInv, OnceInv, Once
    <3>3. AtMostOneCopy(e)'
      BY <2>1, <2>3, <2>4, <2>6, <3>2 DEF AtMostOneCopy, Untouched
    <3>4. HeldIsUntouched(w, e)'
      BY <2>1, <2>3, <2>4, <2>6 DEF HeldIsUntouched, NotSentBy, Untouched
    <3> QED BY <3>1, <3>3, <3>4
  <2>7. BetweenRows'
    BY <1>0, <2>3, BetweenFrame
  <2> QED BY <2>5, <2>6, <2>7, OnceFrame DEF DeliveryInv, OnceInv
<1>11. ASSUME NEW e \in Events, SendRefusedLocally(w, e) PROVE OnceInv'
  <2>1. row[e].owner = w /\ e \notin unrecorded => Untouched(e)
    BY <1>11, InFlightUntouched DEF SendRefusedLocally
  <2>2. row[e].owner = w /\ e \notin unrecorded => HeldIsUntouched(w, e)'
    BY <1>11, <2>1 DEF SendRefusedLocally, HeldIsUntouched, Untouched
  <2> QED BY <1>0, <1>11, <2>2, LocalEffect, OnceGoesOn DEF SendRefusedLocally, At
<1>12. ASSUME NEW e \in Events, MarkSent(w, e) PROVE OnceInv'
  <2> DEFINE r == [Release(row[e]) EXCEPT !.status = "sent"]
  <2>1. r.owner = NoWorker /\ r.status = "sent"
    BY <1>0 DEF Release, RowType
  <2>2. wk[w].ev = e /\ UNCHANGED <<copies, latent, unrecorded>>
    BY <1>12 DEF MarkSent, At
  <2>3. CASE row[e].owner = w
    <3>1. row' = [row EXCEPT ![e] = IF Fenced(w, e) THEN r ELSE @]
      BY <1>0, <1>12, <2>3, RelayAssumption DEF MarkSent, Fenced, OwnedIsSending
    <3>2. Leaves(w, e)
      BY <1>0, <1>12, <2>2, <2>3, GoToLeaves DEF MarkSent, Between
    <3> HIDE DEF r
    <3> QED BY <2>1, <2>2, <3>1, <3>2, OnceLeaves DEF DueStatuses
  <2>4. CASE row[e].owner # w
    <3>1. Advance(w, e) /\ row' = row
      BY <1>12, <2>4 DEF MarkSent
    <3> QED BY <1>0, <2>2, <2>4, <3>1, AdvanceEffect, OnceGoesOn
  <2> QED BY <2>3, <2>4
<1>13. ASSUME NEW e \in Events, RecordDelivery(w, e) \/ SettleMessage(w, e) PROVE OnceInv'
  <2>1. Advance(w, e) /\ wk[w].ev = e /\ row' = row /\ UNCHANGED <<copies, latent, unrecorded>>
    BY <1>13 DEF RecordDelivery, SettleMessage, At
  <2>2. HeldIsUntouched(w, e)'
    BY <1>0, <2>1, AdvanceEffect DEF HeldIsUntouched
  <2> QED BY <1>0, <2>1, <2>2, AdvanceEffect, OnceGoesOn
<1>14. ASSUME NEW e \in Events, NEW amb \in BOOLEAN, wk[w].ev = e,
              SettleAsFailed(w, e, amb), Advance(w, e),
              UNCHANGED <<copies, latent, unrecorded>>
       PROVE  OnceInv'
  <2> DEFINE r == Cancelled(row[e], amb)
  <2>1. row' = [row EXCEPT ![e] = IF Fenced(w, e) THEN r ELSE @]
    BY <1>14 DEF SettleAsFailed
  <2>2. r.owner = NoWorker /\ r.status = "cancelled"
    BY <1>0, SettledRow
  <2>3. Leaves(w, e)
    BY <1>0, <1>14, AdvanceLeaves
  <2> HIDE DEF r
  <2> QED BY <1>14, <2>1, <2>2, <2>3, OnceLeaves DEF DueStatuses
<1>15. ASSUME NEW e \in Events, FailReauth(w, e) \/ FailAmbiguous(w, e) PROVE OnceInv'
  BY <1>14, <1>15 DEF FailReauth, FailAmbiguous, At
<1>16. ASSUME NEW e \in Events, FailThrottled(w, e) PROVE OnceInv'
  <2> DEFINE r == RateLimited(row[e])
  <2>1. row' = [row EXCEPT ![e] = IF Fenced(w, e) THEN r ELSE @]
    BY <1>16 DEF FailThrottled
  <2>2. r.owner = NoWorker
    BY <1>0, SettledRow
  <2>3. Fenced(w, e) /\ e \notin unrecorded => Untouched(e)
    BY <1>16, AtInBatch, InHand DEF FailThrottled, At, NotSentBy, Requeued, Fenced
  <2>4. Leaves(w, e) /\ UNCHANGED <<copies, latent, unrecorded>>
    BY <1>0, <1>16, AdvanceLeaves, GoToLeaves DEF FailThrottled, At, Between
  <2> HIDE DEF r
  <2> QED BY <2>1, <2>2, <2>3, <2>4, OnceLeaves
<1>17. ASSUME NEW e \in Events, FailPlain(w, e) PROVE OnceInv'
  <2> DEFINE r == Failed(row[e], scheduleRetry(w))
  <2>1. row' = [row EXCEPT ![e] = IF Fenced(w, e) THEN r ELSE @]
    BY <1>17 DEF FailPlain
  <2>2. /\ r.owner = NoWorker
        /\ r.status \in {"dead_letter", "failed"}
        /\ ~scheduleRetry(w) => r.status = "dead_letter"
    BY <1>0, SettledRow
  <2>3. Fenced(w, e) /\ e \notin unrecorded /\ scheduleRetry(w) => Untouched(e)
    BY <1>17, AtInBatch, InHand DEF FailPlain, At, NotSentBy, Requeued, Fenced, scheduleRetry
  <2>4. Leaves(w, e) /\ UNCHANGED <<copies, latent, unrecorded>>
    BY <1>0, <1>17, AdvanceLeaves, GoToLeaves DEF FailPlain, At, Between
  <2>5. Fenced(w, e) /\ e \notin unrecorded /\ r.status \in {"none"} \cup DueStatuses
          => Untouched(e)
    BY <2>2, <2>3 DEF DueStatuses
  <2> HIDE DEF r
  <2> QED BY <2>1, <2>2, <2>4, <2>5, OnceLeaves
<1> QED BY <1>1, <1>2, <1>3, <1>4, <1>5, <1>6, <1>7, <1>8, <1>9, <1>10, <1>11,
           <1>12, <1>13, <1>15, <1>16, <1>17 DEF WorkerStep

\* A step outside the workers that keeps owner and status of every row, every copy
\* and every late request.
LEMMA OnceKept ==
  ASSUME DeliveryInv,
         \A w \in Workers : /\ wk'[w].phase = wk[w].phase /\ wk'[w].ev = wk[w].ev
                            /\ wk'[w].batch = wk[w].batch /\ wk'[w].err = wk[w].err,
         \A f \in Events : row'[f].status = row[f].status /\ row'[f].owner = row[f].owner,
         UNCHANGED <<copies, latent, unrecorded>>
  PROVE  OnceInv'
<1>1. BetweenRows'
  BY DEF DeliveryInv, OnceInv, BetweenRows
<1>2. ASSUME NEW f \in Events PROVE Once(f)'
  <2>1. Once(f) /\ Untouched(f)' = Untouched(f) /\ AtMostOneCopy(f)' = AtMostOneCopy(f)
    BY DEF DeliveryInv, OnceInv, Untouched, AtMostOneCopy
  <2>2. ASSUME NEW w \in Workers, HeldIsUntouched(w, f) PROVE HeldIsUntouched(w, f)'
    BY <2>1, <2>2 DEF HeldIsUntouched, NotSentBy
  <2> QED BY <2>1, <2>2 DEF Once, QueuedIsUntouched
<1> QED BY <1>1, <1>2 DEF OnceInv

\* A step outside the workers on one row.
LEMMA OnceOfOne ==
  ASSUME DeliveryInv, NEW e \in Events, wk' = wk,
         \A f \in Events \ {e} : /\ row'[f] = row[f] /\ copies'[f] = copies[f]
                                 /\ f \in latent' <=> f \in latent
                                 /\ f \in unrecorded' <=> f \in unrecorded,
         Once(e)'
  PROVE  OnceInv'
<1>1. BetweenRows'
  BY DEF DeliveryInv, OnceInv, BetweenRows
<1>2. ASSUME NEW f \in Events \ {e} PROVE Once(f)'
  <2>1. Once(f) /\ Untouched(f)' = Untouched(f) /\ AtMostOneCopy(f)' = AtMostOneCopy(f)
    BY DEF DeliveryInv, OnceInv, Untouched, AtMostOneCopy
  <2>2. ASSUME NEW w \in Workers, HeldIsUntouched(w, f) PROVE HeldIsUntouched(w, f)'
    BY <2>1, <2>2 DEF HeldIsUntouched, NotSentBy
  <2> QED BY <2>1, <2>2 DEF Once, QueuedIsUntouched
<1> QED BY <1>1, <1>2 DEF OnceInv

LEMMA OnceEventStep ==
  ASSUME DeliveryInv, NEW e \in Events, EventStep(e) PROVE OnceInv'
<1>0. /\ TypeOK /\ row \in [Events -> RowType] /\ copies \in [Events -> 0 .. MaxCopies]
      /\ OwnedIsSending
  BY DEF DeliveryInv, RefinementInv, RelayInv, TypeOK
<1>1. CASE Enqueue(e)
  <2>1. /\ row[e].status = "none" /\ row'[e].status = "pending"
        /\ row'[e].owner = row[e].owner /\ wk' = wk
        /\ \A f \in Events \ {e} : row'[f] = row[f]
        /\ UNCHANGED <<copies, latent, unrecorded>>
    BY <1>0, <1>1 DEF Enqueue, RowType
  <2>2. Once(e)'
    <3>1. Once(e) /\ Untouched(e)' = Untouched(e) /\ AtMostOneCopy(e)' = AtMostOneCopy(e)
      BY <2>1 DEF DeliveryInv, OnceInv, Untouched, AtMostOneCopy
    <3> QED BY <2>1, <3>1 DEF Once, QueuedIsUntouched, HeldIsUntouched
  <2> QED BY <2>1, <2>2, OnceOfOne
<1>2. CASE BecomeDue(e) \/ AgePastMaxWait(e) \/ AgeReadBack(e)
  <2>1. /\ wk' = wk /\ UNCHANGED <<copies, latent, unrecorded>>
        /\ \A f \in Events : row'[f].status = row[f].status /\ row'[f].owner = row[f].owner
    BY <1>0, <1>2 DEF BecomeDue, AgePastMaxWait, AgeReadBack, RowType
  <2> QED BY <2>1, OnceKept
<1>3. CASE Reclaim(e)
  <2>1. /\ row'[e].status = "pending" /\ row'[e].owner = NoWorker
        /\ \A f \in Events \ {e} : row'[f] = row[f]
        /\ wk' = wk /\ copies' = copies /\ latent' = latent
        /\ e \notin unrecorded' => ~(copies[e] > 0 \/ e \in latent) /\ e \notin unrecorded
        /\ \A f \in Events \ {e} : f \in unrecorded' <=> f \in unrecorded
    BY <1>0, <1>3 DEF Reclaim, Release, RowType
  <2>2. copies[e] \in 0 .. MaxCopies
    BY <1>0
  <2>3. e \notin unrecorded' => Untouched(e)
    BY <2>1, <2>2 DEF Untouched, MaxCopies
  <2>4. Once(e)'
    BY <2>1, <2>3, RelayAssumption
    DEF Once, QueuedIsUntouched, AtMostOneCopy, HeldIsUntouched, Untouched
  <2> QED BY <2>1, <2>4, OnceOfOne
<1>4. CASE LatentLands(e)
  <2>1. /\ e \in latent /\ e \notin latent' /\ wk' = wk /\ row' = row
        /\ unrecorded' = unrecorded
        /\ \A f \in Events \ {e} : copies'[f] = copies[f] /\ (f \in latent' <=> f \in latent)
        /\ copies[e] = 0 => copies'[e] = 1
    BY <1>0, <1>4 DEF LatentLands, OneMore, MaxCopies
  <2>2. Once(e)
    BY DEF DeliveryInv, OnceInv
  <2>3. ASSUME NEW w \in Workers PROVE HeldIsUntouched(w, e)' \/ ~HeldIsUntouched(w, e)
    BY <2>1 DEF HeldIsUntouched, Untouched, NotSentBy
  <2>4. Once(e)'
    BY <2>1, <2>2, <2>3 DEF Once, QueuedIsUntouched, AtMostOneCopy, Untouched
  <2> QED BY <2>1, <2>4, OnceOfOne
<1>5. CASE LatentDropped(e)
  <2>1. /\ e \notin latent' /\ wk' = wk /\ row' = row /\ UNCHANGED <<copies, unrecorded>>
        /\ \A f \in Events \ {e} : f \in latent' <=> f \in latent
    BY <1>5 DEF LatentDropped
  <2>2. Once(e)
    BY DEF DeliveryInv, OnceInv
  <2>3. Once(e)'
    BY <2>1, <2>2 DEF Once, QueuedIsUntouched, AtMostOneCopy, Untouched, HeldIsUntouched, NotSentBy
  <2> QED BY <2>1, <2>3, OnceOfOne
<1>6. CASE Echo(e) \/ RecordReadBack(e) \/ ForgetReadBack(e)
  BY <1>6, OnceKept DEF Echo, RecordReadBack, ForgetReadBack
<1>7. CASE ReadBack(e)
  <2>1. PICK o : row' = [row EXCEPT ![e] = ReadBackResolved(@, o)]
    BY <1>7 DEF ReadBack
  <2>2. /\ row[e].status = "cancelled" /\ wk' = wk /\ UNCHANGED <<copies, latent, unrecorded>>
        /\ row'[e].status \in {"cancelled", "sent"} /\ row'[e].owner = row[e].owner
        /\ \A f \in Events \ {e} : row'[f] = row[f]
    BY <1>0, <1>7, <2>1 DEF ReadBack, AwaitingReadBack, ReadBackResolved, RowType
  <2>3. Once(e) /\ AtMostOneCopy(e)' = AtMostOneCopy(e) /\ row[e].owner = NoWorker
    BY <1>0, <2>2 DEF DeliveryInv, OnceInv, AtMostOneCopy, OwnedIsSending
  <2>4. Once(e)'
    BY <2>2, <2>3, RelayAssumption DEF Once, QueuedIsUntouched, HeldIsUntouched, DueStatuses
  <2> QED BY <2>2, <2>4, OnceOfOne
<1> QED BY <1>1, <1>2, <1>3, <1>4, <1>5, <1>6, <1>7 DEF EventStep

LEMMA OnceInit == Init => OnceInv
  BY DEF Init, OnceInv, BetweenRows, Once, QueuedIsUntouched, AtMostOneCopy, HeldIsUntouched,
         Untouched, IdleWorker, NoRow

LEMMA OnceTick == ASSUME DeliveryInv, Tick PROVE OnceInv'
<1>0. row \in [Events -> RowType] /\ wk \in [Workers -> WorkerType]
  BY DEF DeliveryInv, RefinementInv, RelayInv, TypeOK
<1>1. \A w \in Workers : /\ wk'[w].phase = wk[w].phase /\ wk'[w].ev = wk[w].ev
                         /\ wk'[w].batch = wk[w].batch /\ wk'[w].err = wk[w].err
  BY <1>0 DEF Tick, WorkerType
<1>2. \A f \in Events : row'[f].status = row[f].status /\ row'[f].owner = row[f].owner
  BY <1>0 DEF Tick, OneTickOf, RowType
<1> QED BY <1>1, <1>2, OnceKept DEF Tick

LEMMA RefinementStep == RefinementInv /\ [Next]_vars => RefinementInv'
  BY InvStep, CurrentStep DEF RefinementInv, QueueInv, RelayInv

LEMMA RefinementInit == Init => RefinementInv
<1>1. Init => CurrentInBatch
  BY DEF Init, CurrentInBatch, IdleWorker
<1> QED BY <1>1, InvInit DEF RefinementInv

LEMMA DeliveryStep == DeliveryInv /\ [Next]_vars => DeliveryInv'
<1> SUFFICES ASSUME DeliveryInv, [Next]_vars PROVE OnceInv'
  BY RefinementStep DEF DeliveryInv
<1>1. CASE Reconnect \/ AtRest \/ UNCHANGED vars
  <2>1. wk' = wk /\ row' = row /\ UNCHANGED <<copies, latent, unrecorded>>
    BY <1>1 DEF Reconnect, AtRest, vars
  <2> QED BY <2>1, OnceKept
<1> QED BY <1>1, OnceWorkerStep, OnceEventStep, OnceTick DEF Next

\* DeliveryInv is inductive.
THEOREM DeliveryInvariant == Spec => []DeliveryInv
<1>1. Init => DeliveryInv
  BY RefinementInit, OnceInit DEF DeliveryInv
<1> QED BY <1>1, DeliveryStep, PTL DEF Spec

\* A customer reads a reply twice only where the reaper queued a row again whose
\* request had taken effect, or still could: no retry, no park and no read-back
\* ever duplicates, whatever Meta answers, whichever workers die or stall and
\* however late a request is processed (handleSendFailure, isAmbiguousFailure).
THEOREM RepliesAreSentOnce == Spec => []DuplicateOnlyAfterLostRecord
<1>1. DeliveryInv => DuplicateOnlyAfterLostRecord
  BY DEF DeliveryInv, OnceInv, Once, AtMostOneCopy, DuplicateOnlyAfterLostRecord
<1> QED BY <1>1, DeliveryInvariant, PTL

-----------------------------------------------------------------------------
(* The ledger's verdicts are true.  A read-back concludes from what Meta shows *)
(* of the latest attempt; what makes it sound is that only a settled ambiguous *)
(* send is read back, that nothing of it is still on its way by then, and that *)
(* an attempt no record was lost of is the only one that can have landed.      *)

\* Meta took the request, and its answer is here or on its way.
TakenBy(w, e) == wk[w].ev = e /\ wk[w].phase \in {"accepted", "ok"}

Verdict(e) ==
    /\ row[e].readBack = "lost" => copies[e] = 0 \/ e \in unrecorded
    /\ row[e].status = "sent" => copies[e] > 0
    /\ landed[e] => copies[e] > 0
    /\ e \notin unrecorded /\ copies[e] > 0 => landed[e]
    /\ row[e].ambiguous => row[e].status \in {"cancelled", "sent"}
    /\ row[e].stage # "fresh" => row[e].ambiguous /\ e \notin latent
    /\ row[e].readBack # "none" => row[e].stage # "fresh"
    /\ \A w \in Workers : TakenBy(w, e) => copies[e] > 0

VerdictInv == DeliveryInv /\ \A e \in Events : Verdict(e)

\* What may happen to the row: it keeps what the reconciler reads of it, or it is
\* cancelled for the first time.
VerdictRow(e) ==
    \/ /\ row'[e].ambiguous = row[e].ambiguous /\ row'[e].stage = row[e].stage
       /\ row'[e].readBack = row[e].readBack
       /\ \/ row'[e].status = row[e].status
          \/ ~row[e].ambiguous /\ (row'[e].status = "sent" => copies'[e] > 0)
    \/ /\ ~row[e].ambiguous /\ row'[e].status = "cancelled"
       /\ row'[e].stage = "fresh" /\ row'[e].readBack = row[e].readBack

\* What may happen at Meta: nothing, a new attempt at a reply it has nothing of,
\* or a copy while nobody has begun to wait for the read-back.
VerdictCopies(e) ==
    \/ copies'[e] = copies[e] /\ landed'[e] = landed[e]
    \/ copies'[e] = copies[e] /\ ~landed'[e] /\ (e \in unrecorded \/ copies[e] = 0)
    \/ copies'[e] > 0 /\ landed'[e] /\ row[e].stage = "fresh"

LEMMA VerdictFrame ==
  ASSUME NEW e \in Events, Verdict(e), TypeOK, VerdictRow(e), VerdictCopies(e),
         e \in latent' => e \in latent \/ ~row[e].ambiguous,
         e \in unrecorded => e \in unrecorded',
         \A w \in Workers : TakenBy(w, e)' => TakenBy(w, e) \/ copies'[e] > 0
  PROVE  Verdict(e)'
<1>0. copies[e] \in 0 .. MaxCopies
  BY DEF TypeOK
<1>1. copies[e] > 0 => copies'[e] > 0
  BY <1>0 DEF VerdictCopies
<1>2. row'[e].readBack = "lost" => copies'[e] = 0 \/ e \in unrecorded'
  BY DEF Verdict, VerdictRow, VerdictCopies
<1>3. /\ row'[e].status = "sent" => copies'[e] > 0
      /\ row'[e].ambiguous => row'[e].status \in {"cancelled", "sent"}
  BY <1>1 DEF Verdict, VerdictRow
<1>4. /\ landed'[e] => copies'[e] > 0
      /\ e \notin unrecorded' /\ copies'[e] > 0 => landed'[e]
  BY <1>0 DEF Verdict, VerdictCopies
<1>5. /\ row'[e].stage # "fresh" => row'[e].ambiguous /\ e \notin latent'
      /\ row'[e].readBack # "none" => row'[e].stage # "fresh"
  BY DEF Verdict, VerdictRow
<1>6. \A w \in Workers : TakenBy(w, e)' => copies'[e] > 0
  BY <1>1 DEF Verdict
<1> QED BY <1>2, <1>3, <1>4, <1>5, <1>6 DEF Verdict

\* A step that concerns one reply.
VerdictOnly(e) ==
    \A f \in Events \ {e} :
        /\ row'[f] = row[f] /\ copies'[f] = copies[f] /\ landed'[f] = landed[f]
        /\ f \in latent' => f \in latent
        /\ f \in unrecorded => f \in unrecorded'
        /\ \A w \in Workers : TakenBy(w, f)' => TakenBy(w, f)

LEMMA VerdictOfOne ==
  ASSUME VerdictInv, NEW e \in Events, VerdictOnly(e), Verdict(e)'
  PROVE  \A f \in Events : Verdict(f)'
<1>1. ASSUME NEW f \in Events \ {e} PROVE Verdict(f)'
  BY VerdictFrame
  DEF VerdictInv, DeliveryInv, RefinementInv, RelayInv, VerdictOnly, VerdictRow, VerdictCopies
<1> QED BY <1>1

\* A worker's step on one row.
LEMMA WorkerVerdictOnly ==
  ASSUME NEW w \in Workers, NEW e \in Events,
         \A v \in Workers \ {w} : wk'[v] = wk[v], wk'[w].ev \in {e, NoEvent},
         \A f \in Events \ {e} : /\ row'[f] = row[f] /\ copies'[f] = copies[f]
                                 /\ landed'[f] = landed[f]
                                 /\ f \in latent' => f \in latent,
         unrecorded' = unrecorded
  PROVE  VerdictOnly(e)
<1>1. ASSUME NEW f \in Events \ {e}, NEW v \in Workers, TakenBy(v, f)' PROVE TakenBy(v, f)
  BY <1>1, RelayAssumption DEF TakenBy
<1> QED BY <1>1 DEF VerdictOnly

\* A worker that leaves its row writes 'sent' only after Meta's answer.
LEMMA VerdictLeaves ==
  ASSUME VerdictInv, NEW w \in Workers, NEW e \in Events, NEW r,
         row' = [row EXCEPT ![e] = IF Fenced(w, e) THEN r ELSE @],
         \/ /\ r.ambiguous = row[e].ambiguous /\ r.stage = row[e].stage
            /\ r.readBack = row[e].readBack /\ (r.status = "sent" => copies[e] > 0)
         \/ r.status = "cancelled" /\ r.stage = "fresh" /\ r.readBack = row[e].readBack,
         Leaves(w, e), UNCHANGED <<copies, landed, latent, unrecorded>>
  PROVE  \A f \in Events : Verdict(f)'
<1>0. TypeOK /\ OwnedIsSending /\ row \in [Events -> RowType] /\ Verdict(e)
  BY DEF VerdictInv, DeliveryInv, RefinementInv, RelayInv, TypeOK
<1>1. /\ \A f \in Events \ {e} : row'[f] = row[f]
      /\ Fenced(w, e) => row'[e] = r
      /\ ~Fenced(w, e) => row'[e] = row[e]
  BY <1>0
<1>2. Fenced(w, e) => ~row[e].ambiguous
  BY <1>0, RelayAssumption DEF Fenced, OwnedIsSending, Verdict
<1>3. VerdictRow(e)
  BY <1>1, <1>2 DEF VerdictRow
<1>4. \A v \in Workers : TakenBy(v, e)' => TakenBy(v, e)
  BY RelayAssumption DEF Leaves, TakenBy, Between
<1>5. VerdictCopies(e)
  BY DEF VerdictCopies
<1>6. Verdict(e)'
  BY <1>0, <1>3, <1>4, <1>5, VerdictFrame
<1>7. VerdictOnly(e)
  BY <1>1, WorkerVerdictOnly DEF Leaves
<1> QED BY <1>6, <1>7, VerdictOfOne

\* A worker that goes on with its row, which stays as it is.
LEMMA VerdictGoesOn ==
  ASSUME VerdictInv, NEW w \in Workers, NEW e \in Events, row' = row,
         wk'[w].ev \in {e, NoEvent}, \A v \in Workers \ {w} : wk'[v] = wk[v],
         TakenBy(w, e)' => TakenBy(w, e) \/ copies'[e] > 0,
         \A f \in Events \ {e} : /\ copies'[f] = copies[f] /\ landed'[f] = landed[f]
                                 /\ f \in latent' => f \in latent,
         VerdictCopies(e), e \in latent' => e \in latent \/ ~row[e].ambiguous,
         unrecorded' = unrecorded
  PROVE  \A f \in Events : Verdict(f)'
<1>0. TypeOK /\ Verdict(e)
  BY DEF VerdictInv, DeliveryInv, RefinementInv, RelayInv
<1>1. \A v \in Workers : TakenBy(v, e)' => TakenBy(v, e) \/ copies'[e] > 0
  BY DEF TakenBy
<1>2. VerdictRow(e)
  BY DEF VerdictRow
<1>3. Verdict(e)'
  BY <1>0, <1>1, <1>2, VerdictFrame
<1>4. VerdictOnly(e)
  BY WorkerVerdictOnly
<1> QED BY <1>3, <1>4, VerdictOfOne

\* A row a worker owns is not one the reconciler looks at.
LEMMA OwnedIsFresh ==
  ASSUME VerdictInv, NEW e \in Events, row[e].status = "sending"
  PROVE  ~row[e].ambiguous /\ row[e].stage = "fresh" /\ row[e].readBack = "none"
  BY DEF VerdictInv, Verdict

LEMMA VerdictWorkerStep ==
  ASSUME VerdictInv, NEW w \in Workers, WorkerStep(w)
  PROVE  \A f \in Events : Verdict(f)'
<1>0. /\ TypeOK /\ row \in [Events -> RowType] /\ wk \in [Workers -> WorkerType]
      /\ copies \in [Events -> 0 .. MaxCopies] /\ landed \in [Events -> BOOLEAN]
      /\ DeliveryInv /\ OwnedIsSending
  BY DEF VerdictInv, DeliveryInv, RefinementInv, RelayInv, TypeOK
<1>1. CASE Claim(w)
  <2>1. PICK S \in SUBSET Claimable :
          /\ row' = [e \in Events |->
                       IF e \in S
                       THEN [row[e] EXCEPT !.status = "sending", !.owner = w,
                                           !.lease = LeaseFromNow,
                                           !.attempts = Counted(@)]
                       ELSE row[e]]
          /\ wk' = [wk EXCEPT ![w] = [IdleWorker EXCEPT !.phase = "batch", !.batch = S]]
    BY <1>1 DEF Claim
  <2>2. /\ wk'[w].ev = NoEvent /\ \A v \in Workers \ {w} : wk'[v] = wk[v]
        /\ UNCHANGED <<copies, landed, latent, unrecorded>>
    BY <1>0, <1>1, <2>1 DEF Claim, IdleWorker
  <2>3. \A f \in Events \ S : row'[f] = row[f]
    BY <2>1
  <2>4. ASSUME NEW f \in Events PROVE Verdict(f)'
    <3>1. ASSUME f \in S PROVE VerdictRow(f)
      <4>1. row[f].status \in DueStatuses /\ Verdict(f)
        BY <3>1 DEF Claimable, VerdictInv
      <4>2. ~row[f].ambiguous
        BY <4>1 DEF Verdict, DueStatuses
      <4>3. /\ row'[f].ambiguous = row[f].ambiguous /\ row'[f].stage = row[f].stage
            /\ row'[f].readBack = row[f].readBack /\ row'[f].status = "sending"
        BY <1>0, <2>1, <3>1 DEF RowType
      <4> QED BY <4>2, <4>3 DEF VerdictRow
    <3>2. ASSUME f \notin S PROVE VerdictRow(f)
      BY <2>3, <3>2 DEF VerdictRow
    <3>3. VerdictRow(f)
      BY <3>1, <3>2
    <3>4. \A v \in Workers : TakenBy(v, f)' => TakenBy(v, f)
      BY <2>2, RelayAssumption DEF TakenBy
    <3> QED BY <1>0, <2>2, <3>3, <3>4, VerdictFrame DEF VerdictInv, VerdictCopies
  <2> QED BY <2>4
<1>2. CASE Crash(w)
  <2>1. /\ wk'[w].ev = NoEvent /\ row' = row
        /\ \A v \in Workers \ {w} : wk'[v] = wk[v]
        /\ latent' = latent \cup {e \in Events : At(w, "flight", e)}
        /\ UNCHANGED <<copies, landed, unrecorded>>
    BY <1>0, <1>2 DEF Crash, IdleWorker
  <2>2. ASSUME NEW f \in Events PROVE Verdict(f)'
    <3>1. f \in latent' => f \in latent \/ ~row[f].ambiguous
      BY <1>0, <2>1, InFlightUntouched, OwnedIsFresh
    <3>2. \A v \in Workers : TakenBy(v, f)' => TakenBy(v, f)
      BY <2>1, RelayAssumption DEF TakenBy
    <3>3. VerdictRow(f) /\ VerdictCopies(f)
      BY <2>1 DEF VerdictRow, VerdictCopies
    <3> QED BY <1>0, <2>1, <3>1, <3>2, <3>3, VerdictFrame DEF VerdictInv
  <2> QED BY <2>2
<1>3. ASSUME NEW e \in Events, NEW amb \in BOOLEAN, wk[w].ev \in {e, NoEvent},
             SettleAsFailed(w, e, amb), Advance(w, e),
             UNCHANGED <<copies, landed, latent, unrecorded>>
      PROVE  \A f \in Events : Verdict(f)'
  <2> DEFINE r == Cancelled(row[e], amb)
  <2>1. row' = [row EXCEPT ![e] = IF Fenced(w, e) THEN r ELSE @]
    BY <1>3 DEF SettleAsFailed
  <2>2. r.status = "cancelled" /\ r.stage = "fresh" /\ r.readBack = row[e].readBack
    BY <1>0 DEF Cancelled, Release, RowType
  <2>3. Leaves(w, e)
    BY <1>0, <1>3, AdvanceLeaves
  <2> HIDE DEF r
  <2> QED BY <1>3, <2>1, <2>2, <2>3, VerdictLeaves
<1>4. ASSUME NEW e \in Events, DeliverRefused(w, e) \/ FailReauth(w, e) \/ FailAmbiguous(w, e)
      PROVE  \A f \in Events : Verdict(f)'
  BY <1>0, <1>3, <1>4, DeliveringHas DEF DeliverRefused, FailReauth, FailAmbiguous, At
<1>5. ASSUME NEW e \in Events, DeliverPressured(w, e) \/ FailThrottled(w, e)
      PROVE  \A f \in Events : Verdict(f)'
  <2> DEFINE r == RateLimited(row[e])
  <2>1. row' = [row EXCEPT ![e] = IF Fenced(w, e) THEN r ELSE @]
    BY <1>5 DEF DeliverPressured, FailThrottled
  <2>2. /\ r.ambiguous = row[e].ambiguous /\ r.stage = row[e].stage
        /\ r.readBack = row[e].readBack /\ r.status # "sent"
    <3>1. r.status # "sent"
      BY <1>0, SettledRow
    <3> QED BY <1>0, <3>1 DEF RateLimited, Release, RowType
  <2>3. wk[w].ev \in {e, NoEvent} /\ ((GoTo(w, "settle") /\ wk[w].ev = e) \/ Advance(w, e))
    BY <1>0, <1>5, DeliveringHas DEF DeliverPressured, FailThrottled, At
  <2>4. Leaves(w, e)
    BY <1>0, <2>3, AdvanceLeaves, GoToLeaves DEF Between
  <2>5. UNCHANGED <<copies, landed, latent, unrecorded>>
    BY <1>5 DEF DeliverPressured, FailThrottled
  <2> HIDE DEF r
  <2> QED BY <2>1, <2>2, <2>4, <2>5, VerdictLeaves
<1>6. ASSUME NEW e \in Events, FailPlain(w, e) PROVE \A f \in Events : Verdict(f)'
  <2> DEFINE r == Failed(row[e], scheduleRetry(w))
  <2>1. row' = [row EXCEPT ![e] = IF Fenced(w, e) THEN r ELSE @]
    BY <1>6 DEF FailPlain
  <2>2. /\ r.ambiguous = row[e].ambiguous /\ r.stage = row[e].stage
        /\ r.readBack = row[e].readBack /\ r.status # "sent"
    <3>1. r.status # "sent"
      BY <1>0, SettledRow
    <3> QED BY <1>0, <3>1 DEF Failed, Release, RowType
  <2>3. Leaves(w, e) /\ UNCHANGED <<copies, landed, latent, unrecorded>>
    BY <1>0, <1>6, AdvanceLeaves, GoToLeaves DEF FailPlain, At, Between
  <2> HIDE DEF r
  <2> QED BY <2>1, <2>2, <2>3, VerdictLeaves
<1>7. ASSUME NEW e \in Events, MarkSent(w, e) PROVE \A f \in Events : Verdict(f)'
  <2> DEFINE r == [Release(row[e]) EXCEPT !.status = "sent"]
  <2>1. /\ r.ambiguous = row[e].ambiguous /\ r.stage = row[e].stage
        /\ r.readBack = row[e].readBack
    BY <1>0 DEF Release, RowType
  <2>2. copies[e] > 0
    BY <1>7 DEF MarkSent, At, TakenBy, VerdictInv, Verdict
  <2>3. row' = [row EXCEPT ![e] = IF Fenced(w, e) THEN r ELSE @]
    <3>1. row[e].owner = w => Fenced(w, e)
      BY <1>0, RelayAssumption DEF Fenced, OwnedIsSending
    <3>2. CASE row[e].owner = w
      BY <1>7, <3>1, <3>2 DEF MarkSent
    <3>3. CASE row[e].owner # w
      BY <1>0, <1>7, <3>3 DEF MarkSent, Fenced
    <3> QED BY <3>2, <3>3
  <2>4. Leaves(w, e) /\ UNCHANGED <<copies, landed, latent, unrecorded>>
    BY <1>0, <1>7, AdvanceLeaves, GoToLeaves DEF MarkSent, At, Between
  <2> HIDE DEF r
  <2> QED BY <2>1, <2>2, <2>3, <2>4, VerdictLeaves
<1>8. ASSUME NEW e \in Events, row' = row, Advance(w, e), wk[w].ev = e,
             UNCHANGED <<copies, landed, latent, unrecorded>>
      PROVE  \A f \in Events : Verdict(f)'
  <2>1. wk'[w].ev = NoEvent /\ \A v \in Workers \ {w} : wk'[v] = wk[v]
    BY <1>0, <1>8, AdvanceEffect
  <2>2. ~TakenBy(w, e)' /\ VerdictCopies(e)
    BY <1>8, <2>1, RelayAssumption DEF TakenBy, VerdictCopies
  <2> QED BY <1>8, <2>1, <2>2, VerdictGoesOn
<1>9. ASSUME NEW e \in Events, \/ LeaseLapsed(w, e) \/ StatementFails(w, e)
                               \/ RecordDelivery(w, e) \/ SettleMessage(w, e)
      PROVE  \A f \in Events : Verdict(f)'
  BY <1>8, <1>9 DEF LeaseLapsed, StatementFails, RecordDelivery, SettleMessage, At
<1>10. ASSUME NEW e \in Events, DeliverReady(w, e) PROVE \A f \in Events : Verdict(f)'
  <2>1. ~TakenBy(w, e)' /\ VerdictCopies(e)
    BY <1>0, <1>10, ReadyEffect DEF TakenBy, VerdictCopies, DeliverReady
  <2> QED BY <1>0, <1>10, <2>1, ReadyEffect, VerdictGoesOn DEF DeliverReady
<1>11. ASSUME NEW e \in Events, BeginSend(w, e) PROVE \A f \in Events : Verdict(f)'
  <2>1. e \notin unrecorded => copies[e] = 0
    BY <1>0, <1>11, AtInBatch, InHand
    DEF BeginSend, At, NotSentBy, Untouched, stillHoldsLease
  <2>2. /\ ~landed'[e] /\ \A f \in Events \ {e} : landed'[f] = landed[f]
        /\ copies' = copies /\ latent' = latent /\ unrecorded' = unrecorded /\ row' = row
    BY <1>0, <1>11 DEF BeginSend
  <2>3. ~TakenBy(w, e)' /\ VerdictCopies(e)
    BY <1>0, <1>11, <2>1, <2>2, BeginEffect DEF TakenBy, VerdictCopies
  <2> QED BY <1>0, <1>11, <2>2, <2>3, BeginEffect, VerdictGoesOn
<1>12. ASSUME NEW e \in Events, PlatformAccepts(w, e) PROVE \A f \in Events : Verdict(f)'
  <2>1. row[e].stage = "fresh"
    BY <1>0, <1>12, InFlightUntouched, OwnedIsFresh DEF PlatformAccepts
  <2>2. /\ copies'[e] > 0 /\ landed'[e] /\ row' = row
        /\ \A f \in Events \ {e} : copies'[f] = copies[f] /\ landed'[f] = landed[f]
        /\ latent' = latent /\ unrecorded' = unrecorded
    BY <1>0, <1>12 DEF PlatformAccepts, OneMore, MaxCopies
  <2>3. wk'[w].ev = e /\ \A v \in Workers \ {w} : wk'[v] = wk[v]
    BY <1>0, <1>12, GoToEffect DEF PlatformAccepts, At
  <2> QED BY <2>1, <2>2, <2>3, VerdictGoesOn DEF VerdictCopies
<1>13. ASSUME NEW e \in Events, RespondOk(w, e) PROVE \A f \in Events : Verdict(f)'
  <2>1. wk'[w].ev = e /\ TakenBy(w, e) /\ \A v \in Workers \ {w} : wk'[v] = wk[v]
    BY <1>0, <1>13, GoToEffect DEF RespondOk, At, TakenBy
  <2> QED BY <1>13, <2>1, VerdictGoesOn DEF RespondOk, VerdictCopies
<1>14. ASSUME NEW e \in Events, RespondError(w, e) PROVE \A f \in Events : Verdict(f)'
  <2>1. /\ wk'[w].ev = e /\ ~TakenBy(w, e)' /\ \A v \in Workers \ {w} : wk'[v] = wk[v]
        /\ latent' = latent \/ (latent' = latent \cup {e} /\ wk[w].phase = "flight")
    BY <1>0, <1>14, ErrorEffect DEF TakenBy
  <2>2. wk[w].phase = "flight" => ~row[e].ambiguous
    BY <1>0, <1>14, InFlightUntouched, OwnedIsFresh DEF RespondError, At
  <2>3. row' = row /\ copies' = copies /\ landed' = landed /\ unrecorded' = unrecorded
    BY <1>14 DEF RespondError
  <2> QED BY <2>1, <2>2, <2>3, VerdictGoesOn DEF VerdictCopies
<1>15. ASSUME NEW e \in Events, SendRefusedLocally(w, e) PROVE \A f \in Events : Verdict(f)'
  <2>1. ~TakenBy(w, e)' /\ VerdictCopies(e)
    BY <1>0, <1>15, LocalEffect DEF TakenBy, VerdictCopies, SendRefusedLocally
  <2> QED BY <1>0, <1>15, <2>1, LocalEffect, VerdictGoesOn DEF SendRefusedLocally
<1> QED BY <1>1, <1>2, <1>4, <1>5, <1>6, <1>7, <1>9, <1>10, <1>11, <1>12, <1>13, <1>14,
           <1>15 DEF WorkerStep

LEMMA VerdictEventStep ==
  ASSUME VerdictInv, NEW e \in Events, EventStep(e)
  PROVE  \A f \in Events : Verdict(f)'
<1>0. /\ TypeOK /\ row \in [Events -> RowType] /\ copies \in [Events -> 0 .. MaxCopies]
      /\ landed \in [Events -> BOOLEAN] /\ Verdict(e)
  BY DEF VerdictInv, DeliveryInv, RefinementInv, RelayInv, TypeOK
<1>w. wk' = wk
  BY DEF EventStep, Enqueue, BecomeDue, AgePastMaxWait, AgeReadBack, Reclaim, LatentLands,
         LatentDropped, Echo, ReadBack, RecordReadBack, ForgetReadBack
<1>t. \A f \in Events : \A w \in Workers : TakenBy(w, f)' => TakenBy(w, f)
  BY <1>w DEF TakenBy
<1>1. ASSUME VerdictRow(e), \A f \in Events \ {e} : row'[f] = row[f],
             UNCHANGED <<copies, landed, latent>>, unrecorded \subseteq unrecorded'
      PROVE  \A f \in Events : Verdict(f)'
  <2>1. Verdict(e)'
    BY <1>0, <1>1, <1>t, VerdictFrame DEF VerdictCopies
  <2> QED BY <1>1, <1>t, <2>1, VerdictOfOne DEF VerdictOnly
<1>2. CASE Enqueue(e)
  <2>1. ~row[e].ambiguous
    BY <1>0, <1>2 DEF Enqueue, Verdict
  <2>2. /\ row'[e].ambiguous = row[e].ambiguous /\ row'[e].stage = row[e].stage
        /\ row'[e].readBack = row[e].readBack /\ row'[e].status = "pending"
        /\ \A f \in Events \ {e} : row'[f] = row[f]
    BY <1>0, <1>2 DEF Enqueue, RowType
  <2>3. VerdictRow(e)
    BY <2>1, <2>2 DEF VerdictRow
  <2> QED BY <1>1, <1>2, <2>2, <2>3 DEF Enqueue
<1>3. CASE BecomeDue(e) \/ AgePastMaxWait(e)
  <2>1. /\ row'[e].ambiguous = row[e].ambiguous /\ row'[e].stage = row[e].stage
        /\ row'[e].readBack = row[e].readBack /\ row'[e].status = row[e].status
        /\ \A f \in Events \ {e} : row'[f] = row[f]
    BY <1>0, <1>3 DEF BecomeDue, AgePastMaxWait, RowType
  <2> QED BY <1>1, <1>3, <2>1 DEF VerdictRow, BecomeDue, AgePastMaxWait
<1>4. CASE AgeReadBack(e)
  <2>1. /\ row[e].ambiguous /\ e \notin latent
        /\ row'[e].ambiguous = row[e].ambiguous /\ row'[e].stage # "fresh"
        /\ row'[e].readBack = row[e].readBack /\ row'[e].status = row[e].status
        /\ \A f \in Events \ {e} : row'[f] = row[f]
        /\ UNCHANGED <<copies, landed, latent, unrecorded>>
    BY <1>0, <1>4 DEF AgeReadBack, RowType
  <2>2. Verdict(e)'
    BY <1>0, <1>t, <2>1 DEF Verdict
  <2> QED BY <1>t, <2>1, <2>2, VerdictOfOne DEF VerdictOnly
<1>5. CASE Reclaim(e)
  <2>1. ~row[e].ambiguous
    BY <1>5, OwnedIsFresh DEF Reclaim, Reapable
  <2>2. /\ row'[e].ambiguous = row[e].ambiguous /\ row'[e].stage = row[e].stage
        /\ row'[e].readBack = row[e].readBack /\ row'[e].status = "pending"
        /\ \A f \in Events \ {e} : row'[f] = row[f]
    BY <1>0, <1>5 DEF Reclaim, Release, RowType
  <2>3. VerdictRow(e)
    BY <2>1, <2>2 DEF VerdictRow
  <2>4. UNCHANGED <<copies, landed, latent>> /\ unrecorded \subseteq unrecorded'
    BY <1>5 DEF Reclaim
  <2> QED BY <1>1, <2>2, <2>3, <2>4
<1>6. CASE LatentLands(e)
  <2>1. /\ row[e].stage = "fresh" /\ row' = row /\ unrecorded' = unrecorded
        /\ latent' \subseteq latent /\ copies'[e] > 0 /\ landed'[e]
        /\ \A f \in Events \ {e} : copies'[f] = copies[f] /\ landed'[f] = landed[f]
    BY <1>0, <1>6 DEF LatentLands, OneMore, MaxCopies
  <2>2. Verdict(e)'
    BY <1>0, <1>t, <2>1, VerdictFrame DEF VerdictCopies, VerdictRow
  <2> QED BY <1>t, <2>1, <2>2, VerdictOfOne DEF VerdictOnly
<1>7. CASE LatentDropped(e)
  <2>1. /\ row' = row /\ UNCHANGED <<copies, landed, unrecorded>> /\ latent' \subseteq latent
    BY <1>7 DEF LatentDropped
  <2>2. Verdict(e)'
    BY <1>0, <1>t, <2>1, VerdictFrame DEF VerdictCopies, VerdictRow
  <2> QED BY <1>t, <2>1, <2>2, VerdictOfOne DEF VerdictOnly
<1>8. CASE Echo(e) \/ RecordReadBack(e) \/ ForgetReadBack(e)
  BY <1>1, <1>8 DEF Echo, RecordReadBack, ForgetReadBack, VerdictRow
<1>9. CASE ReadBack(e)
  <2>1. PICK o \in ReadBackOutcomes(e) : row' = [row EXCEPT ![e] = ReadBackResolved(@, o)]
    BY <1>9 DEF ReadBack
  <2>2. /\ row[e].status = "cancelled" /\ row[e].ambiguous /\ row[e].stage # "fresh"
        /\ UNCHANGED <<copies, landed, latent, unrecorded>>
    BY <1>9 DEF ReadBack, AwaitingReadBack
  <2>3. /\ row'[e].ambiguous = row[e].ambiguous /\ row'[e].stage = row[e].stage
        /\ row'[e].readBack = o
        /\ row'[e].status = IF o = "landed" THEN "sent" ELSE "cancelled"
        /\ \A f \in Events \ {e} : row'[f] = row[f]
    BY <1>0, <2>1, <2>2 DEF ReadBackResolved, RowType
  <2>4. copies[e] \in 0 .. MaxCopies
    BY <1>0
  <2>5. o = "landed" => copies[e] > 0
    BY <1>0, <2>1 DEF ReadBackOutcomes, Verdict
  <2>6. o = "lost" => copies[e] = 0 \/ e \in unrecorded
    <3>1. o = "lost" => ~landed[e]
      BY <2>1 DEF ReadBackOutcomes
    <3> QED BY <1>0, <2>4, <3>1 DEF Verdict, MaxCopies
  <2>7. Verdict(e)'
    BY <1>0, <1>t, <2>2, <2>3, <2>5, <2>6 DEF Verdict
  <2> QED BY <1>t, <2>2, <2>3, <2>7, VerdictOfOne DEF VerdictOnly
<1> QED BY <1>2, <1>3, <1>4, <1>5, <1>6, <1>7, <1>8, <1>9 DEF EventStep

LEMMA VerdictInit == Init => \A f \in Events : Verdict(f)
  BY DEF Init, NoRow, IdleWorker, Verdict, TakenBy

LEMMA VerdictStep == VerdictInv /\ [Next]_vars => VerdictInv'
<1> SUFFICES ASSUME VerdictInv, [Next]_vars PROVE \A f \in Events : Verdict(f)'
  BY DeliveryStep DEF VerdictInv
<1>0. row \in [Events -> RowType] /\ wk \in [Workers -> WorkerType] /\ TypeOK
  BY DEF VerdictInv, DeliveryInv, RefinementInv, RelayInv, TypeOK
<1>1. ASSUME \A f \in Events : VerdictRow(f), UNCHANGED <<copies, landed, latent, unrecorded>>,
             \A f \in Events : \A w \in Workers : TakenBy(w, f)' => TakenBy(w, f)
      PROVE  \A f \in Events : Verdict(f)'
  BY <1>0, <1>1, VerdictFrame DEF VerdictInv, VerdictCopies
<1>2. CASE Tick
  <2>1. \A f \in Events : VerdictRow(f)
    BY <1>0, <1>2 DEF Tick, OneTickOf, RowType, VerdictRow
  <2>2. \A w \in Workers : wk'[w].ev = wk[w].ev /\ wk'[w].phase = wk[w].phase
    BY <1>0, <1>2 DEF Tick, WorkerType
  <2>3. UNCHANGED <<copies, landed, latent, unrecorded>>
    BY <1>2 DEF Tick
  <2> QED BY <1>1, <2>1, <2>2, <2>3 DEF TakenBy
<1>3. CASE Reconnect \/ AtRest \/ UNCHANGED vars
  <2>1. wk' = wk /\ row' = row /\ UNCHANGED <<copies, landed, latent, unrecorded>>
    BY <1>3 DEF Reconnect, AtRest, vars
  <2> QED BY <1>1, <2>1 DEF TakenBy, VerdictRow
<1> QED BY <1>2, <1>3, VerdictWorkerStep, VerdictEventStep DEF Next

\* VerdictInv is inductive.
THEOREM VerdictInvariant == Spec => []VerdictInv
<1>1. Init => VerdictInv
  BY RefinementInit, OnceInit, VerdictInit DEF DeliveryInv, VerdictInv
<1> QED BY <1>1, VerdictStep, PTL DEF Spec

\* What the ledger says of a reply is true of what the customer reads: 'sent' only
\* if a copy is there, and 'lost' only if none is, a row whose record the reaper
\* lost excepted (markSent, reconcileOne, SEND_READ_BACK_DELAY_MS).
THEOREM VerdictsAreTrue == Spec => []VerdictsAreSound
<1>1. VerdictInv => VerdictsAreSound
  BY DEF VerdictInv, Verdict, VerdictsAreSound, LostVerdictSound, SentMeansDelivered
<1> QED BY <1>1, VerdictInvariant, PTL

-----------------------------------------------------------------------------
(* The agent's message agrees with the ledger.  Between the statement that     *)
(* settles a row and the one that writes its message a worker stands at        *)
(* 'recorded' or 'settle'; the invariant says of every settled row that its    *)
(* message agrees, or that such a worker, or a dead one, is to be found.       *)

MsgAgrees(e) == msg[e].status = "failed" \/ (msg[e].status = "sent" /\ copies[e] > 0)

SomebodyAt(phase, e) == \E w \in Workers : wk[w].phase = "dead" \/ At(w, phase, e)

Ledger(e) ==
    /\ \A w \in Workers :
        \* so the caller and the statement agree on when the attempts are spent
        /\ wk[w].ev = e /\ row[e].owner = w => wk[w].attempt = row[e].attempts
        /\ At(w, "recorded", e) => row[e].status = "sent"
        /\ At(w, "settle", e) => row[e].status = "dead_letter"
    /\ e \in verdict => row[e].status = "sent"
    /\ row[e].status = "sent" => \/ msg[e].status = "sent" \/ row[e].readBack = "landed"
                                 \/ SomebodyAt("recorded", e)
    /\ row[e].status = "cancelled" => MsgAgrees(e)
    /\ row[e].status = "dead_letter" => MsgAgrees(e) \/ SomebodyAt("settle", e)

LedgerInv == DeliveryInv /\ \A e \in Events : Ledger(e)

\* A reply that a step does not concern: its row and message stay, it may gain a
\* copy, and nobody else comes between its two statements.
LedgerRests(f) ==
    /\ row'[f].status = row[f].status /\ row'[f].owner = row[f].owner
    /\ row'[f].attempts = row[f].attempts /\ row'[f].readBack = row[f].readBack
    /\ msg'[f] = msg[f]
    /\ copies[f] > 0 => copies'[f] > 0
    /\ f \in verdict' => f \in verdict
    /\ \A w \in Workers :
        /\ wk'[w].ev = f /\ row[f].owner = w => wk'[w].attempt = row[f].attempts
        /\ At(w, "recorded", f)' => At(w, "recorded", f)
        /\ At(w, "settle", f)' => At(w, "settle", f)
    /\ SomebodyAt("recorded", f) => SomebodyAt("recorded", f)'
    /\ SomebodyAt("settle", f) => SomebodyAt("settle", f)'

LEMMA LedgerKept ==
  ASSUME NEW f \in Events, Ledger(f), LedgerRests(f) PROVE Ledger(f)'
<1>1. MsgAgrees(f) => MsgAgrees(f)'
  BY DEF MsgAgrees, LedgerRests
<1>2. ASSUME NEW w \in Workers
      PROVE  /\ wk'[w].ev = f /\ row'[f].owner = w => wk'[w].attempt = row'[f].attempts
             /\ At(w, "recorded", f)' => row'[f].status = "sent"
             /\ At(w, "settle", f)' => row'[f].status = "dead_letter"
  BY DEF Ledger, LedgerRests
<1>3. /\ f \in verdict' => row'[f].status = "sent"
      /\ row'[f].status = "sent" => \/ msg'[f].status = "sent" \/ row'[f].readBack = "landed"
                                    \/ SomebodyAt("recorded", f)'
      /\ row'[f].status = "cancelled" => MsgAgrees(f)'
      /\ row'[f].status = "dead_letter" => MsgAgrees(f)' \/ SomebodyAt("settle", f)'
  BY <1>1 DEF Ledger, LedgerRests
<1> QED BY <1>2, <1>3 DEF Ledger

\* A step of one worker leaves the replies it does not concern at rest.
LEMMA LedgerOfOne ==
  ASSUME LedgerInv, NEW w \in Workers, NEW e \in Events,
         wk[w].phase # "dead", wk[w].ev \in {e, NoEvent}, wk'[w].ev \in {e, NoEvent},
         \A v \in Workers \ {w} : wk'[v] = wk[v],
         \A f \in Events \ {e} : row'[f] = row[f] /\ msg'[f] = msg[f] /\ copies'[f] = copies[f],
         verdict' = verdict, Ledger(e)'
  PROVE  \A f \in Events : Ledger(f)'
<1>1. ASSUME NEW f \in Events \ {e} PROVE Ledger(f)'
  <2>1. wk[w].ev # f /\ wk'[w].ev # f
    BY RelayAssumption
  <2>2. ASSUME NEW p, SomebodyAt(p, f) PROVE SomebodyAt(p, f)'
    <3>1. PICK v \in Workers : wk[v].phase = "dead" \/ At(v, p, f)
      BY <2>2 DEF SomebodyAt
    <3>2. v # w
      BY <2>1, <3>1 DEF At
    <3> QED BY <3>1, <3>2 DEF SomebodyAt, At
  <2>3. Ledger(f)
    BY DEF LedgerInv
  <2>4. ASSUME NEW v \in Workers
        PROVE  /\ wk'[v].ev = f /\ row[f].owner = v => wk'[v].attempt = row[f].attempts
               /\ At(v, "recorded", f)' => At(v, "recorded", f)
               /\ At(v, "settle", f)' => At(v, "settle", f)
    BY <2>1, <2>3 DEF Ledger, At
  <2>5. LedgerRests(f)
    BY <2>2, <2>4 DEF LedgerRests
  <2> QED BY <2>3, <2>5, LedgerKept
<1> QED BY <1>1

\* A worker on its way through deliver: row and message stay as they are.
LEMMA LedgerGoesOn ==
  ASSUME LedgerInv, NEW w \in Workers, NEW e \in Events, row' = row, msg' = msg,
         verdict' = verdict,
         \A f \in Events \ {e} : copies'[f] = copies[f], copies[e] > 0 => copies'[e] > 0,
         wk[w].phase # "dead", wk[w].phase \notin Between, wk'[w].phase \notin Between,
         wk[w].ev \in {e, NoEvent}, wk'[w].ev \in {e, NoEvent},
         wk'[w].ev = e /\ row[e].owner = w => wk'[w].attempt = row[e].attempts,
         \A v \in Workers \ {w} : wk'[v] = wk[v]
  PROVE  \A f \in Events : Ledger(f)'
<1>1. Ledger(e)
  BY DEF LedgerInv
<1>2. ASSUME NEW p \in Between, SomebodyAt(p, e) PROVE SomebodyAt(p, e)'
  <2>1. PICK v \in Workers : wk[v].phase = "dead" \/ At(v, p, e)
    BY <1>2 DEF SomebodyAt
  <2>2. v # w
    BY <2>1 DEF At
  <2> QED BY <2>1, <2>2 DEF SomebodyAt, At
<1>3. ASSUME NEW v \in Workers
      PROVE  /\ wk'[v].ev = e /\ row[e].owner = v => wk'[v].attempt = row[e].attempts
             /\ At(v, "recorded", e)' => At(v, "recorded", e)
             /\ At(v, "settle", e)' => At(v, "settle", e)
  BY <1>1 DEF Ledger, At, Between
<1>4. LedgerRests(e)
  BY <1>2, <1>3 DEF LedgerRests, Between
<1>5. Ledger(e)'
  BY <1>1, <1>4, LedgerKept
<1> QED BY <1>5, LedgerOfOne

\* A worker gives its row back: cancelled with the message in one transaction, or
\* settled with the message still to come, or queued again.
LEMMA LedgerGivesBack ==
  ASSUME LedgerInv, NEW w \in Workers, NEW e \in Events, row[e].owner = w,
         wk[w].ev \in {e, NoEvent}, Leaves(w, e), wk[w].phase # "dead",
         \A f \in Events \ {e} : row'[f] = row[f] /\ msg'[f] = msg[f],
         row'[e].owner = NoWorker,
         row'[e].status \in {"pending", "failed"} => ~At(w, "recorded", e)' /\ ~At(w, "settle", e)',
         row'[e].status = "cancelled" =>
             msg'[e].status = "failed" /\ ~At(w, "recorded", e)' /\ ~At(w, "settle", e)',
         row'[e].status = "sent" => At(w, "recorded", e)',
         row'[e].status = "dead_letter" => At(w, "settle", e)',
         row'[e].status \in {"pending", "failed", "cancelled", "sent", "dead_letter"},
         verdict' = verdict, copies' = copies
  PROVE  \A f \in Events : Ledger(f)'
<1>1. row[e].status = "sending" /\ Ledger(e)
  BY RelayAssumption
  DEF LedgerInv, DeliveryInv, RefinementInv, RelayInv, OwnedIsSending
<1>2. ASSUME NEW v \in Workers \ {w} PROVE ~At(v, "recorded", e)' /\ ~At(v, "settle", e)'
  BY <1>1 DEF Ledger, Leaves, At
<1>3. ASSUME NEW v \in Workers
      PROVE  /\ wk'[v].ev = e /\ row'[e].owner = v => wk'[v].attempt = row'[e].attempts
             /\ At(v, "recorded", e)' => row'[e].status = "sent"
             /\ At(v, "settle", e)' => row'[e].status = "dead_letter"
  BY <1>2, RelayAssumption DEF At
<1>4. Ledger(e)'
  BY <1>1, <1>3 DEF Ledger, SomebodyAt, MsgAgrees
<1>5. wk'[w].ev \in {e, NoEvent} /\ \A v \in Workers \ {w} : wk'[v] = wk[v]
  BY DEF Leaves
<1> QED BY <1>4, <1>5, LedgerOfOne

\* The message of a row that is settled already.
LEMMA LedgerWrites ==
  ASSUME LedgerInv, NEW w \in Workers, NEW e \in Events, row' = row, Advance(w, e),
         NEW s \in {"sent", "failed"}, NEW b, msg' = [msg EXCEPT ![e] = Recorded(@, s, b)],
         \/ At(w, "recorded", e) /\ s = "sent"
         \/ At(w, "settle", e) /\ s = "failed",
         verdict' = verdict, copies' = copies
  PROVE  \A f \in Events : Ledger(f)'
<1>0. TypeOK /\ Ledger(e) /\ msg \in [Events -> MsgType]
  BY DEF LedgerInv, DeliveryInv, RefinementInv, RelayInv, TypeOK
<1>1. msg'[e].status = s /\ \A f \in Events \ {e} : msg'[f] = msg[f]
  BY <1>0 DEF Recorded
<1>2. wk'[w].ev = NoEvent /\ \A v \in Workers \ {w} : wk'[v] = wk[v]
  BY <1>0, AdvanceEffect
<1>3. ASSUME NEW v \in Workers
      PROVE  /\ wk'[v].ev = e /\ row'[e].owner = v => wk'[v].attempt = row'[e].attempts
             /\ At(v, "recorded", e)' => row'[e].status = "sent"
             /\ At(v, "settle", e)' => row'[e].status = "dead_letter"
  BY <1>0, <1>2, RelayAssumption DEF Ledger, At
<1>4. (row[e].status = "sent" /\ s = "sent") \/ (row[e].status = "dead_letter" /\ s = "failed")
  BY <1>0 DEF Ledger
<1>5. Ledger(e)'
  BY <1>0, <1>1, <1>3, <1>4 DEF Ledger, MsgAgrees
<1> QED BY <1>1, <1>2, <1>5, LedgerOfOne DEF At

\* No statement fails on its own and no reply is parked for its own account: the
\* two cases in which the relay is known to leave the message behind.
NoStatementLost == Faults \cap {"db", "pressure"} = {}

LEMMA LedgerWorkerStep ==
  ASSUME NoStatementLost, LedgerInv, NEW w \in Workers, WorkerStep(w)
  PROVE  \A f \in Events : Ledger(f)'
<1>0. /\ TypeOK /\ row \in [Events -> RowType] /\ wk \in [Workers -> WorkerType]
      /\ msg \in [Events -> MsgType] /\ copies \in [Events -> 0 .. MaxCopies]
      /\ DeliveryInv /\ OwnedIsSending /\ \A f \in Events : Ledger(f)
  BY DEF LedgerInv, DeliveryInv, RefinementInv, RelayInv, TypeOK
<1>o. ASSUME NEW e \in Events, row[e].owner = w PROVE Fenced(w, e) /\ row[e].status = "sending"
  BY <1>0, <1>o, RelayAssumption DEF Fenced, OwnedIsSending
<1>1. CASE Claim(w)
  <2>1. PICK S \in SUBSET Claimable :
          /\ row' = [e \in Events |->
                       IF e \in S
                       THEN [row[e] EXCEPT !.status = "sending", !.owner = w,
                                           !.lease = LeaseFromNow,
                                           !.attempts = Counted(@)]
                       ELSE row[e]]
          /\ wk' = [wk EXCEPT ![w] = [IdleWorker EXCEPT !.phase = "batch", !.batch = S]]
    BY <1>1 DEF Claim
  <2>2. /\ wk'[w].ev = NoEvent /\ \A v \in Workers \ {w} : wk'[v] = wk[v]
        /\ wk[w].phase = "idle" /\ wk[w].ev = NoEvent
        /\ msg' = msg /\ copies' = copies /\ verdict' = verdict
    BY <1>0, <1>1, <2>1 DEF Claim, IdleWorker, DeliveryInv, OnceInv, BetweenRows
  <2>3. ASSUME NEW f \in Events, NEW p \in Between, SomebodyAt(p, f) PROVE SomebodyAt(p, f)'
    <3>1. PICK v \in Workers : wk[v].phase = "dead" \/ At(v, p, f)
      BY <2>3 DEF SomebodyAt
    <3>2. v # w
      BY <2>2, <3>1 DEF At, Between
    <3> QED BY <2>2, <3>1, <3>2 DEF SomebodyAt, At
  <2>4. ASSUME NEW f \in Events, f \in S PROVE Ledger(f)'
    <3>1. row[f].status \in DueStatuses
      BY <2>4 DEF Claimable
    <3>2. row'[f].status = "sending" /\ row'[f].owner = w
      BY <1>0, <2>1, <2>4 DEF RowType
    <3>3. f \notin verdict /\ \A v \in Workers : ~At(v, "recorded", f) /\ ~At(v, "settle", f)
      BY <1>0, <3>1 DEF Ledger, DueStatuses
    <3> QED BY <2>2, <3>2, <3>3, RelayAssumption DEF Ledger, At
  <2>5. ASSUME NEW f \in Events, f \notin S PROVE Ledger(f)'
    <3>1. row'[f] = row[f]
      BY <2>1, <2>5
    <3>2. ASSUME NEW v \in Workers
          PROVE  /\ wk'[v].ev = f /\ row[f].owner = v => wk'[v].attempt = row[f].attempts
                 /\ At(v, "recorded", f)' => At(v, "recorded", f)
                 /\ At(v, "settle", f)' => At(v, "settle", f)
      BY <1>0, <2>2, RelayAssumption DEF Ledger, At
    <3>3. LedgerRests(f)
      BY <2>2, <2>3, <3>1, <3>2 DEF LedgerRests, Between
    <3> QED BY <1>0, <3>3, LedgerKept
  <2> QED BY <2>4, <2>5
<1>2. CASE Crash(w)
  <2>1. /\ wk'[w].ev = NoEvent /\ wk'[w].phase = "dead" /\ row' = row /\ msg' = msg
        /\ \A v \in Workers \ {w} : wk'[v] = wk[v]
        /\ verdict' = verdict /\ copies' = copies
    BY <1>0, <1>2 DEF Crash, IdleWorker
  <2>2. ASSUME NEW f \in Events PROVE LedgerRests(f)
    <3>1. ASSUME NEW v \in Workers
          PROVE  /\ wk'[v].ev = f /\ row[f].owner = v => wk'[v].attempt = row[f].attempts
                 /\ At(v, "recorded", f)' => At(v, "recorded", f)
                 /\ At(v, "settle", f)' => At(v, "settle", f)
      BY <1>0, <2>1, RelayAssumption DEF Ledger, At
    <3>2. SomebodyAt("recorded", f)' /\ SomebodyAt("settle", f)'
      BY <2>1 DEF SomebodyAt
    <3> QED BY <2>1, <3>1, <3>2 DEF LedgerRests
  <2> QED BY <1>0, <2>2, LedgerKept
\* The row is not the worker's any more, or it leaves without a statement.
<1>3. ASSUME NEW e \in Events, wk[w].ev \in {e, NoEvent}, Advance(w, e), row' = row, msg' = msg,
             wk[w].phase \notin Between \cup {"dead"}, UNCHANGED <<copies, verdict>>
      PROVE  \A f \in Events : Ledger(f)'
  <2>1. /\ wk'[w].ev = NoEvent /\ wk'[w].phase \notin Between
        /\ \A v \in Workers \ {w} : wk'[v] = wk[v]
    BY <1>0, <1>3, AdvanceEffect DEF Between
  <2> QED BY <1>3, <2>1, LedgerGoesOn, RelayAssumption
<1>4. ASSUME NEW e \in Events, NEW amb \in BOOLEAN, SettleAsFailed(w, e, amb), Advance(w, e),
             wk[w].ev \in {e, NoEvent}, wk[w].phase \notin Between \cup {"dead"},
             UNCHANGED <<copies, verdict>>
      PROVE  \A f \in Events : Ledger(f)'
  <2>1. CASE row[e].owner = w
    <3>1. /\ row' = [row EXCEPT ![e] = Cancelled(row[e], amb)]
          /\ msg' = [msg EXCEPT ![e] = Recorded(msg[e], "failed", FALSE)]
      BY <1>0, <1>4, <1>o, <2>1 DEF SettleAsFailed
    <3>2. row'[e].owner = NoWorker /\ row'[e].status = "cancelled" /\ msg'[e].status = "failed"
      BY <1>0, <3>1, SettledRow DEF Recorded
    <3>3. \A f \in Events \ {e} : row'[f] = row[f] /\ msg'[f] = msg[f]
      BY <3>1
    <3>4. Leaves(w, e) /\ ~At(w, "recorded", e)' /\ ~At(w, "settle", e)'
      BY <1>0, <1>4, AdvanceLeaves, AdvanceEffect DEF At
    <3> QED BY <1>4, <2>1, <3>2, <3>3, <3>4, LedgerGivesBack
  <2>2. CASE row[e].owner # w
    <3>1. row' = row /\ msg' = msg
      BY <1>0, <1>4, <2>2 DEF SettleAsFailed, Fenced
    <3> QED BY <1>3, <1>4, <3>1
  <2> QED BY <2>1, <2>2
<1>5. ASSUME NEW e \in Events, DeliverRefused(w, e) \/ FailReauth(w, e) \/ FailAmbiguous(w, e)
      PROVE  \A f \in Events : Ledger(f)'
  <2>1. wk[w].ev \in {e, NoEvent} /\ wk[w].phase \notin Between \cup {"dead"}
    BY <1>0, <1>5, DeliveringHas
    DEF DeliverRefused, FailReauth, FailAmbiguous, Delivering, At, Between
  <2> QED BY <1>4, <1>5, <2>1 DEF DeliverRefused, FailReauth, FailAmbiguous
<1>6. ASSUME NEW e \in Events, LeaseLapsed(w, e) PROVE \A f \in Events : Ledger(f)'
  BY <1>3, <1>6 DEF LeaseLapsed, At, Between
<1>7. ASSUME NEW e \in Events, DeliverReady(w, e) PROVE \A f \in Events : Ledger(f)'
  <2>1. wk[w].ev = NoEvent /\ wk[w].phase = "batch"
    BY <1>0, <1>7, DeliveringHas DEF DeliverReady, Delivering
  <2>2. /\ wk'[w].phase = "ready" /\ wk'[w].ev = e /\ wk'[w].attempt = row[e].attempts
        /\ \A v \in Workers \ {w} : wk'[v] = wk[v]
    BY <1>0, <1>7, ReadyEffect
  <2> QED BY <1>7, <2>1, <2>2, LedgerGoesOn DEF DeliverReady, Between
<1>8. ASSUME NEW e \in Events, NEW p \in {"flight", "accepted", "ok", "err"},
             wk[w].ev = e, wk[w].phase \notin Between \cup {"dead"},
             wk'[w].phase = p, wk'[w].ev = e, wk'[w].attempt = wk[w].attempt,
             \A v \in Workers \ {w} : wk'[v] = wk[v], row' = row, msg' = msg, verdict' = verdict,
             \A f \in Events \ {e} : copies'[f] = copies[f], copies[e] > 0 => copies'[e] > 0
      PROVE  \A f \in Events : Ledger(f)'
  <2>1. wk'[w].ev = e /\ row[e].owner = w => wk'[w].attempt = row[e].attempts
    BY <1>0, <1>8 DEF Ledger
  <2>2. wk'[w].phase \notin Between
    BY <1>8 DEF Between
  <2> QED BY <1>8, <2>1, <2>2, LedgerGoesOn
<1>9. ASSUME NEW e \in Events,
             BeginSend(w, e) \/ RespondOk(w, e) \/ RespondError(w, e) \/ SendRefusedLocally(w, e)
      PROVE  \A f \in Events : Ledger(f)'
  <2>1. /\ wk[w].ev = e /\ wk[w].phase \notin Between \cup {"dead"}
        /\ row' = row /\ msg' = msg /\ UNCHANGED <<copies, verdict>>
    BY <1>9 DEF BeginSend, RespondOk, RespondError, SendRefusedLocally, At, Between
  <2>2. /\ wk'[w].phase \in {"flight", "accepted", "ok", "err"} /\ wk'[w].ev = e
        /\ wk'[w].attempt = wk[w].attempt /\ \A v \in Workers \ {w} : wk'[v] = wk[v]
    <3>1. CASE BeginSend(w, e)
      BY <1>0, <3>1, BeginEffect
    <3>2. CASE RespondOk(w, e)
      BY <1>0, <2>1, <3>2, GoToEffect DEF RespondOk
    <3>3. CASE RespondError(w, e)
      BY <1>0, <3>3, ErrorEffect
    <3>4. CASE SendRefusedLocally(w, e)
      BY <1>0, <3>4, LocalEffect
    <3> QED BY <1>9, <3>1, <3>2, <3>3, <3>4
  <2> QED BY <1>8, <2>1, <2>2
<1>10. ASSUME NEW e \in Events, PlatformAccepts(w, e) PROVE \A f \in Events : Ledger(f)'
  <2>1. /\ wk[w].ev = e /\ wk[w].phase = "flight" /\ row' = row /\ msg' = msg
        /\ verdict' = verdict /\ GoTo(w, "accepted")
    BY <1>10 DEF PlatformAccepts, At
  <2>2. /\ \A f \in Events \ {e} : copies'[f] = copies[f]
        /\ copies'[e] > 0
    BY <1>0, <1>10 DEF PlatformAccepts, OneMore, MaxCopies
  <2>3. wk[w].phase \notin Between \cup {"dead"}
    BY <2>1 DEF Between
  <2> QED BY <1>0, <1>8, <2>1, <2>2, <2>3, GoToEffect
<1>11. ASSUME NEW e \in Events, MarkSent(w, e) PROVE \A f \in Events : Ledger(f)'
  <2>1. /\ wk[w].ev = e /\ wk[w].phase = "ok" /\ msg' = msg /\ UNCHANGED <<copies, verdict>>
    BY <1>11 DEF MarkSent, At
  <2>2. CASE row[e].owner = w
    <3>1. row' = [row EXCEPT ![e] = [Release(row[e]) EXCEPT !.status = "sent"]] /\ GoTo(w, "recorded")
      BY <1>11, <2>2 DEF MarkSent
    <3>2. row'[e].owner = NoWorker /\ row'[e].status = "sent"
      BY <1>0, <3>1 DEF Release, RowType
    <3>3. \A f \in Events \ {e} : row'[f] = row[f] /\ msg'[f] = msg[f]
      BY <2>1, <3>1
    <3>4. Leaves(w, e) /\ At(w, "recorded", e)'
      BY <1>0, <2>1, <3>1, GoToLeaves, GoToEffect DEF At, Between
    <3> QED BY <2>1, <2>2, <3>2, <3>3, <3>4, LedgerGivesBack
  <2>3. CASE row[e].owner # w
    BY <1>3, <1>11, <2>1, <2>3 DEF MarkSent, Between
  <2> QED BY <2>2, <2>3
<1>12. ASSUME NEW e \in Events, RecordDelivery(w, e) PROVE \A f \in Events : Ledger(f)'
  BY <1>12, LedgerWrites DEF RecordDelivery
<1>13. ASSUME NEW e \in Events, SettleMessage(w, e) PROVE \A f \in Events : Ledger(f)'
  BY <1>13, LedgerWrites DEF SettleMessage
\* The statement and the caller agree on whether the message is to be settled.
<1>14. ASSUME NEW e \in Events, NEW r, NEW dead \in BOOLEAN,
              row' = [row EXCEPT ![e] = IF Fenced(w, e) THEN r ELSE @],
              r.owner = NoWorker,
              row[e].owner = w /\ dead => r.status = "dead_letter",
              row[e].owner = w /\ ~dead => r.status \in {"pending", "failed"},
              IF Fenced(w, e) /\ dead THEN GoTo(w, "settle") ELSE Advance(w, e),
              msg' = msg, UNCHANGED <<copies, verdict>>, wk[w].ev = e, wk[w].phase = "err"
       PROVE  \A f \in Events : Ledger(f)'
  <2>1. CASE row[e].owner = w
    <3>1. row'[e] = r /\ \A f \in Events \ {e} : row'[f] = row[f] /\ msg'[f] = msg[f]
      BY <1>0, <1>14, <1>o, <2>1
    <3>2. CASE dead
      <4>1. GoTo(w, "settle")
        BY <1>14, <1>o, <2>1, <3>2
      <4>2. Leaves(w, e) /\ At(w, "settle", e)' /\ ~At(w, "recorded", e)'
        BY <1>0, <1>14, <4>1, GoToLeaves, GoToEffect DEF At, Between
      <4> QED BY <1>14, <2>1, <3>1, <3>2, <4>2, LedgerGivesBack
    <3>3. CASE ~dead
      <4>1. Leaves(w, e) /\ ~At(w, "settle", e)' /\ ~At(w, "recorded", e)'
        BY <1>0, <1>14, <3>3, AdvanceLeaves, AdvanceEffect DEF At
      <4> QED BY <1>14, <2>1, <3>1, <3>3, <4>1, LedgerGivesBack
    <3> QED BY <3>2, <3>3
  <2>2. CASE row[e].owner # w
    <3>1. row' = row /\ Advance(w, e)
      BY <1>0, <1>14, <2>2 DEF Fenced
    <3> QED BY <1>3, <1>14, <3>1 DEF Between
  <2> QED BY <2>1, <2>2
<1>15. ASSUME NEW e \in Events, FailThrottled(w, e) PROVE \A f \in Events : Ledger(f)'
  <2> DEFINE r == RateLimited(row[e])
             dead == row[e].old
  <2>1. /\ row' = [row EXCEPT ![e] = IF Fenced(w, e) THEN r ELSE @]
        /\ IF Fenced(w, e) /\ dead THEN GoTo(w, "settle") ELSE Advance(w, e)
        /\ msg' = msg /\ UNCHANGED <<copies, verdict>> /\ wk[w].ev = e /\ wk[w].phase = "err"
    BY <1>15 DEF FailThrottled, At
  <2>2. /\ r.owner = NoWorker /\ (dead => r.status = "dead_letter")
        /\ ~dead => r.status = "pending"
    BY <1>0, SettledRow
  <2>3. dead \in BOOLEAN
    BY <1>0 DEF RowType
  <2> HIDE DEF r, dead
  <2> QED BY <1>14, <2>1, <2>2, <2>3
<1>16. ASSUME NEW e \in Events, FailPlain(w, e) PROVE \A f \in Events : Ledger(f)'
  <2> DEFINE r == Failed(row[e], scheduleRetry(w))
             dead == ~scheduleRetry(w)
  <2>1. /\ row' = [row EXCEPT ![e] = IF Fenced(w, e) THEN r ELSE @]
        /\ IF Fenced(w, e) /\ dead THEN GoTo(w, "settle") ELSE Advance(w, e)
        /\ msg' = msg /\ UNCHANGED <<copies, verdict>> /\ wk[w].ev = e /\ wk[w].phase = "err"
    BY <1>16 DEF FailPlain, At
  <2>2. r.owner = NoWorker /\ (dead => r.status = "dead_letter")
    BY <1>0, SettledRow
  <2>3. row[e].owner = w /\ ~dead => r.status = "failed"
    <3>1. row[e].owner = w => wk[w].attempt = row[e].attempts
      BY <1>0, <2>1 DEF Ledger
    <3>2. ~dead => wk[w].attempt < MaxSendAttempts
      BY DEF scheduleRetry
    <3>3. row[e].attempts \in Nat
      BY <1>0, RelayAssumption DEF RowType
    <3>4. r.status = IF dead \/ row[e].attempts >= MaxSendAttempts THEN "dead_letter" ELSE "failed"
      BY <1>0, SettledRow
    <3> HIDE DEF r, dead
    <3> QED BY <3>1, <3>2, <3>3, <3>4, RelayAssumption
  <2>4. dead \in BOOLEAN
    OBVIOUS
  <2> HIDE DEF r, dead
  <2> QED BY <1>14, <2>1, <2>2, <2>3, <2>4
<1> QED BY <1>1, <1>2, <1>5, <1>6, <1>7, <1>9, <1>10, <1>11, <1>12, <1>13, <1>15, <1>16
        DEF WorkerStep, NoStatementLost, DeliverPressured, StatementFails

\* A step outside the workers that concerns one reply.
LEMMA LedgerEvent ==
  ASSUME LedgerInv, NEW e \in Events, wk' = wk,
         \A f \in Events \ {e} : /\ row'[f] = row[f] /\ msg'[f] = msg[f] /\ copies'[f] = copies[f]
                                 /\ f \in verdict' => f \in verdict,
         Ledger(e)'
  PROVE  \A f \in Events : Ledger(f)'
<1>1. ASSUME NEW f \in Events \ {e} PROVE Ledger(f)'
  <2>1. Ledger(f)
    BY DEF LedgerInv
  <2>2. LedgerRests(f)
    BY <2>1 DEF LedgerRests, Ledger, SomebodyAt, At
  <2> QED BY <2>1, <2>2, LedgerKept
<1> QED BY <1>1

LEMMA LedgerEventStep ==
  ASSUME LedgerInv, NEW e \in Events, EventStep(e) PROVE \A f \in Events : Ledger(f)'
<1>0. /\ TypeOK /\ row \in [Events -> RowType] /\ msg \in [Events -> MsgType]
      /\ copies \in [Events -> 0 .. MaxCopies] /\ OwnedIsSending /\ Ledger(e)
  BY DEF LedgerInv, DeliveryInv, RefinementInv, RelayInv, TypeOK
<1>w. wk' = wk
  BY DEF EventStep, Enqueue, BecomeDue, AgePastMaxWait, AgeReadBack, Reclaim, LatentLands,
         LatentDropped, Echo, ReadBack, RecordReadBack, ForgetReadBack
<1>r. ASSUME row'[e].status = row[e].status, row'[e].owner = row[e].owner,
             row'[e].attempts = row[e].attempts, row'[e].readBack = row[e].readBack,
             msg'[e] = msg[e], copies[e] > 0 => copies'[e] > 0, verdict' \subseteq verdict,
             \A f \in Events \ {e} : row'[f] = row[f] /\ msg'[f] = msg[f] /\ copies'[f] = copies[f]
      PROVE  \A f \in Events : Ledger(f)'
  <2>1. LedgerRests(e)
    BY <1>0, <1>r, <1>w DEF LedgerRests, Ledger, SomebodyAt, At
  <2> QED BY <1>0, <1>r, <1>w, <2>1, LedgerKept, LedgerEvent
<1>1. CASE Enqueue(e)
  <2>1. /\ row[e].status = "none" /\ row'[e].status = "pending" /\ row'[e].owner = row[e].owner
        /\ \A f \in Events \ {e} : row'[f] = row[f] /\ msg'[f] = msg[f]
        /\ copies' = copies /\ verdict' = verdict
    BY <1>0, <1>1 DEF Enqueue, RowType
  <2>2. Ledger(e)'
    BY <1>0, <1>w, <2>1, RelayAssumption DEF Ledger, At, OwnedIsSending
  <2> QED BY <1>w, <2>1, <2>2, LedgerEvent
<1>2. CASE BecomeDue(e) \/ AgePastMaxWait(e) \/ AgeReadBack(e)
  <2>1. /\ row'[e].status = row[e].status /\ row'[e].owner = row[e].owner
        /\ row'[e].attempts = row[e].attempts /\ row'[e].readBack = row[e].readBack
        /\ \A f \in Events \ {e} : row'[f] = row[f]
    BY <1>0, <1>2 DEF BecomeDue, AgePastMaxWait, AgeReadBack, RowType
  <2>2. UNCHANGED <<msg, copies, verdict>>
    BY <1>2 DEF BecomeDue, AgePastMaxWait, AgeReadBack
  <2> QED BY <1>r, <2>1, <2>2
<1>3. CASE Reclaim(e)
  <2>1. /\ row[e].status = "sending" /\ row'[e].status = "pending" /\ row'[e].owner = NoWorker
        /\ \A f \in Events \ {e} : row'[f] = row[f]
        /\ UNCHANGED <<msg, copies, verdict>>
    BY <1>0, <1>3 DEF Reclaim, Reapable, Release, RowType
  <2>2. Ledger(e)'
    BY <1>0, <1>w, <2>1, RelayAssumption DEF Ledger, At
  <2> QED BY <1>w, <2>1, <2>2, LedgerEvent
<1>4. CASE LatentLands(e) \/ LatentDropped(e)
  <2>1. /\ row' = row /\ msg' = msg /\ verdict' = verdict /\ (copies[e] > 0 => copies'[e] > 0)
        /\ \A f \in Events \ {e} : copies'[f] = copies[f]
    BY <1>0, <1>4 DEF LatentLands, LatentDropped, OneMore, MaxCopies
  <2> QED BY <1>r, <2>1
<1>5. CASE Echo(e)
  <2>1. /\ row' = row /\ copies' = copies /\ verdict' = verdict /\ copies[e] > 0
        /\ msg'[e].status = "sent" /\ \A f \in Events \ {e} : msg'[f] = msg[f]
    BY <1>0, <1>5 DEF Echo, Recorded
  <2>2. Ledger(e)'
    BY <1>0, <1>w, <2>1 DEF Ledger, At, MsgAgrees
  <2> QED BY <1>w, <2>1, <2>2, LedgerEvent
<1>6. CASE ReadBack(e)
  <2>1. PICK o \in ReadBackOutcomes(e) :
          /\ row' = [row EXCEPT ![e] = ReadBackResolved(@, o)]
          /\ verdict' = IF o = "landed" THEN verdict \cup {e} ELSE verdict
    BY <1>6 DEF ReadBack
  <2>2. row[e].status = "cancelled" /\ UNCHANGED <<msg, copies>>
    BY <1>6 DEF ReadBack, AwaitingReadBack
  <2>3. /\ row'[e].owner = row[e].owner /\ row'[e].attempts = row[e].attempts
        /\ row'[e].readBack = o
        /\ row'[e].status = IF o = "landed" THEN "sent" ELSE "cancelled"
        /\ \A f \in Events \ {e} : row'[f] = row[f]
    BY <1>0, <2>1, <2>2 DEF ReadBackResolved, RowType
  <2>4. \A v \in Workers : ~At(v, "recorded", e) /\ ~At(v, "settle", e) /\ row[e].owner # v
    BY <1>0, <2>2, RelayAssumption DEF Ledger, OwnedIsSending
  <2>5. e \notin verdict /\ MsgAgrees(e)
    BY <1>0, <2>2 DEF Ledger
  <2>6. e \in verdict' => o = "landed"
    BY <2>1, <2>5
  <2>7. Ledger(e)'
    BY <1>w, <2>2, <2>3, <2>4, <2>5, <2>6 DEF Ledger, At, MsgAgrees
  <2>8. \A f \in Events \ {e} : f \in verdict' => f \in verdict
    BY <2>1
  <2> QED BY <1>w, <2>2, <2>3, <2>7, <2>8, LedgerEvent
<1>7. CASE RecordReadBack(e)
  <2>1. /\ row' = row /\ copies' = copies /\ verdict' = verdict \ {e} /\ row[e].status = "sent"
        /\ msg'[e].status = "sent" /\ \A f \in Events \ {e} : msg'[f] = msg[f]
    BY <1>0, <1>7 DEF RecordReadBack, Recorded, Ledger
  <2>2. Ledger(e)'
    BY <1>0, <1>w, <2>1 DEF Ledger, At
  <2> QED BY <1>w, <2>1, <2>2, LedgerEvent
<1>8. CASE ForgetReadBack(e)
  BY <1>r, <1>8 DEF ForgetReadBack
<1> QED BY <1>1, <1>2, <1>3, <1>4, <1>5, <1>6, <1>7, <1>8 DEF EventStep

LEMMA LedgerInit == Init => \A f \in Events : Ledger(f)
<1> SUFFICES ASSUME Init, NEW f \in Events PROVE Ledger(f)
  OBVIOUS
<1>1. row[f].status = "none" /\ row[f].owner = NoWorker /\ f \notin verdict
  BY DEF Init, NoRow
<1>2. \A w \in Workers : wk[w].phase = "idle"
  BY DEF Init, IdleWorker
<1> QED BY <1>1, <1>2, RelayAssumption DEF Ledger, At

LEMMA LedgerStep == NoStatementLost /\ LedgerInv /\ [Next]_vars => LedgerInv'
<1> SUFFICES ASSUME NoStatementLost, LedgerInv, [Next]_vars PROVE \A f \in Events : Ledger(f)'
  BY DeliveryStep DEF LedgerInv
<1>0. row \in [Events -> RowType] /\ wk \in [Workers -> WorkerType]
  BY DEF LedgerInv, DeliveryInv, RefinementInv, RelayInv, TypeOK
<1>1. ASSUME \A f \in Events : /\ row'[f].status = row[f].status /\ row'[f].owner = row[f].owner
                               /\ row'[f].attempts = row[f].attempts
                               /\ row'[f].readBack = row[f].readBack,
             UNCHANGED <<msg, copies, verdict>>,
             \A w \in Workers : /\ wk'[w].ev = wk[w].ev /\ wk'[w].phase = wk[w].phase
                                /\ wk'[w].attempt = wk[w].attempt
      PROVE  \A f \in Events : Ledger(f)'
  <2>1. ASSUME NEW f \in Events PROVE LedgerRests(f) /\ Ledger(f)
    <3>1. Ledger(f)
      BY DEF LedgerInv
    <3>2. SomebodyAt("recorded", f)' = SomebodyAt("recorded", f)
      BY <1>1 DEF SomebodyAt, At
    <3>3. SomebodyAt("settle", f)' = SomebodyAt("settle", f)
      BY <1>1 DEF SomebodyAt, At
    <3>4. ASSUME NEW w \in Workers
          PROVE  /\ wk'[w].ev = f /\ row[f].owner = w => wk'[w].attempt = row[f].attempts
                 /\ At(w, "recorded", f)' => At(w, "recorded", f)
                 /\ At(w, "settle", f)' => At(w, "settle", f)
      BY <1>1, <3>1 DEF Ledger, At
    <3> QED BY <1>1, <3>1, <3>2, <3>3, <3>4 DEF LedgerRests
  <2> QED BY <2>1, LedgerKept
<1>2. CASE Tick
  <2>1. \A f \in Events : /\ row'[f].status = row[f].status /\ row'[f].owner = row[f].owner
                          /\ row'[f].attempts = row[f].attempts
                          /\ row'[f].readBack = row[f].readBack
    BY <1>0, <1>2 DEF Tick, OneTickOf, RowType
  <2>2. \A w \in Workers : /\ wk'[w].ev = wk[w].ev /\ wk'[w].phase = wk[w].phase
                           /\ wk'[w].attempt = wk[w].attempt
    BY <1>0, <1>2 DEF Tick, WorkerType
  <2>3. UNCHANGED <<msg, copies, verdict>>
    BY <1>2 DEF Tick
  <2> QED BY <1>1, <2>1, <2>2, <2>3
<1>3. CASE Reconnect \/ AtRest \/ UNCHANGED vars
  <2>1. wk' = wk /\ row' = row /\ UNCHANGED <<msg, copies, verdict>>
    BY <1>3 DEF Reconnect, AtRest, vars
  <2> QED BY <1>1, <2>1
<1> QED BY <1>2, <1>3, LedgerWorkerStep, LedgerEventStep DEF Next

\* Once a row is settled and nobody stands between the two statements, the agent's
\* message agrees with it, whatever Meta answers, whichever workers die, and however
\* often the row is reaped and read back (settleAsFailed: "the two must not diverge").
THEOREM MessagesFollowLedger ==
  ASSUME NoStatementLost PROVE Spec => []MessageFollowsLedger
<1>1. Init => LedgerInv
  BY RefinementInit, OnceInit, LedgerInit DEF DeliveryInv, LedgerInv
<1>2. LedgerInv /\ [Next]_vars => LedgerInv'
  BY LedgerStep
<1>3. LedgerInv => MessageFollowsLedger
  <2> SUFFICES ASSUME LedgerInv, NEW e \in Events, row[e].status \in SettledStatuses,
                      \A w \in Workers : wk[w].ev # e /\ wk[w].phase # "dead"
               PROVE  \/ row[e].status = "sent" /\ (msg[e].status = "sent" \/ row[e].readBack = "landed")
                      \/ row[e].status # "sent" /\ msg[e].status = "failed"
                      \/ row[e].status # "sent" /\ msg[e].status = "sent" /\ copies[e] > 0
    BY DEF MessageFollowsLedger
  <2>1. Ledger(e) /\ ~SomebodyAt("recorded", e) /\ ~SomebodyAt("settle", e)
    BY DEF LedgerInv, SomebodyAt, At
  <2> QED BY <2>1 DEF Ledger, MsgAgrees, SettledStatuses
<1> QED BY <1>1, <1>2, <1>3, PTL DEF Spec
=============================================================================
