---------------------------- MODULE RewardAwards ----------------------------
(***************************************************************************)
(* The reward engine: a customer's message is offered to the active rules,  *)
(* a rule that matches claims a slot of its frequency cap and either grants *)
(* its benefits at once or holds the award; a sweep grants held awards whose *)
(* hold has passed; points that were credited are offered to the threshold  *)
(* rules; content that is removed or hidden takes its awards back.          *)
(*                                                                          *)
(* One customer and one cap period.  Every action is one transaction or one *)
(* read between transactions; a transaction is atomic because each row it   *)
(* decides on is locked by the statement that reads it (the award by its    *)
(* insert or lockHeldAward, the counter by claimCapSlot, the wallet by      *)
(* ensureCustomerWallet).  What a worker read BEFORE its transaction is in  *)
(* its memory, and may be stale.  A rule has at most one benefit of each    *)
(* kind, applied in the order points, conversion, entitlement.              *)
(***************************************************************************)
EXTENDS Integers, Sequences, FiniteSets, FiniteSetsExt

CONSTANTS
    Events,         \* messages of the customer
    Rules,          \* rule ids, evaluated in this order
    Trigger,        \* [Rules -> {"message", "threshold"}]
    Benefits,       \* [Rules -> SUBSET BenefitKinds]
    Cap,            \* [Rules -> Nat], cap_count; 0 is cap_scope none
    Held,           \* [Rules -> BOOLEAN], hold_hours > 0
    Policy,         \* [Rules -> {"none", "on_content_deleted"}]
    Supersedes,     \* [Rules -> Rules \cup {0}], the rule an edit replaces
    InitialRules,   \* the rules active at first
    Earn,           \* points of one grant
    Burn,           \* points one conversion costs, for one unit of money
    MaxConversions, \* MAX_CONVERSIONS_PER_APPLY
    MinBalance,     \* minPointsBalance of the threshold rules
    Adjustments,    \* idempotency keys of manual adjustments
    AdjustBy,       \* [Adjustments -> Int]
    Factors,        \* what the factor provider may answer: {1}, or {0, 1}
    Workers,        \* processes that evaluate, sweep and reverse
    BatchSize,      \* GRANT_BATCH_SIZE
    NoEvent, NoAward,
    Removals,       \* bound: what may happen to content, of RemovalKinds
    Portal,         \* bound: what agents do, of {"edit", "switch"}
    Faults          \* which faults happen, of {"crash", "db"}

RemovalKinds == {"hidden", "removed"}
BenefitKinds == {"points", "convert", "entitlement"}

ASSUME RewardAssumption ==
    /\ Rules \subseteq Nat \ {0}
    /\ Trigger \in [Rules -> {"message", "threshold"}]
    /\ Benefits \in [Rules -> SUBSET BenefitKinds]
    /\ Cap \in [Rules -> Nat]
    /\ Held \in [Rules -> BOOLEAN]
    /\ Policy \in [Rules -> {"none", "on_content_deleted"}]
    /\ Supersedes \in [Rules -> Rules \cup {0}]
    /\ InitialRules \subseteq Rules
    /\ Earn \in Nat \ {0} /\ Burn \in Nat \ {0} /\ MaxConversions \in Nat \ {0}
    /\ MinBalance \in Nat
    /\ AdjustBy \in [Adjustments -> Int \ {0}]
    /\ Factors \subseteq {0, 1} /\ Factors # {}
    /\ BatchSize \in Nat \ {0}
    /\ Removals \subseteq RemovalKinds
    /\ Portal \subseteq {"edit", "switch"}
    /\ Faults \subseteq {"crash", "db"}
    /\ NoEvent \notin Events

MessageRules   == {r \in Rules : Trigger[r] = "message"}
ThresholdRules == {r \in Rules : Trigger[r] = "threshold"}

\* reward_awards_source_uniq: one award per rule and source.  The source of a
\* threshold award is the award that credited the points.
MessageAwards == MessageRules \X Events
Awards == MessageAwards \cup (ThresholdRules \X MessageAwards)

\* "award:..." and "adjust:...": the two kinds of key never coincide.
ASSUME KeysAssumption == Adjustments \cap Awards = {}

Live    == {"held", "granted"}
Settled == {"granted", "reversed", "skipped_condition", "skipped_cap", "skipped_zero_factor"}
Statuses == {"none", "held"} \cup Settled

VARIABLES
    active,  \* rules with is_active
    awards,  \* [Awards -> reward_awards row]
    used,    \* [Rules -> reward_cap_counters.used] of the period
    cap,     \* [Rules -> reward_cap_counters.cap], 0 while there is no row
    value,   \* what the customer holds, and the ledger behind it
    due,     \* held awards whose hold has passed, by held_until
    gone,    \* external: [Events -> what happened to the content]
    wk       \* [Workers -> what the process holds in memory]

vars == <<active, awards, used, cap, value, due, gone, wk>>
counters == <<used, cap>>

\* A ledger entry: the idempotency key is its source and leg.
PointsLegs == {"earn", "out", "adjust", "earn_back", "out_back"}
MoneyLegs  == {"in", "in_back"}
Entry == [of: Awards \cup Adjustments, leg: PointsLegs \cup MoneyLegs, amount: Int]

RightStatuses == {"none", "issued", "revoked", "expired"}
ValueType == [points: Int, money: Int, entries: SUBSET Entry,
              rights: [Awards -> RightStatuses]]

AwardType == [status: Statuses, period: BOOLEAN]

\* An award as reverseForDeletedContent read it.
Snapshot == [award: Awards, status: Statuses, period: BOOLEAN]

WorkerType == [job: {"idle", "evaluate", "sweep", "reverse", "dead"},
               event: Events \cup {NoEvent}, todo: SUBSET Rules,
               list: Seq(Awards), seen: SUBSET Snapshot,
               credited: Awards \cup {NoAward}, offers: SUBSET ThresholdRules]

TypeOK ==
    /\ active \in SUBSET Rules
    /\ awards \in [Awards -> AwardType]
    /\ used \in [Rules -> Nat]
    /\ cap \in [Rules -> Nat]
    /\ value \in ValueType
    /\ due \in Seq(Awards)
    /\ gone \in [Events -> SUBSET RemovalKinds]
    /\ wk \in [Workers -> WorkerType]

Idle == [job |-> "idle", event |-> NoEvent, todo |-> {}, list |-> <<>>, seen |-> {},
         credited |-> NoAward, offers |-> {}]

Init ==
    /\ active = InitialRules
    /\ awards = [a \in Awards |-> [status |-> "none", period |-> FALSE]]
    /\ used = [r \in Rules |-> 0]
    /\ cap = [r \in Rules |-> 0]
    /\ value = [points |-> 0, money |-> 0, entries |-> {},
                rights |-> [a \in Awards |-> "none"]]
    /\ due = <<>>
    /\ gone = [e \in Events |-> {}]
    /\ wk = [w \in Workers |-> Idle]

-----------------------------------------------------------------------------
(* The wallet (RewardWalletRepository).                                     *)

HasEntry(v, of, leg) == \E e \in v.entries : e.of = of /\ e.leg = leg

Moved(v, of, leg, amount) ==
    [v EXCEPT !.points = IF leg \in PointsLegs THEN @ + amount ELSE @,
              !.money  = IF leg \in MoneyLegs THEN @ + amount ELSE @]

\* Mutant of Post: the balance moves first, the entry is claimed afterwards.
PostBalanceFirst(v, of, leg, amount) ==
    IF HasEntry(v, of, leg) THEN Moved(v, of, leg, amount)
    ELSE [Moved(v, of, leg, amount) EXCEPT
             !.entries = @ \cup {[of |-> of, leg |-> leg, amount |-> amount]}]

\* One statement: the balance and its entry move together, once per key.
Post(v, of, leg, amount) ==
    IF HasEntry(v, of, leg) THEN v
    ELSE [Moved(v, of, leg, amount) EXCEPT
             !.entries = @ \cup {[of |-> of, leg |-> leg, amount |-> amount]}]

-----------------------------------------------------------------------------
(* Benefits (BenefitDispatcher and its handlers).                           *)

EarnPoints(v, a) ==
    IF "points" \in Benefits[a[1]] THEN Post(v, a, "earn", Earn) ELSE v

\* How many conversions the balance affords.
Times(v) == LET n == v.points \div Burn IN IF n > MaxConversions THEN MaxConversions ELSE n

\* InsufficientPointsError aborts the transaction otherwise.
Affordable(v, a) == "convert" \in Benefits[a[1]] => Times(v) >= 1

\* Mutant of Convert: converts once more than the balance affords.
ConvertOneMore(v, a) ==
    IF "convert" \in Benefits[a[1]]
    THEN Post(Post(v, a, "out", -((Times(v) + 1) * Burn)), a, "in", Times(v) + 1)
    ELSE v

Convert(v, a) ==
    IF "convert" \in Benefits[a[1]]
    THEN Post(Post(v, a, "out", -(Times(v) * Burn)), a, "in", Times(v))
    ELSE v

IssueRight(v, a) ==
    IF "entitlement" \in Benefits[a[1]] THEN [v EXCEPT !.rights[a] = "issued"] ELSE v

Applied(v, a) == IssueRight(Convert(EarnPoints(v, a), a), a)

\* An up_to benefit whose factor is zero is worth nothing.
Worthless(a, factor) == factor = 0 /\ "points" \in Benefits[a[1]]

\* compensateAward posts the opposite of exactly what was recorded, leg by leg,
\* and takes the right back if it is still unused.
Undo(leg) == CASE leg = "earn" -> "earn_back" [] leg = "out" -> "out_back"
               [] leg = "in" -> "in_back"

Undone(v, a, leg) ==
    LET recorded == {e \in v.entries : e.of = a /\ e.leg = leg} IN
    IF recorded = {} THEN v
    ELSE Post(v, a, Undo(leg), -(CHOOSE e \in recorded : TRUE).amount)

\* Newest benefit first, and of a conversion the money before the points.
Compensated(v, a) ==
    LET back == Undone(Undone(Undone(v, a, "in"), a, "out"), a, "earn") IN
    [back EXCEPT !.rights[a] = IF @ = "issued" THEN "revoked" ELSE @]

-----------------------------------------------------------------------------
(* The frequency cap (claimCapSlot, releaseCapSlot).                        *)

Capped(r) == Cap[r] > 0

SlotFree(r) == cap[r] = 0 \/ used[r] < cap[r]

\* The cap is copied onto the counter by the first claim.
ClaimSlot(r) ==
    IF Capped(r)
    THEN /\ used' = [used EXCEPT ![r] = @ + 1]
         /\ cap' = [cap EXCEPT ![r] = IF @ = 0 THEN Cap[r] ELSE @]
    ELSE UNCHANGED counters

ReleaseSlot(r) ==
    /\ used' = [used EXCEPT ![r] = IF @ = 0 THEN 0 ELSE @ - 1]
    /\ UNCHANGED cap

Mark(a, status, period) ==
    awards' = [awards EXCEPT ![a] = [status |-> status, period |-> @.period \/ period]]

-----------------------------------------------------------------------------
(* Evaluation (RuleEvaluatorService).                                       *)

Busy(w, job) == wk[w].job = job /\ wk[w].credited = NoAward /\ wk[w].offers = {}

\* onTriggerEvent: the candidate rules are read once.  The transport may offer
\* an event again (a webhook and a backfill describe the same message).
OnTriggerEvent(w, e) ==
    LET candidates == active \cap MessageRules IN
    /\ wk[w].job = "idle"
    /\ candidates # {}
    /\ wk' = [wk EXCEPT ![w] = [Idle EXCEPT !.job = "evaluate", !.event = e,
                                            !.todo = candidates]]
    /\ UNCHANGED <<active, awards, counters, value, due, gone>>

\* evaluateRule, one transaction; creditsPoints tells the caller to offer the
\* new balance.  An award that exists already is left alone.
Duplicate(a) ==
    awards[a].status # "none" /\ UNCHANGED <<awards, counters, value>>

SkipCondition(a) ==
    /\ awards[a].status = "none"
    /\ Mark(a, "skipped_condition", FALSE)
    /\ UNCHANGED <<counters, value>>

SkipCap(a) ==
    /\ awards[a].status = "none"
    /\ Capped(a[1]) /\ ~SlotFree(a[1])
    /\ Mark(a, "skipped_cap", TRUE)
    /\ UNCHANGED <<counters, value>>

\* A held award stops here with its slot claimed; period_key stays NULL.
Hold(a) ==
    /\ awards[a].status = "none"
    /\ Capped(a[1]) => SlotFree(a[1])
    /\ Held[a[1]]
    /\ ClaimSlot(a[1])
    /\ Mark(a, "held", FALSE)
    /\ UNCHANGED value

\* Mutant of SkipZeroFactor: the slot stays claimed.
SkipZeroKeepsSlot(a) ==
    /\ awards[a].status = "none"
    /\ Capped(a[1]) => SlotFree(a[1])
    /\ ~Held[a[1]]
    /\ \E factor \in Factors : Worthless(a, factor)
    /\ Mark(a, "skipped_zero_factor", Capped(a[1]))
    /\ ClaimSlot(a[1])
    /\ UNCHANGED value

\* The slot is claimed and handed back in the same transaction.
SkipZeroFactor(a) ==
    /\ awards[a].status = "none"
    /\ Capped(a[1]) => SlotFree(a[1])
    /\ ~Held[a[1]]
    /\ \E factor \in Factors : Worthless(a, factor)
    /\ Mark(a, "skipped_zero_factor", Capped(a[1]))
    /\ cap' = IF Capped(a[1]) /\ cap[a[1]] = 0 THEN [cap EXCEPT ![a[1]] = Cap[a[1]]] ELSE cap
    /\ UNCHANGED <<used, value>>

GrantNow(a) ==
    /\ awards[a].status = "none"
    /\ Capped(a[1]) => SlotFree(a[1])
    /\ ~Held[a[1]]
    /\ \E factor \in Factors : ~Worthless(a, factor)
    /\ Affordable(EarnPoints(value, a), a)
    /\ ClaimSlot(a[1])
    /\ Mark(a, "granted", Capped(a[1]))
    /\ value' = Applied(value, a)

\* InsufficientPointsError: the whole transaction rolls back, the award row
\* included, and the rule is passed over.
Unaffordable(a) ==
    /\ awards[a].status = "none"
    /\ Capped(a[1]) => SlotFree(a[1])
    /\ ~Held[a[1]]
    /\ \E factor \in Factors : ~Worthless(a, factor)
    /\ ~Affordable(EarnPoints(value, a), a)
    /\ UNCHANGED <<awards, counters, value>>

NothingCredited(a) ==
    \/ Duplicate(a) \/ SkipCondition(a) \/ SkipCap(a) \/ Hold(a)
    \/ SkipZeroFactor(a) \/ Unaffordable(a)

CreditsPoints(a) == "points" \in Benefits[a[1]]

\* The evaluation loop takes the next rule, or ends.
NextRule(w, credited) ==
    LET left == wk[w].todo \ {Min(wk[w].todo)} IN
    wk' = [wk EXCEPT ![w] =
             IF left = {} /\ credited = NoAward THEN Idle
             ELSE [@ EXCEPT !.todo = left, !.credited = credited]]

EvaluateRule(w) ==
    LET a == <<Min(wk[w].todo), wk[w].event>> IN
    /\ Busy(w, "evaluate")
    /\ wk[w].todo # {}
    /\ \/ NothingCredited(a) /\ NextRule(w, NoAward)
       \/ GrantNow(a) /\ NextRule(w, IF CreditsPoints(a) THEN a ELSE NoAward)
    /\ UNCHANGED <<active, due, gone>>

-----------------------------------------------------------------------------
(* Thresholds (offerBalanceThresholds), after the crediting transaction.    *)

\* What the worker goes back to once its offers are made.
Resume(rec) ==
    IF rec.offers = {} /\ rec.credited = NoAward /\ rec.todo = {} /\ rec.list = <<>>
    THEN Idle ELSE rec

\* The balance is read here and the rules are evaluated later.
OfferBalanceThresholds(w) ==
    /\ wk[w].credited # NoAward
    /\ wk[w].offers = {}
    /\ LET matching == IF value.points > 0 /\ value.points >= MinBalance
                       THEN active \cap ThresholdRules ELSE {} IN
       wk' = [wk EXCEPT ![w] =
                IF matching = {} THEN Resume([@ EXCEPT !.credited = NoAward])
                ELSE [@ EXCEPT !.offers = matching]]
    /\ UNCHANGED <<active, awards, counters, value, due, gone>>

NextOffer(w) ==
    LET left == wk[w].offers \ {Min(wk[w].offers)} IN
    wk' = [wk EXCEPT ![w] =
             IF left = {} THEN Resume([@ EXCEPT !.offers = {}, !.credited = NoAward])
             ELSE [@ EXCEPT !.offers = left]]

\* A threshold rule never offers a balance itself.
EvaluateThreshold(w) ==
    LET a == <<Min(wk[w].offers), wk[w].credited>> IN
    /\ wk[w].offers # {}
    /\ NothingCredited(a) \/ GrantNow(a)
    /\ NextOffer(w)
    /\ UNCHANGED <<active, due, gone>>

-----------------------------------------------------------------------------
(* The sweep (RewardGrantService.grantDueAwards).                           *)

\* held_until passes.
HoldElapses(a) ==
    /\ awards[a].status = "held"
    /\ \A j \in 1 .. Len(due) : due[j] # a
    /\ due' = Append(due, a)
    /\ UNCHANGED <<active, awards, counters, value, gone, wk>>

\* claimDueHeldAwards takes no lock: it lists the oldest BatchSize.
DueHeld ==
    LET held[n \in 0 .. Len(due)] ==
            IF n = 0 THEN <<>>
            ELSE IF awards[due[n]].status = "held" THEN Append(held[n - 1], due[n])
            ELSE held[n - 1]
    IN held[Len(due)]

Sweep(w) ==
    /\ wk[w].job = "idle"
    /\ DueHeld # <<>>
    /\ wk' = [wk EXCEPT ![w] = [Idle EXCEPT !.job = "sweep",
                !.list = SubSeq(DueHeld, 1, IF Len(DueHeld) < BatchSize
                                            THEN Len(DueHeld) ELSE BatchSize)]]
    /\ UNCHANGED <<active, awards, counters, value, due, gone>>

NextListed(w, credited) ==
    LET rec == [wk[w] EXCEPT !.list = Tail(@), !.credited = credited] IN
    wk' = [wk EXCEPT ![w] = Resume(rec)]

\* Mutant of lockHeldAward: the lock without the status check.
LockWithoutCheck(a) == awards[a].status # "none"

\* Nothing when another worker has it, or had it.
lockHeldAward(a) == awards[a].status = "held"

\* Mutant of GrantHeldZero: a zero factor leaves the award for the next tick.
ZeroStaysHeld(a) ==
    /\ \E factor \in Factors : Worthless(a, factor)
    /\ UNCHANGED <<awards, counters, value>>

\* The period key handed to grant is the one on the row.
GrantHeldZero(a) ==
    /\ \E factor \in Factors : Worthless(a, factor)
    /\ IF awards[a].period THEN ReleaseSlot(a[1]) ELSE UNCHANGED counters
    /\ Mark(a, "skipped_zero_factor", FALSE)
    /\ UNCHANGED value

GrantHeldFull(a) ==
    /\ \E factor \in Factors : ~Worthless(a, factor)
    /\ Affordable(EarnPoints(value, a), a)
    /\ Mark(a, "granted", FALSE)
    /\ value' = Applied(value, a)
    /\ UNCHANGED counters

\* A throw leaves the award held for the next tick.
HeldUnaffordable(a) ==
    /\ ~Affordable(EarnPoints(value, a), a)
    /\ UNCHANGED <<awards, counters, value>>

GrantHeld(w) ==
    LET a == Head(wk[w].list) IN
    /\ Busy(w, "sweep")
    /\ wk[w].list # <<>>
    /\ \/ /\ ~lockHeldAward(a)
          /\ UNCHANGED <<awards, counters, value>>
          /\ NextListed(w, NoAward)
       \/ /\ lockHeldAward(a)
          /\ GrantHeldZero(a) \/ HeldUnaffordable(a)
          /\ NextListed(w, NoAward)
       \/ /\ lockHeldAward(a)
          /\ GrantHeldFull(a)
          /\ NextListed(w, IF CreditsPoints(a) /\ a \in MessageAwards THEN a ELSE NoAward)
    /\ UNCHANGED <<active, due, gone>>

-----------------------------------------------------------------------------
(* Reversal (RewardGrantService.reverseForDeletedContent).                  *)

\* findBySource, outside any transaction.
ContentGone(w, e, how) ==
    LET found == {[award |-> a, status |-> awards[a].status, period |-> awards[a].period] :
                    a \in {x \in MessageAwards : x[2] = e /\ awards[x].status # "none"}} IN
    /\ wk[w].job = "idle"
    /\ how \notin gone[e]
    /\ gone' = [gone EXCEPT ![e] = @ \cup {how}]
    /\ wk' = [wk EXCEPT ![w] = IF found = {} THEN Idle
                               ELSE [Idle EXCEPT !.job = "reverse", !.seen = found]]
    /\ UNCHANGED <<active, awards, counters, value, due>>

NextSeen(w, s) ==
    LET left == wk[w].seen \ {s} IN
    wk' = [wk EXCEPT ![w] = IF left = {} THEN Idle ELSE [@ EXCEPT !.seen = left]]

Reversible(s) == s.status \in Live /\ Policy[s.award[1]] = "on_content_deleted"

\* Mutant of Reverse: the value is taken back and the award not marked.
ReverseUnmarked(w, s) ==
    /\ wk[w].job = "reverse"
    /\ s \in wk[w].seen
    /\ Reversible(s)
    /\ value' = IF s.status = "granted" THEN Compensated(value, s.award) ELSE value
    /\ IF s.period THEN ReleaseSlot(s.award[1]) ELSE UNCHANGED counters
    /\ NextSeen(w, s)
    /\ UNCHANGED <<active, awards, due, gone>>

\* One transaction, decided on what was read before it began: only an award
\* that was granted then is compensated, and the row is marked whatever it is
\* now.
Reverse(w, s) ==
    /\ wk[w].job = "reverse"
    /\ s \in wk[w].seen
    /\ Reversible(s)
    /\ value' = IF s.status = "granted" THEN Compensated(value, s.award) ELSE value
    /\ IF s.period THEN ReleaseSlot(s.award[1]) ELSE UNCHANGED counters
    /\ Mark(s.award, "reversed", FALSE)
    /\ NextSeen(w, s)
    /\ UNCHANGED <<active, due, gone>>

LeaveAlone(w, s) ==
    /\ wk[w].job = "reverse"
    /\ s \in wk[w].seen
    /\ ~Reversible(s)
    /\ NextSeen(w, s)
    /\ UNCHANGED <<active, awards, counters, value, due, gone>>

-----------------------------------------------------------------------------
(* Everything else.                                                         *)

\* RewardsService.adjustBalance, once or again: the caller's key.
AdjustBalance(n) ==
    /\ value' = Post(value, n, "adjust", AdjustBy[n])
    /\ UNCHANGED <<active, awards, counters, due, gone, wk>>

\* RewardsService.updateProgram: every active rule is retired and its next
\* version written beside it.
UpdateProgram ==
    LET successors == {r \in Rules : Supersedes[r] \in active} IN
    /\ "edit" \in Portal
    /\ successors # {}
    /\ active' = successors
    /\ UNCHANGED <<awards, counters, value, due, gone, wk>>

SetRuleActive(r, on) ==
    /\ "switch" \in Portal
    /\ (r \in active) # on
    /\ active' = IF on THEN active \cup {r} ELSE active \ {r}
    /\ UNCHANGED <<awards, counters, value, due, gone, wk>>

\* SweeperWorker.expireEntitlements
ExpireLapsed(a) ==
    /\ value.rights[a] = "issued"
    /\ value' = [value EXCEPT !.rights[a] = "expired"]
    /\ UNCHANGED <<active, awards, counters, due, gone, wk>>

\* A statement throws: the transaction rolls back, the loop logs and goes on.
TransactionFails(w) ==
    /\ "db" \in Faults
    /\ \/ Busy(w, "evaluate") /\ wk[w].todo # {} /\ NextRule(w, NoAward)
       \/ wk[w].offers # {} /\ NextOffer(w)
       \/ Busy(w, "sweep") /\ wk[w].list # <<>> /\ NextListed(w, NoAward)
       \/ wk[w].job = "reverse" /\ \E s \in wk[w].seen : NextSeen(w, s)
    /\ UNCHANGED <<active, awards, counters, value, due, gone>>

\* A dead process is replaced under a new identity, so one is always running.
Crash(w) ==
    /\ "crash" \in Faults
    /\ wk[w].job # "dead"
    /\ \E v \in Workers \ {w} : wk[v].job # "dead"
    /\ wk' = [wk EXCEPT ![w] = [Idle EXCEPT !.job = "dead"]]
    /\ UNCHANGED <<active, awards, counters, value, due, gone>>

Step(w) ==
    \/ EvaluateRule(w) \/ OfferBalanceThresholds(w) \/ EvaluateThreshold(w)
    \/ GrantHeld(w)
    \/ \E s \in wk[w].seen : Reverse(w, s) \/ LeaveAlone(w, s)

Next ==
    \/ \E w \in Workers : Step(w) \/ Sweep(w) \/ TransactionFails(w) \/ Crash(w)
    \/ \E w \in Workers, e \in Events : OnTriggerEvent(w, e)
    \/ \E w \in Workers, e \in Events, how \in Removals : ContentGone(w, e, how)
    \/ \E a \in Awards : HoldElapses(a) \/ ExpireLapsed(a)
    \/ \E n \in Adjustments : AdjustBalance(n)
    \/ UpdateProgram
    \/ \E r \in Rules, on \in BOOLEAN : SetRuleActive(r, on)

Spec == Init /\ [][Next]_vars

-----------------------------------------------------------------------------
(* Safety.                                                                  *)

\* What the entries of these legs come to.
Total(entries, legs) ==
    MapThenSumSet(LAMBDA e : e.amount, {e \in entries : e.leg \in legs})

\* The balance of each wallet is the sum of its ledger entries, although
\* adjustments are sent twice and reversals are replayed ("divergence is a
\* sev-1", RewardWalletRepository.post).
BalanceIsLedgerSum ==
    /\ value.points = Total(value.entries, PointsLegs)
    /\ value.money = Total(value.entries, MoneyLegs)

\* The ledger entries a grant of rule r leaves behind.
Promised(r) ==
    (IF "points" \in Benefits[r] THEN {"earn"} ELSE {})
    \cup (IF "convert" \in Benefits[r] THEN {"out", "in"} ELSE {})

LegsOf(a) == {e.leg : e \in {x \in value.entries : x.of = a}}

\* All of an award's benefits or none: a granted award has every entry it
\* promises, once, and none of them is taken back; an award that was not
\* granted has moved nothing
\* (BenefitDispatcher.apply, compensateAward).
GrantIsWhole ==
    \A a \in Awards :
        /\ awards[a].status = "granted" =>
              /\ LegsOf(a) = Promised(a[1])
              /\ "entitlement" \in Benefits[a[1]] => value.rights[a] \in {"issued", "expired"}
        /\ awards[a].status \notin {"granted", "reversed"} =>
              LegsOf(a) = {} /\ value.rights[a] = "none"

\* No more live awards of a rule in the period than its cap, whichever workers
\* evaluate, hold and grant at once (claimCapSlot).
CapRespected ==
    \A r \in Rules :
        Capped(r) => Cardinality({a \in Awards : a[1] = r /\ awards[a].status \in Live}) <= Cap[r]

\* A slot is taken by exactly the awards that are live: one that grants nothing
\* gives its slot back (releaseCapSlot).  A rule that holds or reverses is the
\* exception, since the release finds its counter only by the award's period
\* key, and gives a slot back whether or not the award still has it.
SlotsMatchAwards ==
    \A r \in Rules :
        Capped(r) /\ ~Held[r] /\ Policy[r] = "none" =>
            used[r] = Cardinality({a \in Awards : a[1] = r /\ awards[a].status \in Live})

\* What the counters promise an enterprise that caps a rule: the cap holds while
\* workers evaluate, hold and grant at once, and no slot leaks
\* (claimCapSlot, releaseCapSlot).
CapsAreExact == TypeOK /\ CapRespected /\ SlotsMatchAwards

\* A decided award is never decided again; the only way on is from granted to
\* reversed (lockHeldAward, createIfAbsent).
SettledAwardIsFinal ==
    [][\A a \in Awards : awards[a].status \in Settled =>
          \/ awards'[a] = awards[a]
          \/ awards[a].status = "granted" /\ awards'[a].status = "reversed"]_vars

\* Rule evaluation never drives the points below zero; only a reversal or an
\* adjustment does (debitIfSufficient).
RuleNeverOverdraws ==
    [][value'.points < 0 /\ value'.points < value.points =>
          \E e \in value'.entries \ value.entries : e.leg \in {"earn_back", "adjust"}]_vars

-----------------------------------------------------------------------------
(* Liveness.                                                                *)

\* The cron fires on every process, awaited calls return, holds pass.  The cron
\* is a timer of its own, which messages that keep arriving do not shut out:
\* a worker that is idle again and again sweeps again and again.  Nothing is
\* assumed of customers, agents, or the process that dies.
Fairness ==
    /\ \A w \in Workers : WF_vars(Step(w)) /\ SF_vars(Sweep(w))
    /\ \A a \in Awards : WF_vars(HoldElapses(a))

FairSpec == Spec /\ Fairness

\* A held award that can be paid is granted, or reversed, in the end, whatever
\* fails beside it ("One failing must not hold up the rest").
HeldAwardsSettle ==
    \A a \in Awards :
        awards[a].status = "held" /\ "convert" \notin Benefits[a[1]]
            ~> awards[a].status # "held"

=============================================================================
