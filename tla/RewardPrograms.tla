--------------------------- MODULE RewardPrograms ---------------------------
(***************************************************************************)
(* The administration of one reward programme: RewardsService over         *)
(* reward_programs, reward_rules and entity_versions, and the settings of  *)
(* the business that its rules lean on.                                    *)
(*                                                                         *)
(* An edit is a transaction of several statements behind the row lock of   *)
(* the programme; other edits, a status change, a rule added by hand and a *)
(* rule switched by hand come in between.  Isolation is READ COMMITTED, so *)
(* each statement sees what had committed when it began; a row another     *)
(* transaction wrote makes the next writer wait.                           *)
(***************************************************************************)
EXTENDS Naturals, Sequences, FiniteSetsExt

CONSTANTS
    Editors,         \* requests that may edit at the same time
    SocialTriggers,  \* triggers raised by what a customer does
    SystemTriggers,  \* SYSTEM_TRIGGERS: the points balance
    ScheduleDays,    \* days a schedule may name
    FormTerms,       \* the terms people fill in: [capped, benefit, matched, schedule]
    MaxRules,        \* bound: rule rows
    MaxProgramEdits, \* bound: versions of the programme
    MaxAsides        \* bound: changes of one rule or of the settings

Triggers == SocialTriggers \cup SystemTriggers

Benefits == {"points", "currency", "convert"}

\* A slot of a day: half of it, or 00:00 to 23:59, which is all of it.
Slots == {"am", "pm", "all"}
Schedules == UNION {[days -> SUBSET Slots] : days \in SUBSET ScheduleDays}

ASSUME ProgramsAssumption ==
    /\ SocialTriggers \cap SystemTriggers = {} /\ 0 \notin ScheduleDays
    /\ IsFiniteSet(SocialTriggers) /\ IsFiniteSet(SystemTriggers)
    /\ FormTerms \subseteq [capped : BOOLEAN, benefit : Benefits, matched : BOOLEAN, schedule : Schedules]
    /\ MaxRules \in Nat /\ MaxProgramEdits \in Nat /\ MaxAsides \in Nat

VARIABLES
    programme, \* the row in reward_programs
    ruleRows,  \* reward_rules of the programme, by id
    versions,  \* entity_versions of the programme, oldest first
    business,  \* enterprises.timezone and currency_code: is each set?
    asides,    \* changes of one rule or of the settings so far
    rowLock,   \* how the row of the programme is locked, and by whom
    editing    \* each request of an edit

programVars == <<programme, ruleRows, versions, business, asides, rowLock, editing>>

\* A condition of another kind than the time window, which names a day.
ContentMatch == <<0, "match">>

NoEdit == [stage |-> "none"]
Unlocked == [by |-> "nobody", how |-> "none"]

ProgramRow == [status : {"draft", "active", "paused", "archived"}, details : Nat, version : Nat]
RuleRow == [trigger : Triggers, version : Nat, supersedes : Nat, active : BOOLEAN,
            capped : BOOLEAN, benefit : Benefits, conditions : SUBSET ({ContentMatch} \cup (ScheduleDays \X Slots)),
            made : {"form", "hand"}, switched : BOOLEAN]

-----------------------------------------------------------------------------
(* The schedule a person fills in and the condition the engine reads.      *)

\* A ticked day with no slots means all of it; no days means no condition.
programConditions(terms) ==
    (IF terms.matched THEN {ContentMatch} ELSE {}) \cup
    UNION {{<<day, slot>> : slot \in IF terms.schedule[day] = {} THEN {"all"} ELSE terms.schedule[day]} :
              day \in DOMAIN terms.schedule}

TimeWindow(conditions) == conditions \ {ContentMatch}

\* And back: a whole-day slot is the absence of a slot.
conditionsToSchedule(conditions) ==
    [day \in {w[1] : w \in TimeWindow(conditions)} |->
        {w[2] : w \in {x \in TimeWindow(conditions) : x[1] = day /\ x[2] # "all"}}]

\* The hours of the week in which a rule with these conditions pays.
Hours(conditions) ==
    IF TimeWindow(conditions) = {} THEN ScheduleDays \X {"am", "pm"}
    ELSE UNION {{w[1]} \X (IF w[2] = "all" THEN {"am", "pm"} ELSE {w[2]}) : w \in TimeWindow(conditions)}

\* To convert points into money takes the trigger of the balance.
benefitSuitsTriggers(benefit, triggers) == benefit = "convert" => triggers \cap SystemTriggers # {}

\* The refinements of CreateRewardProgramSchema: a trigger of the system
\* stands alone, and no triggers means no benefits.
FormAccepted(triggers, terms) ==
    /\ triggers \cap SystemTriggers # {} => Cardinality(triggers) = 1
    /\ triggers # {} => benefitSuitsTriggers(terms.benefit, triggers)

assertCalendarRulesHaveATimezone(capped, conditions, settings) ==
    settings.timezone \/ ~(capped \/ TimeWindow(conditions) # {})
assertMoneyHasACurrency(benefit, settings) == settings.currency \/ benefit = "points"

assertProgramCanRun(terms, settings) ==
    /\ assertMoneyHasACurrency(terms.benefit, settings)
    /\ assertCalendarRulesHaveATimezone(terms.capped, programConditions(terms), settings)

-----------------------------------------------------------------------------
(* Rows.                                                                   *)

ActiveIn(rows) == {r \in DOMAIN rows : rows[r].active}

insertRule(trigger, version, supersedes, terms, made) ==
    [trigger |-> trigger, version |-> version, supersedes |-> supersedes, active |-> TRUE,
     capped |-> terms.capped, benefit |-> terms.benefit, conditions |-> programConditions(terms),
     made |-> made, switched |-> FALSE]

\* One rule per trigger of the form, next in the lineage of what was retired.
RulesOfForm(triggers, terms, retired, rows) ==
    LET Prior(t) == {r \in retired : rows[r].trigger = t}
        Newest(t) == CHOOSE r \in Prior(t) : \A o \in Prior(t) : rows[r].version >= rows[o].version
    IN  {IF Prior(t) = {} THEN insertRule(t, 1, 0, terms, "form")
         ELSE insertRule(t, rows[Newest(t)].version + 1, Newest(t), terms, "form") : t \in triggers}

\* The inserts follow the order of the list, which is the person's.
Sequences(S) == {s \in [1 .. Cardinality(S) -> S] : \A i, j \in DOMAIN s : s[i] = s[j] => i = j}

createRuleWithin(rows, new) == rows \o new

\* EntityVersionService.record appends the next version, and the programme
\* carries its number.  Only the form states the triggers.
snapshotOf(row, stated) == [status |-> row.status, details |-> row.details, stated |-> stated]
append(log, snapshot) == log \o <<snapshot>>
record(snapshot) == versions' = append(versions, snapshot)

recordProgramVersion(row, stated) ==
    /\ record(snapshotOf(row, stated))
    /\ programme' = [row EXCEPT !.version = Len(versions) + 1]

Stated(triggers) == [triggers |-> triggers]
NotStated == [triggers |-> {}]

-----------------------------------------------------------------------------
ProgramsInit ==
    /\ business \in [timezone : BOOLEAN, currency : BOOLEAN]
    /\ \E triggers \in SUBSET Triggers, terms \in FormTerms :
          /\ FormAccepted(triggers, terms)
          /\ triggers # {} => assertProgramCanRun(terms, business)
          /\ \E new \in Sequences(RulesOfForm(triggers, terms, {}, << >>)) : ruleRows = new
          /\ versions = <<snapshotOf([status |-> "draft", details |-> 1], Stated(triggers))>>
    /\ programme = [status |-> "draft", details |-> 1, version |-> 1]
    /\ asides = 0
    /\ rowLock = Unlocked
    /\ editing = [e \in Editors |-> NoEdit]

\* The row is free, or held by a lock that lets a child row be inserted.
InsertMayPass == rowLock.how # "for update"
RowIsFree == rowLock = Unlocked

\* PUT /programs/:refId up to the transaction: what the form needs of the
\* business is checked on a read outside it.
SaveForm(e, triggers, terms) ==
    /\ editing[e] = NoEdit
    /\ Len(versions) < MaxProgramEdits
    /\ FormAccepted(triggers, terms)
    /\ triggers # {} => assertProgramCanRun(terms, business)
    /\ editing' = [editing EXCEPT ![e] = [stage |-> "checked", triggers |-> triggers, terms |-> terms]]
    /\ UNCHANGED <<programme, ruleRows, versions, business, asides, rowLock>>

lockForUpdate_NotTaken(e) == UNCHANGED rowLock

\* SELECT ... FOR UPDATE waits for the row.
lockForUpdate(e) ==
    /\ RowIsFree
    /\ rowLock' = [by |-> e, how |-> "for update"]

EnterEdit(e) ==
    /\ editing[e].stage = "checked"
    /\ lockForUpdate(e)
    /\ editing' = [editing EXCEPT ![e].stage = "locked"]
    /\ UNCHANGED <<programme, ruleRows, versions, business, asides>>

\* updateDetails refuses an archived programme in its WHERE clause, and the
\* transaction is rolled back.  The update locks the row too, though not
\* against an insert that refers to it.
updateDetails(e) == programme.status # "archived"

RefuseEdit(e) ==
    /\ editing[e].stage = "locked"
    /\ RowIsFree \/ rowLock.by = e
    /\ ~updateDetails(e)
    /\ rowLock' = Unlocked
    /\ editing' = [editing EXCEPT ![e] = NoEdit]
    /\ UNCHANGED <<programme, ruleRows, versions, business, asides>>

\* deactivateProgramRules: the rules that are active when it begins.
deactivateProgramRules(rows) == ActiveIn(rows)

RetireRules(e) ==
    /\ editing[e].stage = "locked"
    /\ RowIsFree \/ rowLock.by = e
    /\ updateDetails(e)
    /\ rowLock' = IF rowLock.by = e THEN rowLock ELSE [by |-> e, how |-> "for no key update"]
    /\ editing' = [editing EXCEPT ![e] = [stage |-> "retired", triggers |-> editing[e].triggers,
                                          terms |-> editing[e].terms,
                                          retired |-> deactivateProgramRules(ruleRows)]]
    /\ UNCHANGED <<programme, ruleRows, versions, business, asides>>

\* Rows an open transaction has switched off stay locked until it ends.
LockedRules == UNION {editing[e].retired : e \in {x \in Editors : editing[x].stage = "retired"}}

\* The new rules, the audit row, the version: then the commit.
updateProgram(e) ==
    /\ editing[e].stage = "retired"
    /\ Len(ruleRows) + Cardinality(editing[e].triggers) <= MaxRules
    /\ \E new \in Sequences(RulesOfForm(editing[e].triggers, editing[e].terms, editing[e].retired, ruleRows)) :
          ruleRows' = createRuleWithin(
                         [r \in DOMAIN ruleRows |->
                             [ruleRows[r] EXCEPT !.active = @ /\ r \notin editing[e].retired]], new)
    /\ recordProgramVersion([programme EXCEPT !.details = Len(versions) + 1], Stated(editing[e].triggers))
    /\ rowLock' = Unlocked
    /\ editing' = [editing EXCEPT ![e] = NoEdit]
    /\ UNCHANGED <<business, asides>>

\* The connection is lost: everything is rolled back.
AbandonEdit(e) ==
    /\ editing[e].stage # "none"
    /\ editing' = [editing EXCEPT ![e] = NoEdit]
    /\ rowLock' = IF rowLock.by = e THEN Unlocked ELSE rowLock
    /\ UNCHANGED <<programme, ruleRows, versions, business, asides>>

Aside ==
    /\ asides < MaxAsides
    /\ asides' = asides + 1

WriteProgramStatus(row, status) == row.status # "archived"

setProgramStatus(status) ==
    /\ RowIsFree
    /\ Len(versions) < MaxProgramEdits
    /\ WriteProgramStatus(programme, status)
    /\ recordProgramVersion([programme EXCEPT !.status = status], NotStated)
    /\ UNCHANGED <<ruleRows, business, asides, rowLock, editing>>

\* POST /rewards/rules: the insert refers to the programme's row, so it waits
\* for a FOR UPDATE on it.  Whether the programme is archived is not asked.
createRule(trigger, terms) ==
    /\ InsertMayPass
    /\ Aside
    /\ Len(ruleRows) < MaxRules
    /\ benefitSuitsTriggers(terms.benefit, {trigger})
    /\ assertMoneyHasACurrency(terms.benefit, business)
    /\ assertCalendarRulesHaveATimezone(terms.capped, programConditions(terms), business)
    /\ ruleRows' = createRuleWithin(ruleRows, <<insertRule(trigger, 1, 0, terms, "hand")>>)
    /\ UNCHANGED <<programme, versions, business, rowLock, editing>>

\* PATCH /rewards/rules/:refId/active, on any version of any rule.
setRuleActive(r, active) ==
    /\ Aside
    /\ r \in DOMAIN ruleRows \ LockedRules
    /\ ruleRows' = [ruleRows EXCEPT ![r].active = active, ![r].switched = @ \/ active]
    /\ UNCHANGED <<programme, versions, business, rowLock, editing>>

\* EnterprisesService.updateSettings: each may be set, changed or cleared.
updateSettings(settings) ==
    /\ Aside
    /\ business' = settings
    /\ UNCHANGED <<programme, ruleRows, versions, rowLock, editing>>

ProgramsNext ==
    \/ \E e \in Editors :
          \/ \E triggers \in SUBSET Triggers, terms \in FormTerms : SaveForm(e, triggers, terms)
          \/ EnterEdit(e) \/ RefuseEdit(e) \/ RetireRules(e) \/ updateProgram(e) \/ AbandonEdit(e)
    \/ \E status \in {"active", "paused", "archived"} : setProgramStatus(status)
    \/ \E trigger \in Triggers, terms \in FormTerms : createRule(trigger, terms)
    \/ \E r \in DOMAIN ruleRows, active \in BOOLEAN : setRuleActive(r, active)
    \/ \E settings \in [timezone : BOOLEAN, currency : BOOLEAN] : updateSettings(settings)

ProgramsSpec == ProgramsInit /\ [][ProgramsNext]_programVars

-----------------------------------------------------------------------------
(* What the edit form is told: GET /programs/:refId/configuration.         *)

\* The first active rule speaks for all of them when they agree.
uniform(rows) ==
    \A r, o \in ActiveIn(rows) : rows[r].capped = rows[o].capped /\ rows[r].conditions = rows[o].conditions

programConfiguration(rows) ==
    LET first == Min(ActiveIn(rows))
    IN  [capped |-> rows[first].capped, benefit |-> rows[first].benefit,
         matched |-> \E r \in ActiveIn(rows) : ContentMatch \in rows[r].conditions,
         schedule |-> conditionsToSchedule(rows[first].conditions)]

-----------------------------------------------------------------------------
(* Properties.                                                             *)

\* An edit replaces every rule that ran: two rules of one trigger are both
\* active only when the later was added by hand or the earlier was switched
\* on again by hand.  Two edits at once, or a rule added while an edit is
\* between its two halves, would leave an old version running beside the new
\* one and pay every event twice (lockForUpdate and its comment).
OnlyNewestRuns ==
    \A r, o \in ActiveIn(ruleRows) :
        (r < o /\ ruleRows[r].trigger = ruleRows[o].trigger)
            => ruleRows[o].made = "hand" \/ ruleRows[r].switched

\* A rule written by an edit is one version above a rule of its own trigger,
\* and no two rules of the form supersede the same one.
LineageIsAChain ==
    \A r \in DOMAIN ruleRows :
        LET prior == ruleRows[r].supersedes IN
        prior # 0 =>
            /\ prior < r
            /\ ruleRows[prior].trigger = ruleRows[r].trigger
            /\ ruleRows[prior].version + 1 = ruleRows[r].version
            /\ \A o \in DOMAIN ruleRows \ {r} : ruleRows[o].supersedes = prior => ruleRows[prior].switched

\* The version an award is stamped with is the last one of the history, and
\* that one tells the status and the details in force (recordProgramVersion).
HistoryTellsTheProgramme ==
    LET last == versions[Len(versions)] IN
    /\ programme.version = Len(versions)
    /\ last.status = programme.status /\ last.details = programme.details

\* The configuration endpoint round trips: where its answer is uniform, to
\* save the form unchanged writes rules that pay in the same hours under the
\* same cap and conditions; and the PUT accepts the form unless a rule was
\* added or switched by hand.  Left out: a day on which 00:00 to 23:59 was
\* entered beside other slots, which the form cannot say.
FormRoundTrips ==
    LET running == ActiveIn(ruleRows)
        saved == programConfiguration(ruleRows)
        FormCanSay(r) == \A w \in TimeWindow(ruleRows[r].conditions) :
            w[2] = "all" => {x \in TimeWindow(ruleRows[r].conditions) : x[1] = w[1]} = {w}
    IN  (running # {} /\ uniform(ruleRows) /\ \A r \in running : FormCanSay(r)) =>
            /\ \A r \in running :
                  /\ saved.capped = ruleRows[r].capped
                  /\ Hours(programConditions(saved)) = Hours(ruleRows[r].conditions)
                  /\ saved.matched = (ContentMatch \in ruleRows[r].conditions)
            /\ (\A r \in running : ruleRows[r].made = "form" /\ ~ruleRows[r].switched)
                  => FormAccepted({ruleRows[r].trigger : r \in running}, saved)

\* ProgrammeIsSound: whoever edits, adds, switches or archives at the same
\* time, no version runs beside its successor, versions form a chain, the
\* history tells what is in force, and a form saved unchanged changes nothing
\* (replaceRules, lockForUpdate, recordProgramVersion, programConfiguration).
ProgrammeIsSound ==
    OnlyNewestRuns /\ LineageIsAChain /\ HistoryTellsTheProgramme /\ FormRoundTrips
=============================================================================
