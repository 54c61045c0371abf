------------------------------ MODULE DeskProofs ------------------------------
(***************************************************************************)
(* What agents are told of a thread is true of it, moderation does once,   *)
(* and visibly, what somebody who may has asked for, the versions of a     *)
(* reward programme and its rules stay in order, a walk through the pages  *)
(* of a list misses and repeats nothing, and a refresh takes away only what*)
(* somebody else stored since: for any number of agents, requests, threads,*)
(* moderation events, edits, rules, rows and attachments.                  *)
(***************************************************************************)
EXTENDS InboxDesk, Moderation, RewardPrograms, ThreadPages, MediaRefresh, Aggregates, SequenceTheorems

-----------------------------------------------------------------------------
(* Moderation.                                                               *)

\* The last event about the comment that hides or unhides it.
Word(m) ==
    /\ m \in DOMAIN event /\ event[m].action # "delete"
    /\ \A k \in DOMAIN event : k > m => event[k].action = "delete"

Hides(m) == event[m].action = "hide"

\* When the webhooks under way have been applied, the copy is hidden or not: what
\* the last of them says that hides or unhides, or what the copy says already.
HooksLead(hidden) ==
    /\ \A j \in DOMAIN hooks :
          hooks[j] # "delete" /\ (\A k \in DOMAIN hooks : k > j => hooks[k] = "delete")
              => ((hooks[j] = "hide") <=> hidden)
    /\ (\A j \in DOMAIN hooks : hooks[j] = "delete") => (copy.hidden <=> hidden)

ModerationTables ==
    /\ ModerationTypeOK
    /\ clock \in 0 .. LastStamp /\ outside \in Nat
    /\ asked \in Seq(Agents) /\ died \in Seq(Nat)
    /\ reports \in BOOLEAN /\ overtook \in BOOLEAN

\* An event dies, and may then be sent again.
DeathsAreCounted ==
    \A i \in DOMAIN event :
        /\ event[i].replays <= MaxReplays
        /\ died[i] = event[i].replays + (IF event[i].status = "dead" THEN 1 ELSE 0)

DeletesAgree ==
    /\ (\E i \in DOMAIN event : event[i].action = "delete") => copy.gone
    /\ \A i \in DOMAIN event :
          event[i].action = "delete" /\ event[i].status = "sent" => platform.gone
    /\ outside = 0 /\ (copy.gone \/ platform.gone \/ \E j \in DOMAIN hooks : hooks[j] = "delete")
          => \E i \in DOMAIN event : event[i].action = "delete"

\* Where the platform reports nothing, only our own requests write the copy.
SilenceLeaves ==
    ~reports => hooks = << >> /\ \A m \in DOMAIN event : Word(m) => (copy.hidden <=> Hides(m))

\* The last event that hides or unhides, once carried out, is what both sides
\* come to say.
LastWordCounts ==
    ~overtook /\ outside = 0 =>
        /\ \A m \in DOMAIN event :
              Word(m) /\ event[m].status = "sent"
                  => (platform.hidden <=> Hides(m)) /\ HooksLead(Hides(m))
        /\ (\A i \in DOMAIN event : event[i].action = "delete")
              => ~platform.hidden /\ HooksLead(FALSE)

ModerationInv ==
    /\ ModerationTables /\ ClicksDoNotPileUp /\ AskedByOneWhoMay /\ DeathsAreCounted
    /\ DeletesAgree /\ SilenceLeaves /\ LastWordCounts

\* Of some positions in a sequence one is the last.
LEMMA LastOfSome ==
    ASSUME NEW N \in Nat, NEW S \in SUBSET (1 .. N), S # {}
    PROVE  \E i \in S : \A j \in S : j <= i
  <1>1. S \in SUBSET (0 .. N)
    OBVIOUS
  <1> QED
    BY <1>1, GreatestNumber

\* A row of outbound_events is written over.
LEMMA EventWritten ==
    ASSUME event \in Seq(EventType), NEW i \in DOMAIN event, NEW e \in EventType,
           event' = [event EXCEPT ![i] = e]
    PROVE  /\ event' \in Seq(EventType) /\ Len(event') = Len(event)
           /\ DOMAIN event' = DOMAIN event
           /\ event'[i] = e /\ \A j \in DOMAIN event \ {i} : event'[j] = event[j]
  BY DEF EventType

LEMMA HistoryWritten ==
    ASSUME NEW S, NEW s \in Seq(S), NEW i \in DOMAIN s, NEW x \in S
    PROVE  /\ [s EXCEPT ![i] = x] \in Seq(S) /\ Len([s EXCEPT ![i] = x]) = Len(s)
           /\ [s EXCEPT ![i] = x][i] = x
           /\ \A j \in DOMAIN s \ {i} : [s EXCEPT ![i] = x][j] = s[j]
  OBVIOUS

\* An event that is not sent by the step says nothing new.
LEMMA WordsRest ==
    ASSUME ModerationInv, NEW i \in DOMAIN event, NEW e \in EventType,
           event' = [event EXCEPT ![i] = e], e.action = event[i].action, e.status # "sent",
           UNCHANGED <<copy, platform, hooks, reports, outside, overtook>>
    PROVE  ClicksDoNotPileUp' /\ DeletesAgree' /\ SilenceLeaves' /\ LastWordCounts'
  <1>1. /\ DOMAIN event' = DOMAIN event
        /\ \A j \in DOMAIN event : event'[j].action = event[j].action
        /\ \A j \in DOMAIN event : event'[j].status = "sent" => event[j].status = "sent"
    BY EventWritten DEF ModerationInv, ModerationTables, ModerationTypeOK
  <1>2. \A m \in DOMAIN event : (Word(m)' <=> Word(m)) /\ (Hides(m)' <=> Hides(m))
    BY <1>1 DEF Word, Hides
  <1>3. HooksLead(TRUE)' = HooksLead(TRUE) /\ HooksLead(FALSE)' = HooksLead(FALSE)
    BY DEF HooksLead
  <1>4. ClicksDoNotPileUp'
    BY <1>1 DEF ClicksDoNotPileUp, ModerationInv
  <1>5. DeletesAgree'
    BY <1>1 DEF DeletesAgree, ModerationInv
  <1>6. SilenceLeaves'
    BY <1>1, <1>2 DEF SilenceLeaves, ModerationInv
  <1>7. LastWordCounts'
    <2>1. \A m \in DOMAIN event : HooksLead(Hides(m))' <=> HooksLead(Hides(m))
      BY <1>2 DEF HooksLead
    <2> QED
      BY <1>1, <1>2, <1>3, <2>1 DEF LastWordCounts, ModerationInv
  <1> QED
    BY <1>4, <1>5, <1>6, <1>7


LEMMA EventNames ==
    ASSUME event \in Seq(EventType), NEW i \in DOMAIN event
    PROVE  /\ event[i] \in EventType /\ event[i].action \in Actions
           /\ event[i].stamp \in 0 .. LastStamp /\ event[i].attempts \in 0 .. MaxSends
           /\ event[i].status \in {"pending", "sent", "dead"} /\ event[i].replays \in Nat
           /\ i \in Nat
  <1>1. event[i] \in EventType
    OBVIOUS
  <1> QED
    BY <1>1 DEF EventType

LEMMA SameHistories ==
    ASSUME ModerationInv
    PROVE  /\ event \in Seq(EventType) /\ Len(event) \in Nat /\ DOMAIN event = 1 .. Len(event)
           /\ DOMAIN asked = DOMAIN event /\ DOMAIN died = DOMAIN event
           /\ asked \in Seq(Agents) /\ died \in Seq(Nat)
           /\ copy \in CopyType /\ hooks \in Seq(Actions)
           /\ MaxSends \in Nat \ {0} /\ MaxReplays \in Nat /\ LastStamp \in Nat
  BY ModerationAssumption DEF ModerationInv, ModerationTables, ModerationTypeOK

\* What is left to show of a step that only writes over one event.
LEMMA OneEvent ==
    ASSUME ModerationInv, NEW i \in DOMAIN event, NEW e \in EventType,
           event' = [event EXCEPT ![i] = e], e.action = event[i].action,
           asked' \in Seq(Agents), Len(asked') = Len(asked),
           \A j \in DOMAIN event \ {i} : asked'[j] = asked[j], AllowedTo(asked'[i], e.action),
           died' \in Seq(Nat), Len(died') = Len(died),
           \A j \in DOMAIN event \ {i} : died'[j] = died[j],
           e.replays <= MaxReplays,
           died'[i] = e.replays + (IF e.status = "dead" THEN 1 ELSE 0),
           platform' \in [hidden : BOOLEAN, gone : BOOLEAN], hooks' \in Seq(Actions),
           overtook' \in BOOLEAN, UNCHANGED <<clock, copy, reports, outside>>
    PROVE  ModerationTables' /\ AskedByOneWhoMay' /\ DeathsAreCounted'
  <1>1. /\ event' \in Seq(EventType) /\ Len(event') = Len(event) /\ DOMAIN event' = DOMAIN event
        /\ event'[i] = e /\ \A j \in DOMAIN event \ {i} : event'[j] = event[j]
    BY EventWritten, SameHistories
  <1>2. ModerationTables'
    BY <1>1 DEF ModerationInv, ModerationTables, ModerationTypeOK
  <1>3. AskedByOneWhoMay'
    <2> SUFFICES ASSUME NEW j \in DOMAIN event PROVE AllowedTo(asked'[j], event'[j].action)
      BY <1>1 DEF AskedByOneWhoMay, AllowedTo
    <2> QED
      BY <1>1 DEF ModerationInv, AskedByOneWhoMay
  <1>4. DeathsAreCounted'
    BY <1>1 DEF ModerationInv, DeathsAreCounted
  <1> QED
    BY <1>2, <1>3, <1>4

LEMMA RetryKeeps ==
    ASSUME ModerationInv, NEW a \in Agents, retryModeration(a)
    PROVE  ModerationInv'
  <1>1. PICK i \in Dead : i = findDeadModerationEvent
    <2>1. Dead # {} /\ \A j \in Dead : j \in 1 .. Len(event)
      BY SameHistories DEF retryModeration, Dead
    <2>2. PICK N \in Nat : N = Len(event)
      BY SameHistories
    <2>3. \E i \in Dead : \A j \in Dead : j <= i
      BY <2>1, <2>2, LastOfSome
    <2> QED
      BY <2>3 DEF findDeadModerationEvent
  <1>2. i \in DOMAIN event /\ event[i].status = "dead"
    BY <1>1 DEF Dead
  <1>3. PICK old \in EventType : old = event[i]
    BY <1>2, SameHistories, EventNames
  <1>4. PICK e : e = requeueDeadLettered(old)
    OBVIOUS
  <1>5. /\ event' = [event EXCEPT ![i] = e] /\ event' # event /\ asked' = [asked EXCEPT ![i] = a]
        /\ AllowedToRetry(a, i)
        /\ UNCHANGED <<clock, copy, platform, hooks, reports, outside, died, overtook>>
    BY <1>1, <1>3, <1>4 DEF retryModeration
  <1>6. old.replays < MaxReplays /\ e = [old EXCEPT !.status = "pending", !.attempts = 0, !.replays = old.replays + 1]
    <2>1. e # old
      BY <1>2, <1>3, <1>5, SameHistories
    <2> QED
      BY <1>4, <2>1 DEF requeueDeadLettered
  <1>7. /\ e \in EventType /\ e.action = old.action /\ e.status = "pending"
        /\ e.replays = old.replays + 1
    <2>1. old.replays + 1 \in Nat /\ 0 \in 0 .. MaxSends
      BY SameHistories DEF EventType
    <2> QED
      BY <1>6, <2>1 DEF EventType
  <1>8. e.replays <= MaxReplays /\ died[i] = old.replays + 1
    BY <1>2, <1>3, <1>6, <1>7, SameHistories DEF ModerationInv, DeathsAreCounted, EventType
  <1>9. /\ asked' \in Seq(Agents) /\ Len(asked') = Len(asked) /\ asked'[i] = a
        /\ \A j \in DOMAIN event \ {i} : asked'[j] = asked[j]
    BY <1>2, <1>5, SameHistories, HistoryWritten
  <1>10. AllowedTo(a, e.action)
    BY <1>3, <1>5, <1>7 DEF AllowedToRetry, AllowedTo
  <1>11. ModerationTables' /\ AskedByOneWhoMay' /\ DeathsAreCounted'
    <2>1. died'[i] = e.replays + (IF e.status = "dead" THEN 1 ELSE 0)
      BY <1>5, <1>7, <1>8 DEF EventType
    <2>2. /\ platform' \in [hidden : BOOLEAN, gone : BOOLEAN] /\ hooks' \in Seq(Actions)
          /\ overtook' \in BOOLEAN /\ died' = died
      BY <1>5 DEF ModerationInv, ModerationTables, ModerationTypeOK
    <2>3. event' = [event EXCEPT ![i] = e] /\ e.action = event[i].action
      BY <1>3, <1>5, <1>7
    <2> QED
      BY <1>2, <1>5, <1>7, <1>8, <1>9, <1>10, <2>1, <2>2, <2>3, OneEvent, SameHistories
  <1>12. ClicksDoNotPileUp' /\ DeletesAgree' /\ SilenceLeaves' /\ LastWordCounts'
    BY <1>2, <1>3, <1>5, <1>7, WordsRest
  <1> QED
    BY <1>11, <1>12 DEF ModerationInv

LEMMA Undead ==
    ASSUME ModerationInv, NEW i \in DOMAIN event, event[i].status = "pending"
    PROVE  died[i] = event[i].replays /\ event[i].replays \in Nat
  <1>1. event[i].replays \in Nat
    BY SameHistories, EventNames
  <1>2. died[i] = event[i].replays + 0
    BY DEF ModerationInv, DeathsAreCounted
  <1> QED
    BY <1>1, <1>2

LEMMA SetbackKeeps ==
    ASSUME ModerationInv, NEW i \in DOMAIN event, FailForNow(i) \/ Refuse(i)
    PROVE  ModerationInv'
  <1>1. PICK old \in EventType : old = event[i]
    BY SameHistories, EventNames
  <1>2. old.status = "pending" /\ died[i] = old.replays /\ old.replays \in Nat
    <2>1. old.status = "pending"
      BY <1>1 DEF FailForNow, Refuse
    <2> QED
      BY <1>1, <2>1, Undead
  <1>3. PICK n : n = IF Refuse(i) THEN died[i] + 1 ELSE died[i]
    OBVIOUS
  <1>4. PICK e \in EventType :
            /\ event' = [event EXCEPT ![i] = e] /\ e.action = old.action /\ e.status # "sent"
            /\ e.replays = old.replays
            /\ \/ e.status = "dead" /\ died' = [died EXCEPT ![i] = old.replays + 1]
               \/ e.status = "pending" /\ died' = died
    <2>1. CASE Refuse(i)
      <3>1. PICK e : e = [old EXCEPT !.status = "dead"]
        OBVIOUS
      <3>2. /\ e \in EventType /\ e.action = old.action /\ e.status = "dead"
            /\ e.replays = old.replays
        BY <1>1, <3>1 DEF EventType
      <3>3. event' = [event EXCEPT ![i] = e] /\ died' = [died EXCEPT ![i] = old.replays + 1]
        BY <1>1, <1>2, <2>1, <3>1 DEF Refuse
      <3> QED
        BY <3>2, <3>3
    <2>2. CASE FailForNow(i)
      <3>1. PICK e : e = [old EXCEPT !.attempts = old.attempts + 1]
        OBVIOUS
      <3>2. old.attempts + 1 \in 0 .. MaxSends
        BY <1>1, <2>2, SameHistories, EventNames DEF FailForNow
      <3>3. /\ e \in EventType /\ e.action = old.action /\ e.status = "pending"
            /\ e.replays = old.replays
        BY <1>1, <1>2, <3>1, <3>2 DEF EventType
      <3>4. event' = [event EXCEPT ![i] = e] /\ died' = died
        BY <1>1, <2>2, <3>1 DEF FailForNow
      <3> QED
        BY <3>3, <3>4
    <2> QED
      BY <2>1, <2>2
  <1>5. UNCHANGED <<clock, copy, platform, hooks, reports, outside, asked, overtook>>
    BY DEF FailForNow, Refuse
  <1>6. /\ died' \in Seq(Nat) /\ Len(died') = Len(died)
        /\ \A j \in DOMAIN event \ {i} : died'[j] = died[j]
        /\ died'[i] = e.replays + (IF e.status = "dead" THEN 1 ELSE 0)
    <2>1. old.replays + 1 \in Nat
      BY <1>2
    <2>2. CASE e.status = "dead" /\ died' = [died EXCEPT ![i] = old.replays + 1]
      BY <1>2, <1>4, <2>1, <2>2, HistoryWritten, SameHistories
    <2>3. CASE e.status = "pending" /\ died' = died
      BY <1>2, <1>4, <2>3, SameHistories
    <2> QED
      BY <1>4, <2>2, <2>3
  <1>7. ModerationTables' /\ AskedByOneWhoMay' /\ DeathsAreCounted'
    <2>1. AllowedTo(asked'[i], e.action)
      BY <1>1, <1>4, <1>5 DEF ModerationInv, AskedByOneWhoMay, AllowedTo
    <2>2. /\ platform' \in [hidden : BOOLEAN, gone : BOOLEAN] /\ hooks' \in Seq(Actions)
          /\ overtook' \in BOOLEAN /\ asked' = asked
      BY <1>5 DEF ModerationInv, ModerationTables, ModerationTypeOK
    <2>3. e.replays <= MaxReplays
      BY <1>1, <1>4 DEF ModerationInv, DeathsAreCounted
    <2> QED
      BY <1>1, <1>4, <1>5, <1>6, <2>1, <2>2, <2>3, OneEvent, SameHistories
  <1>8. ClicksDoNotPileUp' /\ DeletesAgree' /\ SilenceLeaves' /\ LastWordCounts'
    BY <1>1, <1>4, <1>5, WordsRest
  <1> QED
    BY <1>7, <1>8 DEF ModerationInv

\* The platform has done what an event asks, and reported it or not.
LEMMA DeliverKeeps ==
    ASSUME ModerationInv, NEW i \in DOMAIN event, NEW heard \in BOOLEAN, Deliver(i, heard)
    PROVE  ModerationInv'
  <1>1. PICK old \in EventType : old = event[i]
    BY SameHistories, EventNames
  <1>2. PICK act \in Actions : act = old.action
    BY <1>1, EventNames, SameHistories
  <1>3. old.status = "pending" /\ died[i] = old.replays /\ old.replays \in Nat
    <2>1. old.status = "pending"
      BY <1>1 DEF Deliver
    <2> QED
      BY <1>1, <2>1, Undead
  <1>4. PICK e \in EventType :
            /\ event' = [event EXCEPT ![i] = e] /\ e.action = act /\ e.replays = old.replays
            /\ e.status \in {"sent", "pending"}
    <2>1. PICK n : n = IF heard THEN old.attempts ELSE old.attempts + 1
      OBVIOUS
    <2>2. PICK s : s = IF heard THEN "sent" ELSE "pending"
      OBVIOUS
    <2>3. n \in 0 .. MaxSends /\ s \in {"sent", "pending"}
      BY <1>1, <2>1, <2>2, SameHistories, EventNames DEF Deliver
    <2>4. PICK e : e = [old EXCEPT !.status = s, !.attempts = n]
      OBVIOUS
    <2>5. e \in EventType /\ e.action = act /\ e.replays = old.replays /\ e.status = s
      BY <1>1, <1>2, <2>3, <2>4 DEF EventType
    <2>6. event' = [event EXCEPT ![i] = e]
      <3>1. event' = [event EXCEPT ![i] = [event[i] EXCEPT !.status = IF heard THEN "sent" ELSE "pending",
                                     !.attempts = IF heard THEN event[i].attempts ELSE event[i].attempts + 1]]
        BY EventNames, SameHistories DEF Deliver, EventType
      <3> QED
        BY <1>1, <2>1, <2>2, <2>4, <3>1
    <2> QED
      BY <2>3, <2>5, <2>6
  <1>5. /\ event' \in Seq(EventType) /\ Len(event') = Len(event) /\ DOMAIN event' = DOMAIN event
        /\ event'[i] = e /\ \A j \in DOMAIN event \ {i} : event'[j] = event[j]
    BY <1>4, EventWritten, SameHistories
  <1>6. /\ \A j \in DOMAIN event : event'[j].action = event[j].action
        /\ \A j \in DOMAIN event : j # i => event'[j].status = event[j].status
    BY <1>1, <1>2, <1>4, <1>5
  <1>7. /\ ~platform.gone /\ platform' = Carried(platform, act)
        /\ hooks' = IF reports THEN Append(hooks, act) ELSE hooks
        /\ overtook' = (overtook \/ Overtaken(i))
        /\ UNCHANGED <<clock, copy, reports, outside, asked, died>>
    BY <1>1, <1>2 DEF Deliver
  <1>8. /\ platform' \in [hidden : BOOLEAN, gone : BOOLEAN]
        /\ act = "delete" => platform'.gone /\ platform'.hidden = platform.hidden
        /\ act # "delete" => platform'.gone = platform.gone /\ (platform'.hidden <=> act = "hide")
    <2>1. platform.hidden \in BOOLEAN /\ platform.gone \in BOOLEAN
      BY DEF ModerationInv, ModerationTables, ModerationTypeOK
    <2> QED
      BY <1>7, <2>1 DEF Carried, HiddenAfter, Actions
  <1>9. ModerationTables' /\ AskedByOneWhoMay' /\ DeathsAreCounted'
    <2>1. hooks' \in Seq(Actions)
      BY <1>7, SameHistories
    <2>2. overtook' \in BOOLEAN
      BY <1>7 DEF ModerationInv, ModerationTables
    <2>3. AllowedTo(asked'[i], e.action) /\ e.replays <= MaxReplays
      BY <1>1, <1>2, <1>4, <1>7 DEF ModerationInv, AskedByOneWhoMay, AllowedTo, DeathsAreCounted
    <2>4. died'[i] = e.replays + (IF e.status = "dead" THEN 1 ELSE 0)
      BY <1>3, <1>4, <1>7
    <2> QED
      BY <1>1, <1>2, <1>4, <1>7, <1>8, <2>1, <2>2, <2>3, <2>4, OneEvent, SameHistories
  <1>10. \A m \in DOMAIN event : (Word(m)' <=> Word(m)) /\ (Hides(m)' <=> Hides(m))
    BY <1>5, <1>6 DEF Word, Hides
  <1>11. ClicksDoNotPileUp'
    BY <1>5, <1>6, <1>7 DEF ClicksDoNotPileUp, ModerationInv
  <1>12. /\ reports => /\ Len(hooks') = Len(hooks) + 1 /\ hooks'[Len(hooks) + 1] = act
                       /\ DOMAIN hooks' = 1 .. Len(hooks) + 1
                       /\ \A j \in DOMAIN hooks : hooks'[j] = hooks[j]
         /\ DOMAIN hooks = 1 .. Len(hooks) /\ Len(hooks) \in Nat
    BY <1>7, SameHistories
  <1>13. DeletesAgree'
    <2>1. DeletesAgree /\ ~platform.gone
      BY <1>7 DEF ModerationInv
    <2>2. (\E j \in DOMAIN event' : event'[j].action = "delete") => copy'.gone
      BY <1>5, <1>6, <1>7, <2>1 DEF DeletesAgree
    <2>3. ASSUME NEW j \in DOMAIN event', event'[j].action = "delete", event'[j].status = "sent"
          PROVE  platform'.gone
      <3>1. CASE j = i
        BY <1>1, <1>2, <1>6, <1>8, <2>3, <3>1
      <3>2. CASE j # i
        BY <1>5, <1>6, <2>1, <2>3, <3>2 DEF DeletesAgree
      <3> QED
        BY <3>1, <3>2
    <2>4. ASSUME outside' = 0,
                 copy'.gone \/ platform'.gone \/ \E j \in DOMAIN hooks' : hooks'[j] = "delete"
          PROVE  \E j \in DOMAIN event' : event'[j].action = "delete"
      <3>1. CASE act = "delete"
        BY <1>4, <1>5, <3>1
      <3>2. CASE act # "delete"
        <4>1. (\E j \in DOMAIN hooks' : hooks'[j] = "delete")
                => \E j \in DOMAIN hooks : hooks[j] = "delete"
          <5>1. CASE reports
            BY <1>12, <3>2, <5>1
          <5>2. CASE ~reports
            BY <1>7, <5>2
          <5> QED
            BY <5>1, <5>2
        <4>2. \E j \in DOMAIN event : event[j].action = "delete"
          BY <1>7, <1>8, <2>1, <2>4, <3>2, <4>1 DEF DeletesAgree
        <4> QED
          BY <1>5, <1>6, <4>2
      <3> QED
        BY <3>1, <3>2
    <2> QED
      BY <2>2, <2>3, <2>4 DEF DeletesAgree
  <1>14. SilenceLeaves'
    BY <1>5, <1>7, <1>10 DEF SilenceLeaves, ModerationInv
  <1>15. ASSUME ~overtook', outside' = 0
         PROVE  /\ \A m \in DOMAIN event' :
                      Word(m)' /\ event'[m].status = "sent"
                          => (platform'.hidden <=> Hides(m)') /\ HooksLead(Hides(m))'
                /\ (\A j \in DOMAIN event' : event'[j].action = "delete")
                      => ~platform'.hidden /\ HooksLead(FALSE)'
    <2>1. ~overtook /\ outside = 0 /\ \A j \in DOMAIN event : ~(j > i)
      BY <1>7, <1>15 DEF Overtaken, ModerationInv, ModerationTables
    <2>2. CASE act = "delete"
      <3>1. ASSUME NEW h \in BOOLEAN, HooksLead(h) PROVE HooksLead(h)'
        <4>1. CASE reports
          BY <1>7, <1>12, <2>2, <3>1, <4>1 DEF HooksLead
        <4>2. CASE ~reports
          BY <1>7, <3>1, <4>2 DEF HooksLead
        <4> QED
          BY <4>1, <4>2
      <3>2. \A m \in DOMAIN event : Word(m) => m # i
        BY <1>1, <1>2, <2>2 DEF Word
      <3>3. \A m \in DOMAIN event : Hides(m) \in BOOLEAN
        BY DEF Hides
      <3>4. ASSUME NEW m \in DOMAIN event', Word(m)', event'[m].status = "sent"
            PROVE  (platform'.hidden <=> Hides(m)') /\ HooksLead(Hides(m))'
        <4>1. Word(m) /\ event[m].status = "sent" /\ m \in DOMAIN event
          BY <1>5, <1>6, <1>10, <3>2, <3>4
        <4>2. (platform.hidden <=> Hides(m)) /\ HooksLead(Hides(m))
          BY <2>1, <4>1 DEF ModerationInv, LastWordCounts
        <4>3. PICK h \in BOOLEAN : h = Hides(m)
          BY <3>3, <4>1
        <4>4. HooksLead(h)'
          BY <3>1, <4>2, <4>3
        <4>5. Hides(m)' = h
          BY <1>6, <4>1, <4>3 DEF Hides
        <4> QED
          BY <1>8, <2>2, <4>2, <4>3, <4>4, <4>5
      <3>5. (\A j \in DOMAIN event' : event'[j].action = "delete")
               => ~platform'.hidden /\ HooksLead(FALSE)'
        BY <1>5, <1>6, <1>8, <2>1, <2>2, <3>1 DEF ModerationInv, LastWordCounts
      <3> QED
        BY <3>4, <3>5
    <2>3. CASE act # "delete"
      <3>1. Word(i)
        BY <1>1, <1>2, <2>1, <2>3 DEF Word
      <3>2. \A m \in DOMAIN event : Word(m) => m = i
        <4> SUFFICES ASSUME NEW m \in DOMAIN event, Word(m), m # i PROVE FALSE
          OBVIOUS
        <4>1. m < i
          BY <2>1, SameHistories
        <4> QED
          BY <1>1, <1>2, <2>3, <4>1 DEF Word
      <3>3. Hides(i)' = (act = "hide") /\ Hides(i) = (act = "hide")
        BY <1>1, <1>2, <1>6 DEF Hides
      <3>4. HooksLead(act = "hide")'
        <4>1. CASE reports
          BY <1>12, <2>3, <4>1 DEF HooksLead
        <4>2. CASE ~reports
          <5>1. hooks' = << >> /\ (copy'.hidden <=> act = "hide")
            BY <1>7, <3>1, <3>3, <4>2 DEF SilenceLeaves, ModerationInv
          <5> QED
            BY <5>1 DEF HooksLead
        <4> QED
          BY <4>1, <4>2
      <3>5. ASSUME NEW m \in DOMAIN event', Word(m)'
            PROVE  (platform'.hidden <=> Hides(m)') /\ HooksLead(Hides(m))'
        <4>1. m = i
          BY <1>5, <1>10, <3>2, <3>5
        <4> QED
          BY <1>8, <2>3, <3>3, <3>4, <4>1 DEF HooksLead
      <3> QED
        BY <1>1, <1>2, <1>5, <1>6, <2>3, <3>5
    <2> QED
      BY <2>2, <2>3
  <1>16. LastWordCounts'
    BY <1>15 DEF LastWordCounts
  <1> QED
    BY <1>9, <1>11, <1>13, <1>14, <1>16 DEF ModerationInv

\* However many agents click, each click was judged on the copy that the ones
\* before it left.
LEMMA ClickKeeps ==
    ASSUME ModerationInv, NEW a \in Agents, NEW act \in Actions, moderateComment(a, act)
    PROVE  ModerationInv'
  <1>1. PICK n \in Nat : n = Len(event) /\ DOMAIN event = 1 .. n
    BY SameHistories
  <1>2. PICK new : new = [action |-> act, stamp |-> copy.updatedAt, attempts |-> 0,
                          status |-> "pending", replays |-> 0]
    OBVIOUS
  <1>3. /\ copy.updatedAt \in 0 .. LastStamp /\ copy.hidden \in BOOLEAN /\ copy.gone \in BOOLEAN
        /\ copy.byUs \in BOOLEAN /\ clock \in 0 .. LastStamp
    BY SameHistories DEF CopyType, ModerationInv, ModerationTables
  <1>4. /\ new \in EventType /\ new.action = act /\ new.status = "pending"
        /\ new.replays = 0
    BY <1>2, <1>3, SameHistories DEF EventType
  <1>5. /\ n < MaxModerations /\ AllowedTo(a, act) /\ ~Refused(act)
        /\ event' = Append(event, new) /\ copy' = applyOwnModeration(act)
        /\ asked' = Append(asked, a) /\ died' = Append(died, 0)
        /\ UNCHANGED <<clock, platform, hooks, reports, outside, overtook>>
    BY <1>1, <1>2 DEF moderateComment
  <1>6. /\ event' \in Seq(EventType) /\ Len(event') = n + 1 /\ DOMAIN event' = 1 .. n + 1
        /\ event'[n + 1] = new /\ \A j \in 1 .. n : event'[j] = event[j]
    BY <1>1, <1>4, <1>5, SameHistories
  <1>7. /\ asked' \in Seq(Agents) /\ Len(asked') = n + 1 /\ asked'[n + 1] = a
        /\ \A j \in 1 .. n : asked'[j] = asked[j]
    <2>1. Len(asked) = n
      BY <1>1 DEF ModerationInv, ModerationTables, ModerationTypeOK
    <2>2. asked \in Seq(Agents) /\ asked' = Append(asked, a)
      BY <1>5, SameHistories
    <2> QED
      BY <2>1, <2>2
  <1>8. /\ died' \in Seq(Nat) /\ Len(died') = n + 1 /\ died'[n + 1] = 0
        /\ \A j \in 1 .. n : died'[j] = died[j]
    <2>1. Len(died) = n
      BY <1>1 DEF ModerationInv, ModerationTables, ModerationTypeOK
    <2> QED
      BY <1>5, <2>1, SameHistories
  <1>9. /\ ~copy.gone /\ \A j \in DOMAIN event : event[j].action # "delete"
        /\ act = "hide" => ~copy.hidden
        /\ act = "unhide" => copy.hidden
    BY <1>5 DEF Refused, ModerationInv, DeletesAgree
  <1>10. /\ copy' \in CopyType
         /\ copy'.hidden = HiddenAfter(copy.hidden, act)
         /\ copy'.gone = (copy.gone \/ act = "delete")
    <2>1. PICK h \in BOOLEAN : h = HiddenAfter(copy.hidden, act)
      BY <1>3 DEF HiddenAfter
    <2>2. PICK g \in BOOLEAN : g = (copy.gone \/ act = "delete")
      BY <1>3
    <2>3. PICK u \in BOOLEAN : u = (copy.byUs \/ act = "delete")
      BY <1>3
    <2>4. copy' = [copy EXCEPT !.hidden = h, !.gone = g, !.byUs = u, !.updatedAt = clock]
      BY <1>5, <2>1, <2>2, <2>3 DEF applyOwnModeration
    <2>5. copy' \in CopyType /\ copy'.hidden = h /\ copy'.gone = g
      BY <1>3, <2>4, SameHistories DEF CopyType
    <2> QED
      BY <2>1, <2>2, <2>5
  <1>11. /\ act = "hide" => copy'.hidden
         /\ act = "unhide" => ~copy'.hidden
         /\ act = "delete" => copy'.hidden = copy.hidden
    BY <1>3, <1>10 DEF HiddenAfter
  <1>12. ModerationTables'
    BY <1>5, <1>6, <1>7, <1>8, <1>10, ModerationAssumption
       DEF ModerationInv, ModerationTables, ModerationTypeOK
  <1>13. AskedByOneWhoMay' /\ DeathsAreCounted'
    <2>1. AskedByOneWhoMay'
      <3> SUFFICES ASSUME NEW j \in 1 .. n + 1 PROVE AllowedTo(asked'[j], event'[j].action)
        BY <1>6 DEF AskedByOneWhoMay, AllowedTo
      <3>1. CASE j = n + 1
        BY <1>4, <1>5, <1>6, <1>7, <3>1
      <3>2. CASE j \in 1 .. n
        BY <1>1, <1>6, <1>7, <3>2 DEF ModerationInv, AskedByOneWhoMay
      <3> QED
        BY <3>1, <3>2
    <2>2. DeathsAreCounted'
      BY <1>1, <1>4, <1>6, <1>8, ModerationAssumption DEF ModerationInv, DeathsAreCounted
    <2> QED
      BY <2>1, <2>2
  <1>14. n > 0 => Word(n)
    BY <1>1, <1>9 DEF Word
  <1>15. ClicksDoNotPileUp'
    <2> SUFFICES ASSUME NEW i \in 1 .. n + 1, NEW j \in 1 .. n + 1
                 PROVE  /\ i < j => event'[i].action # "delete"
                        /\ (j = i + 1 /\ ~reports') => event'[i].action # event'[j].action
      BY <1>6 DEF ClicksDoNotPileUp
    <2>1. i < j => event'[i].action # "delete"
      BY <1>1, <1>6, <1>9
    <2>2. ASSUME j = i + 1, ~reports' PROVE event'[i].action # event'[j].action
      <3>1. CASE j \in 1 .. n
        <4>1. i \in DOMAIN event /\ j \in DOMAIN event /\ ~reports
          BY <1>1, <1>5, <2>2, <3>1
        <4>2. event'[i] = event[i] /\ event'[j] = event[j]
          BY <1>1, <1>6, <4>1
        <4> QED
          BY <2>2, <4>1, <4>2 DEF ModerationInv, ClicksDoNotPileUp
      <3>2. CASE j = n + 1
        <4>1. i = n /\ n > 0 /\ event'[i] = event[n] /\ event'[j].action = act /\ n \in DOMAIN event
          BY <1>1, <1>4, <1>6, <2>2, <3>2
        <4>2. copy.hidden <=> event[n].action = "hide"
          BY <1>5, <1>14, <2>2, <4>1 DEF ModerationInv, SilenceLeaves, Hides
        <4> QED
          BY <1>1, <1>9, <4>1, <4>2 DEF Actions
      <3> QED
        BY <3>1, <3>2
    <2> QED
      BY <2>1, <2>2
  <1>16. DeletesAgree'
    <2>1. (\E i \in DOMAIN event' : event'[i].action = "delete") <=> act = "delete"
      BY <1>1, <1>4, <1>6, <1>9
    <2>2. \A i \in DOMAIN event' : event'[i].action = "delete" => event'[i].status = "pending"
      BY <1>1, <1>4, <1>6, <1>9
    <2> QED
      BY <1>5, <1>9, <1>10, <2>1, <2>2 DEF ModerationInv, DeletesAgree
  <1>17. ASSUME NEW m \in DOMAIN event', Word(m)'
         PROVE  \/ act # "delete" /\ m = n + 1 /\ Hides(m)' = (act = "hide")
                \/ act = "delete" /\ m \in DOMAIN event /\ Word(m) /\ event'[m] = event[m]
                   /\ Hides(m)' = Hides(m)
    <2>1. CASE act # "delete"
      <3>1. m = n + 1
        BY <1>4, <1>6, <1>17, <2>1 DEF Word
      <3> QED
        BY <1>4, <1>6, <2>1, <3>1 DEF Hides
    <2>2. CASE act = "delete"
      <3>1. m # n + 1
        BY <1>4, <1>6, <1>17, <2>2 DEF Word
      <3>2. m \in DOMAIN event /\ event'[m] = event[m]
        BY <1>1, <1>6, <3>1
      <3>3. Word(m)
        BY <1>1, <1>6, <1>17, <3>2 DEF Word
      <3> QED
        BY <2>2, <3>2, <3>3 DEF Hides
    <2> QED
      BY <2>1, <2>2
  <1>18. SilenceLeaves'
    <2> SUFFICES ASSUME ~reports', NEW m \in DOMAIN event', Word(m)'
                 PROVE  copy'.hidden <=> Hides(m)'
      BY <1>5 DEF ModerationInv, SilenceLeaves
    <2>1. CASE act # "delete"
      BY <1>11, <1>17, <2>1 DEF Actions
    <2>2. CASE act = "delete"
      BY <1>5, <1>11, <1>17, <2>2 DEF ModerationInv, SilenceLeaves
    <2> QED
      BY <2>1, <2>2
  <1>19. LastWordCounts'
    <2>1. CASE act # "delete"
      <3>1. \A m \in DOMAIN event' : Word(m)' => event'[m].status # "sent"
        BY <1>4, <1>6, <1>17, <2>1
      <3>2. ~(\A i \in DOMAIN event' : event'[i].action = "delete")
        BY <1>4, <1>6, <2>1
      <3> QED
        BY <3>1, <3>2 DEF LastWordCounts
    <2>2. CASE act = "delete"
      <3>1. ASSUME NEW h \in BOOLEAN, HooksLead(h) PROVE HooksLead(h)'
        BY <1>5, <1>11, <2>2, <3>1 DEF HooksLead
      <3>2. ASSUME ~overtook', outside' = 0, NEW m \in DOMAIN event', Word(m)',
                   event'[m].status = "sent"
            PROVE  (platform'.hidden <=> Hides(m)') /\ HooksLead(Hides(m))'
        <4>1. /\ m \in DOMAIN event /\ Word(m) /\ event[m].status = "sent"
              /\ Hides(m)' = Hides(m)
          BY <1>17, <2>2, <3>2
        <4>2. (platform.hidden <=> Hides(m)) /\ HooksLead(Hides(m))
          BY <1>5, <3>2, <4>1 DEF ModerationInv, LastWordCounts
        <4>3. PICK h \in BOOLEAN : h = Hides(m)
          BY DEF Hides
        <4>4. HooksLead(h)'
          BY <3>1, <4>2, <4>3
        <4> QED
          BY <1>5, <4>1, <4>2, <4>3, <4>4
      <3>3. ASSUME ~overtook', outside' = 0, \A i \in DOMAIN event' : event'[i].action = "delete"
            PROVE  ~platform'.hidden /\ HooksLead(FALSE)'
        <4>1. \A i \in DOMAIN event : event[i].action = "delete"
          BY <1>1, <1>6, <3>3
        <4> QED
          BY <1>5, <3>1, <3>3, <4>1 DEF ModerationInv, LastWordCounts
      <3> QED
        BY <3>2, <3>3 DEF LastWordCounts
    <2> QED
      BY <2>1, <2>2
  <1> QED
    BY <1>12, <1>13, <1>15, <1>16, <1>18, <1>19 DEF ModerationInv

\* Others change the platform, which reports it or not.
LEMMA OthersKeep ==
    ASSUME ModerationInv, NEW act \in Actions, OthersAct(act)
    PROVE  ModerationInv'
  <1>1. /\ ~platform.gone /\ outside' = outside + 1 /\ platform' = Carried(platform, act)
        /\ hooks' = IF reports THEN Append(hooks, act) ELSE hooks
        /\ UNCHANGED <<clock, copy, event, reports, asked, died, overtook>>
    BY DEF OthersAct
  <1>2. platform' \in [hidden : BOOLEAN, gone : BOOLEAN]
    <2>1. platform.hidden \in BOOLEAN /\ platform.gone \in BOOLEAN
      BY DEF ModerationInv, ModerationTables, ModerationTypeOK
    <2> QED
      BY <1>1, <2>1 DEF Carried, HiddenAfter
  <1>3. hooks' \in Seq(Actions) /\ outside' \in Nat /\ outside' # 0
    BY <1>1, SameHistories DEF ModerationInv, ModerationTables
  <1>4. ModerationTables'
    BY <1>1, <1>2, <1>3 DEF ModerationInv, ModerationTables, ModerationTypeOK
  <1>5. ClicksDoNotPileUp' /\ AskedByOneWhoMay' /\ DeathsAreCounted'
    BY <1>1 DEF ModerationInv, ClicksDoNotPileUp, AskedByOneWhoMay, AllowedTo, DeathsAreCounted
  <1>6. DeletesAgree'
    BY <1>1, <1>3 DEF ModerationInv, DeletesAgree
  <1>7. SilenceLeaves' /\ LastWordCounts'
    BY <1>1, <1>3 DEF ModerationInv, SilenceLeaves, LastWordCounts, Word, Hides
  <1> QED
    BY <1>4, <1>5, <1>6, <1>7 DEF ModerationInv

LEMMA WebhookApplied ==
    ASSUME hooks \in Seq(Actions), hooks # << >>, copy.hidden \in BOOLEAN, NEW hidden \in BOOLEAN,
           HooksLead(hidden), hooks' = Tail(hooks),
           copy'.hidden = HiddenAfter(copy.hidden, Head(hooks))
    PROVE  HooksLead(hidden)'
  <1>1. PICK n \in Nat : Len(hooks) = n + 1
    BY EmptySeq
  <1>2. /\ DOMAIN hooks = 1 .. n + 1 /\ DOMAIN hooks' = 1 .. n
        /\ \A j \in 1 .. n : hooks'[j] = hooks[j + 1]
        /\ Head(hooks) = hooks[1] /\ hooks[1] \in Actions
    BY <1>1
  <1>3. ASSUME NEW j \in DOMAIN hooks', hooks'[j] # "delete",
               \A k \in DOMAIN hooks' : k > j => hooks'[k] = "delete"
        PROVE  (hooks'[j] = "hide") <=> hidden
    <2>1. j + 1 \in DOMAIN hooks /\ hooks[j + 1] = hooks'[j]
      BY <1>2
    <2>2. ASSUME NEW k \in DOMAIN hooks, k > j + 1 PROVE hooks[k] = "delete"
      <3>1. k - 1 \in DOMAIN hooks' /\ k - 1 > j /\ hooks'[k - 1] = hooks[k]
        BY <1>2, <2>2
      <3> QED
        BY <1>3, <3>1
    <2> QED
      BY <1>3, <2>1, <2>2 DEF HooksLead
  <1>4. ASSUME \A j \in DOMAIN hooks' : hooks'[j] = "delete"
        PROVE  copy'.hidden <=> hidden
    <2>1. ASSUME NEW k \in DOMAIN hooks, k > 1 PROVE hooks[k] = "delete"
      <3>1. k - 1 \in DOMAIN hooks' /\ hooks'[k - 1] = hooks[k]
        BY <1>2, <2>1
      <3> QED
        BY <1>4, <3>1
    <2>2. CASE hooks[1] = "delete"
      <3>1. \A j \in DOMAIN hooks : hooks[j] = "delete"
        BY <1>2, <2>1, <2>2
      <3>2. copy.hidden <=> hidden
        BY <3>1 DEF HooksLead
      <3> QED
        BY <1>2, <2>2, <3>2 DEF HiddenAfter
    <2>3. CASE hooks[1] # "delete"
      <3>1. (hooks[1] = "hide") <=> hidden
        BY <1>2, <2>1, <2>3 DEF HooksLead
      <3> QED
        BY <1>2, <2>3, <3>1 DEF HiddenAfter, Actions
    <2> QED
      BY <2>2, <2>3
  <1> QED
    BY <1>3, <1>4 DEF HooksLead

LEMMA WebhookKeeps ==
    ASSUME ModerationInv, applyPlatformModeration
    PROVE  ModerationInv'
  <1>1. PICK act \in Actions : act = Head(hooks)
    BY SameHistories DEF applyPlatformModeration
  <1>2. /\ copy.hidden \in BOOLEAN /\ copy.gone \in BOOLEAN /\ copy.byUs \in BOOLEAN
        /\ clock \in 0 .. LastStamp
    BY SameHistories DEF CopyType, ModerationInv, ModerationTables
  <1>3. PICK h \in BOOLEAN : h = HiddenAfter(copy.hidden, act)
    BY <1>2 DEF HiddenAfter
  <1>4. PICK g \in BOOLEAN : g = (copy.gone \/ act = "delete")
    BY <1>2
  <1>5. /\ hooks # << >> /\ copy' = [copy EXCEPT !.hidden = h, !.gone = g, !.updatedAt = clock]
        /\ hooks' = Tail(hooks)
        /\ UNCHANGED <<clock, event, platform, reports, outside, asked, died, overtook>>
    BY <1>1, <1>3, <1>4 DEF applyPlatformModeration
  <1>6. copy' \in CopyType /\ copy'.hidden = h /\ copy'.gone = g
    BY <1>2, <1>5, SameHistories DEF CopyType
  <1>7. hooks' \in Seq(Actions) /\ 1 \in DOMAIN hooks /\ hooks[1] = act
        /\ \A j \in DOMAIN hooks' : j + 1 \in DOMAIN hooks /\ hooks'[j] = hooks[j + 1]
    BY <1>1, <1>5, SameHistories, HeadTailProperties
  <1>8. ModerationTables'
    BY <1>5, <1>6, <1>7 DEF ModerationInv, ModerationTables, ModerationTypeOK
  <1>9. ClicksDoNotPileUp' /\ AskedByOneWhoMay' /\ DeathsAreCounted'
    BY <1>5 DEF ModerationInv, ClicksDoNotPileUp, AskedByOneWhoMay, AllowedTo, DeathsAreCounted
  <1>10. DeletesAgree'
    <2>1. (\E j \in DOMAIN hooks' : hooks'[j] = "delete") => \E j \in DOMAIN hooks : hooks[j] = "delete"
      BY <1>7
    <2>2. copy'.gone => copy.gone \/ \E j \in DOMAIN hooks : hooks[j] = "delete"
      BY <1>4, <1>6, <1>7
    <2>3. copy.gone => copy'.gone
      BY <1>4, <1>6
    <2> QED
      BY <1>5, <2>1, <2>2, <2>3 DEF ModerationInv, DeletesAgree
  <1>11. SilenceLeaves'
    BY <1>5 DEF ModerationInv, SilenceLeaves
  <1>12. LastWordCounts'
    <2>1. \A x \in BOOLEAN : HooksLead(x) => HooksLead(x)'
      BY <1>1, <1>2, <1>3, <1>5, <1>6, SameHistories, WebhookApplied
    <2>2. ASSUME NEW m \in DOMAIN event, HooksLead(Hides(m)) PROVE HooksLead(Hides(m))'
      <3>1. PICK x \in BOOLEAN : x = Hides(m)
        BY DEF Hides
      <3>2. Hides(m)' = x
        BY <1>5, <3>1 DEF Hides
      <3> QED
        BY <2>1, <2>2, <3>1, <3>2
    <2>3. \A m \in DOMAIN event : (Word(m)' <=> Word(m)) /\ (Hides(m)' <=> Hides(m))
      BY <1>5 DEF Word, Hides
    <2> QED
      BY <1>5, <2>1, <2>2, <2>3 DEF ModerationInv, LastWordCounts
  <1> QED
    BY <1>8, <1>9, <1>10, <1>11, <1>12 DEF ModerationInv

LEMMA ModerationRests ==
    ASSUME ModerationInv, clock' \in 0 .. LastStamp,
           UNCHANGED <<copy, event, platform, hooks, reports, outside, asked, died, overtook>>
    PROVE  ModerationInv'
  BY DEF ModerationInv, ModerationTables, ModerationTypeOK, ClicksDoNotPileUp, AskedByOneWhoMay,
         AllowedTo, DeathsAreCounted, DeletesAgree, SilenceLeaves, LastWordCounts, Word, Hides,
         HooksLead

LEMMA ModerationStarts == ModerationInit => ModerationInv
  <1> SUFFICES ASSUME ModerationInit PROVE ModerationInv
    OBVIOUS
  <1>1. 0 \in 0 .. LastStamp /\ 0 <= MaxModerations
    BY ModerationAssumption
  <1>2. event = << >> /\ hooks = << >> /\ ~copy.hidden /\ ~copy.gone /\ ~platform.hidden
        /\ ~platform.gone
    BY DEF ModerationInit
  <1>3. ModerationTables
    <2>1. copy \in CopyType /\ platform \in [hidden : BOOLEAN, gone : BOOLEAN]
      BY <1>1 DEF ModerationInit, CopyType
    <2>2. event \in Seq(EventType) /\ hooks \in Seq(Actions)
      BY <1>2
    <2>3. /\ asked \in Seq(Agents) /\ died \in Seq(Nat)
          /\ Len(event) = 0 /\ Len(asked) = 0 /\ Len(died) = 0
      BY DEF ModerationInit
    <2> QED
      BY <1>1, <2>1, <2>2, <2>3 DEF ModerationInit, ModerationTables, ModerationTypeOK
  <1>4. ClicksDoNotPileUp /\ AskedByOneWhoMay /\ DeathsAreCounted
    BY <1>2 DEF ClicksDoNotPileUp, AskedByOneWhoMay, DeathsAreCounted
  <1>5. DeletesAgree /\ SilenceLeaves /\ LastWordCounts
    BY <1>2 DEF DeletesAgree, SilenceLeaves, LastWordCounts, HooksLead
  <1> QED
    BY <1>3, <1>4, <1>5 DEF ModerationInv

LEMMA ModerationStep == ModerationInv /\ [ModerationNext]_moderationVars => ModerationInv'
  <1> SUFFICES ASSUME ModerationInv, [ModerationNext]_moderationVars PROVE ModerationInv'
    OBVIOUS
  <1>1. CASE UNCHANGED moderationVars
    BY <1>1, ModerationRests DEF moderationVars, ModerationInv, ModerationTables
  <1>2. CASE AMillisecond
    <2>1. clock' \in 0 .. LastStamp
      BY <1>2, ModerationAssumption DEF AMillisecond, ModerationInv, ModerationTables
    <2> QED
      BY <1>2, <2>1, ModerationRests DEF AMillisecond
  <1> QED
    BY <1>1, <1>2, RetryKeeps, ClickKeeps, DeliverKeeps, SetbackKeeps, OthersKeep, WebhookKeeps
       DEF ModerationNext

THEOREM ModerationInvariant == ModerationSpec => []ModerationInv
  BY ModerationStarts, ModerationStep, PTL DEF ModerationSpec

\* However many agents click, retry and replay at once: nothing is queued behind
\* a delete, what waits was asked for by one who may, and no event goes out again
\* more often than it may (moderateComment, retryModeration, requeueDeadLettered).
THEOREM ModerationStaysBounded == ModerationSpec => []ModerationIsBounded
  <1>1. ModerationInv => ModerationIsBounded
    <2> SUFFICES ASSUME ModerationInv PROVE ReplaysAreBounded
      BY DEF ModerationInv, ModerationTables, ModerationIsBounded
    <2> SUFFICES ASSUME NEW i \in DOMAIN event
                 PROVE  event[i].replays <= died[i] /\ died[i] <= MaxReplays + 1
      BY DEF ReplaysAreBounded
    <2>1. event[i].replays \in Nat /\ MaxReplays \in Nat
      BY SameHistories, EventNames
    <2>2. /\ event[i].replays <= MaxReplays
          /\ died[i] = event[i].replays + (IF event[i].status = "dead" THEN 1 ELSE 0)
      BY DEF ModerationInv, DeathsAreCounted
    <2> QED
      BY <2>1, <2>2
  <1> QED
    BY <1>1, ModerationInvariant, PTL

\* When nothing is under way the copy says what is true on the platform, or the
\* comment is flagged: for any number of agents and events, whatever fails, is
\* sent twice or is reported late, as long as no event overtakes another and
\* nobody else changes the comment (moderateComment, applyOwnModeration).
THEOREM DisagreementsSurface == ModerationSpec => []DisagreementSurfaces
  <1>1. ASSUME ModerationInv, \A i \in DOMAIN event : event[i].status # "pending",
               hooks = << >>, outside = 0, ~overtook, Dead = {}
        PROVE  copy.hidden = platform.hidden /\ copy.gone = platform.gone
    <2>1. \A i \in DOMAIN event : event[i].status = "sent"
      BY <1>1, SameHistories, EventNames DEF Dead
    <2>2. /\ copy.hidden \in BOOLEAN /\ copy.gone \in BOOLEAN
          /\ platform.hidden \in BOOLEAN /\ platform.gone \in BOOLEAN
      BY <1>1, SameHistories DEF CopyType, ModerationInv, ModerationTables, ModerationTypeOK
    <2>3. copy.gone <=> platform.gone
      BY <1>1, <2>1 DEF ModerationInv, DeletesAgree
    <2>4. ASSUME NEW x \in BOOLEAN, HooksLead(x) PROVE copy.hidden <=> x
      BY <1>1, <2>4 DEF HooksLead
    <2>5. CASE \A i \in DOMAIN event : event[i].action = "delete"
      BY <1>1, <2>2, <2>3, <2>4, <2>5 DEF ModerationInv, LastWordCounts
    <2>6. CASE \E i \in DOMAIN event : event[i].action # "delete"
      <3>1. PICK W : W = {i \in DOMAIN event : event[i].action # "delete"}
        OBVIOUS
      <3>2. PICK m \in W : \A j \in W : j <= m
        <4>1. W \in SUBSET (1 .. Len(event)) /\ Len(event) \in Nat /\ W # {}
          BY <1>1, <2>6, <3>1, SameHistories
        <4> QED
          BY <4>1, LastOfSome
      <3>3. m \in DOMAIN event /\ Word(m)
        <4>1. m \in DOMAIN event /\ event[m].action # "delete"
          BY <3>1
        <4>2. ASSUME NEW k \in DOMAIN event, k > m PROVE event[k].action = "delete"
          <5>1. k \in Nat /\ m \in Nat
            BY <1>1, <4>1, SameHistories
          <5>2. k \notin W
            BY <3>2, <4>2, <5>1
          <5> QED
            BY <3>1, <5>2
        <4> QED
          BY <4>1, <4>2 DEF Word
      <3>4. (platform.hidden <=> Hides(m)) /\ HooksLead(Hides(m))
        BY <1>1, <2>1, <3>3 DEF ModerationInv, LastWordCounts
      <3>5. PICK x \in BOOLEAN : x = Hides(m)
        BY DEF Hides
      <3> QED
        BY <2>2, <2>3, <2>4, <3>4, <3>5
    <2> QED
      BY <2>5, <2>6
  <1>2. ModerationInv => DisagreementSurfaces
    BY <1>1 DEF DisagreementSurfaces, findFailedModerationCommentIds
  <1> QED
    BY <1>2, ModerationInvariant, PTL

-----------------------------------------------------------------------------
(* The desk.                                                                 *)

ThreadRow ==
    [status : ThreadStatuses, lastInboundAt : Nat, assignedTo : Assignees \cup {Nobody},
     messageCount : Nat, unseen : BOOLEAN]

OutgoingRow == [key : IdemKeys, thread : Threads, note : BOOLEAN, queued : BOOLEAN]

ReplyRequest ==
    [what : {"reply"}, phase : {"read", "cleared"}, key : IdemKeys, thread : Threads,
     note : BOOLEAN, lastInboundAt : Nat, stale : BOOLEAN]

StatusRequest == [what : {"status"}, thread : Threads, status : ThreadStatuses, stale : BOOLEAN]

AssignRequest ==
    [what : {"assign"}, thread : Threads, to : Assignees \cup {Nobody}, stale : BOOLEAN]

DeskRequest == {NoRequest} \cup ReplyRequest \cup StatusRequest \cup AssignRequest

DeskTables ==
    /\ hour \in Nat
    /\ thread \in [Threads -> ThreadRow]
    /\ outgoing \in Seq(OutgoingRow)
    /\ request \in [Requests -> DeskRequest]
    /\ received \in [Threads -> Nat]

\* messages_idempotency_uniq.
KeysAreUnique ==
    \A i, j \in DOMAIN outgoing : outgoing[i].key = outgoing[j].key => i = j

DeskInv ==
    /\ DeskTables /\ KeysAreUnique /\ AnswerIsToTheRequest /\ CountFollowsMessages
    /\ NewMessageIsNotBuried

LEMMA RequestShapes ==
    ASSUME NEW q \in DeskRequest
    PROVE  /\ q.what = "reply" => q \in ReplyRequest
           /\ q.what = "status" => q \in StatusRequest
           /\ q.what = "assign" => q \in AssignRequest
           /\ q.what = "nothing" => q = NoRequest
  BY DEF DeskRequest, ReplyRequest, StatusRequest, AssignRequest, NoRequest

\* A step that only moves a request along.
LEMMA RequestMoves ==
    ASSUME DeskInv, request' \in [Requests -> DeskRequest], AnswerIsToTheRequest', hour' \in Nat,
           UNCHANGED <<thread, outgoing, received, overruled>>
    PROVE  DeskInv'
  BY DEF DeskInv, DeskTables, KeysAreUnique, CountFollowsMessages, NewMessageIsNotBuried

LEMMA RequestEnds ==
    ASSUME DeskInv, NEW r \in Requests, End(r)
    PROVE  request' \in [Requests -> DeskRequest]
  BY DEF End, DeskInv, DeskTables, DeskRequest

LEMMA BeginKeeps ==
    ASSUME DeskInv, NEW r \in Requests, NEW q \in DeskRequest, Begin(r, q)
    PROVE  DeskInv'
  <1>1. request' \in [Requests -> DeskRequest]
    BY DEF Begin, DeskInv, DeskTables
  <1> QED
    BY <1>1, RequestMoves DEF Begin, DeskInv, DeskTables, AnswerIsToTheRequest

LEMMA RequestIsRead ==
    ASSUME DeskInv, NEW r \in Requests, NEW t \in Threads
    PROVE  /\ \A key \in IdemKeys, note \in BOOLEAN : reply(r, key, t, note) => DeskInv'
           /\ \A status \in StatusesAsked : setStatus(r, t, status) => DeskInv'
           /\ \A e \in Assignees \cup {Nobody} : assign(r, t, e) => DeskInv'
  <1>1. ASSUME NEW key \in IdemKeys, NEW note \in BOOLEAN, reply(r, key, t, note)
        PROVE  DeskInv'
    <2>1. PICK q : q = [what |-> "reply", phase |-> "read", key |-> key, thread |-> t,
                        note |-> note, lastInboundAt |-> thread[t].lastInboundAt, stale |-> FALSE]
      OBVIOUS
    <2>2. thread[t].lastInboundAt \in Nat
      BY DEF DeskInv, DeskTables, ThreadRow
    <2>3. q \in DeskRequest
      BY <2>1, <2>2 DEF DeskRequest, ReplyRequest
    <2> QED
      BY <1>1, <2>1, <2>3, BeginKeeps DEF reply
  <1>2. ASSUME NEW status \in StatusesAsked, setStatus(r, t, status) PROVE DeskInv'
    <2>1. PICK q : q = [what |-> "status", thread |-> t, status |-> status, stale |-> FALSE]
      OBVIOUS
    <2>2. q \in DeskRequest
      BY <2>1, DeskAssumption DEF DeskRequest, StatusRequest, ThreadStatuses
    <2> QED
      BY <1>2, <2>1, <2>2, BeginKeeps DEF setStatus
  <1>3. ASSUME NEW e \in Assignees \cup {Nobody}, assign(r, t, e) PROVE DeskInv'
    <2>1. PICK q : q = [what |-> "assign", thread |-> t, to |-> e, stale |-> FALSE]
      OBVIOUS
    <2>2. q \in DeskRequest
      BY <2>1 DEF DeskRequest, AssignRequest
    <2> QED
      BY <1>3, <2>1, <2>2, BeginKeeps DEF assign
  <1> QED
    BY <1>1, <1>2, <1>3

\* A used key answers with the row that has it, if that is what was asked for.
LEMMA AnswerKeeps ==
    ASSUME DeskInv, NEW r \in Requests, findByIdempotencyKey(r)
    PROVE  DeskInv'
  <1>1. PICK q : q = request[r]
    OBVIOUS
  <1>2. PICK i \in HeldBy(q.key) : IF SameRequest(q, outgoing[i]) THEN Answer(q, i)
                                                                 ELSE UNCHANGED answered
    BY <1>1 DEF findByIdempotencyKey
  <1>3. AnswerIsToTheRequest'
    <2>1. CASE SameRequest(q, outgoing[i])
      BY <1>2, <2>1 DEF Answer, SameRequest, DeskInv, AnswerIsToTheRequest
    <2>2. CASE ~SameRequest(q, outgoing[i])
      BY <1>2, <2>2 DEF DeskInv, AnswerIsToTheRequest
    <2> QED
      BY <2>1, <2>2
  <1>4. hour' \in Nat /\ UNCHANGED <<thread, outgoing, received, overruled>>
    BY DEF findByIdempotencyKey, DeskInv, DeskTables
  <1> QED
    BY <1>3, <1>4, RequestEnds, RequestMoves DEF findByIdempotencyKey

LEMMA CheckKeeps ==
    ASSUME DeskInv, NEW r \in Requests, NEW healthy \in BOOLEAN, NEW quotable \in BOOLEAN,
           CheckReply(r, healthy, quotable)
    PROVE  DeskInv'
  <1>1. PICK q \in ReplyRequest : q = request[r]
    BY RequestShapes DEF CheckReply, DeskInv, DeskTables
  <1>2. PICK next : next = [q EXCEPT !.phase = "cleared"]
    OBVIOUS
  <1>3. next \in DeskRequest /\ NoRequest \in DeskRequest
    BY <1>1, <1>2 DEF DeskRequest, ReplyRequest
  <1>4. request' = [request EXCEPT ![r] = next] \/ request' = [request EXCEPT ![r] = NoRequest]
    BY <1>1, <1>2 DEF CheckReply
  <1>5. request' \in [Requests -> DeskRequest]
    BY <1>3, <1>4 DEF DeskInv, DeskTables
  <1>6. /\ UNCHANGED <<thread, outgoing, received, overruled>> /\ hour' \in Nat
        /\ AnswerIsToTheRequest'
    BY DEF CheckReply, DeskInv, DeskTables, AnswerIsToTheRequest
  <1> QED
    BY <1>5, <1>6, RequestMoves

\* A thread is written over: the other threads are left alone.
LEMMA ThreadWritten ==
    ASSUME DeskInv, NEW t \in Threads, NEW row \in ThreadRow, thread' = [thread EXCEPT ![t] = row]
    PROVE  /\ thread' \in [Threads -> ThreadRow] /\ thread'[t] = row
           /\ \A u \in Threads \ {t} : thread'[u] = thread[u]
  BY DEF DeskInv, DeskTables

MessagesOf(t) == {i \in DOMAIN outgoing : outgoing[i].thread = t}

LEMMA MessagesAreFinite ==
    ASSUME DeskInv, NEW t \in Threads
    PROVE  IsFiniteSet(MessagesOf(t)) /\ Cardinality(MessagesOf(t)) \in Nat
  <1>1. MessagesOf(t) \subseteq 1 .. Len(outgoing) /\ Len(outgoing) \in Nat
    BY DEF MessagesOf, DeskInv, DeskTables
  <1>2. IsFiniteSet(1 .. Len(outgoing))
    BY <1>1, FS_Interval
  <1>3. IsFiniteSet(MessagesOf(t))
    BY <1>1, <1>2, FS_Subset
  <1> QED
    BY <1>3, FS_CardinalityType

\* The second of two requests with one key writes nothing.
LEMMA CommitKeeps ==
    ASSUME DeskInv, NEW r \in Requests, CommitReply(r)
    PROVE  DeskInv'
  <1>1. PICK q \in ReplyRequest : q = request[r]
    BY RequestShapes DEF CommitReply, DeskInv, DeskTables
  <1>2. q.thread \in Threads /\ q.key \in IdemKeys /\ q.note \in BOOLEAN
    BY <1>1 DEF ReplyRequest
  <1>3. /\ UNCHANGED <<hour, received, answered, overruled>>
        /\ request' \in [Requests -> DeskRequest]
    BY RequestEnds DEF CommitReply
  <1>4. CASE HeldBy(q.key) # {}
    <2>1. thread' = thread /\ outgoing' = outgoing
      BY <1>1, <1>4 DEF CommitReply, CollidesOnKey, recordMessage
    <2> QED
      BY <1>3, <2>1, RequestMoves DEF DeskInv, DeskTables, AnswerIsToTheRequest
  <1>5. CASE HeldBy(q.key) = {}
    <2>1. PICK n \in Nat : n = Len(outgoing) /\ DOMAIN outgoing = 1 .. n
      BY DEF DeskInv, DeskTables
    <2>2. PICK m : m = [key |-> q.key, thread |-> q.thread, note |-> q.note, queued |-> ~q.note]
      OBVIOUS
    <2>3. m \in OutgoingRow /\ m.key = q.key /\ m.thread = q.thread
      BY <1>2, <2>2 DEF OutgoingRow
    <2>4. outgoing' = Append(outgoing, m)
      BY <1>1, <1>5, <2>2 DEF CommitReply, CollidesOnKey
    <2>5. /\ outgoing' \in Seq(OutgoingRow) /\ DOMAIN outgoing' = 1 .. n + 1
          /\ outgoing'[n + 1] = m /\ \A i \in 1 .. n : outgoing'[i] = outgoing[i]
      BY <2>1, <2>3, <2>4 DEF DeskInv, DeskTables
    <2>6. PICK old \in ThreadRow : old = thread[q.thread]
      BY <1>2 DEF DeskInv, DeskTables
    <2>7. PICK row : row = [old EXCEPT !.messageCount = old.messageCount + 1]
      OBVIOUS
    <2>8. /\ row \in ThreadRow /\ row.messageCount = old.messageCount + 1
          /\ row.status = old.status /\ row.unseen = old.unseen
      BY <2>6, <2>7 DEF ThreadRow
    <2>9. thread' = [thread EXCEPT ![q.thread] = row]
      BY <1>1, <1>5, <2>6, <2>7 DEF CommitReply, CollidesOnKey, recordMessage
    <2>10. /\ thread' \in [Threads -> ThreadRow] /\ thread'[q.thread] = row
           /\ \A u \in Threads \ {q.thread} : thread'[u] = thread[u]
      BY <1>2, <2>8, <2>9, ThreadWritten
    <2>11. KeysAreUnique'
      <3>1. \A i \in 1 .. n : outgoing[i].key # q.key
        BY <1>5, <2>1 DEF HeldBy
      <3>2. \A i, j \in 1 .. n : outgoing[i].key = outgoing[j].key => i = j
        BY <2>1 DEF DeskInv, KeysAreUnique
      <3> SUFFICES ASSUME NEW i \in 1 .. n + 1, NEW j \in 1 .. n + 1,
                          outgoing'[i].key = outgoing'[j].key
                   PROVE  i = j
        BY <2>5 DEF KeysAreUnique
      <3>3. i \in 1 .. n \/ i = n + 1
        OBVIOUS
      <3>4. j \in 1 .. n \/ j = n + 1
        OBVIOUS
      <3> QED
        BY <2>3, <2>5, <3>1, <3>2, <3>3, <3>4
    <2>12. CountFollowsMessages'
      <3> SUFFICES ASSUME NEW t \in Threads
                   PROVE  thread'[t].messageCount = received'[t] + Cardinality(MessagesOf(t)')
        BY DEF CountFollowsMessages, MessagesOf
      <3>1. /\ thread[t].messageCount = received[t] + Cardinality(MessagesOf(t))
            /\ IsFiniteSet(MessagesOf(t)) /\ Cardinality(MessagesOf(t)) \in Nat
            /\ received[t] \in Nat /\ received'[t] = received[t]
        BY <1>3, MessagesAreFinite DEF DeskInv, DeskTables, CountFollowsMessages, MessagesOf
      <3>2. CASE t = q.thread
        <4>1. MessagesOf(t)' = MessagesOf(t) \cup {n + 1} /\ n + 1 \notin MessagesOf(t)
          BY <2>1, <2>3, <2>5, <3>2 DEF MessagesOf
        <4>2. Cardinality(MessagesOf(t)') = Cardinality(MessagesOf(t)) + 1
          BY <3>1, <4>1, FS_AddElement
        <4>3. thread'[t].messageCount = thread[t].messageCount + 1
          BY <2>6, <2>8, <2>10, <3>2
        <4> QED
          BY <3>1, <4>2, <4>3
      <3>3. CASE t # q.thread
        <4>1. MessagesOf(t)' = MessagesOf(t)
          BY <2>1, <2>3, <2>5, <3>3 DEF MessagesOf
        <4> QED
          BY <2>10, <3>1, <3>3, <4>1
      <3> QED
        BY <3>2, <3>3
    <2>13. NewMessageIsNotBuried'
      BY <1>3, <2>6, <2>8, <2>10 DEF DeskInv, NewMessageIsNotBuried
    <2>14. AnswerIsToTheRequest' /\ DeskTables'
      BY <1>3, <2>5, <2>10 DEF DeskInv, DeskTables, AnswerIsToTheRequest
    <2> QED
      BY <2>11, <2>12, <2>13, <2>14 DEF DeskInv
  <1> QED
    BY <1>4, <1>5

\* A write that leaves every thread's count alone.
LEMMA CountsRest ==
    ASSUME DeskInv, outgoing' = outgoing,
           \A t \in Threads : thread'[t].messageCount - thread[t].messageCount
                                = received'[t] - received[t],
           \A t \in Threads : thread'[t].messageCount \in Nat /\ received'[t] \in Nat
    PROVE  CountFollowsMessages'
  <1> SUFFICES ASSUME NEW t \in Threads
               PROVE  thread'[t].messageCount = received'[t] + Cardinality(MessagesOf(t)')
    BY DEF CountFollowsMessages, MessagesOf
  <1>1. MessagesOf(t)' = MessagesOf(t)
    BY DEF MessagesOf
  <1>2. /\ thread[t].messageCount = received[t] + Cardinality(MessagesOf(t))
        /\ Cardinality(MessagesOf(t)) \in Nat /\ received[t] \in Nat
    BY MessagesAreFinite DEF DeskInv, DeskTables, CountFollowsMessages, MessagesOf
  <1> QED
    BY <1>1, <1>2

\* A status decided on what was read overrules a later message, and is known to.
LEMMA StatusKeeps ==
    ASSUME DeskInv, NEW r \in Requests, WriteThreadStatus(r)
    PROVE  DeskInv'
  <1>1. PICK q \in StatusRequest : q = request[r]
    BY RequestShapes DEF WriteThreadStatus, DeskInv, DeskTables
  <1>2. q.thread \in Threads /\ q.status \in ThreadStatuses /\ q.stale \in BOOLEAN
    BY <1>1 DEF StatusRequest
  <1>3. PICK old \in ThreadRow : old = thread[q.thread]
    BY <1>2 DEF DeskInv, DeskTables
  <1>4. PICK u \in BOOLEAN : u = (old.unseen /\ q.stale)
    BY <1>2, <1>3 DEF ThreadRow
  <1>5. PICK row : row = [old EXCEPT !.status = q.status, !.unseen = u]
    OBVIOUS
  <1>6. row \in ThreadRow /\ row.messageCount = old.messageCount /\ row.unseen = u
    BY <1>2, <1>5 DEF ThreadRow
  <1>7. /\ UNCHANGED <<hour, outgoing, received, answered>>
        /\ overruled' = IF q.stale THEN overruled \cup {q.thread} ELSE overruled \ {q.thread}
        /\ request' \in [Requests -> DeskRequest]
    BY <1>1, RequestEnds DEF WriteThreadStatus
  <1>8. thread' = [thread EXCEPT ![q.thread] = row]
    BY <1>1, <1>2, <1>3, <1>4, <1>5 DEF WriteThreadStatus, DeskInv, DeskTables
  <1>9. /\ thread' \in [Threads -> ThreadRow] /\ thread'[q.thread] = row
        /\ \A t \in Threads \ {q.thread} : thread'[t] = thread[t]
    BY <1>2, <1>6, <1>8, ThreadWritten
  <1>10. CountFollowsMessages'
    <2>1. \A t \in Threads : /\ thread'[t].messageCount = thread[t].messageCount
                             /\ thread[t].messageCount \in Nat /\ received[t] \in Nat
      BY <1>3, <1>6, <1>9 DEF DeskInv, DeskTables, ThreadRow
    <2> QED
      BY <1>7, <2>1, CountsRest
  <1>11. NewMessageIsNotBuried'
    <2> SUFFICES ASSUME NEW t \in Threads, thread'[t].unseen, thread'[t].status \in CLOSED_TO_REPLIES
                 PROVE  t \in overruled'
      BY DEF NewMessageIsNotBuried
    <2>1. CASE t = q.thread
      BY <1>4, <1>6, <1>7, <1>9, <2>1
    <2>2. CASE t # q.thread
      BY <1>7, <1>9, <2>2 DEF DeskInv, NewMessageIsNotBuried
    <2> QED
      BY <2>1, <2>2
  <1>12. DeskTables' /\ KeysAreUnique' /\ AnswerIsToTheRequest'
    BY <1>7, <1>9 DEF DeskInv, DeskTables, KeysAreUnique, AnswerIsToTheRequest
  <1> QED
    BY <1>10, <1>11, <1>12 DEF DeskInv

LEMMA AssigneeKeeps ==
    ASSUME DeskInv, NEW r \in Requests, WriteAssignee(r)
    PROVE  DeskInv'
  <1>1. PICK q \in AssignRequest : q = request[r]
    BY RequestShapes DEF WriteAssignee, DeskInv, DeskTables
  <1>2. q.thread \in Threads /\ q.to \in Assignees \cup {Nobody}
    BY <1>1 DEF AssignRequest
  <1>3. PICK old \in ThreadRow : old = thread[q.thread]
    BY <1>2 DEF DeskInv, DeskTables
  <1>4. PICK row : row = [old EXCEPT !.assignedTo = q.to]
    OBVIOUS
  <1>5. /\ row \in ThreadRow /\ row.messageCount = old.messageCount
        /\ row.unseen = old.unseen /\ row.status = old.status
    BY <1>2, <1>4 DEF ThreadRow
  <1>6. /\ UNCHANGED <<hour, outgoing, received, answered, overruled>>
        /\ request' \in [Requests -> DeskRequest]
        /\ thread' = [thread EXCEPT ![q.thread] = row]
    BY <1>1, <1>3, <1>4, RequestEnds DEF WriteAssignee
  <1>7. /\ thread' \in [Threads -> ThreadRow] /\ thread'[q.thread] = row
        /\ \A t \in Threads \ {q.thread} : thread'[t] = thread[t]
    BY <1>2, <1>5, <1>6, ThreadWritten
  <1>8. CountFollowsMessages'
    <2>1. \A t \in Threads : /\ thread'[t].messageCount = thread[t].messageCount
                             /\ thread[t].messageCount \in Nat /\ received[t] \in Nat
      BY <1>3, <1>5, <1>7 DEF DeskInv, DeskTables, ThreadRow
    <2> QED
      BY <1>6, <2>1, CountsRest
  <1>9. NewMessageIsNotBuried'
    BY <1>3, <1>5, <1>6, <1>7 DEF DeskInv, NewMessageIsNotBuried
  <1>10. DeskTables' /\ KeysAreUnique' /\ AnswerIsToTheRequest'
    BY <1>6, <1>7 DEF DeskInv, DeskTables, KeysAreUnique, AnswerIsToTheRequest
  <1> QED
    BY <1>8, <1>9, <1>10 DEF DeskInv

\* A message reopens the thread it comes to.
LEMMA MessageKeeps ==
    ASSUME DeskInv, NEW t \in Threads, CustomerWrites(t)
    PROVE  DeskInv'
  <1>1. PICK old \in ThreadRow : old = thread[t]
    BY DEF DeskInv, DeskTables
  <1>2. PICK row : row = [old EXCEPT !.status = StatusAfterMessage(old.status), !.lastInboundAt = hour,
                                     !.messageCount = old.messageCount + 1, !.unseen = TRUE]
    OBVIOUS
  <1>3. /\ StatusAfterMessage(old.status) \in ThreadStatuses
        /\ StatusAfterMessage(old.status) \notin CLOSED_TO_REPLIES
    BY <1>1 DEF StatusAfterMessage, ThreadRow, ThreadStatuses, CLOSED_TO_REPLIES
  <1>4. /\ row \in ThreadRow /\ row.messageCount = old.messageCount + 1
        /\ row.status \notin CLOSED_TO_REPLIES
    <2>1. hour \in Nat /\ old.messageCount + 1 \in Nat
      BY <1>1 DEF DeskInv, DeskTables, ThreadRow
    <2> QED
      BY <1>2, <1>3, <2>1 DEF ThreadRow
  <1>5. /\ UNCHANGED <<hour, outgoing, answered>> /\ overruled' = overruled \ {t}
        /\ received' = [received EXCEPT ![t] = received[t] + 1]
    BY DEF CustomerWrites
  <1>6. thread' = [thread EXCEPT ![t] = row]
    <2>1. thread' = [thread EXCEPT ![t].status = StatusAfterMessage(thread[t].status),
                                   ![t].lastInboundAt = hour,
                                   ![t].messageCount = thread[t].messageCount + 1,
                                   ![t].unseen = TRUE]
      BY DEF CustomerWrites
    <2> QED
      BY <1>1, <1>2, <2>1 DEF DeskInv, DeskTables, ThreadRow
  <1>7. /\ thread' \in [Threads -> ThreadRow] /\ thread'[t] = row
        /\ \A u \in Threads \ {t} : thread'[u] = thread[u]
    BY <1>4, <1>6, ThreadWritten
  <1>8. request' \in [Requests -> DeskRequest]
    <2>1. ASSUME NEW q \in DeskRequest, q.what # "nothing"
          PROVE  [q EXCEPT !.stale = TRUE] \in DeskRequest
      <3>1. CASE q \in ReplyRequest
        BY <3>1 DEF DeskRequest, ReplyRequest
      <3>2. CASE q \in StatusRequest
        BY <3>2 DEF DeskRequest, StatusRequest
      <3>3. CASE q \in AssignRequest
        BY <3>3 DEF DeskRequest, AssignRequest
      <3> QED
        BY <2>1, <3>1, <3>2, <3>3 DEF DeskRequest, NoRequest
    <2>2. request' = [r \in Requests |-> IF request[r].what # "nothing" /\ request[r].thread = t
                                         THEN [request[r] EXCEPT !.stale = TRUE] ELSE request[r]]
      BY DEF CustomerWrites
    <2>3. \A r \in Requests : request[r] \in DeskRequest
      BY DEF DeskInv, DeskTables
    <2> QED
      BY <2>1, <2>2, <2>3
  <1>9. received' \in [Threads -> Nat] /\ received'[t] = received[t] + 1
        /\ \A u \in Threads \ {t} : received'[u] = received[u]
    BY <1>5 DEF DeskInv, DeskTables
  <1>10. CountFollowsMessages'
    <2>1. \A u \in Threads : thread'[u].messageCount \in Nat /\ thread[u].messageCount \in Nat
                             /\ received'[u] \in Nat /\ received[u] \in Nat
      BY <1>7, <1>9 DEF DeskInv, DeskTables, ThreadRow
    <2>2. ASSUME NEW u \in Threads
          PROVE  thread'[u].messageCount - thread[u].messageCount = received'[u] - received[u]
      <3>1. CASE u = t
        BY <1>1, <1>4, <1>7, <1>9, <2>1, <3>1
      <3>2. CASE u # t
        BY <1>7, <1>9, <2>1, <3>2
      <3> QED
        BY <3>1, <3>2
    <2> QED
      BY <1>5, <2>1, <2>2, CountsRest
  <1>11. NewMessageIsNotBuried'
    BY <1>4, <1>5, <1>7 DEF DeskInv, NewMessageIsNotBuried
  <1>12. DeskTables' /\ KeysAreUnique' /\ AnswerIsToTheRequest'
    BY <1>5, <1>7, <1>8, <1>9 DEF DeskInv, DeskTables, KeysAreUnique, AnswerIsToTheRequest
  <1> QED
    BY <1>10, <1>11, <1>12 DEF DeskInv

LEMMA DeskRests == ASSUME DeskInv, UNCHANGED deskVars PROVE DeskInv'
  BY RequestMoves DEF deskVars, DeskInv, DeskTables, AnswerIsToTheRequest

LEMMA DeskStarts == DeskInit => DeskInv
  <1> SUFFICES ASSUME DeskInit PROVE DeskInv
    OBVIOUS
  <1>1. PICK row : row = [status |-> "open", lastInboundAt |-> Never, assignedTo |-> Nobody,
                          messageCount |-> 0, unseen |-> FALSE]
    OBVIOUS
  <1>2. row \in ThreadRow /\ row.messageCount = 0 /\ ~row.unseen
    BY <1>1 DEF ThreadRow, ThreadStatuses, Never
  <1>3. thread = [t \in Threads |-> row] /\ outgoing = << >> /\ received = [t \in Threads |-> 0]
    BY <1>1 DEF DeskInit
  <1>4. DeskTables
    <2>1. outgoing \in Seq(OutgoingRow)
      BY <1>3
    <2>2. thread \in [Threads -> ThreadRow] /\ received \in [Threads -> Nat]
      BY <1>2, <1>3
    <2>3. hour \in Nat /\ request \in [Requests -> DeskRequest]
      BY DEF DeskInit, DeskRequest
    <2> QED
      BY <2>1, <2>2, <2>3 DEF DeskTables
  <1>5. CountFollowsMessages
    <2> SUFFICES ASSUME NEW t \in Threads
                 PROVE  thread[t].messageCount = received[t] + Cardinality(MessagesOf(t))
      BY DEF CountFollowsMessages, MessagesOf
    <2>1. MessagesOf(t) = {}
      BY <1>3 DEF MessagesOf
    <2> QED
      BY <1>2, <1>3, <2>1, FS_EmptySet
  <1>6. KeysAreUnique /\ AnswerIsToTheRequest /\ NewMessageIsNotBuried
    BY <1>2, <1>3 DEF DeskInit, KeysAreUnique, AnswerIsToTheRequest, NewMessageIsNotBuried
  <1> QED
    BY <1>4, <1>5, <1>6 DEF DeskInv

LEMMA DeskStep == DeskInv /\ [DeskNext]_deskVars => DeskInv'
  <1> SUFFICES ASSUME DeskInv, [DeskNext]_deskVars PROVE DeskInv'
    OBVIOUS
  <1>1. CASE AnHourPasses
    BY <1>1, RequestMoves DEF AnHourPasses, DeskInv, DeskTables, AnswerIsToTheRequest
  <1>2. ASSUME NEW r \in Requests, RequestLost(r) PROVE DeskInv'
    BY <1>2, RequestEnds, RequestMoves DEF RequestLost, DeskInv, DeskTables, AnswerIsToTheRequest
  <1> QED
    BY <1>1, <1>2, DeskRests, RequestIsRead, AnswerKeeps, CheckKeeps, CommitKeeps, StatusKeeps,
       AssigneeKeeps, MessageKeeps DEF DeskNext

THEOREM DeskInvariant == DeskSpec => []DeskInv
  BY DeskStarts, DeskStep, PTL DEF DeskSpec

\* A request sent again adds nothing and is answered with what it asked for,
\* however many are handled at once (reply, messages_idempotency_uniq).
THEOREM RepliesAreIdempotent == DeskSpec => []ReplyIsIdempotent
  <1>1. ASSUME DeskInv, NEW key PROVE Cardinality(HeldBy(key)) <= 1
    <2>1. CASE HeldBy(key) = {}
      BY <2>1, FS_EmptySet
    <2>2. CASE HeldBy(key) # {}
      <3>1. PICK i \in HeldBy(key) : TRUE
        BY <2>2
      <3>2. \A j \in HeldBy(key) : j = i
        BY <1>1, <3>1 DEF HeldBy, DeskInv, KeysAreUnique
      <3>3. HeldBy(key) = {i}
        BY <3>1, <3>2
      <3>4. Cardinality(HeldBy(key)) = 1
        BY <3>3, FS_Singleton
      <3> QED
        BY <3>4
    <2> QED
      BY <2>1, <2>2
  <1>2. DeskInv => ReplyIsIdempotent
    BY <1>1 DEF ReplyIsIdempotent, OneMessagePerKey, DeskInv
  <1> QED
    BY <1>2, DeskInvariant, PTL

\* What agents see of a thread is true of it, for any number of requests that
\* read it before a message came and write after it (recordMessage, upsert,
\* setStatus, evaluateReplyWindow).
THEOREM ThreadsAreTrue == DeskSpec => []ThreadStateIsTrue
  <1>1. OfferedReplyIsTaken
    BY DEF OfferedReplyIsTaken, canReply, ClosedFor, evaluateReplyWindow, CLOSED_TO_REPLIES,
           ThreadStatuses
  <1>2. DeskInv => ThreadStateIsTrue
    BY <1>1 DEF DeskInv, ThreadStateIsTrue
  <1> QED
    BY <1>2, DeskInvariant, PTL

-----------------------------------------------------------------------------
(* Reward programmes.                                                        *)

VersionRow ==
    [status : {"draft", "active", "paused", "archived"}, details : Nat,
     stated : [triggers : SUBSET Triggers]]

EditRequest ==
    {NoEdit}
    \cup [stage : {"checked", "locked"}, triggers : SUBSET Triggers, terms : FormTerms]
    \cup [stage : {"retired"}, triggers : SUBSET Triggers, terms : FormTerms, retired : SUBSET Nat]

ProgramTables ==
    /\ programme \in ProgramRow /\ ruleRows \in Seq(RuleRow)
    /\ editing \in [Editors -> EditRequest]
    /\ versions \in Seq(VersionRow)

\* An edit that is past its lock holds it, and its form was accepted.
EditHolds(e) ==
    /\ editing[e].stage # "none" => FormAccepted(editing[e].triggers, editing[e].terms)
    /\ editing[e].stage \in {"locked", "retired"} => rowLock = [by |-> e, how |-> "for update"]

\* What an edit has retired is as it was: switched off when it commits, locked
\* until then; and whatever else runs was switched on by hand in between.
RetiredStand(e) ==
    editing[e].stage = "retired" =>
        /\ editing[e].retired \subseteq ActiveIn(ruleRows)
        /\ \A r \in ActiveIn(ruleRows) \ editing[e].retired : ruleRows[r].switched

\* A rule of a form retired the rules of its trigger before it.
LaterReplaces ==
    \A r, o \in DOMAIN ruleRows :
        (r < o /\ ruleRows[r].trigger = ruleRows[o].trigger /\ ruleRows[o].made = "form")
            => (ruleRows[r].active => ruleRows[r].switched)

\* The rule a rule follows, which may have been switched on again.
Follows(r) ==
    LET prior == ruleRows[r].supersedes IN
    /\ ruleRows[r].version \in 1 .. r
    /\ prior # 0 =>
          /\ prior \in 1 .. (r - 1)
          /\ ruleRows[prior].trigger = ruleRows[r].trigger
          /\ ruleRows[prior].version + 1 = ruleRows[r].version
          /\ ruleRows[prior].active => ruleRows[prior].switched
          /\ \A o \in DOMAIN ruleRows \ {r} : ruleRows[o].supersedes = prior => ruleRows[prior].switched

FormRules == {r \in ActiveIn(ruleRows) : ruleRows[r].made = "form" /\ ~ruleRows[r].switched}

\* What runs untouched was written by one form.
OneFormRuns ==
    \E T \in SUBSET Triggers, terms \in FormTerms :
        /\ FormAccepted(T, terms)
        /\ \A r \in FormRules : ruleRows[r].trigger \in T /\ ruleRows[r].benefit = terms.benefit

ProgramsInv ==
    /\ ProgramTables /\ LaterReplaces /\ OneFormRuns /\ HistoryTellsTheProgramme
    /\ versions # << >>
    /\ \A e \in Editors : EditHolds(e) /\ RetiredStand(e)
    /\ \A r \in DOMAIN ruleRows : Follows(r)

LEMMA NumberedRules ==
    ASSUME ProgramsInv
    PROVE  /\ Len(ruleRows) \in Nat /\ DOMAIN ruleRows = 1 .. Len(ruleRows)
           /\ \A r \in DOMAIN ruleRows : ruleRows[r] \in RuleRow
           /\ ruleRows \in Seq(RuleRow)
  BY DEF ProgramsInv, ProgramTables

LEMMA TriggersAreFinite == ASSUME NEW T \in SUBSET Triggers PROVE IsFiniteSet(T)
  <1>1. IsFiniteSet(Triggers)
    BY ProgramsAssumption, FS_Union DEF Triggers
  <1> QED
    BY <1>1, FS_Subset

\* What the form says of the days becomes a condition, and nothing else does.
LEMMA ConditionsOfForm ==
    ASSUME NEW terms \in FormTerms
    PROVE  /\ terms.capped \in BOOLEAN /\ terms.benefit \in Benefits
           /\ programConditions(terms) \in SUBSET ({ContentMatch} \cup (ScheduleDays \X Slots))
  <1>1. /\ terms.capped \in BOOLEAN /\ terms.benefit \in Benefits /\ terms.schedule \in Schedules
    BY ProgramsAssumption
  <1>2. PICK days \in SUBSET ScheduleDays : terms.schedule \in [days -> SUBSET Slots]
    BY <1>1 DEF Schedules
  <1>3. ASSUME NEW day \in DOMAIN terms.schedule,
               NEW slot \in IF terms.schedule[day] = {} THEN {"all"} ELSE terms.schedule[day]
        PROVE  <<day, slot>> \in ScheduleDays \X Slots
    <2>1. day \in ScheduleDays /\ terms.schedule[day] \in SUBSET Slots
      BY <1>2, <1>3
    <2>2. slot \in Slots
      BY <1>3, <2>1 DEF Slots
    <2> QED
      BY <2>1, <2>2
  <1>4. programConditions(terms) \in SUBSET ({ContentMatch} \cup (ScheduleDays \X Slots))
    BY <1>3 DEF programConditions
  <1> QED
    BY <1>1, <1>4

LEMMA RowByHand ==
    ASSUME NEW t \in Triggers, NEW terms \in FormTerms, NEW v \in Nat, NEW s \in Nat,
           NEW made \in {"form", "hand"}
    PROVE  /\ insertRule(t, v, s, terms, made) \in RuleRow
           /\ insertRule(t, v, s, terms, made).trigger = t
           /\ insertRule(t, v, s, terms, made).version = v
           /\ insertRule(t, v, s, terms, made).supersedes = s
           /\ insertRule(t, v, s, terms, made).active
           /\ ~insertRule(t, v, s, terms, made).switched
           /\ insertRule(t, v, s, terms, made).made = made
           /\ insertRule(t, v, s, terms, made).benefit = terms.benefit
  BY ConditionsOfForm DEF insertRule, RuleRow

\* Of the rules a trigger has had, one has the highest version.
LEMMA NewestOfSome ==
    ASSUME NEW rows, NEW N \in Nat, NEW P \in SUBSET (1 .. N), P # {},
           \A r \in 1 .. N : rows[r].version \in 1 .. r
    PROVE  \E r \in P : \A o \in P : rows[r].version >= rows[o].version
  <1> DEFINE V == {rows[r].version : r \in P}
  <1>1. V \in SUBSET (1 .. N) /\ V # {}
    <2>1. ASSUME NEW r \in P PROVE rows[r].version \in 1 .. N
      BY <2>1
    <2> QED
      BY <2>1
  <1> HIDE DEF V
  <1>2. PICK v \in V : \A o \in V : o <= v
    BY <1>1, LastOfSome
  <1>3. PICK r \in P : v = rows[r].version
    BY DEF V
  <1>4. ASSUME NEW o \in P PROVE rows[r].version >= rows[o].version
    <2>1. rows[o].version \in V /\ rows[o].version \in Nat /\ v \in Nat
      BY <1>1 DEF V
    <2> QED
      BY <1>2, <1>3, <2>1
  <1> QED
    BY <1>4

FormRow(row, T, terms, retired, rows) ==
    /\ row \in RuleRow /\ row.trigger \in T /\ row.active /\ ~row.switched
    /\ row.made = "form" /\ row.benefit = terms.benefit
    /\ \/ row.supersedes = 0 /\ row.version = 1
       \/ /\ row.supersedes \in retired /\ rows[row.supersedes].trigger = row.trigger
          /\ row.version = rows[row.supersedes].version + 1

\* The rules of a form: one for each trigger, following the newest of those it
\* retires.
LEMMA RowsOfForm ==
    ASSUME NEW T \in SUBSET Triggers, NEW terms \in FormTerms, NEW N \in Nat, NEW rows,
           NEW retired \in SUBSET (1 .. N), \A r \in 1 .. N : rows[r].version \in 1 .. r
    PROVE  /\ IsFiniteSet(RulesOfForm(T, terms, retired, rows))
           /\ \A row \in RulesOfForm(T, terms, retired, rows) : FormRow(row, T, terms, retired, rows)
           /\ \A row, other \in RulesOfForm(T, terms, retired, rows) :
                 row.trigger = other.trigger => row = other
  <1> DEFINE Prior(t) == {r \in retired : rows[r].trigger = t}
             Newest(t) == CHOOSE r \in Prior(t) : \A o \in Prior(t) : rows[r].version >= rows[o].version
             Row(t) == IF Prior(t) = {} THEN insertRule(t, 1, 0, terms, "form")
                       ELSE insertRule(t, rows[Newest(t)].version + 1, Newest(t), terms, "form")
  <1>1. RulesOfForm(T, terms, retired, rows) = {Row(t) : t \in T}
    BY DEF RulesOfForm
  <1>2. ASSUME NEW t \in T PROVE Row(t).trigger = t /\ FormRow(Row(t), T, terms, retired, rows)
    <2>1. t \in Triggers
      OBVIOUS
    <2>2. CASE Prior(t) = {}
      <3>1. Row(t) = insertRule(t, 1, 0, terms, "form")
        BY <2>2
      <3> HIDE DEF Row
      <3> QED
        BY <2>1, <3>1, RowByHand DEF FormRow
    <2>3. CASE Prior(t) # {}
      <3>1. \E r \in Prior(t) : \A o \in Prior(t) : rows[r].version >= rows[o].version
        <4> HIDE DEF Prior
        <4>1. Prior(t) \in SUBSET (1 .. N)
          BY DEF Prior
        <4> QED
          BY <2>3, <4>1, NewestOfSome
      <3>2. Newest(t) \in Prior(t)
        <4> HIDE DEF Prior
        <4> QED
          BY <3>1
      <3>3. PICK p : p = Newest(t)
        OBVIOUS
      <3>4. p \in retired /\ rows[p].trigger = t /\ p \in Nat
        <4>1. p \in Prior(t)
          BY <3>2, <3>3
        <4> HIDE DEF Newest
        <4> QED
          BY <4>1
      <3>5. PICK v \in Nat : v = rows[p].version + 1
        BY <3>4
      <3>6. Row(t) = insertRule(t, v, p, terms, "form")
        BY <2>3, <3>3, <3>5
      <3> HIDE DEF Row, Newest, Prior
      <3> QED
        BY <2>1, <3>4, <3>5, <3>6, RowByHand DEF FormRow
    <2> QED
      BY <2>2, <2>3
  <1> HIDE DEF Row
  <1>3. IsFiniteSet({Row(t) : t \in T})
    <2>1. PICK f : f = [t \in T |-> Row(t)]
      OBVIOUS
    <2>2. {f[t] : t \in T} = {Row(t) : t \in T} /\ f \in [T -> {Row(t) : t \in T}]
      BY <2>1
    <2>3. \A y \in {Row(t) : t \in T} : \E t \in T : f[t] = y
      BY <2>1
    <2>4. f \in Surjection(T, {Row(t) : t \in T})
      BY <2>2, <2>3 DEF Surjection
    <2> QED
      BY <2>4, TriggersAreFinite, FS_Surjection
  <1> QED
    BY <1>1, <1>2, <1>3

\* What is put behind the rules there are.
FormRows(new, T, terms, retired, rows) ==
    /\ new \in Seq(RuleRow)
    /\ \A i \in DOMAIN new : FormRow(new[i], T, terms, retired, rows)
    /\ \A i, k \in DOMAIN new : new[i].trigger = new[k].trigger => i = k

Numbered(rows, retired) ==
    /\ Len(rows) \in Nat /\ retired \in SUBSET (1 .. Len(rows))
    /\ \A r \in 1 .. Len(rows) : rows[r].version \in 1 .. r

LEMMA NewRules ==
    ASSUME NEW T \in SUBSET Triggers, NEW terms \in FormTerms, NEW rows, NEW retired,
           Numbered(rows, retired), NEW new \in Sequences(RulesOfForm(T, terms, retired, rows))
    PROVE  FormRows(new, T, terms, retired, rows)
  <1>0. PICK N \in Nat : N = Len(rows) /\ retired \in SUBSET (1 .. N)
                          /\ \A r \in 1 .. N : rows[r].version \in 1 .. r
    BY DEF Numbered
  <1>1. PICK S : S = RulesOfForm(T, terms, retired, rows)
    OBVIOUS
  <1>2. /\ IsFiniteSet(S) /\ \A row \in S : FormRow(row, T, terms, retired, rows)
        /\ \A row, other \in S : row.trigger = other.trigger => row = other
    <2>1. /\ IsFiniteSet(RulesOfForm(T, terms, retired, rows))
          /\ \A row \in RulesOfForm(T, terms, retired, rows) : FormRow(row, T, terms, retired, rows)
          /\ \A row, other \in RulesOfForm(T, terms, retired, rows) :
                row.trigger = other.trigger => row = other
      BY <1>0, RowsOfForm
    <2> QED
      BY <1>1, <2>1
  <1>3. PICK n \in Nat : n = Cardinality(S)
    BY <1>2, FS_CardinalityType
  <1>4. new \in [1 .. n -> S] /\ \A i, k \in 1 .. n : new[i] = new[k] => i = k
    BY <1>1, <1>3 DEF Sequences
  <1>5. new \in [1 .. n -> RuleRow]
    BY <1>2, <1>4 DEF FormRow
  <1>6. new \in Seq(RuleRow)
    BY <1>5
  <1> QED
    BY <1>2, <1>4, <1>6 DEF FormRows

LEMMA EditParts ==
    ASSUME ProgramsInv, NEW e \in Editors
    PROVE  /\ editing \in [Editors -> EditRequest] /\ editing[e] \in EditRequest
           /\ EditHolds(e) /\ RetiredStand(e)
  BY DEF ProgramsInv, ProgramTables

\* What an edit is at each stage.
LEMMA EditStages ==
    ASSUME NEW x \in EditRequest
    PROVE  /\ x.stage \in {"none", "checked", "locked", "retired"}
           /\ x.stage = "none" => x = NoEdit
           /\ x.stage # "none" => x.triggers \in SUBSET Triggers /\ x.terms \in FormTerms
           /\ x.stage = "retired" => x.retired \in SUBSET Nat
           /\ x.stage = "checked"
                 => /\ [x EXCEPT !.stage = "locked"] \in EditRequest
                    /\ [x EXCEPT !.stage = "locked"].stage = "locked"
                    /\ [x EXCEPT !.stage = "locked"].triggers = x.triggers
                    /\ [x EXCEPT !.stage = "locked"].terms = x.terms
  BY DEF EditRequest, NoEdit

LEMMA EditMoves ==
    ASSUME ProgramsInv, NEW e \in Editors, NEW x \in EditRequest, editing' = [editing EXCEPT ![e] = x]
    PROVE  /\ editing' \in [Editors -> EditRequest] /\ editing'[e] = x
           /\ \A f \in Editors \ {e} : editing'[f] = editing[f]
  BY EditParts

LEMMA HeldLock ==
    ASSUME ProgramsInv, NEW e \in Editors, editing[e].stage \in {"locked", "retired"}
    PROVE  rowLock = [by |-> e, how |-> "for update"] /\ rowLock.by = e /\ rowLock.how = "for update"
           /\ rowLock # Unlocked
  <1>1. rowLock = [by |-> e, how |-> "for update"]
    BY EditParts DEF EditHolds
  <1>2. rowLock.by = e /\ rowLock.how = "for update" /\ Unlocked.how = "none"
    BY <1>1 DEF Unlocked
  <1> QED
    BY <1>1, <1>2

\* The row's lock lets one edit in.
LEMMA OneEditInside ==
    ASSUME ProgramsInv, NEW e \in Editors, NEW f \in Editors,
           editing[e].stage \in {"locked", "retired"}, editing[f].stage \in {"locked", "retired"}
    PROVE  e = f
  BY HeldLock

RulesInv ==
    /\ ruleRows \in Seq(RuleRow) /\ LaterReplaces /\ OneFormRuns
    /\ \A r \in DOMAIN ruleRows : Follows(r)

HistoryInv ==
    /\ programme \in ProgramRow /\ versions \in Seq(VersionRow) /\ versions # << >>
    /\ HistoryTellsTheProgramme

LEMMA InvSplits ==
    ProgramsInv <=> /\ RulesInv /\ HistoryInv /\ editing \in [Editors -> EditRequest]
                    /\ \A e \in Editors : EditHolds(e) /\ RetiredStand(e)
  BY DEF ProgramsInv, ProgramTables, RulesInv, HistoryInv

LEMMA RulesRest == ASSUME RulesInv, UNCHANGED ruleRows PROVE RulesInv'
  BY DEF RulesInv, LaterReplaces, OneFormRuns, FormRules, ActiveIn, Follows

LEMMA HistoryRests == ASSUME HistoryInv, UNCHANGED <<programme, versions>> PROVE HistoryInv'
  BY DEF HistoryInv, HistoryTellsTheProgramme

LEMMA HistoryGrows ==
    ASSUME HistoryInv, NEW row \in ProgramRow, NEW stated \in [triggers : SUBSET Triggers],
           recordProgramVersion(row, stated)
    PROVE  HistoryInv'
  <1>1. PICK s \in VersionRow :
          s = snapshotOf(row, stated) /\ s.status = row.status /\ s.details = row.details
    <2>1. row.status \in {"draft", "active", "paused", "archived"} /\ row.details \in Nat
      BY DEF ProgramRow
    <2>2. [status |-> row.status, details |-> row.details, stated |-> stated] \in VersionRow
      BY <2>1 DEF VersionRow
    <2> QED
      BY <2>2 DEF snapshotOf
  <1>2. versions' = versions \o <<s>> /\ programme' = [row EXCEPT !.version = Len(versions) + 1]
    BY <1>1 DEF recordProgramVersion, record, append
  <1>3. versions \in Seq(VersionRow) /\ Len(versions) \in Nat
    BY DEF HistoryInv
  <1>4. /\ versions' \in Seq(VersionRow) /\ Len(versions') = Len(versions) + 1
        /\ versions'[Len(versions) + 1] = s
    BY <1>2, <1>3
  <1>5. /\ programme' \in ProgramRow /\ programme'.version = Len(versions) + 1
        /\ programme'.status = row.status /\ programme'.details = row.details
    <2>1. PICK v \in Nat : v = Len(versions) + 1
      BY <1>3
    <2>2. programme' = [row EXCEPT !.version = v]
      BY <1>2, <2>1
    <2> QED
      BY <2>1, <2>2 DEF ProgramRow
  <1>6. versions' # << >>
    BY <1>3, <1>4
  <1> QED
    BY <1>1, <1>4, <1>5, <1>6 DEF HistoryInv, HistoryTellsTheProgramme

\* An edit that moves on over the rules as they are.
LEMMA EditStepKeeps ==
    ASSUME ProgramsInv, NEW e \in Editors, NEW x \in EditRequest, editing' = [editing EXCEPT ![e] = x],
           UNCHANGED <<programme, ruleRows, versions>>,
           x.stage # "none" => FormAccepted(x.triggers, x.terms),
           x.stage \in {"locked", "retired"} => rowLock' = [by |-> e, how |-> "for update"],
           \A f \in Editors \ {e} : editing[f].stage \in {"locked", "retired"} => UNCHANGED rowLock,
           x.stage = "retired" => x.retired = ActiveIn(ruleRows)
    PROVE  ProgramsInv'
  <1>1. RulesInv' /\ HistoryInv'
    BY InvSplits, RulesRest, HistoryRests
  <1>2. /\ editing' \in [Editors -> EditRequest] /\ editing'[e] = x
        /\ \A f \in Editors \ {e} : editing'[f] = editing[f]
    BY EditMoves
  <1>3. EditHolds(e)' /\ RetiredStand(e)'
    BY <1>2 DEF EditHolds, RetiredStand, ActiveIn
  <1>4. ASSUME NEW f \in Editors \ {e} PROVE EditHolds(f)' /\ RetiredStand(f)'
    <2>1. EditHolds(f) /\ RetiredStand(f) /\ editing'[f] = editing[f]
      BY <1>2, EditParts
    <2> QED
      BY <2>1 DEF EditHolds, RetiredStand, ActiveIn
  <1>5. \A f \in Editors : EditHolds(f)' /\ RetiredStand(f)'
    BY <1>3, <1>4
  <1> QED
    BY <1>1, <1>2, <1>5 DEF ProgramsInv, ProgramTables, RulesInv, HistoryInv

LEMMA SaveFormKeeps ==
    ASSUME ProgramsInv, NEW e \in Editors, NEW T \in SUBSET Triggers, NEW terms \in FormTerms,
           SaveForm(e, T, terms)
    PROVE  ProgramsInv'
  <1>1. PICK x : x = [stage |-> "checked", triggers |-> T, terms |-> terms]
    OBVIOUS
  <1>2. x \in EditRequest /\ x.stage = "checked" /\ x.triggers = T /\ x.terms = terms
    BY <1>1 DEF EditRequest
  <1>3. /\ editing' = [editing EXCEPT ![e] = x] /\ FormAccepted(T, terms)
        /\ UNCHANGED <<programme, ruleRows, versions, rowLock>>
    BY <1>1 DEF SaveForm
  <1> QED
    BY <1>2, <1>3, EditStepKeeps

LEMMA EnterEditKeeps ==
    ASSUME ProgramsInv, NEW e \in Editors, EnterEdit(e)
    PROVE  ProgramsInv'
  <1>1. PICK x : x = [editing[e] EXCEPT !.stage = "locked"]
    OBVIOUS
  <1>2. /\ x \in EditRequest /\ x.stage = "locked" /\ x.triggers = editing[e].triggers
        /\ x.terms = editing[e].terms /\ FormAccepted(editing[e].triggers, editing[e].terms)
    BY <1>1, EditParts, EditStages DEF EnterEdit, EditHolds
  <1>3. /\ editing' = [editing EXCEPT ![e] = x] /\ rowLock = Unlocked
        /\ rowLock' = [by |-> e, how |-> "for update"] /\ UNCHANGED <<programme, ruleRows, versions>>
    BY <1>1, EditParts DEF EnterEdit, lockForUpdate, RowIsFree
  <1>4. \A f \in Editors \ {e} : editing[f].stage \notin {"locked", "retired"}
    BY <1>3, HeldLock
  <1> QED
    BY <1>2, <1>3, <1>4, EditStepKeeps

\* An edit that leaves the programme: nobody else was inside.
LEMMA LeaveKeeps ==
    ASSUME ProgramsInv, NEW e \in Editors, editing' = [editing EXCEPT ![e] = NoEdit],
           UNCHANGED <<programme, ruleRows, versions>>,
           \/ rowLock.by = e
           \/ UNCHANGED rowLock
    PROVE  ProgramsInv'
  <1>1. NoEdit \in EditRequest /\ NoEdit.stage = "none"
    BY DEF EditRequest, NoEdit
  <1>2. \A f \in Editors \ {e} : editing[f].stage \in {"locked", "retired"} => UNCHANGED rowLock
    BY HeldLock
  <1> QED
    BY <1>1, <1>2, EditStepKeeps

LEMMA RetireRulesKeeps ==
    ASSUME ProgramsInv, NEW e \in Editors, RetireRules(e)
    PROVE  ProgramsInv'
  <1>1. PICK x : x = [stage |-> "retired", triggers |-> editing[e].triggers,
                      terms |-> editing[e].terms, retired |-> deactivateProgramRules(ruleRows)]
    OBVIOUS
  <1>2. /\ editing[e].stage = "locked" /\ editing' = [editing EXCEPT ![e] = x]
        /\ UNCHANGED <<programme, ruleRows, versions>>
        /\ rowLock' = IF rowLock.by = e THEN rowLock ELSE [by |-> e, how |-> "for no key update"]
    BY <1>1 DEF RetireRules
  <1>3. rowLock = [by |-> e, how |-> "for update"] /\ rowLock' = rowLock
    BY <1>2, HeldLock
  <1>4. /\ editing[e].triggers \in SUBSET Triggers /\ editing[e].terms \in FormTerms
        /\ FormAccepted(editing[e].triggers, editing[e].terms)
    BY <1>2, EditParts, EditStages DEF EditHolds
  <1>5. ActiveIn(ruleRows) \in SUBSET Nat
    BY NumberedRules DEF ActiveIn
  <1>6. /\ x \in EditRequest /\ x.stage = "retired" /\ x.triggers = editing[e].triggers
        /\ x.terms = editing[e].terms /\ x.retired = ActiveIn(ruleRows)
    BY <1>1, <1>4, <1>5 DEF EditRequest, deactivateProgramRules
  <1> QED
    BY <1>2, <1>3, <1>4, <1>6, EditStepKeeps

\* Rows put behind the rules there are.
LEMMA RowsJoin ==
    ASSUME NEW R \in Seq(RuleRow), NEW new \in Seq(RuleRow), ruleRows' = createRuleWithin(R, new)
    PROVE  /\ ruleRows' \in Seq(RuleRow) /\ Len(R) \in Nat /\ Len(new) \in Nat
           /\ DOMAIN new = 1 .. Len(new) /\ DOMAIN ruleRows' = 1 .. (Len(R) + Len(new))
           /\ \A r \in 1 .. Len(R) : ruleRows'[r] = R[r]
           /\ \A r \in DOMAIN ruleRows' : r \notin 1 .. Len(R)
                 => r > Len(R) /\ r - Len(R) \in DOMAIN new /\ ruleRows'[r] = new[r - Len(R)]
  BY DEF createRuleWithin

\* A rule keeps what it was made of, and one that runs untouched ran before.
LEMMA RulesEdited ==
    ASSUME ProgramsInv, ruleRows' \in Seq(RuleRow), DOMAIN ruleRows' = DOMAIN ruleRows,
           \A r \in DOMAIN ruleRows :
              /\ ruleRows'[r].trigger = ruleRows[r].trigger /\ ruleRows'[r].version = ruleRows[r].version
              /\ ruleRows'[r].supersedes = ruleRows[r].supersedes /\ ruleRows'[r].made = ruleRows[r].made
              /\ ruleRows'[r].benefit = ruleRows[r].benefit
              /\ ruleRows[r].switched => ruleRows'[r].switched
              /\ ruleRows'[r].active => ruleRows[r].active \/ ruleRows'[r].switched
    PROVE  RulesInv'
  <1>1. RulesInv /\ DOMAIN ruleRows = 1 .. Len(ruleRows) /\ Len(ruleRows) \in Nat
    BY InvSplits, NumberedRules
  <1>2. LaterReplaces'
    BY <1>1 DEF RulesInv, LaterReplaces
  <1>3. OneFormRuns'
    <2>1. \A r \in FormRules' : r \in FormRules
      BY DEF FormRules, ActiveIn
    <2>2. \A r \in FormRules' : ruleRows'[r].trigger = ruleRows[r].trigger
                                 /\ ruleRows'[r].benefit = ruleRows[r].benefit
      BY DEF FormRules, ActiveIn
    <2> QED
      BY <1>1, <2>1, <2>2 DEF RulesInv, OneFormRuns
  <1>4. ASSUME NEW r \in DOMAIN ruleRows PROVE Follows(r)'
    <2>1. Follows(r)
      BY <1>1 DEF RulesInv
    <2>2. CASE ruleRows[r].supersedes = 0
      BY <2>1, <2>2 DEF Follows
    <2>3. CASE ruleRows[r].supersedes # 0
      <3>1. PICK prior : prior = ruleRows[r].supersedes
        OBVIOUS
      <3>2. prior \in 1 .. (r - 1) /\ prior \in DOMAIN ruleRows
        BY <1>1, <2>1, <2>3, <3>1 DEF Follows
      <3>3. ruleRows'[prior].active => ruleRows'[prior].switched
        BY <2>1, <2>3, <3>1, <3>2 DEF Follows
      <3>4. \A o \in DOMAIN ruleRows \ {r} :
               ruleRows'[o].supersedes = prior => ruleRows'[prior].switched
        BY <2>1, <2>3, <3>1, <3>2 DEF Follows
      <3> QED
        BY <2>1, <2>3, <3>1, <3>2, <3>3, <3>4 DEF Follows
    <2> QED
      BY <2>2, <2>3
  <1> QED
    BY <1>2, <1>3, <1>4 DEF RulesInv

\* One rule is switched by hand: not one an open edit has retired.
LEMMA SetRuleActiveKeeps ==
    ASSUME ProgramsInv, NEW q \in DOMAIN ruleRows, NEW a \in BOOLEAN, setRuleActive(q, a)
    PROVE  ProgramsInv'
  <1>1. PICK row : row = [ruleRows[q] EXCEPT !.active = a, !.switched = ruleRows[q].switched \/ a]
    OBVIOUS
  <1>2. /\ ruleRows' = [ruleRows EXCEPT ![q] = row] /\ q \notin LockedRules
        /\ UNCHANGED <<programme, versions, rowLock, editing>>
    BY <1>1, NumberedRules DEF setRuleActive
  <1>3. /\ row \in RuleRow /\ row.active = a /\ (row.switched <=> ruleRows[q].switched \/ a)
        /\ row.trigger = ruleRows[q].trigger /\ row.version = ruleRows[q].version
        /\ row.supersedes = ruleRows[q].supersedes /\ row.made = ruleRows[q].made
        /\ row.benefit = ruleRows[q].benefit
    <2>1. ruleRows[q] \in RuleRow
      BY NumberedRules
    <2> QED
      BY <1>1, <2>1 DEF RuleRow
  <1>4. /\ ruleRows' \in Seq(RuleRow) /\ DOMAIN ruleRows' = DOMAIN ruleRows /\ ruleRows'[q] = row
        /\ \A r \in DOMAIN ruleRows \ {q} : ruleRows'[r] = ruleRows[r]
    BY <1>2, <1>3, NumberedRules
  <1>5. RulesInv'
    BY <1>3, <1>4, RulesEdited
  <1>6. HistoryInv'
    BY <1>2, InvSplits, HistoryRests
  <1>7. ASSUME NEW e \in Editors PROVE EditHolds(e)' /\ RetiredStand(e)'
    <2>1. EditHolds(e)'
      BY <1>2, EditParts DEF EditHolds
    <2>2. ASSUME editing[e].stage = "retired"
          PROVE  /\ editing[e].retired \subseteq ActiveIn(ruleRows')
                 /\ \A r \in ActiveIn(ruleRows') \ editing[e].retired : ruleRows'[r].switched
      <3>1. /\ editing[e].retired \subseteq ActiveIn(ruleRows)
            /\ \A r \in ActiveIn(ruleRows) \ editing[e].retired : ruleRows[r].switched
        BY <2>2, EditParts DEF RetiredStand
      <3>2. q \notin editing[e].retired
        BY <1>2, <2>2 DEF LockedRules
      <3> QED
        BY <1>3, <1>4, <3>1, <3>2 DEF ActiveIn
    <2>3. RetiredStand(e)'
      BY <1>2, <2>2 DEF RetiredStand
    <2> QED
      BY <2>1, <2>3
  <1>8. editing' \in [Editors -> EditRequest]
    BY <1>2, InvSplits
  <1> QED
    BY <1>5, <1>6, <1>7, <1>8 DEF ProgramsInv, ProgramTables, RulesInv, HistoryInv

\* What a rule added to the others must not disturb.
LEMMA OldRulesFollow ==
    ASSUME ProgramsInv, NEW r \in DOMAIN ruleRows, DOMAIN ruleRows \subseteq DOMAIN ruleRows',
           \A o \in DOMAIN ruleRows :
              /\ ruleRows'[o].trigger = ruleRows[o].trigger /\ ruleRows'[o].version = ruleRows[o].version
              /\ ruleRows'[o].supersedes = ruleRows[o].supersedes
              /\ ruleRows'[o].switched = ruleRows[o].switched
              /\ ruleRows'[o].active => ruleRows[o].active,
           \A o \in DOMAIN ruleRows' \ DOMAIN ruleRows :
              ruleRows'[o].supersedes # 0 => /\ ruleRows'[o].supersedes \in DOMAIN ruleRows
                                             /\ ruleRows[ruleRows'[o].supersedes].active
    PROVE  Follows(r)'
  <1>1. Follows(r) /\ DOMAIN ruleRows = 1 .. Len(ruleRows) /\ Len(ruleRows) \in Nat
    BY NumberedRules DEF ProgramsInv
  <1>2. CASE ruleRows[r].supersedes = 0
    BY <1>1, <1>2 DEF Follows
  <1>3. CASE ruleRows[r].supersedes # 0
    <2>1. PICK prior : prior = ruleRows[r].supersedes
      OBVIOUS
    <2>2. /\ prior \in 1 .. (r - 1) /\ prior \in DOMAIN ruleRows /\ prior # 0
          /\ ruleRows[prior].trigger = ruleRows[r].trigger
          /\ ruleRows[prior].version + 1 = ruleRows[r].version
          /\ ruleRows[prior].active => ruleRows[prior].switched
          /\ ruleRows[r].version \in 1 .. r
          /\ \A o \in DOMAIN ruleRows \ {r} : ruleRows[o].supersedes = prior => ruleRows[prior].switched
      BY <1>1, <1>3, <2>1 DEF Follows
    <2>3. ASSUME NEW o \in DOMAIN ruleRows' \ {r}, ruleRows'[o].supersedes = prior
          PROVE  ruleRows'[prior].switched
      <3>1. CASE o \in DOMAIN ruleRows
        BY <2>2, <2>3, <3>1
      <3>2. CASE o \notin DOMAIN ruleRows
        BY <2>2, <2>3, <3>2
      <3> QED
        BY <3>1, <3>2
    <2>4. ruleRows'[prior].active => ruleRows'[prior].switched
      BY <2>2
    <2> QED
      BY <2>1, <2>2, <2>3, <2>4 DEF Follows
  <1> QED
    BY <1>2, <1>3

\* A rule added by hand: no edit is between its two halves, for the insert
\* waits for the row's lock.
LEMMA CreateRuleKeeps ==
    ASSUME ProgramsInv, NEW t \in Triggers, NEW terms \in FormTerms, createRule(t, terms)
    PROVE  ProgramsInv'
  <1>1. PICK row : row = insertRule(t, 1, 0, terms, "hand")
    OBVIOUS
  <1>2. /\ row \in RuleRow /\ row.version = 1 /\ row.supersedes = 0 /\ row.made = "hand"
    BY <1>1, RowByHand
  <1>3. /\ ruleRows' = createRuleWithin(ruleRows, <<row>>) /\ InsertMayPass
        /\ UNCHANGED <<programme, versions, rowLock, editing>>
    BY <1>1 DEF createRule
  <1>4. PICK N \in Nat : N = Len(ruleRows) /\ DOMAIN ruleRows = 1 .. N
    BY NumberedRules
  <1>5. <<row>> \in Seq(RuleRow) /\ DOMAIN <<row>> = {1} /\ <<row>>[1] = row /\ Len(<<row>>) = 1
    BY <1>2
  <1>6. PICK new \in Seq(RuleRow) : new = <<row>>
    BY <1>5
  <1>7. /\ ruleRows' \in Seq(RuleRow) /\ DOMAIN ruleRows' = 1 .. (N + 1)
        /\ \A r \in 1 .. N : ruleRows'[r] = ruleRows[r]
        /\ ruleRows'[N + 1] = row
    <2>1. /\ ruleRows' \in Seq(RuleRow) /\ DOMAIN ruleRows' = 1 .. (N + Len(new))
          /\ \A r \in 1 .. N : ruleRows'[r] = ruleRows[r]
          /\ \A r \in DOMAIN ruleRows' : r \notin 1 .. N => ruleRows'[r] = new[r - N]
      BY <1>3, <1>4, <1>6, NumberedRules, RowsJoin
    <2>2. N + 1 \in DOMAIN ruleRows' /\ N + 1 \notin 1 .. N /\ (N + 1) - N = 1
      BY <1>4, <1>5, <1>6, <2>1
    <2> QED
      BY <1>5, <1>6, <2>1, <2>2
  <1>8. LaterReplaces'
    <2>1. ASSUME NEW r \in 1 .. (N + 1), NEW o \in 1 .. (N + 1), r < o,
                 ruleRows'[r].trigger = ruleRows'[o].trigger, ruleRows'[o].made = "form",
                 ruleRows'[r].active
          PROVE  ruleRows'[r].switched
      <3>1. o # N + 1
        BY <1>2, <1>7, <2>1
      <3>2. o \in 1 .. N /\ r \in 1 .. N
        BY <2>1, <3>1
      <3> QED
        BY <1>4, <1>7, <2>1, <3>2 DEF ProgramsInv, LaterReplaces
    <2> QED
      BY <1>7, <2>1 DEF LaterReplaces
  <1>9. OneFormRuns'
    <2>1. \A r \in FormRules' : r \in FormRules /\ ruleRows'[r] = ruleRows[r]
      <3>1. ASSUME NEW r \in FormRules' PROVE r \in 1 .. N
        <4>1. r \in 1 .. (N + 1) /\ ruleRows'[r].made = "form"
          BY <1>7 DEF FormRules, ActiveIn
        <4>2. r # N + 1
          BY <1>2, <1>7, <4>1
        <4> QED
          BY <4>1, <4>2
      <3> QED
        BY <1>4, <1>7, <3>1 DEF FormRules, ActiveIn
    <2> QED
      BY <2>1 DEF ProgramsInv, OneFormRuns
  <1>10. ASSUME NEW r \in DOMAIN ruleRows' PROVE Follows(r)'
    <2>1. CASE r \in 1 .. N
      <3>1. \A o \in DOMAIN ruleRows' \ DOMAIN ruleRows : o = N + 1
        BY <1>4, <1>7
      <3> QED
        BY <1>2, <1>4, <1>7, <2>1, <3>1, OldRulesFollow
    <2>2. CASE r \notin 1 .. N
      <3>1. r = N + 1
        BY <1>7, <2>2
      <3> QED
        BY <1>2, <1>7, <3>1 DEF Follows
    <2> QED
      BY <2>1, <2>2
  <1>11. RulesInv'
    BY <1>7, <1>8, <1>9, <1>10 DEF RulesInv
  <1>12. HistoryInv'
    BY <1>3, InvSplits, HistoryRests
  <1>13. ASSUME NEW e \in Editors PROVE EditHolds(e)' /\ RetiredStand(e)'
    <2>1. editing[e].stage # "retired"
      BY <1>3, HeldLock DEF InsertMayPass
    <2> QED
      BY <1>3, <2>1, EditParts DEF EditHolds, RetiredStand
  <1>14. editing' \in [Editors -> EditRequest]
    BY <1>3, InvSplits
  <1> QED
    BY <1>11, <1>12, <1>13, <1>14 DEF ProgramsInv, ProgramTables, RulesInv, HistoryInv

\* What an edit leaves: the rules it found, those it retired switched off, and
\* the rules of its form behind them.
LEMMA UpdateEffect ==
    ASSUME ProgramsInv, NEW e \in Editors, updateProgram(e)
    PROVE  \E N \in Nat, T \in SUBSET Triggers, terms \in FormTerms, retired \in SUBSET Nat, M \in Nat :
             /\ DOMAIN ruleRows = 1 .. N /\ DOMAIN ruleRows' = 1 .. M /\ N <= M
             /\ FormAccepted(T, terms) /\ retired \subseteq ActiveIn(ruleRows)
             /\ ruleRows' \in Seq(RuleRow)
             /\ \A r \in 1 .. N :
                   /\ ruleRows'[r].trigger = ruleRows[r].trigger /\ ruleRows'[r].version = ruleRows[r].version
                   /\ ruleRows'[r].supersedes = ruleRows[r].supersedes
                   /\ ruleRows'[r].switched = ruleRows[r].switched
                   /\ ruleRows'[r].active => ruleRows[r].active /\ ruleRows[r].switched /\ r \notin retired
                   /\ ruleRows'[r].made = ruleRows[r].made
             /\ \A r \in 1 .. M : r \notin 1 .. N => FormRow(ruleRows'[r], T, terms, retired, ruleRows)
             /\ \A r, o \in 1 .. M : (r \notin 1 .. N /\ o \notin 1 .. N
                                       /\ ruleRows'[r].trigger = ruleRows'[o].trigger) => r = o
  <1>1. PICK N \in Nat : N = Len(ruleRows) /\ DOMAIN ruleRows = 1 .. N
    BY NumberedRules
  <1>2. PICK T \in SUBSET Triggers, terms \in FormTerms, retired \in SUBSET Nat :
          /\ T = editing[e].triggers /\ terms = editing[e].terms /\ retired = editing[e].retired
          /\ FormAccepted(T, terms)
    BY EditParts, EditStages DEF updateProgram, EditHolds
  <1>3. /\ retired \subseteq ActiveIn(ruleRows)
        /\ \A r \in ActiveIn(ruleRows) \ retired : ruleRows[r].switched
    BY <1>2, EditParts DEF updateProgram, RetiredStand
  <1>4. retired \in SUBSET (1 .. N)
    BY <1>1, <1>3 DEF ActiveIn
  <1>5. PICK R : R = [r \in DOMAIN ruleRows |-> [ruleRows[r] EXCEPT !.active = @ /\ r \notin retired]]
    OBVIOUS
  <1>6. PICK new \in Sequences(RulesOfForm(T, terms, retired, ruleRows)) : ruleRows' = createRuleWithin(R, new)
    BY <1>2, <1>5 DEF updateProgram
  <1>7. ASSUME NEW r \in 1 .. N
        PROVE  /\ R[r] \in RuleRow
               /\ R[r].trigger = ruleRows[r].trigger /\ R[r].version = ruleRows[r].version
               /\ R[r].supersedes = ruleRows[r].supersedes /\ R[r].switched = ruleRows[r].switched
               /\ R[r].made = ruleRows[r].made
               /\ R[r].active <=> ruleRows[r].active /\ r \notin retired
    <2>1. ruleRows[r] \in RuleRow /\ R[r] = [ruleRows[r] EXCEPT !.active = ruleRows[r].active /\ r \notin retired]
      BY <1>1, <1>5, NumberedRules
    <2> QED
      BY <2>1 DEF RuleRow
  <1>8. R \in Seq(RuleRow) /\ Len(R) = N
    <2>1. R \in [1 .. N -> RuleRow]
      BY <1>1, <1>5, <1>7
    <2> QED
      BY <2>1
  <1>9. \A r \in 1 .. N : ruleRows[r].version \in 1 .. r
    BY <1>1 DEF ProgramsInv, Follows
  <1>10. /\ new \in Seq(RuleRow)
         /\ \A i \in DOMAIN new : FormRow(new[i], T, terms, retired, ruleRows)
         /\ \A i, k \in DOMAIN new : new[i].trigger = new[k].trigger => i = k
    <2>1. Numbered(ruleRows, retired)
      BY <1>1, <1>4, <1>9 DEF Numbered
    <2>2. FormRows(new, T, terms, retired, ruleRows)
      BY <2>1, NewRules
    <2> QED
      BY <2>2 DEF FormRows
  <1>11. PICK M \in Nat : M = N + Len(new)
    BY <1>10
  <1>12. /\ ruleRows' \in Seq(RuleRow) /\ DOMAIN ruleRows' = 1 .. M /\ N <= M
         /\ \A r \in 1 .. N : ruleRows'[r] = R[r]
         /\ \A r \in 1 .. M : r \notin 1 .. N
               => r - N \in DOMAIN new /\ ruleRows'[r] = new[r - N]
    <2>1. /\ ruleRows' \in Seq(RuleRow) /\ DOMAIN ruleRows' = 1 .. (Len(R) + Len(new))
          /\ \A r \in 1 .. Len(R) : ruleRows'[r] = R[r]
          /\ \A r \in DOMAIN ruleRows' : r \notin 1 .. Len(R)
                => r - Len(R) \in DOMAIN new /\ ruleRows'[r] = new[r - Len(R)]
      BY <1>6, <1>8, <1>10, RowsJoin
    <2>2. N <= M
      BY <1>10, <1>11
    <2>3. DOMAIN ruleRows' = 1 .. M
      BY <1>8, <1>11, <2>1
    <2> QED
      BY <1>8, <2>1, <2>2, <2>3
  <1>13. \A r \in 1 .. N : ruleRows'[r].active => ruleRows[r].switched
    BY <1>1, <1>3, <1>7, <1>12 DEF ActiveIn
  <1>14. \A r \in 1 .. N :
            /\ ruleRows'[r].trigger = ruleRows[r].trigger /\ ruleRows'[r].version = ruleRows[r].version
            /\ ruleRows'[r].supersedes = ruleRows[r].supersedes
            /\ ruleRows'[r].switched = ruleRows[r].switched
            /\ ruleRows'[r].active => ruleRows[r].active /\ ruleRows[r].switched /\ r \notin retired
            /\ ruleRows'[r].made = ruleRows[r].made
    BY <1>7, <1>12, <1>13
  <1>15. \A r \in 1 .. M : r \notin 1 .. N => FormRow(ruleRows'[r], T, terms, retired, ruleRows)
    BY <1>10, <1>12
  <1>16. ASSUME NEW r \in 1 .. M, NEW o \in 1 .. M, r \notin 1 .. N, o \notin 1 .. N,
                ruleRows'[r].trigger = ruleRows'[o].trigger
         PROVE  r = o
    <2>1. PICK i, k \in DOMAIN new : /\ i = r - N /\ k = o - N
                                     /\ ruleRows'[r] = new[i] /\ ruleRows'[o] = new[k]
      BY <1>12, <1>16
    <2>2. i = k
      BY <1>10, <1>16, <2>1
    <2> QED
      BY <1>16, <2>1, <2>2
  <1> WITNESS N \in Nat, T \in SUBSET Triggers, terms \in FormTerms, retired \in SUBSET Nat, M \in Nat
  <1> QED
    BY <1>1, <1>2, <1>3, <1>12, <1>14, <1>15, <1>16

LEMMA UpdateKeepsRules ==
    ASSUME ProgramsInv, NEW e \in Editors, updateProgram(e)
    PROVE  RulesInv'
  <1>1. PICK N \in Nat, T \in SUBSET Triggers, terms \in FormTerms, retired \in SUBSET Nat, M \in Nat :
             /\ DOMAIN ruleRows = 1 .. N /\ DOMAIN ruleRows' = 1 .. M /\ N <= M
             /\ FormAccepted(T, terms) /\ retired \subseteq ActiveIn(ruleRows)
             /\ ruleRows' \in Seq(RuleRow)
             /\ \A r \in 1 .. N :
                   /\ ruleRows'[r].trigger = ruleRows[r].trigger /\ ruleRows'[r].version = ruleRows[r].version
                   /\ ruleRows'[r].supersedes = ruleRows[r].supersedes
                   /\ ruleRows'[r].switched = ruleRows[r].switched
                   /\ ruleRows'[r].active => ruleRows[r].active /\ ruleRows[r].switched /\ r \notin retired
                   /\ ruleRows'[r].made = ruleRows[r].made
             /\ \A r \in 1 .. M : r \notin 1 .. N => FormRow(ruleRows'[r], T, terms, retired, ruleRows)
             /\ \A r, o \in 1 .. M : (r \notin 1 .. N /\ o \notin 1 .. N
                                       /\ ruleRows'[r].trigger = ruleRows'[o].trigger) => r = o
    BY UpdateEffect
  <1>2. LaterReplaces'
    <2>1. ASSUME NEW r \in 1 .. M, NEW o \in 1 .. M, r < o, ruleRows'[r].trigger = ruleRows'[o].trigger,
                 ruleRows'[r].active
          PROVE  ruleRows'[r].switched
      <3>1. CASE r \in 1 .. N
        BY <1>1, <2>1, <3>1
      <3>2. CASE r \notin 1 .. N
        <4>1. o \notin 1 .. N
          BY <2>1, <3>2
        <4> QED
          BY <1>1, <2>1, <3>2, <4>1
      <3> QED
        BY <3>1, <3>2
    <2> QED
      BY <1>1, <2>1 DEF LaterReplaces
  <1>3. OneFormRuns'
    <2>1. ASSUME NEW r \in FormRules'
          PROVE  ruleRows'[r].trigger \in T /\ ruleRows'[r].benefit = terms.benefit
      <3>1. r \in 1 .. M /\ ruleRows'[r].active /\ ~ruleRows'[r].switched
        BY <1>1 DEF FormRules, ActiveIn
      <3>2. r \notin 1 .. N
        BY <1>1, <3>1
      <3> QED
        BY <1>1, <3>1, <3>2 DEF FormRow
    <2> QED
      BY <1>1, <2>1 DEF OneFormRuns
  <1>4. ASSUME NEW o \in 1 .. M, o \notin 1 .. N, ruleRows'[o].supersedes # 0
        PROVE  /\ ruleRows'[o].supersedes \in retired /\ ruleRows'[o].supersedes \in 1 .. N
               /\ ruleRows[ruleRows'[o].supersedes].active
               /\ ruleRows[ruleRows'[o].supersedes].trigger = ruleRows'[o].trigger
               /\ ruleRows'[o].version = ruleRows[ruleRows'[o].supersedes].version + 1
    BY <1>1, <1>4 DEF FormRow, ActiveIn
  <1>5. ASSUME NEW r \in 1 .. N PROVE Follows(r)'
    <2>1. r \in DOMAIN ruleRows /\ DOMAIN ruleRows \subseteq DOMAIN ruleRows'
      BY <1>1
    <2>2. \A o \in DOMAIN ruleRows' \ DOMAIN ruleRows :
             ruleRows'[o].supersedes # 0 => /\ ruleRows'[o].supersedes \in DOMAIN ruleRows
                                            /\ ruleRows[ruleRows'[o].supersedes].active
      BY <1>1, <1>4
    <2> QED
      BY <1>1, <2>1, <2>2, OldRulesFollow
  <1>6. ASSUME NEW r \in 1 .. M, r \notin 1 .. N PROVE Follows(r)'
    <2>1. r > N /\ FormRow(ruleRows'[r], T, terms, retired, ruleRows)
      BY <1>1, <1>6
    <2>2. CASE ruleRows'[r].supersedes = 0
      <3>1. ruleRows'[r].version = 1
        <4>1. 0 \notin retired
          BY <1>1 DEF ActiveIn
        <4> QED
          BY <2>1, <2>2, <4>1 DEF FormRow
      <3>2. ruleRows'[r].version \in 1 .. r
        BY <2>1, <3>1
      <3> QED
        BY <2>2, <3>2 DEF Follows
    <2>3. CASE ruleRows'[r].supersedes # 0
      <3>1. PICK prior : prior = ruleRows'[r].supersedes
        OBVIOUS
      <3>2. /\ prior \in retired /\ prior \in 1 .. N /\ prior # 0 /\ ruleRows[prior].active
            /\ ruleRows[prior].trigger = ruleRows'[r].trigger
            /\ ruleRows'[r].version = ruleRows[prior].version + 1
        BY <1>4, <1>6, <2>3, <3>1
      <3>3. ruleRows[prior].version \in 1 .. prior
        BY <1>1, <3>2 DEF ProgramsInv, Follows
      <3>4. ruleRows'[r].version \in 1 .. r /\ prior \in 1 .. (r - 1)
        BY <2>1, <3>2, <3>3
      <3>5. /\ ruleRows'[prior].trigger = ruleRows'[r].trigger /\ ~ruleRows'[prior].active
            /\ ruleRows'[prior].version + 1 = ruleRows'[r].version
        BY <1>1, <3>2
      <3>6. ASSUME NEW o \in 1 .. M, o # r, ruleRows'[o].supersedes = prior
            PROVE  ruleRows'[prior].switched
        <4>1. CASE o \in 1 .. N
          <5>1. Follows(o) /\ ruleRows[o].supersedes = prior
            BY <1>1, <3>6, <4>1 DEF ProgramsInv
          <5> QED
            BY <1>1, <3>2, <5>1 DEF Follows
        <4>2. CASE o \notin 1 .. N
          <5>1. ruleRows'[o].trigger = ruleRows'[r].trigger
            BY <1>4, <3>2, <3>6, <4>2
          <5> QED
            BY <1>1, <1>6, <3>6, <4>2, <5>1
        <4> QED
          BY <4>1, <4>2
      <3> QED
        BY <1>1, <3>1, <3>2, <3>4, <3>5, <3>6 DEF Follows
    <2> QED
      BY <2>2, <2>3
  <1>7. \A r \in DOMAIN ruleRows' : Follows(r)'
    BY <1>1, <1>5, <1>6
  <1> QED
    BY <1>1, <1>2, <1>3, <1>7 DEF RulesInv

LEMMA UpdateKeeps ==
    ASSUME ProgramsInv, NEW e \in Editors, updateProgram(e)
    PROVE  ProgramsInv'
  <1>1. /\ editing[e].stage = "retired" /\ editing' = [editing EXCEPT ![e] = NoEdit]
        /\ rowLock' = Unlocked
        /\ recordProgramVersion([programme EXCEPT !.details = Len(versions) + 1],
                                Stated(editing[e].triggers))
    BY DEF updateProgram
  <1>2. HistoryInv'
    <2>1. PICK d \in Nat : d = Len(versions) + 1
      BY DEF ProgramsInv, ProgramTables
    <2>2. PICK row \in ProgramRow : row = [programme EXCEPT !.details = d]
      BY DEF ProgramsInv, ProgramTables, ProgramRow
    <2>3. PICK stated \in [triggers : SUBSET Triggers] : stated = Stated(editing[e].triggers)
      BY <1>1, EditParts, EditStages DEF Stated
    <2>4. recordProgramVersion(row, stated)
      BY <1>1, <2>1, <2>2, <2>3
    <2> QED
      BY <2>4, InvSplits, HistoryGrows
  <1>3. NoEdit \in EditRequest /\ NoEdit.stage = "none"
    BY DEF EditRequest, NoEdit
  <1>4. /\ editing' \in [Editors -> EditRequest] /\ editing'[e] = NoEdit
        /\ \A f \in Editors \ {e} : editing'[f] = editing[f]
    BY <1>1, <1>3, EditMoves
  <1>5. ASSUME NEW f \in Editors PROVE EditHolds(f)' /\ RetiredStand(f)'
    <2>1. editing'[f].stage \notin {"locked", "retired"}
      BY <1>1, <1>3, <1>4, OneEditInside
    <2>2. editing'[f].stage # "none" => FormAccepted(editing'[f].triggers, editing'[f].terms)
      BY <1>3, <1>4, EditParts DEF EditHolds
    <2> QED
      BY <2>1, <2>2 DEF EditHolds, RetiredStand
  <1> QED
    BY <1>2, <1>4, <1>5, UpdateKeepsRules DEF ProgramsInv, ProgramTables, RulesInv, HistoryInv

LEMMA SetStatusKeeps ==
    ASSUME ProgramsInv, NEW status \in {"active", "paused", "archived"}, setProgramStatus(status)
    PROVE  ProgramsInv'
  <1>1. /\ recordProgramVersion([programme EXCEPT !.status = status], NotStated)
        /\ UNCHANGED <<ruleRows, rowLock, editing>>
    BY DEF setProgramStatus
  <1>2. PICK row \in ProgramRow : row = [programme EXCEPT !.status = status]
    BY DEF ProgramsInv, ProgramTables, ProgramRow
  <1>3. NotStated \in [triggers : SUBSET Triggers]
    BY DEF NotStated
  <1>4. HistoryInv'
    BY <1>1, <1>2, <1>3, InvSplits, HistoryGrows
  <1>5. RulesInv'
    BY <1>1, InvSplits, RulesRest
  <1>6. \A e \in Editors : EditHolds(e)' /\ RetiredStand(e)'
    BY <1>1, EditParts DEF EditHolds, RetiredStand, ActiveIn
  <1>7. editing' \in [Editors -> EditRequest]
    BY <1>1, InvSplits
  <1> QED
    BY <1>4, <1>5, <1>6, <1>7 DEF ProgramsInv, ProgramTables, RulesInv, HistoryInv

LEMMA ProgramsStep == ProgramsInv /\ [ProgramsNext]_programVars => ProgramsInv'
  <1> SUFFICES ASSUME ProgramsInv, [ProgramsNext]_programVars PROVE ProgramsInv'
    OBVIOUS
  <1>1. ASSUME UNCHANGED <<programme, ruleRows, versions, rowLock, editing>> PROVE ProgramsInv'
    <2>1. RulesInv' /\ HistoryInv'
      BY <1>1, InvSplits, RulesRest, HistoryRests
    <2>2. \A e \in Editors : EditHolds(e)' /\ RetiredStand(e)'
      BY <1>1, EditParts DEF EditHolds, RetiredStand, ActiveIn
    <2>3. editing' \in [Editors -> EditRequest]
      BY <1>1, InvSplits
    <2> QED
      BY <2>1, <2>2, <2>3 DEF ProgramsInv, ProgramTables, RulesInv, HistoryInv
  <1>2. CASE UNCHANGED programVars
    BY <1>1, <1>2 DEF programVars
  <1>3. ASSUME NEW settings, updateSettings(settings) PROVE ProgramsInv'
    BY <1>1, <1>3 DEF updateSettings, Aside
  <1>4. ASSUME NEW e \in Editors, RefuseEdit(e) PROVE ProgramsInv'
    <2>1. editing' = [editing EXCEPT ![e] = NoEdit] /\ UNCHANGED <<programme, ruleRows, versions>>
      BY <1>4 DEF RefuseEdit
    <2>2. rowLock.by = e
      BY <1>4, HeldLock DEF RefuseEdit
    <2> QED
      BY <2>1, <2>2, LeaveKeeps
  <1>5. ASSUME NEW e \in Editors, AbandonEdit(e) PROVE ProgramsInv'
    BY <1>5, LeaveKeeps DEF AbandonEdit
  <1>6. ASSUME NEW r \in DOMAIN ruleRows, NEW a \in BOOLEAN, setRuleActive(r, a) PROVE ProgramsInv'
    BY <1>6, SetRuleActiveKeeps
  <1> QED
    BY <1>2, <1>3, <1>4, <1>5, <1>6, SaveFormKeeps, EnterEditKeeps, RetireRulesKeeps, UpdateKeeps,
       SetStatusKeeps, CreateRuleKeeps DEF ProgramsNext

LEMMA ProgramsStart == ProgramsInit => ProgramsInv
  <1> SUFFICES ASSUME ProgramsInit PROVE ProgramsInv
    OBVIOUS
  <1>1. PICK T \in SUBSET Triggers, terms \in FormTerms :
          /\ FormAccepted(T, terms)
          /\ \E new \in Sequences(RulesOfForm(T, terms, {}, << >>)) : ruleRows = new
          /\ versions = <<snapshotOf([status |-> "draft", details |-> 1], Stated(T))>>
    BY DEF ProgramsInit
  <1>2. FormRows(ruleRows, T, terms, {}, << >>)
    <2>1. Numbered(<< >>, {})
      BY DEF Numbered
    <2>2. PICK new \in Sequences(RulesOfForm(T, terms, {}, << >>)) : ruleRows = new
      BY <1>1
    <2> QED
      BY <2>1, <2>2, NewRules
  <1>3. PICK N \in Nat : DOMAIN ruleRows = 1 .. N
    BY <1>2 DEF FormRows
  <1>4. \A r \in 1 .. N : /\ ruleRows[r].trigger \in T /\ ruleRows[r].benefit = terms.benefit
                          /\ ruleRows[r].supersedes = 0 /\ ruleRows[r].version = 1
    BY <1>2, <1>3 DEF FormRows, FormRow
  <1>5. LaterReplaces
    BY <1>2, <1>3 DEF FormRows, LaterReplaces
  <1>6. OneFormRuns
    BY <1>1, <1>3, <1>4 DEF OneFormRuns, FormRules, ActiveIn
  <1>7. \A r \in DOMAIN ruleRows : Follows(r)
    BY <1>3, <1>4 DEF Follows
  <1>8. HistoryInv
    <2>1. PICK s \in VersionRow : /\ s = snapshotOf([status |-> "draft", details |-> 1], Stated(T))
                                  /\ s.status = "draft" /\ s.details = 1
      <3>1. [status |-> "draft", details |-> 1, stated |-> [triggers |-> T]] \in VersionRow
        BY DEF VersionRow
      <3>2. snapshotOf([status |-> "draft", details |-> 1], Stated(T))
              = [status |-> "draft", details |-> 1, stated |-> [triggers |-> T]]
        BY DEF snapshotOf, Stated
      <3> QED
        BY <3>1, <3>2
    <2>2. /\ versions = <<s>> /\ programme = [status |-> "draft", details |-> 1, version |-> 1]
      BY <1>1, <2>1 DEF ProgramsInit
    <2> QED
      BY <2>1, <2>2 DEF HistoryInv, HistoryTellsTheProgramme, ProgramRow
  <1>9. editing \in [Editors -> EditRequest] /\ \A e \in Editors : editing[e].stage = "none"
    BY DEF ProgramsInit, EditRequest, NoEdit
  <1>10. \A e \in Editors : EditHolds(e) /\ RetiredStand(e)
    BY <1>9 DEF EditHolds, RetiredStand
  <1> QED
    BY <1>2, <1>5, <1>6, <1>7, <1>8, <1>9, <1>10 DEF FormRows, ProgramsInv, ProgramTables, HistoryInv

\* The least of some rules, which the form takes its answer from.
LEMMA FirstOfSome ==
    ASSUME NEW N \in Nat, NEW S \in SUBSET (1 .. N), S # {}
    PROVE  Min(S) \in S
  <1> DEFINE Mirror == {N + 1 - r : r \in S}
  <1>1. Mirror \in SUBSET (1 .. N) /\ Mirror # {}
    <2>1. ASSUME NEW r \in S PROVE N + 1 - r \in 1 .. N
      <3>1. r \in Nat /\ 1 <= r /\ r <= N
        OBVIOUS
      <3> QED
        BY <3>1
    <2> QED
      BY <2>1
  <1> HIDE DEF Mirror
  <1>2. PICK m \in Mirror : \A n \in Mirror : n <= m
    BY <1>1, LastOfSome
  <1>3. PICK r \in S : m = N + 1 - r
    BY DEF Mirror
  <1>4. ASSUME NEW o \in S PROVE r <= o
    <2>1. N + 1 - o <= m /\ o \in Nat /\ r \in Nat
      BY <1>2 DEF Mirror
    <2> QED
      BY <1>3, <2>1
  <1> QED
    BY <1>4 DEF Min

\* Of a condition the form can say, what it says is the condition.
LEMMA WindowReturns ==
    ASSUME NEW C \in SUBSET ({ContentMatch} \cup (ScheduleDays \X Slots)), NEW terms,
           terms.schedule = conditionsToSchedule(C),
           \A w \in TimeWindow(C) : w[2] = "all" => {x \in TimeWindow(C) : x[1] = w[1]} = {w}
    PROVE  TimeWindow(programConditions(terms)) = TimeWindow(C)
  <1> DEFINE TW == TimeWindow(C)
             Days == {w[1] : w \in TW}
             Parts(day) == {w[2] : w \in {x \in TW : x[1] = day /\ x[2] # "all"}}
             Said(day) == IF Parts(day) = {} THEN {"all"} ELSE Parts(day)
  <1>1. TW \in SUBSET (ScheduleDays \X Slots)
    BY DEF TimeWindow
  <1>2. DOMAIN terms.schedule = Days /\ \A day \in Days : terms.schedule[day] = Parts(day)
    BY DEF conditionsToSchedule
  <1>3. ContentMatch \notin ScheduleDays \X Slots
    BY ProgramsAssumption DEF ContentMatch
  <1>4. ASSUME NEW w \in TW PROVE w[1] \in Days /\ w[2] \in Said(w[1]) /\ w = <<w[1], w[2]>>
    <2>1. w = <<w[1], w[2]>> /\ w[1] \in Days
      BY <1>1
    <2>2. CASE w[2] = "all"
      <3>1. {x \in TW : x[1] = w[1]} = {w}
        BY <2>2
      <3>2. Parts(w[1]) = {}
        BY <2>2, <3>1
      <3> QED
        BY <2>1, <2>2, <3>2
    <2>3. CASE w[2] # "all"
      <3>1. w[2] \in Parts(w[1])
        BY <2>3
      <3> QED
        BY <2>1, <3>1
    <2> QED
      BY <2>2, <2>3
  <1>5. ASSUME NEW day \in Days, NEW slot \in Said(day) PROVE <<day, slot>> \in TW
    <2>1. CASE Parts(day) = {}
      <3>1. PICK w \in TW : w[1] = day
        OBVIOUS
      <3>2. w[2] = "all"
        BY <2>1, <3>1
      <3>3. slot = "all" /\ w = <<w[1], w[2]>>
        BY <1>1, <1>5, <2>1
      <3> QED
        BY <3>1, <3>2, <3>3
    <2>2. CASE Parts(day) # {}
      <3>1. slot \in Parts(day)
        BY <1>5, <2>2
      <3>2. PICK w \in TW : w[1] = day /\ w[2] = slot
        BY <3>1
      <3>3. w = <<w[1], w[2]>>
        BY <1>1
      <3> QED
        BY <3>2, <3>3
    <2> QED
      BY <2>1, <2>2
  <1>6. ASSUME NEW w
        PROVE  w \in programConditions(terms)
                 <=> \/ terms.matched /\ w = ContentMatch
                     \/ \E day \in Days : \E slot \in Said(day) : w = <<day, slot>>
    <2>1. \A day \in Days :
             (IF terms.schedule[day] = {} THEN {"all"} ELSE terms.schedule[day]) = Said(day)
      BY <1>2
    <2>2. ASSUME NEW day \in Days, NEW slot \in Said(day) PROVE <<day, slot>> \in programConditions(terms)
      <3>1. /\ day \in DOMAIN terms.schedule
            /\ slot \in IF terms.schedule[day] = {} THEN {"all"} ELSE terms.schedule[day]
        BY <1>2, <2>1, <2>2
      <3> QED
        BY <3>1 DEF programConditions
    <2>3. ASSUME w \in programConditions(terms), ~(terms.matched /\ w = ContentMatch)
          PROVE  \E day \in Days : \E slot \in Said(day) : w = <<day, slot>>
      <3>1. PICK day \in DOMAIN terms.schedule :
               w \in {<<day, slot>> : slot \in IF terms.schedule[day] = {} THEN {"all"}
                                              ELSE terms.schedule[day]}
        BY <2>3 DEF programConditions
      <3>2. day \in Days
        BY <1>2
      <3>3. PICK slot \in Said(day) : w = <<day, slot>>
        <4> HIDE DEF Said, Days
        <4> QED
          BY <2>1, <3>1, <3>2
      <3> HIDE DEF Said, Days
      <3> QED
        BY <3>2, <3>3
    <2>4. terms.matched /\ w = ContentMatch => w \in programConditions(terms)
      BY DEF programConditions
    <2> HIDE DEF Said, Days
    <2> QED
      BY <2>2, <2>3, <2>4
  <1>7. ASSUME NEW w
        PROVE  (\E day \in Days : \E slot \in Said(day) : w = <<day, slot>>) <=> w \in TW
    <2> HIDE DEF Said, Days, TW
    <2> QED
      BY <1>4, <1>5
  <1>8. ContentMatch \notin TW
    BY <1>1, <1>3
  <1>9. ASSUME NEW w PROVE w \in TimeWindow(programConditions(terms)) <=> w \in TW
    <2>1. w \in TimeWindow(programConditions(terms))
            <=> w \in programConditions(terms) /\ w # ContentMatch
      BY DEF TimeWindow
    <2> HIDE DEF Said, Days, TW
    <2> QED
      BY <1>6, <1>7, <1>8, <2>1
  <1> HIDE DEF TW
  <1>10. TimeWindow(programConditions(terms)) = TW
    BY <1>9
  <1> QED
    BY <1>10 DEF TW

\* The configuration of a uniform programme, saved as it is.
LEMMA FormReturns ==
    ASSUME ProgramsInv
    PROVE  FormRoundTrips
  <1> DEFINE running == ActiveIn(ruleRows)
             saved == programConfiguration(ruleRows)
             FormCanSay(r) == \A w \in TimeWindow(ruleRows[r].conditions) :
                 w[2] = "all" => {x \in TimeWindow(ruleRows[r].conditions) : x[1] = w[1]} = {w}
  <1>1. SUFFICES ASSUME running # {}, uniform(ruleRows), \A r \in running : FormCanSay(r)
                 PROVE  /\ \A r \in running :
                             /\ saved.capped = ruleRows[r].capped
                             /\ Hours(programConditions(saved)) = Hours(ruleRows[r].conditions)
                             /\ saved.matched = (ContentMatch \in ruleRows[r].conditions)
                        /\ (\A r \in running : ruleRows[r].made = "form" /\ ~ruleRows[r].switched)
                             => FormAccepted({ruleRows[r].trigger : r \in running}, saved)
    BY DEF FormRoundTrips
  <1>2. PICK first \in running : first = Min(running)
    <2>1. Len(ruleRows) \in Nat /\ running \in SUBSET (1 .. Len(ruleRows))
      BY NumberedRules DEF ActiveIn
    <2> QED
      BY <1>1, <2>1, FirstOfSome
  <1>3. /\ saved.capped = ruleRows[first].capped /\ saved.benefit = ruleRows[first].benefit
        /\ saved.matched = (\E r \in running : ContentMatch \in ruleRows[r].conditions)
        /\ saved.schedule = conditionsToSchedule(ruleRows[first].conditions)
    BY <1>2 DEF programConfiguration
  <1> HIDE DEF saved
  <1>4. \A r \in running : /\ ruleRows[r].capped = ruleRows[first].capped
                           /\ ruleRows[r].conditions = ruleRows[first].conditions
    BY <1>1, <1>2 DEF uniform
  <1>5. ruleRows[first].conditions \in SUBSET ({ContentMatch} \cup (ScheduleDays \X Slots))
    <2>1. ruleRows[first] \in RuleRow
      BY <1>2, NumberedRules DEF ActiveIn
    <2> QED
      BY <2>1 DEF RuleRow
  <1>6. TimeWindow(programConditions(saved)) = TimeWindow(ruleRows[first].conditions)
    <2>1. FormCanSay(first)
      BY <1>1, <1>2
    <2> QED
      BY <1>3, <1>5, <2>1, WindowReturns
  <1>7. Hours(programConditions(saved)) = Hours(ruleRows[first].conditions)
    BY <1>6 DEF Hours
  <1>8. ASSUME NEW r \in running
        PROVE  /\ saved.capped = ruleRows[r].capped
               /\ Hours(programConditions(saved)) = Hours(ruleRows[r].conditions)
               /\ saved.matched = (ContentMatch \in ruleRows[r].conditions)
    <2>1. (\E o \in running : ContentMatch \in ruleRows[o].conditions)
            <=> ContentMatch \in ruleRows[r].conditions
      BY <1>4
    <2>2. saved.matched = (ContentMatch \in ruleRows[r].conditions)
      <3>1. CASE ContentMatch \in ruleRows[r].conditions
        BY <1>3, <2>1, <3>1
      <3>2. CASE ContentMatch \notin ruleRows[r].conditions
        <4>1. PICK some \in BOOLEAN : some = (\E o \in running : ContentMatch \in ruleRows[o].conditions)
          OBVIOUS
        <4>2. saved.matched = some /\ some = FALSE
          <5>1. saved.matched = some
            BY <1>3, <4>1
          <5>2. some = FALSE
            BY <2>1, <3>2, <4>1
          <5> QED
            BY <5>1, <5>2
        <4>3. (ContentMatch \in ruleRows[r].conditions) = FALSE
          BY <3>2
        <4> QED
          BY <4>2, <4>3
      <3> QED
        BY <3>1, <3>2
    <2> QED
      BY <1>3, <1>4, <1>7, <2>2
  <1>9. ASSUME \A r \in running : ruleRows[r].made = "form" /\ ~ruleRows[r].switched
        PROVE  FormAccepted({ruleRows[r].trigger : r \in running}, saved)
    <2>1. PICK T \in SUBSET Triggers, terms \in FormTerms :
            /\ FormAccepted(T, terms)
            /\ \A r \in FormRules : ruleRows[r].trigger \in T /\ ruleRows[r].benefit = terms.benefit
      BY DEF ProgramsInv, OneFormRuns
    <2>2. FormRules = running
      BY <1>9 DEF FormRules
    <2>3. PICK S : S = {ruleRows[r].trigger : r \in running}
      OBVIOUS
    <2>4. S \in SUBSET T /\ S # {}
      BY <1>1, <2>1, <2>2, <2>3
    <2>5. T \cap SystemTriggers # {} => S = T /\ Cardinality(S) = 1
      <3>1. SUFFICES ASSUME T \cap SystemTriggers # {} PROVE S = T /\ Cardinality(S) = 1
        OBVIOUS
      <3>2. Cardinality(T) = 1 /\ IsFiniteSet(T)
        BY <2>1, <3>1, TriggersAreFinite DEF FormAccepted
      <3>3. PICK t : T = {t}
        BY <3>2, FS_Singleton
      <3> QED
        BY <2>4, <3>2, <3>3
    <2>6. saved.benefit = terms.benefit
      BY <1>2, <1>3, <2>1, <2>2
    <2>7. FormAccepted(S, saved)
      BY <2>1, <2>4, <2>5, <2>6 DEF FormAccepted, benefitSuitsTriggers
    <2> QED
      BY <2>3, <2>7
  <1> QED
    BY <1>8, <1>9

\* Whoever edits, adds, switches or archives a programme at the same time: no
\* version of a rule runs beside its successor, versions form a chain, the
\* history tells what is in force, and a form saved unchanged changes nothing
\* (replaceRules, lockForUpdate, recordProgramVersion, programConfiguration).
THEOREM ProgrammesAreSound == ProgramsSpec => []ProgrammeIsSound
  <1>1. ProgramsInv => ProgrammeIsSound
    <2> SUFFICES ASSUME ProgramsInv PROVE ProgrammeIsSound
      OBVIOUS
    <2>1. OnlyNewestRuns
      <3>1. \A r \in DOMAIN ruleRows : ruleRows[r].made \in {"form", "hand"}
        BY NumberedRules DEF RuleRow
      <3> QED
        BY <3>1 DEF ProgramsInv, LaterReplaces, OnlyNewestRuns, ActiveIn
    <2>2. LineageIsAChain
      <3>1. ASSUME NEW r \in DOMAIN ruleRows, ruleRows[r].supersedes # 0
            PROVE  /\ ruleRows[r].supersedes < r
                   /\ ruleRows[ruleRows[r].supersedes].trigger = ruleRows[r].trigger
                   /\ ruleRows[ruleRows[r].supersedes].version + 1 = ruleRows[r].version
                   /\ \A o \in DOMAIN ruleRows \ {r} : ruleRows[o].supersedes = ruleRows[r].supersedes
                         => ruleRows[ruleRows[r].supersedes].switched
        <4>1. Follows(r) /\ r \in Nat
          BY NumberedRules DEF ProgramsInv
        <4> QED
          BY <3>1, <4>1 DEF Follows
      <3> QED
        BY <3>1 DEF LineageIsAChain
    <2> QED
      BY <2>1, <2>2, FormReturns DEF ProgrammeIsSound, ProgramsInv
  <1>2. ProgramsSpec => []ProgramsInv
    BY ProgramsStart, ProgramsStep, PTL DEF ProgramsSpec
  <1> QED
    BY <1>1, <1>2, PTL

-----------------------------------------------------------------------------
(* Paging.                                                                   *)

\* What a column of the precision of a cursor can hold.
Stamps == {TicksPerMilli * x : x \in Nat}

PageCursor == [at : Stamps, id : Nat \ {0}]

OneWalk == [cursor : {NoCursor} \cup PageCursor, open : BOOLEAN, moved : SUBSET (1 .. RowLimit),
            due : SUBSET (1 .. RowLimit), told : [1 .. RowLimit -> Nat]]

PagesTables ==
    /\ sortKey \in Seq(Stamps) /\ Len(sortKey) <= RowLimit
    /\ moves \in Nat
    /\ walk = NoWalk \/ walk \in OneWalk

\* A row that was told is behind the cursor, one that is still due is not.
ToldIsBehind ==
    walk # NoWalk =>
        /\ walk.due \subseteq Visible
        /\ \A r \in (1 .. RowLimit) \ Rows : walk.told[r] = 0
        /\ \A r \in Rows \ walk.moved :
              /\ walk.told[r] \in {0, 1}
              /\ walk.open /\ walk.told[r] = 1 => r \notin listInbox(walk.cursor)
              /\ walk.open /\ r \in walk.due /\ walk.told[r] = 0 => r \in listInbox(walk.cursor)
              /\ ~walk.open /\ r \in walk.due => walk.told[r] = 1

PagesInv == PagesTables /\ ToldIsBehind

-----------------------------------------------------------------------------
(* Times.                                                                    *)

LEMMA Quotient ==
    ASSUME NEW m \in Nat \ {0}, NEW x \in Nat
    PROVE  m * x \in Nat /\ (m * x) \div m = x
  <1> DEFINE q == (m * x) \div m
  <1>1. m * x \in Nat
    OBVIOUS
  <1>2. q \in Nat /\ m * q <= m * x /\ m * x < m * q + m
    BY <1>1
  <1> HIDE DEF q
  <1>3. CASE q < x
    <2>1. m * (q + 1) <= m * x
      BY <1>2, <1>3
    <2>2. m * (q + 1) = m * q + m
      BY <1>2
    <2> QED
      BY <1>1, <1>2, <2>1, <2>2
  <1>4. CASE x < q
    <2>1. m * (x + 1) <= m * q
      BY <1>2, <1>4
    <2>2. m * (x + 1) = m * x + m
      OBVIOUS
    <2> QED
      BY <1>1, <1>2, <2>1, <2>2
  <1> QED
    BY <1>1, <1>2, <1>3, <1>4 DEF q

\* What is stored comes back from the driver as it is.
LEMMA StampsAreRead ==
    /\ \A t \in Stamps : t \in Nat /\ DriverReads(t) = t
    /\ \A t \in Nat : StoredAt(t) \in Stamps
    /\ NULL \in Stamps
  <1>1. TicksPerMilli \in Nat \ {0}
    BY PagesAssumption DEF PagesAssumption
  <1>2. ASSUME NEW t \in Stamps PROVE t \in Nat /\ DriverReads(t) = t
    <2>1. PICK x \in Nat : t = TicksPerMilli * x
      BY DEF Stamps
    <2>2. TicksPerMilli * x \in Nat /\ (TicksPerMilli * x) \div TicksPerMilli = x
      BY <1>1, Quotient
    <2> QED
      BY <2>1, <2>2 DEF DriverReads
  <1>3. ASSUME NEW t \in Nat PROVE StoredAt(t) \in Stamps
    <2>1. (t + TicksPerMilli \div 2) \div TicksPerMilli \in Nat
      <3>1. TicksPerMilli \div 2 \in Nat
        BY <1>1
      <3>2. t + TicksPerMilli \div 2 \in Nat
        BY <3>1
      <3> QED
        BY <1>1, <3>2
    <2> QED
      BY <2>1 DEF StoredAt, Stamps
  <1>4. NULL = TicksPerMilli * 0
    BY <1>1 DEF NULL
  <1> QED
    BY <1>2, <1>3, <1>4 DEF Stamps

-----------------------------------------------------------------------------
(* The order of the listing.                                                 *)

LEMMA RowsAre ==
    ASSUME PagesTables
    PROVE  /\ Rows \subseteq 1 .. RowLimit /\ IsFiniteSet(Rows) /\ Rows \subseteq Nat \ {0}
           /\ \A r \in Rows : sortKey[r] \in Stamps /\ sortKey[r] \in Nat
  <1>1. Rows = 1 .. Len(sortKey) /\ Len(sortKey) \in Nat /\ RowLimit \in Nat
    BY PagesAssumption DEF PagesTables, Rows, PagesAssumption
  <1>2. IsFiniteSet(1 .. Len(sortKey))
    BY <1>1, FS_Interval
  <1>3. Rows \subseteq 1 .. RowLimit /\ Rows \subseteq Nat \ {0}
    BY <1>1 DEF PagesTables
  <1>4. \A r \in Rows : sortKey[r] \in Stamps
    BY DEF PagesTables, Rows
  <1> QED
    BY <1>1, <1>2, <1>3, <1>4, StampsAreRead

LEMMA OrderIsTotal ==
    ASSUME PagesTables
    PROVE  /\ \A r \in Rows : ~SortsBefore(r, r)
           /\ \A r, s \in Rows : r = s \/ SortsBefore(r, s) \/ SortsBefore(s, r)
           /\ \A r, s, u \in Rows : SortsBefore(r, s) /\ SortsBefore(s, u) => SortsBefore(r, u)
  <1>1. \A r \in Rows : sortKey[r] \in Nat /\ r \in Nat
    BY RowsAre
  <1> QED
    BY <1>1 DEF SortsBefore, NULL

\* What comes before an earlier row is less than what comes before a later one.
LEMMA EarlierHasFewer ==
    ASSUME PagesTables, NEW S \in SUBSET Rows, NEW r \in S, NEW s \in S, SortsBefore(s, r)
    PROVE  /\ Cardinality(RowsBefore(S, s)) \in Nat /\ Cardinality(RowsBefore(S, r)) \in Nat
           /\ Cardinality(RowsBefore(S, s)) < Cardinality(RowsBefore(S, r))
  <1>1. IsFiniteSet(RowsBefore(S, r)) /\ IsFiniteSet(RowsBefore(S, s))
    BY RowsAre, FS_Subset DEF RowsBefore
  <1>2. RowsBefore(S, s) \in SUBSET RowsBefore(S, r)
    BY OrderIsTotal DEF RowsBefore
  <1>3. s \in RowsBefore(S, r) /\ s \notin RowsBefore(S, s)
    BY OrderIsTotal DEF RowsBefore
  <1>4. Cardinality(RowsBefore(S, s)) \in Nat /\ Cardinality(RowsBefore(S, r)) \in Nat
    BY <1>1, FS_CardinalityType
  <1>5. Cardinality(RowsBefore(S, s)) <= Cardinality(RowsBefore(S, r))
    BY <1>1, <1>2, FS_Subset
  <1>6. Cardinality(RowsBefore(S, s)) # Cardinality(RowsBefore(S, r))
    BY <1>1, <1>2, <1>3, FS_Subset
  <1> QED
    BY <1>4, <1>5, <1>6

\* A page that no other follows has all the rows; of one that another follows,
\* the last row divides those on the page from the others.
LEMMA PageDivides ==
    ASSUME PagesTables, NEW S \in SUBSET Rows
    PROVE  LET page == readPage(S)
               last == LastOf(page.items)
           IN  /\ page.items \subseteq S /\ page.hasMore \in BOOLEAN
               /\ ~page.hasMore => page.items = S
               /\ page.hasMore =>
                    /\ last \in page.items
                    /\ \A r \in page.items : r = last \/ SortsBefore(r, last)
                    /\ \A r \in S \ page.items : SortsBefore(last, r)
  <1> DEFINE items == {r \in S : Cardinality(RowsBefore(S, r)) < PageSize}
             ranks == {Cardinality(RowsBefore(S, r)) : r \in S}
             last == LastOf(items)
  <1>1. readPage(S).items = items /\ readPage(S).hasMore = (Cardinality(S) > PageSize)
    BY DEF readPage
  <1>2. IsFiniteSet(S) /\ Cardinality(S) \in Nat /\ PageSize \in Nat \ {0}
    BY RowsAre, FS_Subset, FS_CardinalityType, PagesAssumption DEF PagesAssumption
  <1>3. \A r \in S : Cardinality(RowsBefore(S, r)) \in Nat
    BY <1>2, FS_Subset, FS_CardinalityType DEF RowsBefore
  <1>4. ASSUME Cardinality(S) <= PageSize, NEW r \in S PROVE r \in items
    <2>1. RowsBefore(S, r) \in SUBSET S /\ r \notin RowsBefore(S, r)
      BY OrderIsTotal DEF RowsBefore
    <2>2. Cardinality(RowsBefore(S, r)) <= Cardinality(S) /\ Cardinality(RowsBefore(S, r)) # Cardinality(S)
      BY <1>2, <2>1, FS_Subset
    <2> QED
      BY <1>2, <1>3, <1>4, <2>2
  <1>5. ASSUME Cardinality(S) > PageSize
        PROVE  /\ last \in items
               /\ \A r \in items : r = last \/ SortsBefore(r, last)
               /\ \A r \in S \ items : SortsBefore(last, r)
    <2>1. S # {}
      <3>1. Cardinality({}) = 0
        BY FS_EmptySet
      <3> QED
        BY <1>2, <1>5, <3>1
    <2>2. ranks \in SUBSET Nat /\ ranks # {}
      BY <1>3, <2>1
    <2> HIDE DEF items
    <2>3. PICK m \in ranks : \A n \in ranks : m <= n
      BY <2>2, LeastNumber
    <2>4. PICK f \in S : m = Cardinality(RowsBefore(S, f))
      OBVIOUS
    <2>5. RowsBefore(S, f) = {}
      <3> SUFFICES ASSUME NEW s \in RowsBefore(S, f) PROVE FALSE
        OBVIOUS
      <3>1. s \in S /\ SortsBefore(s, f)
        BY DEF RowsBefore
      <3>2. Cardinality(RowsBefore(S, s)) < Cardinality(RowsBefore(S, f))
        BY <3>1, EarlierHasFewer
      <3>3. Cardinality(RowsBefore(S, f)) <= Cardinality(RowsBefore(S, s))
        BY <2>3, <2>4, <3>1
      <3> QED
        BY <1>3, <3>1, <3>2, <3>3
    <2>6. f \in items
      <3>1. Cardinality(RowsBefore(S, f)) = 0
        BY <2>5, FS_EmptySet
      <3> QED
        BY <1>2, <3>1 DEF items
    <2> DEFINE onPage == {Cardinality(RowsBefore(S, r)) : r \in items}
    <2>7. onPage \in SUBSET (0 .. PageSize) /\ onPage # {}
      <3>1. \A r \in items : Cardinality(RowsBefore(S, r)) \in 0 .. PageSize
        BY <1>2, <1>3 DEF items
      <3> QED
        BY <2>6, <3>1
    <2>8. PICK n \in onPage : \A o \in onPage : o <= n
      <3> HIDE DEF onPage
      <3> QED
        BY <1>2, <2>7, GreatestNumber
    <2>9. PICK e \in items : n = Cardinality(RowsBefore(S, e))
      OBVIOUS
    <2>10. items \subseteq S /\ S \subseteq Rows
      BY DEF items
    <2>11. \A s \in items : s = e \/ SortsBefore(s, e)
      <3> SUFFICES ASSUME NEW s \in items, s # e, ~SortsBefore(s, e) PROVE FALSE
        OBVIOUS
      <3>1. SortsBefore(e, s)
        BY <2>10, OrderIsTotal
      <3>2. Cardinality(RowsBefore(S, e)) < Cardinality(RowsBefore(S, s))
        BY <2>10, <3>1, EarlierHasFewer
      <3>3. Cardinality(RowsBefore(S, s)) <= Cardinality(RowsBefore(S, e))
        BY <2>8, <2>9
      <3> QED
        BY <1>3, <2>10, <3>2, <3>3
    <2>12. last \in items /\ \A s \in items : s = last \/ SortsBefore(s, last)
      <3>1. LastOf(items) \in items /\ \A s \in items : s = LastOf(items) \/ SortsBefore(s, LastOf(items))
        <4>1. \E r \in items : \A s \in items : s = r \/ SortsBefore(s, r)
          BY <2>11
        <4> QED
          BY <4>1 DEF LastOf
      <3> QED
        BY <3>1
    <2> HIDE DEF last
    <2>13. ASSUME NEW r \in S \ items PROVE SortsBefore(last, r)
      <3>1. SortsBefore(r, last) => Cardinality(RowsBefore(S, r)) < Cardinality(RowsBefore(S, last))
        BY <2>10, <2>12, EarlierHasFewer
      <3>2. Cardinality(RowsBefore(S, last)) < PageSize
        BY <2>12 DEF items
      <3>3. ~(Cardinality(RowsBefore(S, r)) < PageSize)
        BY <2>13 DEF items
      <3>4. ~SortsBefore(r, last)
        BY <1>2, <1>3, <2>10, <2>12, <3>1, <3>2, <3>3
      <3> QED
        BY <2>10, <2>12, <2>13, <3>4, OrderIsTotal
    <2> QED
      BY <2>12, <2>13
  <1>6. ~(Cardinality(S) > PageSize) => items = S
    BY <1>2, <1>4
  <1> HIDE DEF items
  <1>7. items \subseteq S
    BY DEF items
  <1>8. CASE Cardinality(S) > PageSize
    <2>1. readPage(S).items = items /\ readPage(S).hasMore = TRUE
      BY <1>1, <1>8
    <2>2. LastOf(readPage(S).items) = last
      BY <2>1
    <2> HIDE DEF last
    <2> QED
      BY <1>5, <1>7, <1>8, <2>1, <2>2
  <1>9. CASE ~(Cardinality(S) > PageSize)
    <2>1. readPage(S).items = items
      BY <1>1
    <2>2. readPage(S).hasMore \in BOOLEAN /\ ~readPage(S).hasMore
      <3>1. (Cardinality(S) > PageSize) = FALSE
        BY <1>2, <1>9
      <3>2. readPage(S).hasMore = (Cardinality(S) > PageSize)
        BY <1>1
      <3>3. readPage(S).hasMore = FALSE
        BY Zenon, <3>1, <3>2
      <3> QED
        BY <3>3
    <2> QED
      BY <1>6, <1>7, <1>9, <2>1, <2>2
  <1> QED
    BY <1>8, <1>9

\* A cursor stands for the row it was made of, and what comes after that row is
\* what comes after the cursor.
LEMMA CursorIsRow ==
    ASSUME PagesTables, NEW e \in Rows
    PROVE  LET c == encodeKeysetCursor(sortKey[e], e)
           IN  /\ c \in PageCursor /\ c # NoCursor
               /\ c.id = e /\ c.at = sortKey[e]
               /\ \A r \in Rows : AfterCursor(r, c) <=> SortsBefore(e, r)
  <1> DEFINE c == encodeKeysetCursor(sortKey[e], e)
  <1>1. sortKey[e] \in Stamps /\ DriverReads(sortKey[e]) = sortKey[e] /\ e \in Nat \ {0}
    BY RowsAre, StampsAreRead
  <1>2. c = [at |-> sortKey[e], id |-> e]
    BY <1>1 DEF encodeKeysetCursor
  <1>3. c.id # NoCursor.id
    BY <1>1, <1>2 DEF NoCursor
  <1>4. \A r \in Rows : sortKey[r] \in Nat /\ r \in Nat
    BY RowsAre
  <1>5. \A r \in Rows : AfterCursor(r, c) <=> SortsBefore(e, r)
    BY <1>2, <1>4 DEF AfterCursor, SortsBefore, NULL
  <1> QED
    BY <1>1, <1>2, <1>3, <1>5 DEF PageCursor

\* What comes after a row that comes after the cursor comes after the cursor.
LEMMA ListGoesOn ==
    ASSUME PagesTables, NEW c \in {NoCursor} \cup PageCursor, NEW e \in listInbox(c), NEW r \in Visible,
           SortsBefore(e, r)
    PROVE  r \in listInbox(c)
  <1>1. CASE c = NoCursor
    BY <1>1 DEF listInbox
  <1>2. CASE c # NoCursor
    <2>1. AfterCursor(e, c) /\ e \in Rows /\ r \in Rows
      BY <1>2 DEF listInbox, Visible
    <2>2. c.at \in Nat /\ c.id \in Nat
      BY <1>2, StampsAreRead DEF PageCursor
    <2>3. \A x \in Rows : sortKey[x] \in Nat /\ x \in Nat
      BY RowsAre
    <2>4. AfterCursor(r, c)
      BY <2>1, <2>2, <2>3 DEF AfterCursor, SortsBefore, NULL
    <2> QED
      BY <2>4 DEF listInbox
  <1> QED
    BY <1>1, <1>2

-----------------------------------------------------------------------------
(* The steps.                                                                *)

LEMMA PagesStart == ASSUME PagesInit PROVE PagesInv
  BY PagesAssumption DEF PagesInit, PagesInv, PagesTables, ToldIsBehind, PagesAssumption

\* A row whose key stays as it is stays on its side of a cursor.
LEMMA SideKept ==
    ASSUME NEW r \in Rows, r \in Rows', sortKey'[r] = sortKey[r], NEW c
    PROVE  r \in listInbox(c) <=> r \in {x \in Visible' : c = NoCursor \/ AfterCursor(x, c)'}
  BY DEF listInbox, Visible, AfterCursor

LEMMA WalkParts ==
    ASSUME PagesTables, walk # NoWalk
    PROVE  /\ walk \in OneWalk
           /\ walk.cursor \in {NoCursor} \cup PageCursor /\ walk.open \in BOOLEAN
           /\ walk.moved \subseteq 1 .. RowLimit /\ walk.due \subseteq 1 .. RowLimit
           /\ walk.told \in [1 .. RowLimit -> Nat]
  BY DEF PagesTables, OneWalk

LEMMA InsertKeeps ==
    ASSUME PagesInv, NEW t \in NULL .. LastTick, InsertRow(t)
    PROVE  PagesInv'
  <1> DEFINE k == IF t = NULL THEN NULL ELSE StoredAt(t)
  <1>1. /\ PagesTables /\ Len(sortKey) < RowLimit /\ sortKey' = Append(sortKey, k)
        /\ UNCHANGED <<walk, moves>>
    BY DEF InsertRow, PagesInv
  <1>2. k \in Stamps
    <2>1. t \in Nat
      BY PagesAssumption DEF PagesAssumption, NULL
    <2> QED
      BY <2>1, StampsAreRead
  <1> HIDE DEF k
  <1>3. sortKey \in Seq(Stamps) /\ Len(sortKey) \in Nat /\ RowLimit \in Nat
    BY <1>1, PagesAssumption DEF PagesTables, PagesAssumption
  <1>4. /\ sortKey' \in Seq(Stamps) /\ Len(sortKey') = Len(sortKey) + 1
        /\ \A r \in Rows : r \in Rows' /\ sortKey'[r] = sortKey[r]
        /\ \A r \in Rows' : r \in Rows \/ r = Len(sortKey) + 1
        /\ Rows = 1 .. Len(sortKey)
    BY <1>1, <1>2, <1>3 DEF Rows
  <1>5. PagesTables'
    BY <1>1, <1>3, <1>4 DEF PagesTables
  <1>6. ToldIsBehind'
    <2> SUFFICES ASSUME walk # NoWalk
                 PROVE  /\ walk.due \subseteq Visible'
                        /\ \A r \in (1 .. RowLimit) \ Rows' : walk.told[r] = 0
                        /\ \A r \in Rows' \ walk.moved :
                              /\ walk.told[r] \in {0, 1}
                              /\ walk.open /\ walk.told[r] = 1 => r \notin listInbox(walk.cursor)'
                              /\ walk.open /\ r \in walk.due /\ walk.told[r] = 0 => r \in listInbox(walk.cursor)'
                              /\ ~walk.open /\ r \in walk.due => walk.told[r] = 1
      BY <1>1 DEF ToldIsBehind
    <2>1. /\ walk.due \subseteq Visible
          /\ \A r \in (1 .. RowLimit) \ Rows : walk.told[r] = 0
          /\ \A r \in Rows \ walk.moved :
                /\ walk.told[r] \in {0, 1}
                /\ walk.open /\ walk.told[r] = 1 => r \notin listInbox(walk.cursor)
                /\ walk.open /\ r \in walk.due /\ walk.told[r] = 0 => r \in listInbox(walk.cursor)
                /\ ~walk.open /\ r \in walk.due => walk.told[r] = 1
      BY DEF PagesInv, ToldIsBehind
    <2>2. \A r \in Rows : r \in listInbox(walk.cursor) <=> r \in listInbox(walk.cursor)'
      BY <1>1, <1>4, SideKept DEF listInbox
    <2>3. walk.due \subseteq Visible' /\ walk.due \subseteq Rows
      BY <1>4, <2>1 DEF Visible
    <2>4. ASSUME NEW r \in Rows', r \notin Rows PROVE walk.told[r] = 0 /\ r \notin walk.due
      <3>1. r = Len(sortKey) + 1 /\ r \in 1 .. RowLimit
        BY <1>1, <1>3, <1>4, <2>4
      <3> QED
        BY <2>1, <2>3, <2>4, <3>1
    <2>5. \A r \in (1 .. RowLimit) \ Rows' : walk.told[r] = 0
      BY <1>4, <2>1
    <2> QED
      BY <2>1, <2>2, <2>3, <2>4, <2>5
  <1> QED
    BY <1>5, <1>6 DEF PagesInv

LEMMA MoveKeeps ==
    ASSUME PagesInv, NEW r \in Rows, NEW t \in 1 .. LastTick, MoveRow(r, t)
    PROVE  PagesInv'
  <1>1. /\ PagesTables /\ moves' = moves + 1
        /\ sortKey' = [sortKey EXCEPT ![r] = StoredAt(t)]
        /\ walk' = IF walk.open THEN [walk EXCEPT !.moved = @ \cup {r}] ELSE walk
    BY DEF MoveRow, PagesInv
  <1>2. StoredAt(t) \in Stamps
    <2>1. t \in Nat
      BY PagesAssumption DEF PagesAssumption
    <2> QED
      BY <2>1, StampsAreRead
  <1>3. sortKey \in Seq(Stamps) /\ r \in 1 .. RowLimit
    BY <1>1, RowsAre DEF PagesTables
  <1>4. /\ sortKey' \in Seq(Stamps) /\ Len(sortKey') = Len(sortKey) /\ Rows' = Rows
        /\ \A x \in Rows : x # r => sortKey'[x] = sortKey[x]
    BY <1>1, <1>2, <1>3 DEF Rows
  <1>5. CASE walk = NoWalk
    <2>1. walk' = NoWalk
      BY <1>1, <1>5 DEF NoWalk
    <2> QED
      BY <1>1, <1>4, <2>1 DEF PagesInv, PagesTables, ToldIsBehind
  <1>6. CASE walk # NoWalk
    <2>1. walk \in OneWalk
      BY <1>1, <1>6, WalkParts
    <2>2. walk' \in OneWalk
      BY <1>1, <1>3, <2>1 DEF OneWalk
    <2>3. /\ walk'.cursor = walk.cursor /\ walk'.open = walk.open /\ walk'.due = walk.due /\ walk'.told = walk.told
          /\ walk.moved \subseteq walk'.moved /\ (walk.open => r \in walk'.moved)
      BY <1>1, <2>1 DEF OneWalk
    <2>4. PagesTables'
      BY <1>1, <1>4, <2>2 DEF PagesTables
    <2>5. /\ walk.due \subseteq Visible
          /\ \A x \in (1 .. RowLimit) \ Rows : walk.told[x] = 0
          /\ \A x \in Rows \ walk.moved :
                /\ walk.told[x] \in {0, 1}
                /\ walk.open /\ walk.told[x] = 1 => x \notin listInbox(walk.cursor)
                /\ walk.open /\ x \in walk.due /\ walk.told[x] = 0 => x \in listInbox(walk.cursor)
                /\ ~walk.open /\ x \in walk.due => walk.told[x] = 1
      BY <1>6 DEF PagesInv, ToldIsBehind
    <2>6. ASSUME NEW x \in Rows, x # r PROVE x \in listInbox(walk.cursor) <=> x \in listInbox(walk.cursor)'
      BY <1>4, <2>3, <2>6, SideKept DEF listInbox
    <2>7. Visible' = Visible
      BY <1>4 DEF Visible
    <2>8. ToldIsBehind'
      BY <1>4, <2>3, <2>5, <2>6, <2>7 DEF ToldIsBehind
    <2> QED
      BY <2>4, <2>8 DEF PagesInv
  <1> QED
    BY <1>5, <1>6

\* A walk from the top, or from behind a row.
LEMMA StartKeeps ==
    ASSUME PagesInv, NEW c, StartWalk(c),
           c = NoCursor \/ \E e \in Rows : c = findThreadPosition(e)
    PROVE  PagesInv'
  <1>1. PagesTables /\ UNCHANGED <<sortKey, moves>>
    BY DEF StartWalk, PagesInv
  <1> DEFINE due == {r \in Visible : c = NoCursor \/ (r # c.id /\ SortsBefore(c.id, r))}
             none == [r \in 1 .. RowLimit |-> 0]
  <1>2. walk' = [cursor |-> c, open |-> TRUE, moved |-> {}, due |-> due, told |-> none]
    BY DEF StartWalk
  <1>3. c \in {NoCursor} \cup PageCursor /\ \A r \in due : r \in listInbox(c)
    <2>1. CASE c = NoCursor
      BY <2>1 DEF listInbox
    <2>2. ASSUME NEW e \in Rows, c = findThreadPosition(e)
          PROVE  c \in {NoCursor} \cup PageCursor /\ \A r \in due : r \in listInbox(c)
      <3>1. /\ c \in PageCursor /\ c # NoCursor /\ c.id = e
            /\ \A r \in Rows : AfterCursor(r, c) <=> SortsBefore(e, r)
        BY <1>1, <2>2, CursorIsRow DEF findThreadPosition
      <3> QED
        BY <3>1 DEF listInbox, Visible
    <2> QED
      BY <2>1, <2>2
  <1>4. due \subseteq Visible /\ Visible \subseteq 1 .. RowLimit /\ Visible \subseteq Rows
    BY <1>1, RowsAre DEF Visible
  <1> HIDE DEF due
  <1>5. \A r \in 1 .. RowLimit : none[r] = 0
    OBVIOUS
  <1>6. none \in [1 .. RowLimit -> Nat]
    OBVIOUS
  <1> HIDE DEF none
  <1>7. walk' \in OneWalk
    BY <1>2, <1>3, <1>4, <1>6 DEF OneWalk
  <1>8. /\ walk'.cursor = c /\ walk'.open = TRUE /\ walk'.due = due /\ walk'.told = none
    BY <1>2
  <1>9. PagesTables'
    BY <1>1, <1>7 DEF PagesTables
  <1>10. Rows' = Rows /\ Visible' = Visible /\ Rows \subseteq 1 .. RowLimit
    BY <1>1, RowsAre DEF Rows, Visible
  <1>11. \A r \in due : r \in listInbox(walk.cursor)'
    BY <1>1, <1>3, <1>8, <1>10 DEF listInbox, AfterCursor
  <1>12. ToldIsBehind'
    BY <1>4, <1>5, <1>8, <1>10, <1>11 DEF ToldIsBehind
  <1> QED
    BY <1>9, <1>12 DEF PagesInv

LEMMA NextPageKeeps ==
    ASSUME PagesInv, NextPage
    PROVE  PagesInv'
  <1> DEFINE rows == listInbox(walk.cursor)
             page == readPage(rows)
             last == LastOf(page.items)
             told == [r \in 1 .. RowLimit |-> walk.told[r] + IF r \in page.items THEN 1 ELSE 0]
             cursor == IF page.hasMore THEN encodeKeysetCursor(sortKey[last], last) ELSE NoCursor
  <1>1. PagesTables /\ walk.open /\ UNCHANGED <<sortKey, moves>>
    BY DEF NextPage, PagesInv
  <1>2. walk # NoWalk
    BY <1>1 DEF NoWalk
  <1>3. /\ walk \in OneWalk /\ walk.cursor \in {NoCursor} \cup PageCursor
        /\ walk.told \in [1 .. RowLimit -> Nat]
    BY <1>1, <1>2, WalkParts
  <1>4. walk' = [walk EXCEPT !.told = told, !.open = page.hasMore, !.cursor = cursor]
    BY DEF NextPage
  <1>5. rows \subseteq Visible /\ Visible \subseteq Rows /\ rows \in SUBSET Rows
    BY DEF listInbox, Visible
  <1> HIDE DEF rows
  <1>6. /\ page.items \subseteq rows /\ page.hasMore \in BOOLEAN
        /\ ~page.hasMore => page.items = rows
        /\ page.hasMore =>
              /\ last \in page.items
              /\ \A r \in page.items : r = last \/ SortsBefore(r, last)
              /\ \A r \in rows \ page.items : SortsBefore(last, r)
    BY <1>1, <1>5, PageDivides
  <1> HIDE DEF page, last
  <1>7. ASSUME page.hasMore
        PROVE  /\ cursor \in PageCursor /\ cursor # NoCursor
               /\ \A r \in Rows : AfterCursor(r, cursor) <=> SortsBefore(last, r)
    <2>1. last \in Rows
      BY <1>5, <1>6, <1>7
    <2>2. cursor = encodeKeysetCursor(sortKey[last], last)
      BY <1>7
    <2> QED
      BY <1>1, <2>1, <2>2, CursorIsRow
  <1>8. cursor \in {NoCursor} \cup PageCursor
    BY <1>7
  <1> HIDE DEF cursor
  <1>9. told \in [1 .. RowLimit -> Nat]
    <2>1. ASSUME NEW r \in 1 .. RowLimit
          PROVE  walk.told[r] + (IF r \in page.items THEN 1 ELSE 0) \in Nat
      <3>1. walk.told[r] \in Nat
        BY <1>3
      <3>2. CASE r \in page.items
        BY <3>1, <3>2
      <3>3. CASE r \notin page.items
        BY <3>1, <3>3
      <3> QED
        BY <3>2, <3>3
    <2> QED
      BY <2>1
  <1>10. \A r \in 1 .. RowLimit : told[r] = walk.told[r] + IF r \in page.items THEN 1 ELSE 0
    OBVIOUS
  <1> HIDE DEF told
  <1>11. /\ walk' \in OneWalk /\ walk'.told = told /\ walk'.open = page.hasMore /\ walk'.cursor = cursor
         /\ walk'.due = walk.due /\ walk'.moved = walk.moved
    BY <1>3, <1>4, <1>6, <1>8, <1>9 DEF OneWalk
  <1>12. PagesTables'
    BY <1>1, <1>11 DEF PagesTables
  <1>13. Rows' = Rows /\ Visible' = Visible /\ Rows \subseteq 1 .. RowLimit
    BY <1>1, RowsAre DEF Rows, Visible
  <1>14. listInbox(walk.cursor)' = listInbox(cursor)
    BY <1>1, <1>11, <1>13 DEF listInbox, AfterCursor
  <1>15. page.hasMore => \A r \in Rows : r \in listInbox(cursor) <=> r \in Visible /\ SortsBefore(last, r)
    BY <1>5, <1>7 DEF listInbox
  <1>16. /\ walk.due \subseteq Visible
         /\ \A r \in (1 .. RowLimit) \ Rows : walk.told[r] = 0
         /\ \A r \in Rows \ walk.moved :
               /\ walk.told[r] \in {0, 1}
               /\ walk.told[r] = 1 => r \notin rows
               /\ r \in walk.due /\ walk.told[r] = 0 => r \in rows
    BY <1>1, <1>2 DEF PagesInv, ToldIsBehind, rows
  <1>17. ASSUME NEW r \in Rows \ walk.moved
         PROVE  /\ told[r] \in {0, 1}
                /\ page.hasMore /\ told[r] = 1 => r \notin listInbox(cursor)
                /\ page.hasMore /\ r \in walk.due /\ told[r] = 0 => r \in listInbox(cursor)
                /\ ~page.hasMore /\ r \in walk.due => told[r] = 1
    <2>1. r \in Rows /\ r \in 1 .. RowLimit /\ told[r] = walk.told[r] + IF r \in page.items THEN 1 ELSE 0
      BY <1>10, <1>13
    <2>2. CASE r \in page.items
      <3>1. walk.told[r] = 0 /\ told[r] = 1
        BY <1>6, <1>16, <2>1, <2>2
      <3>2. ASSUME page.hasMore PROVE ~SortsBefore(last, r)
        <4>1. last \in Rows /\ (r = last \/ SortsBefore(r, last))
          BY <1>5, <1>6, <2>2, <3>2
        <4> QED
          BY <1>1, <2>1, <4>1, OrderIsTotal
      <3> QED
        BY <1>15, <2>1, <3>1, <3>2
    <2>3. CASE r \notin page.items
      <3>1. told[r] = walk.told[r] /\ told[r] \in {0, 1}
        BY <1>16, <2>1, <2>3
      <3>2. ASSUME page.hasMore, told[r] = 1 PROVE r \notin listInbox(cursor)
        <4>1. r \notin rows /\ last \in rows
          BY <1>6, <1>16, <3>1, <3>2
        <4>2. r \in Visible => ~SortsBefore(last, r)
          BY <1>1, <1>3, <4>1, ListGoesOn DEF rows
        <4> QED
          BY <1>15, <2>1, <3>2, <4>2
      <3>3. ASSUME page.hasMore, r \in walk.due, told[r] = 0 PROVE r \in listInbox(cursor)
        BY <1>6, <1>15, <1>16, <2>1, <2>3, <3>1, <3>3
      <3>4. ASSUME ~page.hasMore, r \in walk.due PROVE told[r] = 1
        BY <1>6, <1>16, <2>3, <3>1, <3>4
      <3> QED
        BY <3>1, <3>2, <3>3, <3>4
    <2> QED
      BY <2>2, <2>3
  <1>18. \A r \in (1 .. RowLimit) \ Rows : told[r] = 0
    BY <1>5, <1>6, <1>10, <1>16
  <1>19. ToldIsBehind'
    BY <1>11, <1>13, <1>14, <1>16, <1>17, <1>18 DEF ToldIsBehind
  <1> QED
    BY <1>12, <1>19 DEF PagesInv

LEMMA PagesStep == PagesInv /\ [PagesNext]_pageVars => PagesInv'
  <1> SUFFICES ASSUME PagesInv, [PagesNext]_pageVars PROVE PagesInv'
    OBVIOUS
  <1>1. ASSUME NEW t \in NULL .. LastTick, InsertRow(t) PROVE PagesInv'
    BY <1>1, InsertKeeps
  <1>2. ASSUME NEW r \in Rows, NEW t \in 1 .. LastTick, MoveRow(r, t) PROVE PagesInv'
    BY <1>2, MoveKeeps
  <1>3. CASE StartWalk(NoCursor)
    BY <1>3, StartKeeps
  <1>4. ASSUME NEW r \in Rows, StartWalk(findThreadPosition(r)) PROVE PagesInv'
    BY <1>4, StartKeeps
  <1>5. CASE NextPage
    BY <1>5, NextPageKeeps
  <1>6. CASE DropWalk
    BY <1>6 DEF DropWalk, PagesInv, PagesTables, ToldIsBehind
  <1>7. CASE UNCHANGED pageVars
    BY <1>7 DEF pageVars, PagesInv, PagesTables, ToldIsBehind, Rows, Visible, listInbox, AfterCursor
  <1> QED
    BY <1>1, <1>2, <1>3, <1>4, <1>5, <1>6, <1>7 DEF PagesNext

\* EveryRowIsToldOnce for any number of rows, any page size and whatever is
\* inserted or moved between two pages (listInbox, listThread, readThread and
\* the keyset cursor).
THEOREM WalksTellEverything == PagesSpec => []EveryRowIsToldOnce
  <1>1. PagesInit => PagesInv
    BY PagesStart
  <1>2. PagesInv => EveryRowIsToldOnce
    BY DEF PagesInv, ToldIsBehind, EveryRowIsToldOnce
  <1> QED
    BY <1>1, <1>2, PagesStep, PTL DEF PagesSpec

-----------------------------------------------------------------------------
(* Refreshes of a mention.                                                   *)

OneOpen == [server : Servers, held : SUBSET MediaFields, due : BOOLEAN, overtaken : BOOLEAN]
OneCall == [server : Servers, by : Viewers, held : SUBSET MediaFields, overtaken : BOOLEAN]

\* Who read the row, and has not been overtaken, knows what is stored.
MentionInv ==
    /\ postDetails \in SUBSET MediaFields /\ refreshDue \in BOOLEAN
    /\ opens \in [Viewers -> {NotOpen} \cup OneOpen] /\ calls \in SUBSET OneCall
    /\ OneRefreshAtATime
    /\ \A v \in Viewers : opens[v] # NotOpen /\ ~opens[v].overtaken => opens[v].held = postDetails
    /\ \A c \in calls : ~c.overtaken => c.held = postDetails

LEMMA OpensAre ==
    ASSUME MentionInv, NEW v \in Viewers, opens[v] # NotOpen
    PROVE  opens[v] \in OneOpen
  BY DEF MentionInv

LEMMA OpeningsDiffer == \A o \in OneOpen : o # NotOpen
  BY DEF OneOpen, NotOpen

LEMMA ReadKeeps ==
    ASSUME MentionInv, NEW v \in Viewers, NEW s \in Servers, readMention(v, s)
    PROVE  MentionInv' /\ FieldLostOnlyToStaleRead
  <1> DEFINE open == [server |-> s, held |-> postDetails, due |-> refreshDue, overtaken |-> FALSE]
  <1>1. /\ opens' = [opens EXCEPT ![v] = open]
        /\ UNCHANGED <<postDetails, refreshDue, inFlight, calls>>
    BY DEF readMention
  <1>2. open \in OneOpen /\ open.held = postDetails
    BY DEF OneOpen, MentionInv
  <1> HIDE DEF open
  <1>3. /\ opens' \in [Viewers -> {NotOpen} \cup OneOpen] /\ opens'[v] = open
        /\ \A u \in Viewers \ {v} : opens'[u] = opens[u]
    BY <1>1, <1>2 DEF MentionInv
  <1> QED
    BY <1>1, <1>2, <1>3 DEF MentionInv, OneRefreshAtATime, FieldLostOnlyToStaleRead

LEMMA RefreshStartKeeps ==
    ASSUME MentionInv, NEW v \in Viewers, refreshMentionMediaInBackground(v)
    PROVE  MentionInv' /\ FieldLostOnlyToStaleRead
  <1> DEFINE open == opens[v]
             starts == open.due /\ open.server \notin inFlight
             call == [server |-> open.server, by |-> v, held |-> open.held, overtaken |-> open.overtaken]
  <1>1. /\ open # NotOpen /\ opens' = [opens EXCEPT ![v] = NotOpen]
        /\ inFlight' = IF starts THEN inFlight \cup {open.server} ELSE inFlight
        /\ calls' = IF starts THEN calls \cup {call} ELSE calls
        /\ UNCHANGED <<postDetails, refreshDue>>
    BY DEF refreshMentionMediaInBackground
  <1>2. open \in OneOpen
    BY <1>1, OpensAre
  <1>3. call \in OneCall /\ call.server = open.server /\ (~call.overtaken => call.held = postDetails)
    BY <1>1, <1>2 DEF OneOpen, OneCall, MentionInv
  <1>4. starts => open.server \notin inFlight
    OBVIOUS
  <1> HIDE DEF call, starts
  <1>5. /\ opens' \in [Viewers -> {NotOpen} \cup OneOpen] /\ opens'[v] = NotOpen
        /\ \A u \in Viewers \ {v} : opens'[u] = opens[u]
    BY <1>1 DEF MentionInv
  <1>6. calls' \in SUBSET OneCall
    BY <1>1, <1>3 DEF MentionInv
  <1>7. OneRefreshAtATime'
    <2>1. CASE starts
      <3>1. calls' = calls \cup {call} /\ inFlight' = inFlight \cup {call.server} /\ call.server \notin inFlight
        BY <1>1, <1>3, <1>4, <2>1
      <3> QED
        BY <3>1 DEF MentionInv, OneRefreshAtATime
    <2>2. CASE ~starts
      BY <1>1, <2>2 DEF MentionInv, OneRefreshAtATime
    <2> QED
      BY <2>1, <2>2
  <1>8. \A c \in calls' : ~c.overtaken => c.held = postDetails
    BY <1>1, <1>3 DEF MentionInv
  <1> QED
    BY <1>1, <1>5, <1>6, <1>7, <1>8 DEF MentionInv, FieldLostOnlyToStaleRead

LEMMA GiveUpKeeps ==
    ASSUME MentionInv, NEW c \in calls, KeepStored(c)
    PROVE  MentionInv' /\ FieldLostOnlyToStaleRead
  <1>1. /\ calls' = calls \ {c} /\ inFlight' = inFlight \ {c.server}
        /\ UNCHANGED <<postDetails, refreshDue, opens>>
    BY DEF KeepStored
  <1>2. OneRefreshAtATime'
    BY <1>1 DEF MentionInv, OneRefreshAtATime
  <1> QED
    BY <1>1, <1>2 DEF MentionInv, FieldLostOnlyToStaleRead

LEMMA RefreshAnswerKeeps ==
    ASSUME MentionInv, NEW c \in calls, NEW answer \in SUBSET MediaFields, resolveMentionMedia(c, answer)
    PROVE  MentionInv' /\ FieldLostOnlyToStaleRead
  <1> DEFINE Late(d) == [d EXCEPT !.overtaken = TRUE]
             After(v) == IF opens[v] = NotOpen THEN NotOpen ELSE [opens[v] EXCEPT !.overtaken = TRUE]
  <1>1. /\ postDetails' = c.held \cup answer /\ refreshDue' = FALSE
        /\ calls' = {Late(d) : d \in calls \ {c}}
        /\ opens' = [v \in Viewers |-> After(v)]
        /\ inFlight' = inFlight \ {c.server}
    BY DEF resolveMentionMedia, mergePostDetails
  <1>2. c \in OneCall /\ calls \in SUBSET OneCall
    BY DEF MentionInv
  <1>3. \A d \in calls : Late(d) \in OneCall /\ Late(d).server = d.server /\ Late(d).overtaken = TRUE
    BY <1>2 DEF OneCall
  <1>4. ASSUME NEW v \in Viewers
        PROVE  /\ After(v) \in {NotOpen} \cup OneOpen
               /\ After(v) # NotOpen => After(v).overtaken = TRUE
    <2>1. CASE opens[v] = NotOpen
      BY <2>1
    <2>2. CASE opens[v] # NotOpen
      <3>1. opens[v] \in OneOpen
        BY <2>2, OpensAre
      <3> QED
        BY <2>2, <3>1 DEF OneOpen
    <2> QED
      BY <2>1, <2>2
  <1> HIDE DEF Late, After
  <1>5. /\ opens' \in [Viewers -> {NotOpen} \cup OneOpen]
        /\ \A v \in Viewers : opens'[v] # NotOpen => opens'[v].overtaken = TRUE
    BY <1>1, <1>4
  <1>6. calls' \in SUBSET OneCall /\ \A d \in calls' : d.overtaken = TRUE
    BY <1>1, <1>3
  <1>7. OneRefreshAtATime'
    <2>1. \A d, e \in calls : d.server = e.server => d = e
      BY DEF MentionInv, OneRefreshAtATime
    <2>2. \A d, e \in calls' : d.server = e.server => d = e
      BY <1>1, <1>3, <2>1
    <2>3. inFlight' = {d.server : d \in calls \ {c}}
      BY <1>1, <2>1 DEF MentionInv, OneRefreshAtATime
    <2>4. {d.server : d \in calls'} = {d.server : d \in calls \ {c}}
      BY <1>1, <1>3
    <2> QED
      BY <2>2, <2>3, <2>4 DEF OneRefreshAtATime
  <1>8. postDetails' \in SUBSET MediaFields
    BY <1>1, <1>2 DEF OneCall
  <1>9. FieldLostOnlyToStaleRead
    <2> SUFFICES ASSUME ~(postDetails \subseteq postDetails') PROVE c.overtaken /\ c \notin calls'
      BY DEF FieldLostOnlyToStaleRead
    <2>1. c.overtaken
      BY <1>1 DEF MentionInv
    <2>2. \A d \in calls \ {c} : Late(d) # c
      BY <1>3 DEF MentionInv, OneRefreshAtATime
    <2> QED
      BY <1>1, <2>1, <2>2
  <1> QED
    BY <1>1, <1>5, <1>6, <1>7, <1>8, <1>9 DEF MentionInv

LEMMA StopKeeps ==
    ASSUME MentionInv, NEW s \in Servers, ServerStops(s)
    PROVE  MentionInv' /\ FieldLostOnlyToStaleRead
  <1>1. /\ opens' = [v \in Viewers |-> IF opens[v].server = s THEN NotOpen ELSE opens[v]]
        /\ calls' = {c \in calls : c.server # s} /\ inFlight' = inFlight \ {s}
        /\ UNCHANGED <<postDetails, refreshDue>>
    BY DEF ServerStops
  <1>2. /\ opens' \in [Viewers -> {NotOpen} \cup OneOpen]
        /\ \A v \in Viewers : opens'[v] = NotOpen \/ opens'[v] = opens[v]
    BY <1>1 DEF MentionInv
  <1>3. OneRefreshAtATime'
    BY <1>1 DEF MentionInv, OneRefreshAtATime
  <1> QED
    BY <1>1, <1>2, <1>3 DEF MentionInv, FieldLostOnlyToStaleRead

LEMMA MentionRests ==
    ASSUME MentionInv, UNCHANGED <<postDetails, opens, inFlight, calls>>, refreshDue' \in BOOLEAN
    PROVE  MentionInv' /\ FieldLostOnlyToStaleRead
  BY DEF MentionInv, OneRefreshAtATime, FieldLostOnlyToStaleRead

LEMMA MentionStep == MentionInv /\ [MediaNext]_mediaVars => MentionInv' /\ FieldLostOnlyToStaleRead
  <1> SUFFICES ASSUME MentionInv, [MediaNext]_mediaVars PROVE MentionInv' /\ FieldLostOnlyToStaleRead
    OBVIOUS
  <1>1. CASE MentionNext
    <2>1. CASE \E v \in Viewers, s \in Servers : readMention(v, s)
      BY <2>1, ReadKeeps
    <2>2. CASE \E v \in Viewers : refreshMentionMediaInBackground(v)
      BY <2>2, RefreshStartKeeps
    <2>3. CASE \E c \in calls : KeepStored(c)
      BY <2>3, GiveUpKeeps
    <2>4. CASE \E c \in calls, answer \in SUBSET MediaFields : resolveMentionMedia(c, answer)
      BY <2>4, RefreshAnswerKeeps
    <2>5. CASE \E s \in Servers : ServerStops(s)
      BY <2>5, StopKeeps
    <2>6. CASE StampAges
      BY <2>6, MentionRests DEF StampAges
    <2> QED
      BY <1>1, <2>1, <2>2, <2>3, <2>4, <2>5, <2>6 DEF MentionNext
  <1>2. CASE AttachmentNext \/ UNCHANGED mediaVars
    <2>1. UNCHANGED mentionVars
      BY <1>2 DEF AttachmentNext, MessageHappens, insertMany, Withdraw, readRefreshable, BeyondReach,
                  refreshAttachments, mediaVars
    <2> QED
      BY <2>1, MentionRests DEF mentionVars, MentionInv
  <1> QED
    BY <1>1, <1>2 DEF MediaNext

\* What MediaIsKept says of mentions.
LEMMA MentionsAreKept == MediaSpec => []OneRefreshAtATime /\ [][FieldLostOnlyToStaleRead]_mediaVars
  <1>1. MediaInit => MentionInv
    BY DEF MediaInit, MentionInv, OneRefreshAtATime
  <1>2. MediaSpec => []MentionInv
    BY <1>1, MentionStep, PTL DEF MediaSpec
  <1>3. MentionInv => OneRefreshAtATime
    BY DEF MentionInv
  <1>4. MentionInv /\ [MediaNext]_mediaVars => [FieldLostOnlyToStaleRead]_mediaVars
    BY MentionStep
  <1> QED
    BY <1>2, <1>3, <1>4, PTL DEF MediaSpec

-----------------------------------------------------------------------------
(* Positions in order.                                                       *)

\* What is later has more before it.
LEMMA LaterHasMore ==
    ASSUME NEW S \in SUBSET Nat, IsFiniteSet(S), NEW i \in S, NEW j \in S, i < j
    PROVE  /\ Cardinality(Before(S, i)) \in Nat /\ Cardinality(Before(S, j)) \in Nat
           /\ Cardinality(Before(S, i)) < Cardinality(Before(S, j))
           /\ Cardinality(Before(S, j)) < Cardinality(S)
  <1>0. i \in Nat /\ j \in Nat /\ \A k \in S : k \in Nat
    OBVIOUS
  <1>1. /\ Before(S, i) \subseteq Before(S, j) /\ i \in Before(S, j) /\ i \notin Before(S, i)
        /\ Before(S, j) \subseteq S /\ j \notin Before(S, j)
    <2>1. ASSUME NEW k \in S, k < i PROVE k < j
      BY <1>0, <2>1
    <2>2. Before(S, i) \subseteq Before(S, j)
      BY <2>1 DEF Before
    <2>3. ~(i < i) /\ ~(j < j)
      BY <1>0
    <2> QED
      BY <2>2, <2>3 DEF Before
  <1>2. IsFiniteSet(Before(S, i)) /\ IsFiniteSet(Before(S, j))
    BY <1>1, FS_Subset
  <1>3. Cardinality(Before(S, i)) <= Cardinality(Before(S, j)) /\ Cardinality(Before(S, i)) # Cardinality(Before(S, j))
    BY <1>1, <1>2, FS_Subset
  <1>4. Cardinality(Before(S, j)) <= Cardinality(S) /\ Cardinality(Before(S, j)) # Cardinality(S)
    BY <1>1, FS_Subset
  <1> QED
    BY <1>2, <1>3, <1>4, FS_CardinalityType

LEMMA RankIsLess ==
    ASSUME NEW S \in SUBSET Nat, IsFiniteSet(S), NEW i \in S
    PROVE  /\ Cardinality(S) \in Nat /\ Cardinality(Before(S, i)) \in Nat
           /\ Cardinality(Before(S, i)) + 1 \in 1 .. Cardinality(S)
  <1>1. Before(S, i) \subseteq S /\ i \notin Before(S, i)
    BY DEF Before
  <1>2. /\ IsFiniteSet(Before(S, i)) /\ Cardinality(Before(S, i)) <= Cardinality(S)
        /\ Cardinality(Before(S, i)) # Cardinality(S)
    BY <1>1, FS_Subset
  <1> QED
    BY <1>2, FS_CardinalityType

\* Every place of the sequence is taken, by the one with so many before it.
LEMMA OrderIsRank ==
    ASSUME NEW S \in SUBSET Nat, IsFiniteSet(S)
    PROVE  /\ Cardinality(S) \in Nat /\ InOrder(S) \in [1 .. Cardinality(S) -> S]
           /\ \A i \in S : InOrder(S)[Cardinality(Before(S, i)) + 1] = i
           /\ \A n \in 1 .. Cardinality(S) : Cardinality(Before(S, InOrder(S)[n])) = n - 1
  <1> DEFINE rank == [i \in S |-> Cardinality(Before(S, i)) + 1]
             places == 1 .. Cardinality(S)
  <1>1. Cardinality(S) \in Nat
    BY FS_CardinalityType
  <1>2. IsFiniteSet(places) /\ Cardinality(places) = Cardinality(S)
    BY <1>1, FS_Interval
  <1>3. \A i, j \in S : i # j => Cardinality(Before(S, i)) # Cardinality(Before(S, j))
    <2> SUFFICES ASSUME NEW i \in S, NEW j \in S, i # j
                 PROVE  Cardinality(Before(S, i)) # Cardinality(Before(S, j))
      OBVIOUS
    <2>1. CASE i < j
      BY <2>1, LaterHasMore
    <2>2. CASE j < i
      BY <2>2, LaterHasMore
    <2> QED
      BY <2>1, <2>2
  <1>4. \A i \in S : Cardinality(Before(S, i)) \in Nat /\ Cardinality(Before(S, i)) + 1 \in places
    BY RankIsLess
  <1> HIDE DEF places
  <1>5. rank \in [S -> places] /\ \A i, j \in S : rank[i] = rank[j] => i = j
    BY <1>3, <1>4
  <1>6. rank \in Injection(S, places)
    BY <1>5 DEF Injection, IsInjective
  <1>7. rank \in Surjection(S, places)
    BY <1>2, <1>6, FS_Injection
  <1>8. \A n \in places : \E i \in S : Cardinality(Before(S, i)) + 1 = n
    BY <1>7 DEF Surjection
  <1>9. \A n \in places : \E i \in S : Cardinality(Before(S, i)) = n - 1
    BY <1>4, <1>8
  <1> DEFINE at(n) == CHOOSE i \in S : Cardinality(Before(S, i)) = n - 1
  <1>10. \A n \in places : at(n) \in S /\ Cardinality(Before(S, at(n))) = n - 1
    BY <1>9
  <1>11. InOrder(S) = [n \in places |-> at(n)]
    BY DEF InOrder, places
  <1> HIDE DEF at
  <1>12. InOrder(S) \in [places -> S] /\ \A n \in places : Cardinality(Before(S, InOrder(S)[n])) = n - 1
    BY <1>10, <1>11
  <1>13. ASSUME NEW i \in S PROVE InOrder(S)[Cardinality(Before(S, i)) + 1] = i
    <2>1. InOrder(S)[Cardinality(Before(S, i)) + 1] \in S
      BY <1>4, <1>12
    <2>2. Cardinality(Before(S, InOrder(S)[Cardinality(Before(S, i)) + 1])) = Cardinality(Before(S, i))
      BY <1>4, <1>12
    <2> QED
      BY <1>3, <2>1, <2>2
  <1> QED
    BY <1>1, <1>12, <1>13 DEF places

LEMMA OrderIsSeq ==
    ASSUME NEW S \in SUBSET Nat, IsFiniteSet(S)
    PROVE  InOrder(S) \in Seq(Nat) /\ Len(InOrder(S)) = Cardinality(S)
  <1> DEFINE s == InOrder(S)
             n == Cardinality(S)
  <1>1. n \in Nat /\ s \in [1 .. n -> S]
    BY OrderIsRank
  <1> HIDE DEF s, n
  <1>2. s \in [1 .. n -> Nat]
    BY <1>1
  <1> QED
    BY <1>1, <1>2 DEF s, n

LEMMA OrderRises ==
    ASSUME NEW S \in SUBSET Nat, IsFiniteSet(S),
           NEW n \in 1 .. Cardinality(S), NEW o \in 1 .. Cardinality(S), n < o
    PROVE  InOrder(S)[n] < InOrder(S)[o]
  <1> DEFINE i == InOrder(S)[n]
             j == InOrder(S)[o]
  <1>1. i \in S /\ j \in S /\ Cardinality(Before(S, i)) = n - 1 /\ Cardinality(Before(S, j)) = o - 1
    BY OrderIsRank
  <1> HIDE DEF i, j
  <1>2. i # j
    BY <1>1, FS_CardinalityType, OrderIsRank
  <1>3. ~(j < i)
    <2> SUFFICES ASSUME j < i PROVE FALSE
      OBVIOUS
    <2>1. Cardinality(Before(S, j)) < Cardinality(Before(S, i))
      BY <1>1, LaterHasMore
    <2> QED
      BY <1>1, <2>1, FS_CardinalityType
  <1>4. i < j
    BY <1>1, <1>2, <1>3
  <1> QED
    BY <1>4 DEF i, j

\* Renaming the positions, in order, renames the sequence.
LEMMA OrderOfImage ==
    ASSUME NEW S \in SUBSET Nat, IsFiniteSet(S), NEW T \in SUBSET Nat, NEW f \in [S -> T],
           \A t \in T : \E s \in S : f[s] = t,
           \A r, s \in S : r < s => f[r] < f[s]
    PROVE  /\ IsFiniteSet(T) /\ Cardinality(T) = Cardinality(S)
           /\ \A n \in 1 .. Cardinality(S) : InOrder(T)[n] = f[InOrder(S)[n]]
  <1>0. \A s \in S : s \in Nat /\ f[s] \in Nat /\ f[s] \in T
    OBVIOUS
  <1>7. ASSUME NEW r \in S, NEW s \in S
        PROVE  /\ r < s <=> f[r] < f[s]
               /\ f[r] = f[s] => r = s
    <2>1. /\ r \in Nat /\ s \in Nat /\ f[r] \in Nat /\ f[s] \in Nat
          /\ r < s => f[r] < f[s]
          /\ s < r => f[s] < f[r]
          /\ r = s => f[r] = f[s]
      BY <1>0
    <2> QED
      BY <2>1
  <1>1. \A r, s \in S : r < s <=> f[r] < f[s]
    BY <1>7
  <1>2. \A r, s \in S : f[r] = f[s] => r = s
    BY <1>7
  <1>3. f \in Bijection(S, T)
    BY <1>2 DEF Bijection, Injection, IsInjective, Surjection
  <1>4. IsFiniteSet(T) /\ Cardinality(T) = Cardinality(S)
    BY <1>3, FS_Bijection DEF ExistsBijection
  <1>5. ASSUME NEW s \in S PROVE Cardinality(Before(T, f[s])) = Cardinality(Before(S, s))
    <2> DEFINE g == [r \in Before(S, s) |-> f[r]]
    <2>1. g \in [Before(S, s) -> Before(T, f[s])]
      BY <1>1 DEF Before
    <2>2. \A q, r \in Before(S, s) : g[q] = g[r] => q = r
      BY <1>2 DEF Before
    <2>3. \A t \in Before(T, f[s]) : \E r \in Before(S, s) : g[r] = t
      <3> SUFFICES ASSUME NEW t \in Before(T, f[s]) PROVE \E r \in Before(S, s) : g[r] = t
        OBVIOUS
      <3>1. PICK r \in S : f[r] = t
        BY DEF Before
      <3>2. r \in Before(S, s)
        BY <1>1, <3>1 DEF Before
      <3> QED
        BY <3>1, <3>2
    <2> HIDE DEF g
    <2>4. g \in Bijection(Before(S, s), Before(T, f[s]))
      BY <2>1, <2>2, <2>3 DEF Bijection, Injection, IsInjective, Surjection
    <2>5. IsFiniteSet(Before(S, s))
      BY FS_Subset DEF Before
    <2> QED
      BY <2>4, <2>5, FS_Bijection DEF ExistsBijection
  <1>6. ASSUME NEW n \in 1 .. Cardinality(S) PROVE InOrder(T)[n] = f[InOrder(S)[n]]
    <2> DEFINE s == InOrder(S)[n]
    <2>1. s \in S /\ Cardinality(Before(S, s)) = n - 1
      BY OrderIsRank
    <2> HIDE DEF s
    <2>2. f[s] \in T /\ Cardinality(Before(T, f[s])) + 1 = n
      BY <1>5, <2>1
    <2>3. InOrder(T)[Cardinality(Before(T, f[s])) + 1] = f[s]
      BY <1>4, <2>2, OrderIsRank
    <2> QED
      BY <2>2, <2>3 DEF s
  <1> QED
    BY <1>4, <1>6

-----------------------------------------------------------------------------
(* Attachments.                                                              *)

\* What the platform describes of a message, and the part that has a new link.
Edge(m) == {i \in DOMAIN ItemsOf[m] : ItemsOf[m][i].readable /\ <<m, i>> \notin withdrawn}
Fresh(m) == {i \in Edge(m) : ItemsOf[m][i].type # "share" /\ ItemsOf[m][i].host = "cdn"}

Stale(m) == {n \in DOMAIN media[m] : ~media[m][n].stable}

IsRow(r) == r = [item |-> r.item, link |-> r.link, stable |-> r.stable, kind |-> r.kind, type |-> r.type,
                 mime |-> r.mime, guessed |-> r.guessed]

\* The rows that may expire are in the order of their items, and cover what the
\* platform can still describe with a new link.
StoredInOrder(m) ==
    /\ DOMAIN media[m] \in SUBSET Nat /\ IsFiniteSet(DOMAIN media[m])
    /\ \A n \in DOMAIN media[m] :
          /\ IsRow(media[m][n])
          /\ media[m][n].item \in DOMAIN ItemsOf[m] /\ media[m][n].link = media[m][n].item
    /\ \A n, o \in Stale(m) : n < o => media[m][n].item < media[m][o].item
    /\ \A i \in Fresh(m) : \E n \in Stale(m) : media[m][n].item = i

\* The kind that is stored is what the item is, or that of a story.
KindsAre(m) ==
    \A n \in DOMAIN media[m] :
        /\ IsRow(media[m][n]) /\ media[m][n].item \in DOMAIN ItemsOf[m]
        /\ media[m][n].kind = ItemsOf[m][media[m][n].item].truth \/ media[m][n].type = "ig_story"

AllKept(m) == Len(ItemsOf[m]) <= KeptPerMessage

AttachmentsInv ==
    /\ directThread \in Seq(MediaMessages)
    /\ \A m \in DOMAIN media : m \in MediaMessages /\ KindsAre(m) /\ (AllKept(m) => StoredInOrder(m))

LEMMA ItemsAre ==
    ASSUME NEW m \in MediaMessages
    PROVE  /\ ItemsOf[m] \in Seq(MediaItem) /\ Len(ItemsOf[m]) \in Nat
           /\ DOMAIN ItemsOf[m] = 1 .. Len(ItemsOf[m]) /\ DOMAIN ItemsOf[m] \in SUBSET Nat
           /\ IsFiniteSet(DOMAIN ItemsOf[m]) /\ Cardinality(DOMAIN ItemsOf[m]) = Len(ItemsOf[m])
           /\ \A i \in DOMAIN ItemsOf[m] : ItemsOf[m][i] \in MediaItem
           /\ Edge(m) \in SUBSET Nat /\ IsFiniteSet(Edge(m)) /\ Cardinality(Edge(m)) <= Len(ItemsOf[m])
           /\ Fresh(m) \in SUBSET Nat /\ IsFiniteSet(Fresh(m))
  <1>1. ItemsOf[m] \in Seq(MediaItem)
    BY MediaAssumption DEF MediaAssumption
  <1>2. /\ Len(ItemsOf[m]) \in Nat /\ DOMAIN ItemsOf[m] = 1 .. Len(ItemsOf[m])
        /\ \A i \in DOMAIN ItemsOf[m] : ItemsOf[m][i] \in MediaItem
    BY <1>1, LenProperties
  <1>3. IsFiniteSet(DOMAIN ItemsOf[m]) /\ Cardinality(DOMAIN ItemsOf[m]) = Len(ItemsOf[m])
    BY <1>2, FS_Interval
  <1>4. Edge(m) \in SUBSET (DOMAIN ItemsOf[m]) /\ Fresh(m) \in SUBSET (DOMAIN ItemsOf[m])
    BY DEF Edge, Fresh
  <1>5. IsFiniteSet(Edge(m)) /\ Cardinality(Edge(m)) <= Len(ItemsOf[m]) /\ IsFiniteSet(Fresh(m))
    BY <1>3, <1>4, FS_Subset
  <1> QED
    BY <1>1, <1>2, <1>3, <1>4, <1>5

\* What is said of a message: an item at each position, and those whose link
\* may expire in the order of the items.
LEMMA SaidInOrder ==
    ASSUME NEW m \in MediaMessages, NEW mimeSaid \in BOOLEAN
    PROVE  LET said == toWebhookAttachments(m, mimeSaid)
               expiring == {n \in DOMAIN said : isExpiringMediaUrl(said[n].host)}
           IN  /\ Cardinality(Edge(m)) \in Nat /\ DOMAIN said = 1 .. Cardinality(Edge(m))
               /\ \A n \in DOMAIN said :
                     /\ said[n].item \in Edge(m)
                     /\ toMediaKind(said[n].type, said[n].mime) = ItemsOf[m][said[n].item].truth
               /\ \A n \in expiring : said[n].item \in Fresh(m)
               /\ \A i \in Fresh(m) : \E n \in expiring : said[n].item = i
               /\ \A n, o \in expiring : n < o => said[n].item < said[o].item
  <1> DEFINE IsShare(i) == ItemsOf[m][i].type = "share"
             shares == {i \in Edge(m) : IsShare(i)}
             files == Edge(m) \ shares
             Said(i) == [item |-> i,
                         type |-> IF IsShare(i) THEN "share" ELSE ItemsOf[m][i].truth,
                         host |-> IF IsShare(i) THEN "public" ELSE ItemsOf[m][i].host,
                         mime |-> IF mimeSaid /\ ~IsShare(i) THEN ItemsOf[m][i].truth ELSE "none"]
             order == InOrder(shares) \o InOrder(files)
             said == toWebhookAttachments(m, mimeSaid)
             expiring == {n \in DOMAIN said : isExpiringMediaUrl(said[n].host)}
             a == Cardinality(shares)
             b == Cardinality(files)
  <1>1. said = [n \in DOMAIN order |-> Said(order[n])]
    BY DEF toWebhookAttachments, Edge
  <1>2. /\ shares \in SUBSET Nat /\ IsFiniteSet(shares) /\ files \in SUBSET Nat /\ IsFiniteSet(files)
        /\ Edge(m) = shares \cup files /\ shares \cap files = {}
    BY ItemsAre, FS_Subset
  <1>3. \A i : Said(i).item = i /\ Said(i).host = IF IsShare(i) THEN "public" ELSE ItemsOf[m][i].host
    OBVIOUS
  <1>4. \A i \in Edge(m) : (i \in files /\ ItemsOf[m][i].host = "cdn") <=> i \in Fresh(m)
    BY DEF Fresh
  <1>5. \A i : i \in shares => i \in Edge(m) /\ IsShare(i)
    OBVIOUS
  <1>6. \A i : i \in files => i \in Edge(m) /\ ~IsShare(i)
    OBVIOUS
  <1>20. ASSUME NEW i \in Edge(m) PROVE toMediaKind(Said(i).type, Said(i).mime) = ItemsOf[m][i].truth
    <2>1. ItemsOf[m][i] \in MediaItem
      BY ItemsAre DEF Edge
    <2>2. CASE IsShare(i)
      BY <2>1, <2>2 DEF MediaItem, toMediaKind, MEDIA_KIND_BY_TYPE
    <2>3. CASE ~IsShare(i)
      <3>1. ItemsOf[m][i].truth \in {"image", "video"}
        BY <2>1, <2>3 DEF MediaItem
      <3> QED
        BY <2>3, <3>1 DEF toMediaKind, MEDIA_KIND_BY_TYPE
    <2> QED
      BY <2>2, <2>3
  <1> HIDE DEF shares, files, Said, IsShare
  <1>7. /\ a \in Nat /\ InOrder(shares) \in [1 .. a -> shares]
        /\ b \in Nat /\ InOrder(files) \in [1 .. b -> files]
    BY <1>2, OrderIsRank
  <1>8. Cardinality(Edge(m)) = a + b
    <2>1. Cardinality(shares \cup files) = Cardinality(shares) + Cardinality(files) - Cardinality(shares \cap files)
      BY <1>2, FS_Union
    <2>2. Cardinality(shares \cap files) = 0
      BY <1>2, FS_EmptySet
    <2>3. Cardinality(Edge(m)) = a + b - 0
      BY <1>2, <2>1, <2>2
    <2> QED
      BY <1>7, <2>3
  <1>9. InOrder(shares) \in Seq(Nat) /\ Len(InOrder(shares)) = a /\ InOrder(files) \in Seq(Nat) /\ Len(InOrder(files)) = b
    BY <1>2, OrderIsSeq
  <1>10. /\ order \in Seq(Nat) /\ Len(order) = a + b
         /\ \A n \in 1 .. a + b : order[n] = IF n <= a THEN InOrder(shares)[n] ELSE InOrder(files)[n - a]
    <2>1. /\ order \in Seq(Nat) /\ Len(order) = Len(InOrder(shares)) + Len(InOrder(files))
          /\ \A n \in 1 .. Len(InOrder(shares)) + Len(InOrder(files)) :
                order[n] = IF n <= Len(InOrder(shares)) THEN InOrder(shares)[n]
                           ELSE InOrder(files)[n - Len(InOrder(shares))]
      <3> HIDE DEF a, b
      <3> QED
        BY <1>9, ConcatProperties
    <2> HIDE DEF order, a, b
    <2> QED
      BY <1>9, <2>1
  <1> HIDE DEF order
  <1>11. DOMAIN order = 1 .. a + b
    BY <1>10, LenProperties
  <1> HIDE DEF a, b
  <1>12. ASSUME NEW n \in 1 .. a + b
         PROVE  /\ n <= a => order[n] \in shares
                /\ ~(n <= a) => n - a \in 1 .. b /\ order[n] = InOrder(files)[n - a] /\ order[n] \in files
    <2>1. CASE n <= a
      <3>1. n \in 1 .. a
        BY <1>7, <2>1
      <3> QED
        BY <1>7, <1>10, <2>1, <3>1
    <2>2. CASE ~(n <= a)
      <3>1. n - a \in 1 .. b
        BY <1>7, <2>2
      <3> QED
        BY <1>7, <1>10, <2>2, <3>1
    <2> QED
      BY <2>1, <2>2
  <1>13. /\ DOMAIN said = 1 .. a + b
         /\ \A n \in 1 .. a + b : said[n] = Said(order[n]) /\ said[n].item = order[n]
    BY <1>1, <1>3, <1>11
  <1> HIDE DEF said
  <1>14. \A n \in 1 .. a + b : order[n] \in Edge(m)
    BY <1>5, <1>6, <1>12
  <1>15. ASSUME NEW n \in 1 .. a + b
         PROVE  n \in expiring <=> ~(n <= a) /\ ItemsOf[m][order[n]].host = "cdn"
    <2>1. said[n].host = IF IsShare(order[n]) THEN "public" ELSE ItemsOf[m][order[n]].host
      BY <1>3, <1>13
    <2>2. n <= a <=> IsShare(order[n])
      BY <1>5, <1>6, <1>12
    <2> QED
      BY <1>13, <2>1, <2>2 DEF isExpiringMediaUrl
  <1>16. expiring \subseteq 1 .. a + b
    BY <1>13
  <1> HIDE DEF expiring
  <1>17. \A n \in expiring : said[n].item \in Fresh(m)
    BY <1>4, <1>12, <1>13, <1>14, <1>15, <1>16
  <1>18. ASSUME NEW i \in Fresh(m) PROVE \E n \in expiring : said[n].item = i
    <2>1. i \in files /\ ItemsOf[m][i].host = "cdn"
      BY <1>4 DEF Fresh
    <2> DEFINE k == Cardinality(Before(files, i)) + 1
    <2>2. k \in 1 .. b /\ InOrder(files)[k] = i
      BY <1>2, <2>1, OrderIsRank, RankIsLess DEF b
    <2> HIDE DEF k
    <2>3. k + a \in 1 .. a + b /\ ~(k + a <= a) /\ (k + a) - a = k
      BY <1>7, <2>2
    <2>4. order[k + a] = i
      BY <1>12, <2>2, <2>3
    <2> QED
      BY <1>13, <1>15, <2>1, <2>3, <2>4
  <1>19. ASSUME NEW n \in expiring, NEW o \in expiring, n < o PROVE said[n].item < said[o].item
    <2>1. n \in 1 .. a + b /\ o \in 1 .. a + b /\ ~(n <= a) /\ ~(o <= a)
      BY <1>15, <1>16
    <2>2. n - a \in 1 .. b /\ o - a \in 1 .. b /\ n - a < o - a
      BY <1>7, <1>12, <1>19, <2>1
    <2>3. InOrder(files)[n - a] < InOrder(files)[o - a]
      BY <1>2, <2>2, OrderRises DEF b
    <2> QED
      BY <1>12, <1>13, <2>1, <2>3
  <1>21. \A n \in 1 .. a + b : toMediaKind(said[n].type, said[n].mime) = ItemsOf[m][said[n].item].truth
    BY <1>13, <1>14, <1>20
  <1> QED
    BY <1>7, <1>8, <1>13, <1>14, <1>17, <1>18, <1>19, <1>21 DEF said, expiring

\* The links asked for are those of Fresh, in order.
LEMMA LinksAre ==
    ASSUME NEW m \in MediaMessages, NEW mimeSaid \in BOOLEAN
    PROVE  LET links == readFreshAttachmentLinks(m, mimeSaid)
           IN  /\ Cardinality(Fresh(m)) \in Nat /\ DOMAIN links = 1 .. Cardinality(Fresh(m))
               /\ Len(links) = Cardinality(Fresh(m))
               /\ \A k \in DOMAIN links : links[k].item = InOrder(Fresh(m))[k]
  <1> DEFINE said == toWebhookAttachments(m, mimeSaid)
             expiring == {n \in DOMAIN said : isExpiringMediaUrl(said[n].host)}
             f == [n \in expiring |-> said[n].item]
             links == readFreshAttachmentLinks(m, mimeSaid)
             c == Cardinality(expiring)
  <1>1. /\ Cardinality(Edge(m)) \in Nat /\ DOMAIN said = 1 .. Cardinality(Edge(m))
        /\ \A n \in expiring : said[n].item \in Fresh(m)
        /\ \A i \in Fresh(m) : \E n \in expiring : said[n].item = i
        /\ \A n, o \in expiring : n < o => said[n].item < said[o].item
    BY SaidInOrder
  <1>2. expiring \in SUBSET (1 .. Cardinality(Edge(m)))
    BY <1>1
  <1>3. links = [k \in DOMAIN InOrder(expiring) |-> said[InOrder(expiring)[k]]]
    BY DEF readFreshAttachmentLinks
  <1> HIDE DEF said, expiring, links
  <1>4. expiring \in SUBSET Nat /\ IsFiniteSet(expiring)
    <2>1. IsFiniteSet(1 .. Cardinality(Edge(m))) /\ 1 .. Cardinality(Edge(m)) \subseteq Nat
      BY <1>1, FS_Interval
    <2> QED
      BY <1>2, <2>1, FS_Subset
  <1>5. c \in Nat /\ InOrder(expiring) \in [1 .. c -> expiring]
    BY <1>4, OrderIsRank
  <1>6. /\ f \in [expiring -> Fresh(m)] /\ \A i \in Fresh(m) : \E n \in expiring : f[n] = i
        /\ \A n, o \in expiring : n < o => f[n] < f[o]
    BY <1>1
  <1>7. Fresh(m) \in SUBSET Nat
    BY ItemsAre
  <1>8. \A n \in expiring : f[n] = said[n].item
    OBVIOUS
  <1> HIDE DEF f
  <1>9. /\ Cardinality(Fresh(m)) = c
        /\ \A k \in 1 .. c : InOrder(Fresh(m))[k] = f[InOrder(expiring)[k]]
    BY <1>4, <1>6, <1>7, OrderOfImage
  <1> HIDE DEF c
  <1>10. DOMAIN links = 1 .. c /\ Len(links) = c
    BY <1>3, <1>5
  <1>11. \A k \in 1 .. c : links[k].item = InOrder(Fresh(m))[k]
    BY <1>3, <1>5, <1>8, <1>9
  <1> QED
    BY <1>5, <1>9, <1>10, <1>11 DEF links

\* What is stored of items: the first of them, and all when none is cut off.
LEMMA NormalizedAre ==
    ASSUME NEW items, NEW N \in Nat, DOMAIN items = 1 .. N
    PROVE  LET rows == normalizeAttachments(items)
           IN  \E long \in 0 .. N :
                  /\ N <= KeptPerMessage => long = N
                  /\ DOMAIN rows = 1 .. long
                  /\ \A n \in 1 .. long :
                        /\ IsRow(rows[n]) /\ rows[n].item = items[n].item /\ rows[n].link = items[n].item
                        /\ rows[n].kind = toMediaKind(items[n].type, items[n].mime) /\ rows[n].type = items[n].type
                        /\ ~rows[n].stable <=> items[n].host = "cdn"
  <1> DEFINE long == IF Len(items) < KeptPerMessage THEN Len(items) ELSE KeptPerMessage
             kept == SubSeq(items, 1, long)
             Row(n) == [item |-> kept[n].item, link |-> kept[n].item, stable |-> ~isExpiringMediaUrl(kept[n].host),
                        kind |-> toMediaKind(kept[n].type, kept[n].mime), type |-> kept[n].type, mime |-> kept[n].mime,
                        guessed |-> kept[n].type = "ig_story" /\ kept[n].mime = "none"]
  <1>1. Len(items) = N /\ KeptPerMessage \in Nat
    BY MediaAssumption DEF MediaAssumption
  <1>2. long \in 0 .. N /\ (N <= KeptPerMessage => long = N)
    BY <1>1
  <1>3. normalizeAttachments(items) = [n \in DOMAIN kept |-> Row(n)]
    BY DEF normalizeAttachments
  <1> HIDE DEF long
  <1>4. DOMAIN kept = 1 .. long /\ \A n \in 1 .. long : kept[n] = items[n]
    <2> DEFINE some == {items[n] : n \in 1 .. long}
    <2>1. \A n \in 1 .. long : items[n] \in some
      OBVIOUS
    <2> HIDE DEF some
    <2>2. /\ kept \in Seq(some) /\ Len(kept) = IF 1 <= long THEN long - 1 + 1 ELSE 0
          /\ \A n \in 1 .. long - 1 + 1 : kept[n] = items[1 + n - 1]
      BY <1>2, <2>1, SubSeqProperties
    <2>3. DOMAIN kept = 1 .. Len(kept)
      BY <2>2, LenProperties
    <2> HIDE DEF kept
    <2>4. long - 1 + 1 = long /\ \A n \in 1 .. long : 1 + n - 1 = n
      BY <1>2
    <2>5. Len(kept) = long
      BY <1>2, <2>2
    <2> QED
      BY <2>2, <2>3, <2>4, <2>5
  <1> HIDE DEF kept
  <1>5. ASSUME NEW n \in 1 .. long
        PROVE  /\ IsRow(Row(n)) /\ Row(n).item = items[n].item /\ Row(n).link = items[n].item
               /\ Row(n).kind = toMediaKind(items[n].type, items[n].mime) /\ Row(n).type = items[n].type
               /\ ~Row(n).stable <=> items[n].host = "cdn"
    <2>1. /\ IsRow(Row(n)) /\ Row(n).item = items[n].item /\ Row(n).link = items[n].item
          /\ Row(n).kind = toMediaKind(items[n].type, items[n].mime) /\ Row(n).type = items[n].type
      BY <1>4 DEF IsRow
    <2>2. Row(n).stable = ~isExpiringMediaUrl(items[n].host)
      BY <1>4
    <2>3. CASE items[n].host = "cdn"
      <3>1. (~isExpiringMediaUrl(items[n].host)) = FALSE
        BY <2>3 DEF isExpiringMediaUrl
      <3>2. Row(n).stable = FALSE
        BY Zenon, <2>2, <3>1
      <3> HIDE DEF Row
      <3> QED
        BY <2>1, <2>3, <3>2
    <2>4. CASE items[n].host # "cdn"
      <3>1. (~isExpiringMediaUrl(items[n].host)) = TRUE
        BY <2>4 DEF isExpiringMediaUrl
      <3>2. Row(n).stable = TRUE
        BY Zenon, <2>2, <3>1
      <3> HIDE DEF Row
      <3> QED
        BY <2>1, <2>4, <3>2
    <2> QED
      BY <2>3, <2>4
  <1> HIDE DEF Row
  <1> QED
    BY <1>2, <1>3, <1>4, <1>5

LEMMA StoreKeeps ==
    ASSUME AttachmentsInv, NEW m \in MediaMessages, NEW items, NEW N \in Nat, DOMAIN items = 1 .. N,
           AllKept(m) => N <= KeptPerMessage,
           \A n \in 1 .. N :
              /\ items[n].item \in DOMAIN ItemsOf[m]
              /\ \/ toMediaKind(items[n].type, items[n].mime) = ItemsOf[m][items[n].item].truth
                 \/ items[n].type = "ig_story",
           \A n, o \in 1 .. N : n < o /\ items[n].host = "cdn" /\ items[o].host = "cdn"
               => items[n].item < items[o].item,
           \A i \in Fresh(m) : \E n \in 1 .. N : items[n].host = "cdn" /\ items[n].item = i,
           insertMany(m, items)
    PROVE  AttachmentsInv'
  <1> DEFINE rows == normalizeAttachments(items)
  <1>1. /\ m \notin DOMAIN media /\ UNCHANGED <<withdrawn, directThread>>
        /\ media' = [k \in DOMAIN media \cup {m} |-> IF k = m THEN rows ELSE media[k]]
    BY DEF insertMany
  <1>6. PICK long \in 0 .. N :
           /\ N <= KeptPerMessage => long = N
           /\ DOMAIN rows = 1 .. long
           /\ \A n \in 1 .. long :
                 /\ IsRow(rows[n]) /\ rows[n].item = items[n].item /\ rows[n].link = items[n].item
                 /\ rows[n].kind = toMediaKind(items[n].type, items[n].mime) /\ rows[n].type = items[n].type
                 /\ ~rows[n].stable <=> items[n].host = "cdn"
    BY NormalizedAre
  <1> HIDE DEF rows
  <1>2. /\ DOMAIN media' = DOMAIN media \cup {m} /\ media'[m] = rows
        /\ \A k \in DOMAIN media : media'[k] = media[k]
    BY <1>1
  <1>3. \A k : Fresh(k)' = Fresh(k) /\ AllKept(k)' = AllKept(k)
    BY <1>1 DEF Fresh, Edge, AllKept
  <1>4. ASSUME NEW k \in DOMAIN media, AllKept(k) PROVE StoredInOrder(k)'
    <2>1. StoredInOrder(k) /\ media'[k] = media[k]
      BY <1>2, <1>4 DEF AttachmentsInv
    <2>2. Stale(k)' = Stale(k)
      BY <2>1 DEF Stale
    <2> QED
      BY <1>3, <2>1, <2>2 DEF StoredInOrder
  <1>7. KindsAre(m)'
    <2>1. \A n \in 1 .. long : n \in 1 .. N
      OBVIOUS
    <2>2. DOMAIN media'[m] = 1 .. long /\ \A n \in 1 .. long : media'[m][n] = rows[n]
      BY <1>2, <1>6
    <2>3. \A n \in 1 .. long : IsRow(media[m][n])'
      BY <1>6, <2>2 DEF IsRow
    <2> QED
      BY <1>6, <2>1, <2>2, <2>3 DEF KindsAre
  <1>8. ASSUME NEW k \in DOMAIN media PROVE KindsAre(k)'
    BY <1>2, <1>8 DEF AttachmentsInv, KindsAre, IsRow
  <1>5. ASSUME AllKept(m) PROVE StoredInOrder(m)'
    <2>1. /\ DOMAIN rows = 1 .. N
          /\ \A n \in 1 .. N :
                /\ IsRow(rows[n]) /\ rows[n].item = items[n].item /\ rows[n].link = items[n].item
                /\ ~rows[n].stable <=> items[n].host = "cdn"
      BY <1>5, <1>6
    <2>2. IsFiniteSet(1 .. N) /\ 1 .. N \in SUBSET Nat
      <3>1. 1 \in Int /\ N \in Int
        OBVIOUS
      <3>2. IsFiniteSet(1 .. N)
        BY <3>1, FS_Interval
      <3> QED
        BY <3>2
    <2>3. \A n : n \in Stale(m)' <=> n \in 1 .. N /\ items[n].host = "cdn"
      BY <1>2, <2>1 DEF Stale
    <2>4. \A n, o \in Stale(m)' : n < o => media'[m][n].item < media'[m][o].item
      BY <1>2, <2>1, <2>3
    <2>5. \A i \in Fresh(m)' : \E n \in Stale(m)' : media'[m][n].item = i
      BY <1>2, <1>3, <2>1, <2>3
    <2>7. DOMAIN media'[m] \in SUBSET Nat /\ IsFiniteSet(DOMAIN media'[m]) /\ DOMAIN media'[m] = 1 .. N
      BY <1>2, <2>1, <2>2
    <2>8. \A n \in 1 .. N : IsRow(media[m][n])'
      BY <1>2, <2>1 DEF IsRow
    <2>9. \A n \in 1 .. N : media'[m][n].item \in DOMAIN ItemsOf[m] /\ media'[m][n].link = media'[m][n].item
      BY <1>2, <2>1
    <2> QED
      BY <2>4, <2>5, <2>7, <2>8, <2>9 DEF StoredInOrder
  <1> QED
    BY <1>1, <1>2, <1>3, <1>4, <1>5, <1>7, <1>8 DEF AttachmentsInv

\* As the webhook says it, and as the read edge says it.
LEMMA InsertsKeep ==
    ASSUME AttachmentsInv, NEW m \in MediaMessages, NEW said \in BOOLEAN,
           insertMany(m, WebhookItems(m)) \/ insertMany(m, toWebhookAttachments(m, said))
    PROVE  AttachmentsInv'
  <1>1. CASE insertMany(m, WebhookItems(m))
    <2>1. PICK items : items = WebhookItems(m)
      OBVIOUS
    <2>2. PICK N : N = Len(ItemsOf[m])
      OBVIOUS
    <2>3. N \in Nat /\ DOMAIN ItemsOf[m] = 1 .. N
      BY <2>2, ItemsAre
    <2>4. /\ DOMAIN items = 1 .. N
          /\ \A n \in 1 .. N :
                /\ items[n].item = n /\ items[n].host = ItemsOf[m][n].host
                /\ items[n].type = ItemsOf[m][n].type /\ items[n].mime = "none"
      BY <2>1, <2>3 DEF WebhookItems
    <2>9. \A n \in 1 .. N : \/ toMediaKind(items[n].type, items[n].mime) = ItemsOf[m][items[n].item].truth
                            \/ items[n].type = "ig_story"
      <3> SUFFICES ASSUME NEW n \in 1 .. N, items[n].type # "ig_story"
                   PROVE  toMediaKind(items[n].type, items[n].mime) = ItemsOf[m][items[n].item].truth
        OBVIOUS
      <3>1. ItemsOf[m][n] \in MediaItem
        BY <2>3, ItemsAre
      <3> QED
        BY <2>4, <3>1 DEF MediaItem, toMediaKind, MEDIA_KIND_BY_TYPE
    <2>5. \A i \in Fresh(m) : i \in 1 .. N /\ ItemsOf[m][i].host = "cdn"
      BY <2>3 DEF Fresh, Edge
    <2>6. /\ AllKept(m) => N <= KeptPerMessage
          /\ \A n \in 1 .. N : items[n].item \in DOMAIN ItemsOf[m]
      BY <2>2, <2>3, <2>4 DEF AllKept
    <2>7. \A n, o \in 1 .. N : n < o /\ items[n].host = "cdn" /\ items[o].host = "cdn"
             => items[n].item < items[o].item
      BY <2>4
    <2>8. \A i \in Fresh(m) : \E n \in 1 .. N : items[n].host = "cdn" /\ items[n].item = i
      BY <2>4, <2>5
    <2> QED
      BY <1>1, <2>1, <2>3, <2>4, <2>6, <2>7, <2>8, <2>9, StoreKeeps
  <1>2. CASE insertMany(m, toWebhookAttachments(m, said))
    <2>1. PICK items : items = toWebhookAttachments(m, said)
      OBVIOUS
    <2>2. PICK N : N = Cardinality(Edge(m))
      OBVIOUS
    <2>3. /\ N \in Nat /\ DOMAIN items = 1 .. N
          /\ \A n \in 1 .. N :
                /\ items[n].item \in Edge(m)
                /\ toMediaKind(items[n].type, items[n].mime) = ItemsOf[m][items[n].item].truth
          /\ \A n, o \in 1 .. N : n < o /\ items[n].host = "cdn" /\ items[o].host = "cdn"
                => items[n].item < items[o].item
          /\ \A i \in Fresh(m) : \E n \in 1 .. N : items[n].host = "cdn" /\ items[n].item = i
      BY <2>1, <2>2, SaidInOrder DEF isExpiringMediaUrl
    <2>4. N <= Len(ItemsOf[m]) /\ Len(ItemsOf[m]) \in Nat /\ KeptPerMessage \in Nat
      BY <2>2, ItemsAre, MediaAssumption DEF MediaAssumption
    <2>5. AllKept(m) => N <= KeptPerMessage
      BY <2>3, <2>4 DEF AllKept
    <2>6. \A n \in 1 .. N : items[n].item \in DOMAIN ItemsOf[m]
      BY <2>3 DEF Edge
    <2> QED
      BY <1>2, <2>1, <2>3, <2>5, <2>6, StoreKeeps
  <1> QED
    BY <1>1, <1>2

\* A link is put under the attachment it is a link of.
LEMMA RefreshIsRight ==
    ASSUME AttachmentsInv, NEW m \in DOMAIN media, NEW mimeSaid \in BOOLEAN
    PROVE  LET rows == refreshSourceUrls(m, mimeSaid)
           IN  /\ DOMAIN rows = DOMAIN media[m]
               /\ \A n \in DOMAIN media[m] :
                     /\ IsRow(rows[n]) /\ rows[n].item = media[m][n].item
                     /\ rows[n].kind = media[m][n].kind /\ rows[n].type = media[m][n].type
                     /\ AllKept(m) => rows[n].link = media[m][n].item
                     /\ rows[n].stable = media[m][n].stable
  <1> DEFINE rows == listRefreshable(m)
             links == readFreshAttachmentLinks(m, mimeSaid)
             Position(n) == CHOOSE k \in DOMAIN rows : rows[k] = n
             Refreshed(n) == n \in ToSet(rows) /\ Position(n) \in DOMAIN links /\ MatchesRows(rows, links)
             old(n) == media[m][n]
             fresh(n) == links[Position(n)]
             New(n) == IF ~Refreshed(n) THEN old(n)
                       ELSE IF fresh(n).mime = "none" THEN [old(n) EXCEPT !.link = fresh(n).item]
                       ELSE [old(n) EXCEPT !.link = fresh(n).item, !.mime = fresh(n).mime, !.guessed = FALSE]
  <1>1. refreshSourceUrls(m, mimeSaid) = [n \in DOMAIN media[m] |-> New(n)]
    BY DEF refreshSourceUrls
  <1>2. m \in MediaMessages /\ KindsAre(m) /\ (AllKept(m) => StoredInOrder(m))
    BY DEF AttachmentsInv
  <1>7. ASSUME NEW n \in DOMAIN media[m], Refreshed(n), AllKept(m) PROVE fresh(n).item = old(n).item
    <2>0. StoredInOrder(m)
      BY <1>2, <1>7
    <2>20. Stale(m) \in SUBSET Nat /\ IsFiniteSet(Stale(m)) /\ Stale(m) \subseteq DOMAIN media[m]
      BY <2>0, FS_Subset DEF StoredInOrder, Stale
    <2>21. rows = InOrder(Stale(m))
      BY DEF listRefreshable, Stale
    <2>22. /\ Cardinality(Stale(m)) \in Nat /\ rows \in [1 .. Cardinality(Stale(m)) -> Stale(m)]
          /\ Len(rows) = Cardinality(Stale(m))
      BY <2>20, <2>21, OrderIsRank, OrderIsSeq
    <2>23. /\ Cardinality(Fresh(m)) \in Nat /\ DOMAIN links = 1 .. Cardinality(Fresh(m))
          /\ Len(links) = Cardinality(Fresh(m))
          /\ \A k \in DOMAIN links : links[k].item = InOrder(Fresh(m))[k]
      BY <1>2, LinksAre
    <2> HIDE DEF rows, links
    <2>1. PICK k \in DOMAIN rows : k = Position(n) /\ rows[k] = n
      BY <1>7 DEF ToSet
    <2>2. k \in DOMAIN links /\ Len(links) = Len(rows)
      BY <1>7, <2>1 DEF MatchesRows
    <2>3. Cardinality(Fresh(m)) = Cardinality(Stale(m)) /\ k \in 1 .. Cardinality(Stale(m))
      BY <2>22, <2>23, <2>1, <2>2
    <2> DEFINE g == [o \in Stale(m) |-> media[m][o].item]
               told == {g[o] : o \in Stale(m)}
    <2>4. /\ told \in SUBSET Nat /\ g \in [Stale(m) -> told]
          /\ \A t \in told : \E o \in Stale(m) : g[o] = t
          /\ \A o, p \in Stale(m) : o < p => g[o] < g[p]
          /\ Fresh(m) \subseteq told
      BY <1>2, <2>0, <2>20, ItemsAre DEF StoredInOrder
    <2>5. \A o \in Stale(m) : g[o] = media[m][o].item
      OBVIOUS
    <2> HIDE DEF g, told
    <2>6. /\ IsFiniteSet(told) /\ Cardinality(told) = Cardinality(Stale(m))
          /\ \A o \in 1 .. Cardinality(Stale(m)) : InOrder(told)[o] = g[InOrder(Stale(m))[o]]
      BY <2>20, <2>4, OrderOfImage
    <2>7. Fresh(m) = told
      BY <2>3, <2>4, <2>6, FS_Subset
    <2>8. links[k].item = g[n]
      BY <2>21, <2>23, <2>1, <2>2, <2>3, <2>6, <2>7
    <2>9. n \in Stale(m)
      BY <2>22, <2>1
    <2> QED
      BY <2>1, <2>5, <2>8, <2>9
  <1>8. \A n \in DOMAIN media[m] : IsRow(old(n)) /\ (AllKept(m) => old(n).link = old(n).item)
    BY <1>2 DEF StoredInOrder, KindsAre
  <1> HIDE DEF Refreshed, fresh, old
  <1>9. ASSUME NEW n \in DOMAIN media[m]
        PROVE  /\ IsRow(New(n)) /\ New(n).item = old(n).item
               /\ New(n).kind = old(n).kind /\ New(n).type = old(n).type
               /\ AllKept(m) => New(n).link = old(n).item
               /\ New(n).stable = old(n).stable
    <2>1. PICK r : r = old(n) /\ IsRow(r) /\ (AllKept(m) => r.link = r.item)
      BY <1>8
    <2>5. PICK x : x = fresh(n).item /\ (Refreshed(n) /\ AllKept(m) => x = r.item)
      BY <1>7, <2>1 DEF old
    <2>2. CASE ~Refreshed(n)
      BY <2>1, <2>2
    <2>3. CASE Refreshed(n) /\ fresh(n).mime = "none"
      <3>1. New(n) = [r EXCEPT !.link = x]
        BY <2>1, <2>3, <2>5
      <3>2. New(n) = [item |-> r.item, link |-> x, stable |-> r.stable, kind |-> r.kind, type |-> r.type,
                      mime |-> r.mime, guessed |-> r.guessed]
        BY <2>1, <3>1 DEF IsRow
      <3> HIDE DEF New
      <3> QED
        BY <2>1, <2>3, <2>5, <3>2 DEF IsRow
    <2>4. CASE Refreshed(n) /\ fresh(n).mime # "none"
      <3>1. New(n) = [r EXCEPT !.link = x, !.mime = fresh(n).mime, !.guessed = FALSE]
        BY <2>1, <2>4, <2>5
      <3>2. New(n) = [item |-> r.item, link |-> x, stable |-> r.stable, kind |-> r.kind, type |-> r.type,
                      mime |-> fresh(n).mime, guessed |-> FALSE]
        BY <2>1, <3>1 DEF IsRow
      <3> HIDE DEF New
      <3> QED
        BY <2>1, <2>4, <2>5, <3>2 DEF IsRow
    <2> QED
      BY <2>2, <2>3, <2>4
  <1> HIDE DEF New
  <1> QED
    BY <1>1, <1>9 DEF old

LEMMA RefreshKeeps ==
    ASSUME AttachmentsInv, NEW v \in Viewers, NEW mimeSaid \in BOOLEAN, refreshAttachments(v, mimeSaid)
    PROVE  AttachmentsInv'
  <1>1. /\ UNCHANGED <<withdrawn, directThread>>
        /\ media' = [m \in DOMAIN media |-> IF m \in looks[v] \cap Described THEN refreshSourceUrls(m, mimeSaid)
                                            ELSE media[m]]
    BY DEF refreshAttachments
  <1>2. DOMAIN media' = DOMAIN media
        /\ \A m \in DOMAIN media : media'[m] = media[m] \/ media'[m] = refreshSourceUrls(m, mimeSaid)
    BY <1>1
  <1>3. \A k : Fresh(k)' = Fresh(k) /\ AllKept(k)' = AllKept(k)
    BY <1>1 DEF Fresh, Edge, AllKept
  <1>4. ASSUME NEW m \in DOMAIN media, AllKept(m) PROVE StoredInOrder(m)'
    <2>1. StoredInOrder(m)
      BY <1>4 DEF AttachmentsInv
    <2>2. \A n \in DOMAIN media[m] : IsRow(media[m][n]) /\ media[m][n].link = media[m][n].item
      BY <2>1 DEF StoredInOrder
    <2>3. PICK rows : rows = media'[m]
      OBVIOUS
    <2>4. /\ DOMAIN rows = DOMAIN media[m]
          /\ \A n \in DOMAIN media[m] :
                /\ IsRow(rows[n]) /\ rows[n].item = media[m][n].item /\ rows[n].link = media[m][n].item
                /\ rows[n].stable = media[m][n].stable
      <3>1. CASE media'[m] = media[m]
        BY <2>2, <2>3, <3>1
      <3>2. CASE media'[m] = refreshSourceUrls(m, mimeSaid)
        BY <1>4, <2>3, <3>2, RefreshIsRight
      <3> QED
        BY <1>2, <3>1, <3>2
    <2>5. Stale(m)' = Stale(m) /\ Stale(m) \subseteq DOMAIN media[m]
      BY <2>3, <2>4 DEF Stale
    <2>6. \A n \in DOMAIN media[m] : IsRow(media[m][n])'
      BY <2>3, <2>4 DEF IsRow
    <2>7. \A n, o \in Stale(m) : n < o => media'[m][n].item < media'[m][o].item
      BY <2>1, <2>3, <2>4, <2>5 DEF StoredInOrder
    <2>8. \A i \in Fresh(m) : \E n \in Stale(m) : media'[m][n].item = i
      BY <2>1, <2>3, <2>4, <2>5 DEF StoredInOrder
    <2>9. /\ DOMAIN media'[m] = DOMAIN media[m]
          /\ DOMAIN media[m] \in SUBSET Nat /\ IsFiniteSet(DOMAIN media[m])
          /\ \A n \in DOMAIN media[m] :
                media'[m][n].item \in DOMAIN ItemsOf[m] /\ media'[m][n].link = media'[m][n].item
      BY <2>1, <2>3, <2>4 DEF StoredInOrder
    <2> QED
      BY <1>3, <2>5, <2>6, <2>7, <2>8, <2>9 DEF StoredInOrder
  <1>5. ASSUME NEW m \in DOMAIN media PROVE KindsAre(m)'
    <2>1. KindsAre(m)
      BY DEF AttachmentsInv
    <2>2. PICK rows : rows = media'[m]
      OBVIOUS
    <2>3. /\ DOMAIN rows = DOMAIN media[m]
          /\ \A n \in DOMAIN media[m] :
                /\ IsRow(rows[n]) /\ rows[n].item = media[m][n].item
                /\ rows[n].kind = media[m][n].kind /\ rows[n].type = media[m][n].type
      <3>1. CASE media'[m] = media[m]
        BY <2>1, <2>2, <3>1 DEF KindsAre
      <3>2. CASE media'[m] = refreshSourceUrls(m, mimeSaid)
        BY <2>2, <3>2, RefreshIsRight
      <3> QED
        BY <1>2, <3>1, <3>2
    <2>4. \A n \in DOMAIN media[m] : IsRow(media[m][n])'
      BY <2>2, <2>3 DEF IsRow
    <2> QED
      BY <2>1, <2>2, <2>3, <2>4 DEF KindsAre
  <1> QED
    BY <1>1, <1>2, <1>3, <1>4, <1>5 DEF AttachmentsInv

LEMMA AttachmentsRest ==
    ASSUME AttachmentsInv, UNCHANGED media, withdrawn \subseteq withdrawn', directThread' \in Seq(MediaMessages)
    PROVE  AttachmentsInv'
  <1>1. \A m : Fresh(m)' \subseteq Fresh(m) /\ AllKept(m)' = AllKept(m) /\ Stale(m)' = Stale(m)
    BY DEF Fresh, Edge, AllKept, Stale
  <1>2. \A m \in DOMAIN media : StoredInOrder(m) => StoredInOrder(m)'
    BY <1>1 DEF StoredInOrder, IsRow
  <1>3. \A m : KindsAre(m) => KindsAre(m)'
    BY DEF KindsAre, IsRow
  <1> QED
    BY <1>1, <1>2, <1>3 DEF AttachmentsInv

LEMMA AttachmentsStep == AttachmentsInv /\ [MediaNext]_mediaVars => AttachmentsInv'
  <1> SUFFICES ASSUME AttachmentsInv, [MediaNext]_mediaVars PROVE AttachmentsInv'
    OBVIOUS
  <1>1. CASE MentionNext \/ UNCHANGED mediaVars
    <2>1. UNCHANGED attachmentVars
      BY <1>1 DEF MentionNext, readMention, refreshMentionMediaInBackground, KeepStored, resolveMentionMedia,
                  ServerStops, StampAges, mediaVars
    <2> QED
      BY <2>1, AttachmentsRest DEF attachmentVars, AttachmentsInv
  <1>2. CASE AttachmentNext
    <2>1. CASE \E m \in MediaMessages : MessageHappens(m)
      BY <2>1, AttachmentsRest DEF MessageHappens, AttachmentsInv
    <2>2. CASE \E m \in MediaMessages : insertMany(m, WebhookItems(m))
      BY <2>2, InsertsKeep
    <2>3. CASE \E m \in Described, said \in BOOLEAN : insertMany(m, toWebhookAttachments(m, said))
      <3>1. PICK m \in Described, said \in BOOLEAN : insertMany(m, toWebhookAttachments(m, said))
        BY <2>3
      <3>2. m \in MediaMessages
        BY <3>1 DEF Described, AttachmentsInv
      <3> QED
        BY <3>1, <3>2, InsertsKeep
    <2>4. CASE \E m \in MediaMessages : \E i \in DOMAIN ItemsOf[m] : Withdraw(m, i)
      BY <2>4, AttachmentsRest DEF Withdraw, AttachmentsInv
    <2>5. CASE \E v \in Viewers : readRefreshable(v) \/ BeyondReach(v)
      BY <2>5, AttachmentsRest DEF readRefreshable, BeyondReach, AttachmentsInv
    <2>6. CASE \E v \in Viewers, said \in BOOLEAN : refreshAttachments(v, said)
      BY <2>6, RefreshKeeps
    <2> QED
      BY <1>2, <2>1, <2>2, <2>3, <2>4, <2>5, <2>6 DEF AttachmentNext
  <1> QED
    BY <1>1, <1>2 DEF MediaNext

\* MediaIsKept for any number of viewers and processes, any messages with any
\* items, whatever fails, stops or is withdrawn (refreshMentionMediaInBackground,
\* mergePostDetails, refreshAttachments, normalizeAttachments).
THEOREM StoredMediaIsKept == MediaSpec => MediaIsKept
  <1>1. MediaSpec => []OneRefreshAtATime /\ [][FieldLostOnlyToStaleRead]_mediaVars
    BY MentionsAreKept
  <1>2. MediaInit => AttachmentsInv
    <2>1. MediaInit => DOMAIN media = {} /\ directThread \in Seq(MediaMessages)
      BY DEF MediaInit
    <2> QED
      BY <2>1 DEF AttachmentsInv
  <1>3. AttachmentsInv => LinksStayInPlace /\ KindIsTrueOrGuessed
    BY DEF AttachmentsInv, AllKept, StoredInOrder, KindsAre, LinksStayInPlace, KindIsTrueOrGuessed
  <1> QED
    BY <1>1, <1>2, <1>3, AttachmentsStep, PTL DEF MediaSpec, MediaIsKept

=============================================================================
