------------------------------- MODULE MCDesk -------------------------------
(* What surrounds the message pipeline.  The components share no state      *)
(* here: a behaviour is one of one of them, while the others rest.          *)
EXTENDS MCSyncJobs, InboxDesk, Moderation, UsageMonitor, RewardPrograms, Customers, ThreadPages, MediaRefresh

CONSTANTS t1, t2, h1, m1, m2

VARIABLE moving

deskRunVars == <<moving, vars, deskVars, moderationVars, usageVars, programVars, customerVars, pageVars, mediaVars>>

\* Where a component with several initial states rests.
ModerationRests == ModerationInit /\ reports
UsageRests == UsageInit /\ holders = [s \in Pools |-> {}]
ProgramsRest == ProgramsInit /\ business.timezone /\ business.currency /\ ruleRows = << >>
MediaRests == MediaInit /\ postDetails = {}

DeskRunInit ==
    /\ moving \in {"jobs", "desk", "moderation", "usage", "programs", "customers", "pages", "mentions", "attachments"}
    /\ Init /\ DeskInit /\ CustomersInit /\ PagesInit
    /\ IF moving = "moderation" THEN ModerationInit ELSE ModerationRests
    /\ IF moving = "usage" THEN UsageInit ELSE UsageRests
    /\ IF moving = "programs" THEN ProgramsInit ELSE ProgramsRest
    /\ IF moving = "mentions" THEN MediaInit ELSE MediaRests

DeskRunNext ==
    \/ moving = "jobs" /\ Next
       /\ UNCHANGED <<moving, deskVars, moderationVars, usageVars, programVars, customerVars, pageVars, mediaVars>>
    \/ moving = "desk" /\ DeskNext
       /\ UNCHANGED <<moving, vars, moderationVars, usageVars, programVars, customerVars, pageVars, mediaVars>>
    \/ moving = "moderation" /\ ModerationNext
       /\ UNCHANGED <<moving, vars, deskVars, usageVars, programVars, customerVars, pageVars, mediaVars>>
    \/ moving = "usage" /\ UsageNext
       /\ UNCHANGED <<moving, vars, deskVars, moderationVars, programVars, customerVars, pageVars, mediaVars>>
    \/ moving = "programs" /\ ProgramsNext
       /\ UNCHANGED <<moving, vars, deskVars, moderationVars, usageVars, customerVars, pageVars, mediaVars>>
    \/ moving = "customers" /\ CustomersNext
       /\ UNCHANGED <<moving, vars, deskVars, moderationVars, usageVars, programVars, pageVars, mediaVars>>
    \/ moving = "pages" /\ PagesNext
       /\ UNCHANGED <<moving, vars, deskVars, moderationVars, usageVars, programVars, customerVars, mediaVars>>
    \/ ((moving = "mentions" /\ MentionNext) \/ (moving = "attachments" /\ AttachmentNext))
       /\ UNCHANGED <<moving, vars, deskVars, moderationVars, usageVars, programVars, customerVars, pageVars>>

DeskRunSpec == DeskRunInit /\ [][DeskRunNext]_deskRunVars

\* Only one component moves in a behaviour, so the permutation that swaps every
\* interchangeable pair at once serves them all.
Swaps ==
    {p @@ q @@ r @@ s @@ t @@ u @@ v :
        p \in Permutations(Workers), q \in Permutations(Requests), r \in Permutations(Processes),
        s \in Permutations(Tenants), t \in Permutations(Editors), u \in Permutations(Projections),
        v \in Permutations(People)}
DeskSymmetry == {f \in Swaps : (\A x \in DOMAIN f : f[x] = x) \/ (\A x \in DOMAIN f : f[x] # x)}

\* A direct thread and a comment thread.
DirectAndComment == (t1 :> "direct") @@ (t2 :> "comment")

\* Two people who have used the same handle.
SharedHandle == [p \in People |-> h1]

\* A capped conversion, and points for whole and half days.
Terms ==
    {[capped |-> TRUE, benefit |-> "convert", matched |-> FALSE, schedule |-> (1 :> {})],
     [capped |-> FALSE, benefit |-> "points", matched |-> TRUE, schedule |-> (1 :> {"am", "pm"})]}

\* Two photos around a share, and a story beside something the read edge
\* does not show.
Photo(readable) == [type |-> "image", truth |-> "image", host |-> "cdn", readable |-> readable]
Share == [type |-> "share", truth |-> "page", host |-> "public", readable |-> TRUE]
Story == [type |-> "ig_story", truth |-> "video", host |-> "cdn", readable |-> TRUE]
PhotosAndStory == (m1 :> <<Photo(TRUE), Share, Photo(TRUE)>>) @@ (m2 :> <<Story, Photo(FALSE)>>)
=============================================================================
