-------------------------- MODULE VerificationCodes --------------------------
(***************************************************************************)
(* The one-time codes sent to one address: VerificationService over        *)
(* VerificationRepository, and the two handlers of AuthController that end *)
(* in one (accept-invite and verify).                                      *)
(*                                                                         *)
(* A code belongs to the person, the purpose and the address, never to the *)
(* business that invited: that is the key of verifications_live_uniq.  The *)
(* requests of several clients run at the same time; each statement of the *)
(* code is a step, and a request may die between two of them.              *)
(***************************************************************************)
EXTENDS Naturals, Sequences, FiniteSets

CONSTANTS
    Inviters,    \* the businesses that may invite this person
    Callers,       \* the requests that can be in flight at the same time
    NoInviter,    \* a first-login code belongs to no business
    MaxAttempts,   \* max_attempts of a code
    HourlyCap,     \* hourlyDestinationCap
    MaxCodes       \* bound: codes ever written in a behaviour

ASSUME CodesAssumption ==
    /\ NoInviter \notin Inviters /\ IsFiniteSet(Callers)
    /\ MaxAttempts \in Nat \ {0} /\ HourlyCap \in Nat \ {0} /\ MaxCodes \in Nat

VARIABLES
    codes,       \* verifications, in order of id
    invitation,  \* each business's employment of this person
    call,        \* the request each client has in flight
    passwordSet, \* whether the person ever set a password
    guesses,     \* history: secrets compared with each code
    wins         \* history: requests that each code let through

codeVars == <<codes, invitation, call, passwordSet, guesses, wins>>

Invite == "employee_invite"
FirstLogin == "first_login"
Kinds == {Invite, FirstLogin}

\* sent: whether last_sent_at is still within the cooldown.
CodeType == [kind : Kinds, business : Inviters \cup {NoInviter},
             state : {"live", "consumed", "superseded"}, expired : BOOLEAN,
             attempts : 0 .. MaxAttempts, sent : BOOLEAN]

Free == [phase |-> "free"]

CodesTypeOK ==
    /\ codes \in Seq(CodeType) /\ Len(codes) <= MaxCodes
    /\ invitation \in [Inviters -> {"none", "invited", "active"}]
    /\ DOMAIN call = Callers
    /\ passwordSet \in BOOLEAN
    /\ Len(guesses) = Len(codes) /\ Len(wins) = Len(codes)

CodesInit ==
    /\ codes = <<>>
    /\ invitation = [b \in Inviters |-> "none"]
    /\ call = [c \in Callers |-> Free]
    /\ passwordSet = FALSE
    /\ guesses = <<>> /\ wins = <<>>

Live(kind) == {i \in DOMAIN codes : codes[i].kind = kind /\ codes[i].state = "live"}

findLiveByDestination(kind) == CHOOSE i \in Live(kind) : \A j \in Live(kind) : j <= i

CallGoes(c, next) == call' = [call EXCEPT ![c] = next]
CallEnds(c) == CallGoes(c, Free)

-----------------------------------------------------------------------------
(* Issuing: the cap is read first, the transaction runs later.             *)

assertWithinDestinationCap == Len(codes) < HourlyCap

StartIssue(c, kind, business) ==
    /\ call[c] = Free
    /\ assertWithinDestinationCap
    /\ CallGoes(c, [phase |-> "issue", kind |-> kind, business |-> business])

\* EmployeesService.create: the employment is committed, then the code issued.
InviteEmployee(c, b) ==
    /\ invitation[b] = "none"
    /\ StartIssue(c, Invite, b)
    /\ invitation' = [invitation EXCEPT ![b] = "invited"]
    /\ UNCHANGED <<codes, passwordSet, guesses, wins>>

\* AuthService.login by a credential that was never verified.
LoginUnverified(c) ==
    /\ passwordSet
    /\ StartIssue(c, FirstLogin, NoInviter)
    /\ UNCHANGED <<codes, invitation, passwordSet, guesses, wins>>

\* Only a live code past its cooldown is sent again, for its own business.
\* recordResend then stamps the old row, which is superseded and never read.
Resend(c, kind) ==
    /\ Live(kind) # {}
    /\ LET old == codes[findLiveByDestination(kind)] IN
         ~old.sent /\ StartIssue(c, kind, old.business)
    /\ UNCHANGED <<codes, invitation, passwordSet, guesses, wins>>

supersedeLive(c) ==
    /\ call[c].phase = "issue"
    /\ CallGoes(c, [phase |-> "superseded", kind |-> call[c].kind, business |-> call[c].business,
                    old |-> Live(call[c].kind)])
    /\ UNCHANGED <<codes, invitation, passwordSet, guesses, wins>>

\* The transaction commits: what it superseded and what it wrote appear
\* together, unless verifications_live_uniq finds another live code.
CollidesOnIndex(kind, old) == Live(kind) \ old # {}

CreateCode(c) ==
    LET q == call[c] IN
    /\ q.phase = "superseded"
    /\ Len(codes) < MaxCodes
    /\ ~CollidesOnIndex(q.kind, q.old)
    /\ codes' = Append([i \in DOMAIN codes |->
                          IF i \in q.old /\ codes[i].state = "live"
                          THEN [codes[i] EXCEPT !.state = "superseded"] ELSE codes[i]],
                       [kind |-> q.kind, business |-> q.business, state |-> "live",
                        expired |-> FALSE, attempts |-> 0, sent |-> TRUE])
    /\ guesses' = Append(guesses, 0) /\ wins' = Append(wins, 0)
    /\ CallEnds(c)
    /\ UNCHANGED <<invitation, passwordSet>>

CreateCollides(c) ==
    /\ call[c].phase = "superseded"
    /\ CollidesOnIndex(call[c].kind, call[c].old)
    /\ CallEnds(c)
    /\ UNCHANGED <<codes, invitation, passwordSet, guesses, wins>>

-----------------------------------------------------------------------------
(* Verifying: find, spend an attempt, compare, consume.                    *)

FindLive(c, kind) ==
    /\ call[c] = Free
    /\ Live(kind) # {}
    /\ LET i == findLiveByDestination(kind) IN
         ~codes[i].expired /\ CallGoes(c, [phase |-> "found", code |-> i])
    /\ UNCHANGED <<codes, invitation, passwordSet, guesses, wins>>

\* attempt_count is incremented and compared in one UPDATE.
spendAttempt(i) ==
    /\ codes[i].attempts < MaxAttempts
    /\ codes' = [codes EXCEPT ![i].attempts = @ + 1]

SpendAndCompare(c) ==
    /\ call[c].phase = "found"
    /\ LET i == call[c].code IN
         /\ spendAttempt(i)
         /\ guesses' = [guesses EXCEPT ![i] = @ + 1]
         /\ \E right \in BOOLEAN :
              IF right THEN CallGoes(c, [phase |-> "right", code |-> i]) ELSE CallEnds(c)
    /\ UNCHANGED <<invitation, passwordSet, wins>>

AttemptsExceeded(c) ==
    /\ call[c].phase = "found"
    /\ codes[call[c].code].attempts >= MaxAttempts
    /\ CallEnds(c)
    /\ UNCHANGED <<codes, invitation, passwordSet, guesses, wins>>

Consumable_Unfenced(i) == TRUE

Consumable(i) == codes[i].state = "live"

Consume(c) ==
    /\ call[c].phase = "right"
    /\ LET i == call[c].code IN
         IF Consumable(i)
         THEN /\ codes' = [codes EXCEPT ![i].state = "consumed"]
              /\ wins' = [wins EXCEPT ![i] = @ + 1]
              /\ CallGoes(c, [phase |-> "verified", code |-> i])
         ELSE CallEnds(c) /\ UNCHANGED <<codes, wins>>
    /\ UNCHANGED <<invitation, passwordSet, guesses>>

\* AuthService.completeInvite: password, verified credential and activation
\* are one transaction, begun after the code was consumed.
ActivateInvite(c) ==
    /\ call[c].phase = "verified"
    /\ codes[call[c].code].kind = Invite
    /\ passwordSet' = TRUE
    /\ LET b == codes[call[c].code].business IN
         invitation' = IF invitation[b] = "invited"
                       THEN [invitation EXCEPT ![b] = "active"] ELSE invitation
    /\ CallEnds(c)
    /\ UNCHANGED <<codes, guesses, wins>>

\* AuthService.completeVerifiedLogin; what follows is SignIn's.
CompleteVerifiedLogin(c) ==
    /\ call[c].phase = "verified"
    /\ codes[call[c].code].kind = FirstLogin
    /\ CallEnds(c)
    /\ UNCHANGED <<codes, invitation, passwordSet, guesses, wins>>

-----------------------------------------------------------------------------
CallDies(c) ==
    /\ call[c] # Free
    /\ CallEnds(c)
    /\ UNCHANGED <<codes, invitation, passwordSet, guesses, wins>>

CodeExpires(i) ==
    /\ ~codes[i].expired
    /\ codes' = [codes EXCEPT ![i].expired = TRUE]
    /\ UNCHANGED <<invitation, call, passwordSet, guesses, wins>>

CooldownEnds(i) ==
    /\ codes[i].sent
    /\ codes' = [codes EXCEPT ![i].sent = FALSE]
    /\ UNCHANGED <<invitation, call, passwordSet, guesses, wins>>

CodesNext ==
    \/ \E c \in Callers :
        \/ \E b \in Inviters : InviteEmployee(c, b)
        \/ LoginUnverified(c)
        \/ \E kind \in Kinds : Resend(c, kind) \/ FindLive(c, kind)
        \/ supersedeLive(c) \/ CreateCode(c) \/ CreateCollides(c)
        \/ SpendAndCompare(c) \/ AttemptsExceeded(c) \/ Consume(c)
        \/ ActivateInvite(c) \/ CompleteVerifiedLogin(c)
        \/ CallDies(c)
    \/ \E i \in DOMAIN codes : CodeExpires(i) \/ CooldownEnds(i)

CodesSpec == CodesInit /\ [][CodesNext]_codeVars

-----------------------------------------------------------------------------
\* However many requests issue codes for the address at the same time, at most
\* one code of a purpose is live.
OneLiveCode == \A kind \in Kinds : Cardinality(Live(kind)) <= 1

\* No code lets two requests through, also when both compared it before either
\* consumed it.
SpentOnce == \A i \in DOMAIN wins : wins[i] <= 1

\* Never more than max_attempts secrets are compared with one code, whatever
\* number of requests submit at once: the attempt is spent before it is made.
GuessesAreCounted == \A i \in DOMAIN guesses : guesses[i] <= MaxAttempts

\* The hourly cap is read before the transaction, so requests that overlap may
\* pass it together, but by at most one code for each further one in flight.
CapOvershootIsBounded == Len(codes) <= HourlyCap + Cardinality(Callers) - 1

\* CodesAreSound: issuing, guessing, verifying and expiring codes at the same
\* time leaves one live code, spent once, guessed at a bounded number of times
\* (VerificationService.issue and verify, verifications_live_uniq, consume,
\* spendAttempt, assertWithinDestinationCap).
CodesAreSound ==
    CodesTypeOK /\ OneLiveCode /\ SpentOnce /\ GuessesAreCounted /\ CapOvershootIsBounded
=============================================================================
