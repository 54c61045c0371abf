------------------------------- MODULE SignIn -------------------------------
(***************************************************************************)
(* Signing in and staying signed in, for one person: AuthService over      *)
(* SessionRepository and IdentityRepository, and the session revocation    *)
(* that EmployeesService.setStatus and PlatformService.setStaffStatus make *)
(* after a suspension.                                                     *)
(*                                                                         *)
(* A request reads the account or the employments, and only a later step   *)
(* writes the session or mints the token; other requests, a suspension or  *)
(* a crash may come between.  Access tokens are stateless: what matters    *)
(* here is when one is minted.  Verification codes are in                  *)
(* VerificationCodes; a first login that needs one ends there.             *)
(***************************************************************************)
EXTENDS Naturals, Sequences, FiniteSets

CONSTANTS
    Businesses,     \* the businesses this person may work for
    Clients,        \* requests in flight at the same time
    MaxFailed,      \* MAX_FAILED_LOGINS
    MaxSessions,    \* MAX_SESSIONS_PER_IDENTITY
    SessionBound    \* bound: sessions ever created in a behaviour

ASSUME SignInAssumption ==
    /\ MaxFailed \in Nat \ {0} /\ MaxSessions \in Nat \ {0} /\ SessionBound \in Nat
    /\ IsFiniteSet(Clients)

VARIABLES
    employment, \* enterprise_employees of this person, by business
    reach,      \* whether the person is active staff with access to every business
    failed,     \* failed_login_count
    lock,       \* locked_until: "none", "held" (in the future) or "lapsed"
    session,    \* sessions, oldest first
    request,    \* the request each client has in flight
    untrimmed,  \* history: sessions created since the cap was last applied
    checked     \* history: wrong passwords let through to be counted since
                \*   the counter was last reset

signInVars == <<employment, reach, failed, lock, session, request, untrimmed, checked>>

Standings == {"none", "active", "suspended"}
LockStates == {"none", "held", "lapsed"}
SessionStates == {"live", "revoked", "expired"}
Idle == [phase |-> "idle"]
NoBusiness == "no business"

SignInTypeOK ==
    /\ employment \in [Businesses -> Standings]
    /\ reach \in BOOLEAN
    /\ failed \in 0 .. MaxFailed + Cardinality(Clients) - 1
    /\ lock \in LockStates
    /\ session \in Seq(SessionStates) /\ Len(session) <= SessionBound
    /\ DOMAIN request = Clients
    /\ untrimmed \in Nat /\ checked \in Nat

SignInInit ==
    /\ employment \in [Businesses -> Standings]
    /\ reach \in BOOLEAN
    /\ failed = 0 /\ lock = "none" /\ checked = 0
    /\ session = <<>> /\ untrimmed = 0
    /\ request = [c \in Clients |-> Idle]

ActiveAt == {b \in Businesses : employment[b] = "active"}
LiveSessions == {s \in DOMAIN session : session[s] = "live"}
assertLoginable == lock # "held"

\* read: what the request knows; stale: whether a suspension came since.
Goes(c, next) == request' = [request EXCEPT ![c] = next]
Ends(c) == Goes(c, Idle)

-----------------------------------------------------------------------------
(* Logging in.                                                             *)

\* A wrong password against a held lock is refused without being counted.
WrongPassword(c) ==
    /\ request[c] = Idle
    /\ lock # "held"
    /\ Goes(c, [phase |-> "wrong"])
    /\ checked' = checked + 1
    /\ UNCHANGED <<reach, employment, failed, lock, session, untrimmed>>

\* One UPDATE: a lapsed lock starts the count again, a held one is kept.
NextFailed == IF lock = "lapsed" THEN 1 ELSE failed + 1

recordFailedLogin ==
    /\ failed' = NextFailed
    /\ lock' = IF lock = "held" \/ NextFailed >= MaxFailed THEN "held" ELSE "none"

CountFailure(c) ==
    /\ request[c].phase = "wrong"
    /\ recordFailedLogin
    /\ Ends(c)
    /\ checked' = IF lock = "lapsed" THEN 1 ELSE checked
    /\ UNCHANGED <<reach, employment, session, untrimmed>>

recordSuccessfulLogin == failed' = 0 /\ lock' = "none" /\ checked' = 0

RightPassword(c) ==
    /\ request[c] = Idle
    /\ assertLoginable
    /\ Goes(c, [phase |-> "complete"])
    /\ UNCHANGED <<reach, employment, failed, lock, session, untrimmed, checked>>

\* A code stood in for the password, or an invitation was just completed: the
\* account is read (again) before the login goes on.
ProvenByCode(c) ==
    /\ request[c] = Idle \/ request[c].phase = "proven"
    /\ assertLoginable
    /\ Goes(c, [phase |-> "complete"])
    /\ UNCHANGED <<reach, employment, failed, lock, session, untrimmed, checked>>

\* The employments are read, then the counter is cleared.  One employment
\* goes straight on; several need a choice; none is refused.
CompleteLogin(c) ==
    /\ request[c].phase = "complete"
    /\ recordSuccessfulLogin
    /\ \/ Cardinality(ActiveAt) > 1 /\ Goes(c, [phase |-> "select"])
       \/ Cardinality(ActiveAt) = 1
          /\ Goes(c, [phase |-> "issue", business |-> CHOOSE b \in ActiveAt : TRUE, stale |-> FALSE])
       \/ ActiveAt = {} /\ reach
          /\ Goes(c, [phase |-> "issue", business |-> NoBusiness, stale |-> FALSE])
       \/ ActiveAt = {} /\ ~reach /\ Ends(c)
    /\ UNCHANGED <<reach, employment, session, untrimmed>>

SelectEnterprise(c, b) ==
    /\ request[c].phase = "select"
    /\ assertLoginable
    /\ employment[b] = "active"
    /\ Goes(c, [phase |-> "issue", business |-> b, stale |-> FALSE])
    /\ UNCHANGED <<reach, employment, failed, lock, session, untrimmed, checked>>

\* issueSession: the row, then the cap and the token.
CreateSession(c) ==
    /\ request[c].phase = "issue"
    /\ Len(session) < SessionBound
    /\ session' = Append(session, "live")
    /\ untrimmed' = untrimmed + 1
    /\ Goes(c, [request[c] EXCEPT !.phase = "trim"])
    /\ UNCHANGED <<reach, employment, failed, lock, checked>>

BeyondNewest == {s \in LiveSessions : Cardinality({t \in LiveSessions : t > s}) >= MaxSessions}

revokeBeyondNewest ==
    session' = [s \in DOMAIN session |-> IF s \in BeyondNewest THEN "revoked" ELSE session[s]]

TrimAndMint(c) ==
    /\ request[c].phase = "trim"
    /\ revokeBeyondNewest
    /\ untrimmed' = 0
    /\ Ends(c)
    /\ UNCHANGED <<reach, employment, failed, lock, checked>>

revokeAllForIdentity ==
    session' = [s \in DOMAIN session |-> IF session[s] = "live" THEN "revoked" ELSE session[s]]

-----------------------------------------------------------------------------
(* Refreshing, with or without naming a business.                          *)

Dismissed == /\ \E b \in Businesses : employment[b] # "none"
             /\ ActiveAt = {}

RefreshFor(c, s, b) ==
    /\ request[c] = Idle
    /\ session[s] = "live" /\ assertLoginable
    /\ employment[b] = "active"
    /\ Goes(c, [phase |-> "mint", business |-> b, stale |-> FALSE])
    /\ UNCHANGED <<reach, employment, failed, lock, session, untrimmed, checked>>

assertStandingNotRevoked_Skipped == TRUE

assertStandingNotRevoked == reach \/ ~Dismissed

RefreshUnscoped(c, s) ==
    /\ request[c] = Idle
    /\ session[s] = "live" /\ assertLoginable
    /\ assertStandingNotRevoked
    /\ Goes(c, [phase |-> "mint", business |-> NoBusiness, stale |-> FALSE])
    /\ UNCHANGED <<reach, employment, failed, lock, session, untrimmed, checked>>

\* Nothing active is left: the refresh fails and ends every session.
RefreshRefused(c, s) ==
    /\ request[c] = Idle
    /\ session[s] = "live" /\ assertLoginable
    /\ ~assertStandingNotRevoked
    /\ revokeAllForIdentity
    /\ UNCHANGED <<reach, employment, failed, lock, request, untrimmed, checked>>

Mint(c) ==
    /\ request[c].phase = "mint"
    /\ Ends(c)
    /\ UNCHANGED <<reach, employment, failed, lock, session, untrimmed, checked>>

SwitchEnterprise(c, b) ==
    /\ request[c] = Idle
    /\ employment[b] = "active" \/ reach
    /\ Goes(c, [phase |-> "mint", stale |-> FALSE,
                business |-> IF employment[b] = "active" THEN b ELSE NoBusiness])
    /\ UNCHANGED <<reach, employment, failed, lock, session, untrimmed, checked>>

-----------------------------------------------------------------------------
(* Leaving.                                                                *)

Logout(s) ==
    /\ session[s] = "live"
    /\ session' = [session EXCEPT ![s] = "revoked"]
    /\ UNCHANGED <<reach, employment, failed, lock, request, untrimmed, checked>>

SignOutEverywhere ==
    /\ LiveSessions # {}
    /\ revokeAllForIdentity
    /\ UNCHANGED <<reach, employment, failed, lock, request, untrimmed, checked>>

\* The status is committed; the sessions are ended by a later statement,
\* and only when no other business employs the person.
Stale(q) == IF q.phase \in {"issue", "trim", "mint"} THEN [q EXCEPT !.stale = TRUE] ELSE q

Suspend(c, b) ==
    /\ request[c] = Idle
    /\ employment[b] = "active"
    /\ employment' = [employment EXCEPT ![b] = "suspended"]
    /\ request' = [d \in Clients |-> IF d = c THEN [phase |-> "revoke", business |-> b]
                                     ELSE Stale(request[d])]
    /\ UNCHANGED <<reach, failed, lock, session, untrimmed, checked>>

hasActiveEmploymentElsewhere(b) == ActiveAt \ {b} # {}

RevokeAfterSuspension(c) ==
    /\ request[c].phase = "revoke"
    /\ IF hasActiveEmploymentElsewhere(request[c].business)
       THEN UNCHANGED session ELSE revokeAllForIdentity
    /\ Ends(c)
    /\ UNCHANGED <<reach, employment, failed, lock, untrimmed, checked>>

\* PlatformService.setStaffStatus: the reach goes with the staff status, the
\* sessions after it, whatever the person's employments.
SuspendStaff(c) ==
    /\ request[c] = Idle
    /\ reach
    /\ reach' = FALSE
    /\ request' = [d \in Clients |-> IF d = c THEN [phase |-> "revokeStaff"] ELSE Stale(request[d])]
    /\ UNCHANGED <<employment, failed, lock, session, untrimmed, checked>>

RevokeAfterStaffSuspension(c) ==
    /\ request[c].phase = "revokeStaff"
    /\ revokeAllForIdentity
    /\ Ends(c)
    /\ UNCHANGED <<reach, employment, failed, lock, untrimmed, checked>>

Reinstate(b) ==
    /\ employment[b] = "suspended"
    /\ employment' = [employment EXCEPT ![b] = "active"]
    /\ UNCHANGED <<reach, failed, lock, session, request, untrimmed, checked>>

updatePasswordHash == failed' = 0 /\ lock' = "none" /\ checked' = 0

\* completeInvite: a new password, the employment, and every session ended.
CompleteInvite(c, b) ==
    /\ request[c] = Idle
    /\ employment[b] = "none"
    /\ employment' = [employment EXCEPT ![b] = "active"]
    /\ updatePasswordHash
    /\ revokeAllForIdentity
    /\ Goes(c, [phase |-> "proven"])
    /\ UNCHANGED <<reach, untrimmed>>

-----------------------------------------------------------------------------
LockLapses ==
    /\ lock = "held"
    /\ lock' = "lapsed"
    /\ checked' = 0
    /\ UNCHANGED <<reach, employment, failed, session, request, untrimmed>>

SessionExpires(s) ==
    /\ session[s] = "live"
    /\ session' = [session EXCEPT ![s] = "expired"]
    /\ UNCHANGED <<reach, employment, failed, lock, request, untrimmed, checked>>

\* A request that dies before it counted a wrong password also gave no answer.
Crash(c) ==
    /\ request[c] # Idle
    /\ Ends(c)
    /\ checked' = IF request[c].phase = "wrong" /\ checked > 0 THEN checked - 1 ELSE checked
    /\ UNCHANGED <<reach, employment, failed, lock, session, untrimmed>>

SignInNext ==
    \/ \E c \in Clients :
        \/ WrongPassword(c) \/ CountFailure(c) \/ RightPassword(c)
        \/ ProvenByCode(c) \/ CompleteLogin(c) \/ CreateSession(c) \/ TrimAndMint(c) \/ Mint(c)
        \/ \E b \in Businesses : \/ SelectEnterprise(c, b) \/ SwitchEnterprise(c, b)
                                 \/ Suspend(c, b) \/ CompleteInvite(c, b)
        \/ \E s \in DOMAIN session : \/ RefreshUnscoped(c, s) \/ RefreshRefused(c, s)
                                     \/ \E b \in Businesses : RefreshFor(c, s, b)
        \/ RevokeAfterSuspension(c) \/ SuspendStaff(c) \/ RevokeAfterStaffSuspension(c)
        \/ Crash(c)
    \/ \E s \in DOMAIN session : Logout(s) \/ SessionExpires(s)
    \/ \E b \in Businesses : Reinstate(b)
    \/ SignOutEverywhere \/ LockLapses

SignInSpec == SignInInit /\ [][SignInNext]_signInVars

-----------------------------------------------------------------------------
\* A person has at most MAX_SESSIONS_PER_IDENTITY live sessions more than were
\* created since the cap was last applied, so a login that dies between its two
\* statements is made good by the next one.
SessionsAreCapped == Cardinality(LiveSessions) <= MaxSessions + untrimmed

\* Applying the cap never ends a session while it keeps an older one: a login
\* cannot evict itself.
NewestSurvive ==
    [][\A s, t \in DOMAIN session :
         /\ s < t
         /\ (\E c \in Clients : request[c].phase = "trim" /\ request'[c] = Idle)
         /\ session[s] = "live" /\ session[t] = "live" /\ session'[s] = "live"
         => session'[t] = "live"]_signInVars

\* No more wrong passwords are examined between two resets than
\* MAX_FAILED_LOGINS and one for each further request that was already past the
\* lock when it fell.
GuessingIsBounded == checked <= MaxFailed + Cardinality(Clients) - 1

\* Once every employment of the person is over, no request that reads the
\* standing afterwards goes on to mint a token, whether it names a business or
\* not and whether or not the revocation of the sessions was lost in a crash.
NothingMintedAfterDismissal ==
    \A c \in Clients :
        request[c].phase \in {"issue", "trim", "mint"} /\ ~request[c].stale /\ ~reach
        => ~Dismissed

\* SessionsAreSound: logins, refreshes, lockouts and dismissals that overlap or
\* die half way keep the caps and mint nothing for the dismissed (login,
\* recordFailedLogin, issueSession, revokeBeyondNewest, refresh,
\* assertStandingNotRevoked).
SessionsAreSound ==
    /\ [](SignInTypeOK /\ SessionsAreCapped /\ GuessingIsBounded /\ NothingMintedAfterDismissal)
    /\ NewestSurvive
=============================================================================
