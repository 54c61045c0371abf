---------------------------- MODULE IdentityProofs ----------------------------
(***************************************************************************)
(* One-time codes and sessions keep their limits, nothing is minted for the *)
(* dismissed, and a person of a page is one customer, for any number of     *)
(* requests and projections at once.                                        *)
(***************************************************************************)
EXTENDS VerificationCodes, SignIn, Customers, Aggregates, SequenceTheorems

-----------------------------------------------------------------------------
(* One-time codes (VerificationCodes).                                       *)

Issuers == Inviters \cup {NoInviter}

CallType ==
    {Free}
    \cup [phase : {"issue"}, kind : Kinds, business : Issuers]
    \cup [phase : {"superseded"}, kind : Kinds, business : Issuers, old : SUBSET Nat]
    \cup [phase : {"found", "right", "verified"}, code : Nat]

CodeTables ==
    /\ codes \in Seq(CodeType) /\ Len(codes) <= MaxCodes
    /\ invitation \in [Inviters -> {"none", "invited", "active"}]
    /\ call \in [Callers -> CallType]
    /\ passwordSet \in BOOLEAN
    /\ guesses \in Seq(Nat) /\ Len(guesses) = Len(codes)
    /\ wins \in Seq(Nat) /\ Len(wins) = Len(codes)

\* What a code has been through: every comparison was counted before it was
\* made, and only a consumed code has let a request through.
CodesAreCounted ==
    \A i \in 1 .. Len(codes) :
        /\ guesses[i] = codes[i].attempts
        /\ wins[i] <= 1
        /\ codes[i].state # "consumed" => wins[i] = 0

LiveIsOnly ==
    \A i, j \in 1 .. Len(codes) :
        codes[i].state = "live" /\ codes[j].state = "live" /\ codes[i].kind = codes[j].kind => i = j

CallsNameCodes ==
    \A c \in Callers :
        call[c].phase \in {"found", "right", "verified"} => call[c].code \in 1 .. Len(codes)

\* Requests that have read the cap and not yet written their code.
Issuing == {c \in Callers : call[c].phase \in {"issue", "superseded"}}

\* The overshoot is there before the codes are: a request that passed the cap
\* may be followed by every other one that passed it too.
CapIsSpoken == Len(codes) + Cardinality(Issuing) <= HourlyCap + Cardinality(Callers) - 1

CodesInv == CodeTables /\ CodesAreCounted /\ LiveIsOnly /\ CallsNameCodes /\ CapIsSpoken

LEMMA CodesAreNumbered ==
    ASSUME CodesInv
    PROVE  /\ Len(codes) \in Nat /\ DOMAIN codes = 1 .. Len(codes)
           /\ \A i \in 1 .. Len(codes) : codes[i] \in CodeType
           /\ DOMAIN guesses = 1 .. Len(codes) /\ \A i \in 1 .. Len(codes) : guesses[i] \in Nat
           /\ DOMAIN wins = 1 .. Len(codes) /\ \A i \in 1 .. Len(codes) : wins[i] \in Nat
  BY LenProperties, ElementOfSeq DEF CodesInv, CodeTables

LEMMA CallersAreFinite ==
    ASSUME NEW S \in SUBSET Callers
    PROVE  /\ IsFiniteSet(S) /\ Cardinality(S) \in Nat /\ Cardinality(Callers) \in Nat
           /\ Cardinality(S) <= Cardinality(Callers)
           /\ HourlyCap \in Nat \ {0} /\ MaxAttempts \in Nat \ {0} /\ MaxCodes \in Nat
  BY CodesAssumption, FS_Subset, FS_CardinalityType DEF CodesAssumption

LEMMA CallPhases ==
    ASSUME NEW q \in CallType
    PROVE  /\ q.phase \in {"free", "issue", "superseded", "found", "right", "verified"}
           /\ q.phase = "issue" => q \in [phase : {"issue"}, kind : Kinds, business : Issuers]
           /\ q.phase = "superseded" =>
                 q \in [phase : {"superseded"}, kind : Kinds, business : Issuers, old : SUBSET Nat]
           /\ q.phase \in {"found", "right", "verified"} =>
                 q \in [phase : {"found", "right", "verified"}, code : Nat]
  BY DEF CallType, Free

\* One request moves on; the codes stay.  It may begin to issue only below the
\* cap.
LEMMA CallMoves ==
    ASSUME CodesInv, NEW c \in Callers, NEW q \in CallType, CallGoes(c, q),
           codes' = codes, guesses' = guesses, wins' = wins,
           invitation' \in [Inviters -> {"none", "invited", "active"}], passwordSet' \in BOOLEAN,
           q.phase \in {"found", "right", "verified"} => q.code \in 1 .. Len(codes),
           \/ q.phase \notin {"issue", "superseded"} \/ c \in Issuing \/ Len(codes) < HourlyCap
    PROVE  CodesInv'
  <1>1. call \in [Callers -> CallType]
    BY DEF CodesInv, CodeTables
  <1>2. /\ call' \in [Callers -> CallType] /\ call'[c] = q
        /\ \A d \in Callers \ {c} : call'[d] = call[d]
    BY <1>1 DEF CallGoes
  <1>3. CallsNameCodes'
    BY <1>2 DEF CodesInv, CallsNameCodes
  <1>4. Len(codes) \in Nat
    BY CodesAreNumbered
  <1>5. Issuing' \in SUBSET Callers /\ Issuing \in SUBSET Callers
    BY DEF Issuing
  <1>6. CapIsSpoken'
    <2>1. CASE Issuing' \subseteq Issuing
      <3>1. Cardinality(Issuing') <= Cardinality(Issuing)
        BY <1>5, <2>1, CallersAreFinite, FS_Subset
      <3>2. Cardinality(Issuing') \in Nat /\ Cardinality(Issuing) \in Nat
            /\ Cardinality(Callers) \in Nat /\ HourlyCap \in Nat
        BY <1>5, CallersAreFinite
      <3> QED
        BY <1>4, <3>1, <3>2 DEF CapIsSpoken, CodesInv
    <2>2. CASE Len(codes) < HourlyCap
      <3>1. /\ Cardinality(Issuing') \in Nat /\ Cardinality(Callers) \in Nat /\ HourlyCap \in Nat
            /\ Cardinality(Issuing') <= Cardinality(Callers)
        BY <1>5, CallersAreFinite
      <3> QED
        BY <1>4, <2>2, <3>1 DEF CapIsSpoken
    <2>3. Issuing' \subseteq Issuing \/ Len(codes) < HourlyCap
      BY <1>2 DEF Issuing
    <2> QED
      BY <2>1, <2>2, <2>3
  <1> QED
    BY <1>2, <1>3, <1>6 DEF CodesInv, CodeTables, CodesAreCounted, LiveIsOnly

\* A row changes, keeps its purpose and does not come back to life.
LEMMA CodeChanges ==
    ASSUME CodesInv, NEW i \in 1 .. Len(codes), NEW new \in CodeType,
           codes' = [codes EXCEPT ![i] = new], new.kind = codes[i].kind,
           new.state = "live" => codes[i].state = "live"
    PROVE  /\ codes' \in Seq(CodeType) /\ Len(codes') = Len(codes) /\ codes'[i] = new
           /\ \A j \in (1 .. Len(codes)) \ {i} : codes'[j] = codes[j]
           /\ LiveIsOnly'
  <1>1. codes \in Seq(CodeType)
    BY DEF CodesInv, CodeTables
  <1>2. /\ codes' \in Seq(CodeType) /\ Len(codes') = Len(codes) /\ codes'[i] = new
        /\ \A j \in (1 .. Len(codes)) \ {i} : codes'[j] = codes[j]
    BY <1>1, ExceptSeq
  <1>3. LiveIsOnly'
    BY <1>2 DEF LiveIsOnly, CodesInv
  <1> QED
    BY <1>2, <1>3

\* With one live code, the newest is it.
LEMMA FoundIsLive ==
    ASSUME CodesInv, NEW kind \in Kinds, Live(kind) # {}
    PROVE  /\ findLiveByDestination(kind) \in Live(kind)
           /\ findLiveByDestination(kind) \in 1 .. Len(codes)
  <1>1. PICK i \in Live(kind) : TRUE
    OBVIOUS
  <1>2. DOMAIN codes = 1 .. Len(codes) /\ Len(codes) \in Nat
    BY CodesAreNumbered
  <1>3. \A j \in Live(kind) : j = i
    BY <1>2 DEF Live, CodesInv, LiveIsOnly
  <1>4. i \in 1 .. Len(codes) /\ i \in Nat
    BY <1>2 DEF Live
  <1>5. \A j \in Live(kind) : j <= i
    BY <1>3, <1>4
  <1>6. findLiveByDestination(kind) \in Live(kind)
    BY <1>1, <1>5 DEF findLiveByDestination
  <1> QED
    BY <1>3, <1>4, <1>6

LEMMA StartIssueKeeps ==
    ASSUME CodesInv, NEW c \in Callers, NEW kind \in Kinds, NEW business \in Issuers,
           StartIssue(c, kind, business), codes' = codes, guesses' = guesses, wins' = wins,
           invitation' \in [Inviters -> {"none", "invited", "active"}], passwordSet' \in BOOLEAN
    PROVE  CodesInv'
  <1>1. PICK q : q = [phase |-> "issue", kind |-> kind, business |-> business]
    OBVIOUS
  <1>2. q \in CallType /\ q.phase = "issue"
    BY <1>1 DEF CallType
  <1>3. CallGoes(c, q) /\ Len(codes) < HourlyCap
    BY <1>1 DEF StartIssue, assertWithinDestinationCap
  <1> QED
    BY <1>2, <1>3, CallMoves

LEMMA IssueKeeps ==
    ASSUME CodesInv, NEW c \in Callers,
           \/ \E b \in Inviters : InviteEmployee(c, b)
           \/ LoginUnverified(c)
           \/ \E kind \in Kinds : Resend(c, kind)
    PROVE  CodesInv'
  <1>0. invitation \in [Inviters -> {"none", "invited", "active"}] /\ passwordSet \in BOOLEAN
    BY DEF CodesInv, CodeTables
  <1>1. ASSUME NEW b \in Inviters, InviteEmployee(c, b) PROVE CodesInv'
    <2>1. /\ StartIssue(c, Invite, b) /\ codes' = codes /\ guesses' = guesses /\ wins' = wins
          /\ passwordSet' = passwordSet
          /\ invitation' = [invitation EXCEPT ![b] = "invited"]
      BY <1>1 DEF InviteEmployee
    <2>2. b \in Issuers /\ Invite \in Kinds
      BY DEF Issuers, Kinds
    <2> QED
      BY <1>0, <2>1, <2>2, StartIssueKeeps
  <1>2. CASE LoginUnverified(c)
    <2>1. /\ StartIssue(c, FirstLogin, NoInviter) /\ codes' = codes /\ guesses' = guesses
          /\ wins' = wins /\ passwordSet' = passwordSet /\ invitation' = invitation
      BY <1>2 DEF LoginUnverified
    <2>2. NoInviter \in Issuers /\ FirstLogin \in Kinds
      BY DEF Issuers, Kinds
    <2> QED
      BY <1>0, <2>1, <2>2, StartIssueKeeps
  <1>3. ASSUME NEW kind \in Kinds, Resend(c, kind) PROVE CodesInv'
    <2>1. PICK b : b = codes[findLiveByDestination(kind)].business
      OBVIOUS
    <2>2. /\ StartIssue(c, kind, b) /\ Live(kind) # {}
          /\ codes' = codes /\ guesses' = guesses
          /\ wins' = wins /\ passwordSet' = passwordSet /\ invitation' = invitation
      BY <1>3, <2>1 DEF Resend
    <2>3. b \in Issuers
      BY <2>1, <2>2, FoundIsLive, CodesAreNumbered DEF CodeType, Issuers
    <2> QED
      BY <1>0, <2>2, <2>3, StartIssueKeeps
  <1> QED
    BY <1>1, <1>2, <1>3

LEMMA SupersedeKeeps ==
    ASSUME CodesInv, NEW c \in Callers, supersedeLive(c)
    PROVE  CodesInv'
  <1>1. PICK q : q = [phase |-> "superseded", kind |-> call[c].kind, business |-> call[c].business,
                      old |-> Live(call[c].kind)]
    OBVIOUS
  <1>2. /\ call[c].phase = "issue" /\ CallGoes(c, q)
        /\ codes' = codes /\ guesses' = guesses
        /\ wins' = wins /\ passwordSet' = passwordSet /\ invitation' = invitation
    BY <1>1 DEF supersedeLive
  <1>3. call[c] \in [phase : {"issue"}, kind : Kinds, business : Issuers]
    BY <1>2, CallPhases DEF CodesInv, CodeTables
  <1>4. Live(call[c].kind) \in SUBSET Nat
    <2>1. DOMAIN codes = 1 .. Len(codes)
      BY CodesAreNumbered
    <2> QED
      BY <2>1 DEF Live
  <1>5. q \in CallType /\ q.phase = "superseded"
    BY <1>1, <1>3, <1>4 DEF CallType
  <1>6. c \in Issuing
    BY <1>2 DEF Issuing
  <1> QED
    BY <1>2, <1>5, <1>6, CallMoves DEF CodesInv, CodeTables

\* What is appended to a sequence of counters comes last.
LEMMA CounterIsAppended ==
    ASSUME NEW s \in Seq(Nat), NEW n \in Nat, Len(s) = n
    PROVE  /\ Append(s, 0) \in Seq(Nat) /\ Len(Append(s, 0)) = n + 1
           /\ Append(s, 0)[n + 1] = 0
           /\ \A i \in 1 .. n : Append(s, 0)[i] = s[i]
  OBVIOUS

\* The index refuses every insert beside a code that the transaction did not
\* see, so the rows of the purpose are all superseded when the new one appears.
LEMMA CreateKeeps ==
    ASSUME CodesInv, NEW c \in Callers, CreateCode(c)
    PROVE  CodesInv'
  <1>1. PICK q : q = call[c]
    OBVIOUS
  <1>2. PICK n \in Nat : n = Len(codes)
    BY CodesAreNumbered
  <1>3. PICK old : old = [i \in 1 .. n |-> IF i \in q.old /\ codes[i].state = "live"
                                           THEN [codes[i] EXCEPT !.state = "superseded"]
                                           ELSE codes[i]]
    OBVIOUS
  <1>4. PICK new : new = [kind |-> q.kind, business |-> q.business, state |-> "live",
                          expired |-> FALSE, attempts |-> 0, sent |-> TRUE]
    OBVIOUS
  <1>5. DOMAIN codes = 1 .. n /\ \A i \in 1 .. n : codes[i] \in CodeType
    BY <1>2, CodesAreNumbered
  <1>6. /\ q.phase = "superseded" /\ n < MaxCodes
        /\ Live(q.kind) \ q.old = {}
        /\ codes' = Append(old, new)
        /\ guesses' = Append(guesses, 0) /\ wins' = Append(wins, 0)
        /\ call' = [call EXCEPT ![c] = Free]
        /\ invitation' = invitation /\ passwordSet' = passwordSet
    BY <1>1, <1>2, <1>3, <1>4, <1>5 DEF CreateCode, CollidesOnIndex, CallEnds, CallGoes
  <1>7. q \in [phase : {"superseded"}, kind : Kinds, business : Issuers, old : SUBSET Nat]
    BY <1>1, <1>6, CallPhases DEF CodesInv, CodeTables
  <1>8. new \in CodeType /\ new.kind = q.kind /\ new.state = "live" /\ new.attempts = 0
    <2>1. 0 \in 0 .. MaxAttempts
      BY CodesAssumption DEF CodesAssumption
    <2> QED
      BY <1>4, <1>7, <2>1 DEF CodeType, Issuers
  <1>9. ASSUME NEW i \in 1 .. n
        PROVE  /\ old[i] \in CodeType
               /\ old[i].kind = codes[i].kind /\ old[i].attempts = codes[i].attempts
               /\ old[i].state = "live" => codes[i].state = "live" /\ i \notin q.old
               /\ old[i].state = "consumed" <=> codes[i].state = "consumed"
    <2>1. PICK r \in CodeType : r = codes[i]
      BY <1>5
    <2>2. PICK s : s = [r EXCEPT !.state = "superseded"]
      OBVIOUS
    <2>3. s \in CodeType /\ s.kind = r.kind /\ s.attempts = r.attempts /\ s.state = "superseded"
      BY <2>2 DEF CodeType
    <2>4. old[i] = IF i \in q.old /\ r.state = "live" THEN s ELSE r
      BY <1>3, <2>1, <2>2
    <2> QED
      BY <2>1, <2>3, <2>4
  <1>10. old \in Seq(CodeType) /\ Len(old) = n
    <2>1. DOMAIN old = 1 .. n /\ old = [i \in 1 .. n |-> old[i]]
      BY <1>3
    <2>2. old \in [1 .. n -> CodeType]
      BY <1>9, <2>1
    <2>3. old \in Seq(CodeType)
      BY <2>2, SeqDef
    <2> QED
      BY <2>1, <2>3, LenProperties
  <1>11. /\ codes' \in Seq(CodeType) /\ Len(codes') = n + 1 /\ codes'[n + 1] = new
         /\ \A i \in 1 .. n : codes'[i] = old[i]
    BY <1>6, <1>8, <1>10
  <1>12. /\ guesses' \in Seq(Nat) /\ Len(guesses') = n + 1 /\ guesses'[n + 1] = 0
         /\ \A i \in 1 .. n : guesses'[i] = guesses[i]
    BY <1>2, <1>6, CounterIsAppended DEF CodesInv, CodeTables
  <1>13. /\ wins' \in Seq(Nat) /\ Len(wins') = n + 1 /\ wins'[n + 1] = 0
         /\ \A i \in 1 .. n : wins'[i] = wins[i]
    BY <1>2, <1>6, CounterIsAppended DEF CodesInv, CodeTables
  <1>14. /\ call' \in [Callers -> CallType] /\ call'[c] = Free
         /\ \A d \in Callers \ {c} : call'[d] = call[d]
    BY <1>6 DEF CodesInv, CodeTables, CallType
  <1>15. CodeTables'
    <2>1. MaxCodes \in Nat
      BY CodesAssumption DEF CodesAssumption
    <2> QED
      BY <1>6, <1>11, <1>12, <1>13, <1>14, <2>1 DEF CodesInv, CodeTables
  <1>16. CodesAreCounted'
    <2> SUFFICES ASSUME NEW i \in 1 .. (n + 1)
                 PROVE  /\ guesses'[i] = codes'[i].attempts
                        /\ wins'[i] <= 1
                        /\ codes'[i].state # "consumed" => wins'[i] = 0
      BY <1>11 DEF CodesAreCounted
    <2>1. CASE i = n + 1
      BY <1>8, <1>11, <1>12, <1>13, <2>1
    <2>2. CASE i # n + 1
      <3>1. i \in 1 .. n
        BY <2>2
      <3>2. /\ guesses[i] = codes[i].attempts /\ wins[i] <= 1
            /\ codes[i].state # "consumed" => wins[i] = 0
        BY <1>2, <3>1 DEF CodesInv, CodesAreCounted
      <3> QED
        BY <1>9, <1>11, <1>12, <1>13, <3>1, <3>2
    <2> QED
      BY <2>1, <2>2
  <1>17. ASSUME NEW i \in 1 .. n, codes'[i].state = "live" PROVE codes'[i].kind # new.kind
    <2>1. codes[i].state = "live" /\ i \notin q.old /\ codes'[i].kind = codes[i].kind
      BY <1>9, <1>11, <1>17
    <2>2. i \notin Live(q.kind)
      BY <1>6, <2>1
    <2> QED
      BY <1>5, <1>8, <2>1, <2>2 DEF Live
  <1>18. LiveIsOnly'
    <2> SUFFICES ASSUME NEW i \in 1 .. (n + 1), NEW j \in 1 .. (n + 1),
                        codes'[i].state = "live", codes'[j].state = "live",
                        codes'[i].kind = codes'[j].kind
                 PROVE  i = j
      BY <1>11 DEF LiveIsOnly
    <2>1. (i \in 1 .. n \/ i = n + 1) /\ (j \in 1 .. n \/ j = n + 1)
      OBVIOUS
    <2>2. CASE i \in 1 .. n /\ j \in 1 .. n
      <3>1. /\ codes[i].state = "live" /\ codes[j].state = "live" /\ codes[i].kind = codes[j].kind
        BY <1>9, <1>11, <2>2
      <3> QED
        BY <1>2, <2>2, <3>1 DEF CodesInv, LiveIsOnly
    <2> QED
      BY <1>11, <1>17, <2>1, <2>2
  <1>19. CallsNameCodes'
    <2> SUFFICES ASSUME NEW d \in Callers, call'[d].phase \in {"found", "right", "verified"}
                 PROVE  call'[d].code \in 1 .. (n + 1)
      BY <1>11 DEF CallsNameCodes
    <2>1. d # c
      BY <1>14 DEF Free
    <2>2. call[d].code \in 1 .. n
      BY <1>2, <1>14, <2>1 DEF CodesInv, CallsNameCodes
    <2> QED
      BY <1>14, <2>1, <2>2
  <1>20. CapIsSpoken'
    <2>1. c \in Issuing /\ Issuing' = Issuing \ {c} /\ Issuing \in SUBSET Callers
      BY <1>1, <1>6, <1>14 DEF Issuing, Free
    <2>2. Cardinality(Issuing') = Cardinality(Issuing) - 1
      BY <2>1, CallersAreFinite, FS_RemoveElement
    <2>3. Cardinality(Issuing) \in Nat /\ Cardinality(Callers) \in Nat /\ HourlyCap \in Nat
      BY <2>1, CallersAreFinite
    <2> QED
      BY <1>2, <1>11, <2>2, <2>3 DEF CodesInv, CapIsSpoken
  <1> QED
    BY <1>15, <1>16, <1>18, <1>19, <1>20 DEF CodesInv

LEMMA FindLiveKeeps ==
    ASSUME CodesInv, NEW c \in Callers, NEW kind \in Kinds, FindLive(c, kind)
    PROVE  CodesInv'
  <1>1. PICK i : i = findLiveByDestination(kind)
    OBVIOUS
  <1>2. PICK q : q = [phase |-> "found", code |-> i]
    OBVIOUS
  <1>3. /\ Live(kind) # {} /\ CallGoes(c, q)
        /\ codes' = codes /\ guesses' = guesses
        /\ wins' = wins /\ passwordSet' = passwordSet /\ invitation' = invitation
    BY <1>1, <1>2 DEF FindLive
  <1>4. i \in 1 .. Len(codes) /\ Len(codes) \in Nat
    BY <1>1, <1>3, FoundIsLive, CodesAreNumbered
  <1>5. q \in CallType /\ q.phase = "found" /\ q.code = i
    BY <1>2, <1>4 DEF CallType
  <1> QED
    BY <1>3, <1>4, <1>5, CallMoves DEF CodesInv, CodeTables

\* A request that ends, whatever it leaves of its handlers' own work.
LEMMA CallEndsKeeps ==
    ASSUME CodesInv, NEW c \in Callers, CallEnds(c), codes' = codes, guesses' = guesses,
           wins' = wins, invitation' \in [Inviters -> {"none", "invited", "active"}],
           passwordSet' \in BOOLEAN
    PROVE  CodesInv'
  <1>1. Free \in CallType /\ Free.phase = "free" /\ CallGoes(c, Free)
    BY DEF CallType, Free, CallEnds
  <1> QED
    BY <1>1, CallMoves

LEMMA EndingsKeep ==
    ASSUME CodesInv, NEW c \in Callers,
           \/ CreateCollides(c) \/ AttemptsExceeded(c) \/ ActivateInvite(c)
           \/ CompleteVerifiedLogin(c) \/ CallDies(c)
    PROVE  CodesInv'
  <1>1. invitation \in [Inviters -> {"none", "invited", "active"}] /\ passwordSet \in BOOLEAN
    BY DEF CodesInv, CodeTables
  <1>2. CallEnds(c) /\ codes' = codes /\ guesses' = guesses /\ wins' = wins
    BY DEF CreateCollides, AttemptsExceeded, ActivateInvite, CompleteVerifiedLogin, CallDies
  <1>3. passwordSet' \in BOOLEAN
    BY <1>1 DEF CreateCollides, AttemptsExceeded, ActivateInvite, CompleteVerifiedLogin, CallDies
  <1>4. invitation' \in [Inviters -> {"none", "invited", "active"}]
    BY <1>1 DEF CreateCollides, AttemptsExceeded, ActivateInvite, CompleteVerifiedLogin, CallDies
  <1> QED
    BY <1>2, <1>3, <1>4, CallEndsKeeps

LEMMA SpendKeeps ==
    ASSUME CodesInv, NEW c \in Callers, SpendAndCompare(c)
    PROVE  CodesInv'
  <1>1. PICK i : i = call[c].code
    OBVIOUS
  <1>2. /\ call[c].phase = "found" /\ i \in 1 .. Len(codes) /\ Len(codes) \in Nat
        /\ codes[i] \in CodeType /\ MaxAttempts \in Nat
    BY <1>1, CodesAreNumbered, CodesAssumption
       DEF SpendAndCompare, CodesInv, CallsNameCodes, CodesAssumption
  <1>3. PICK new : new = [codes[i] EXCEPT !.attempts = codes[i].attempts + 1]
    OBVIOUS
  <1>4. /\ codes[i].attempts < MaxAttempts
        /\ codes' = [codes EXCEPT ![i] = new]
        /\ guesses' = [guesses EXCEPT ![i] = guesses[i] + 1]
        /\ CallGoes(c, [phase |-> "right", code |-> i]) \/ CallEnds(c)
        /\ invitation' = invitation /\ passwordSet' = passwordSet /\ wins' = wins
    BY <1>1, <1>3 DEF SpendAndCompare, spendAttempt
  <1>5. /\ new \in CodeType /\ new.kind = codes[i].kind /\ new.state = codes[i].state
        /\ new.attempts = codes[i].attempts + 1
    BY <1>2, <1>3, <1>4 DEF CodeType
  <1>6. /\ codes' \in Seq(CodeType) /\ Len(codes') = Len(codes) /\ codes'[i] = new
        /\ \A j \in (1 .. Len(codes)) \ {i} : codes'[j] = codes[j]
        /\ LiveIsOnly'
    BY <1>2, <1>4, <1>5, CodeChanges
  <1>7. /\ guesses' \in Seq(Nat) /\ Len(guesses') = Len(codes) /\ guesses'[i] = guesses[i] + 1
        /\ \A j \in (1 .. Len(codes)) \ {i} : guesses'[j] = guesses[j]
    <2>1. guesses \in Seq(Nat) /\ i \in 1 .. Len(guesses) /\ guesses[i] + 1 \in Nat
          /\ Len(guesses) = Len(codes)
      BY <1>2, CodesAreNumbered DEF CodesInv, CodeTables
    <2> QED
      BY <1>4, <2>1, ExceptSeq
  <1>8. CodesAreCounted'
    BY <1>4, <1>5, <1>6, <1>7 DEF CodesInv, CodesAreCounted
  <1>9. PICK q \in CallType : /\ CallGoes(c, q) /\ q.phase \in {"right", "free"}
                              /\ q.phase = "right" => q.code = i
    <2>1. CASE CallGoes(c, [phase |-> "right", code |-> i])
      <3>1. [phase |-> "right", code |-> i] \in CallType
        BY <1>2 DEF CallType
      <3> QED
        BY <2>1, <3>1
    <2>2. CASE CallEnds(c)
      BY <2>2 DEF CallEnds, CallType, Free
    <2> QED
      BY <1>4, <2>1, <2>2
  <1>10. /\ call' \in [Callers -> CallType] /\ call'[c] = q
         /\ \A d \in Callers \ {c} : call'[d] = call[d]
    BY <1>9 DEF CallGoes, CodesInv, CodeTables
  <1>11. CallsNameCodes' /\ Issuing' = Issuing
    BY <1>2, <1>6, <1>9, <1>10 DEF CodesInv, CallsNameCodes, Issuing
  <1>12. CapIsSpoken'
    BY <1>6, <1>11 DEF CodesInv, CapIsSpoken
  <1> QED
    BY <1>4, <1>6, <1>7, <1>8, <1>10, <1>11, <1>12 DEF CodesInv, CodeTables

\* Only a live code is consumed, and a live code has let nobody through.
LEMMA ConsumeKeeps ==
    ASSUME CodesInv, NEW c \in Callers, Consume(c)
    PROVE  CodesInv'
  <1>1. PICK i : i = call[c].code
    OBVIOUS
  <1>2. /\ call[c].phase = "right" /\ i \in 1 .. Len(codes) /\ Len(codes) \in Nat
        /\ codes[i] \in CodeType
        /\ invitation' = invitation /\ passwordSet' = passwordSet /\ guesses' = guesses
    BY <1>1, CodesAreNumbered DEF Consume, CodesInv, CallsNameCodes
  <1>3. CASE ~Consumable(i)
    <2>1. CallEnds(c) /\ codes' = codes /\ wins' = wins
      BY <1>1, <1>3 DEF Consume
    <2> QED
      BY <1>2, <2>1, CallEndsKeeps DEF CodesInv, CodeTables
  <1>4. CASE Consumable(i)
    <2>1. PICK new : new = [codes[i] EXCEPT !.state = "consumed"]
      OBVIOUS
    <2>2. PICK q : q = [phase |-> "verified", code |-> i]
      OBVIOUS
    <2>3. /\ codes[i].state = "live"
          /\ codes' = [codes EXCEPT ![i] = new]
          /\ wins' = [wins EXCEPT ![i] = wins[i] + 1]
          /\ CallGoes(c, q)
      BY <1>1, <1>4, <2>1, <2>2 DEF Consume, Consumable
    <2>4. /\ new \in CodeType /\ new.kind = codes[i].kind /\ new.state = "consumed"
          /\ new.attempts = codes[i].attempts
      BY <1>2, <2>1 DEF CodeType
    <2>5. /\ codes' \in Seq(CodeType) /\ Len(codes') = Len(codes) /\ codes'[i] = new
          /\ \A j \in (1 .. Len(codes)) \ {i} : codes'[j] = codes[j]
          /\ LiveIsOnly'
      BY <1>2, <2>3, <2>4, CodeChanges
    <2>6. wins[i] = 0
      BY <1>2, <2>3 DEF CodesInv, CodesAreCounted
    <2>7. /\ wins' \in Seq(Nat) /\ Len(wins') = Len(codes) /\ wins'[i] = 1
          /\ \A j \in (1 .. Len(codes)) \ {i} : wins'[j] = wins[j]
      <3>1. wins \in Seq(Nat) /\ i \in 1 .. Len(wins) /\ wins[i] + 1 \in Nat /\ wins[i] + 1 = 1
            /\ Len(wins) = Len(codes)
        BY <1>2, <2>6 DEF CodesInv, CodeTables
      <3> QED
        BY <2>3, <3>1, ExceptSeq
    <2>8. CodesAreCounted'
      BY <1>2, <2>4, <2>5, <2>7 DEF CodesInv, CodesAreCounted
    <2>9. q \in CallType /\ q.phase = "verified" /\ q.code = i
      BY <1>2, <2>2 DEF CallType
    <2>10. /\ call' \in [Callers -> CallType] /\ call'[c] = q
           /\ \A d \in Callers \ {c} : call'[d] = call[d]
      BY <2>3, <2>9 DEF CallGoes, CodesInv, CodeTables
    <2>11. CallsNameCodes' /\ Issuing' = Issuing
      BY <1>2, <2>5, <2>9, <2>10 DEF CodesInv, CallsNameCodes, Issuing
    <2>12. CapIsSpoken'
      BY <2>5, <2>11 DEF CodesInv, CapIsSpoken
    <2> QED
      BY <1>2, <2>5, <2>7, <2>8, <2>10, <2>11, <2>12 DEF CodesInv, CodeTables
  <1> QED
    BY <1>3, <1>4

LEMMA TimePassesKeeps ==
    ASSUME CodesInv, NEW i \in DOMAIN codes, CodeExpires(i) \/ CooldownEnds(i)
    PROVE  CodesInv'
  <1>1. i \in 1 .. Len(codes) /\ codes[i] \in CodeType
    BY CodesAreNumbered
  <1>2. PICK new \in CodeType : /\ codes' = [codes EXCEPT ![i] = new]
                                /\ new.kind = codes[i].kind /\ new.state = codes[i].state
                                /\ new.attempts = codes[i].attempts
    <2>1. PICK r \in CodeType : r = codes[i]
      BY <1>1
    <2>2. PICK e : e = [r EXCEPT !.expired = TRUE]
      OBVIOUS
    <2>3. PICK s : s = [r EXCEPT !.sent = FALSE]
      OBVIOUS
    <2>4. e \in CodeType /\ e.kind = r.kind /\ e.state = r.state /\ e.attempts = r.attempts
      BY <2>2 DEF CodeType
    <2>5. s \in CodeType /\ s.kind = r.kind /\ s.state = r.state /\ s.attempts = r.attempts
      BY <2>3 DEF CodeType
    <2>6. codes' = [codes EXCEPT ![i] = e] \/ codes' = [codes EXCEPT ![i] = s]
      BY <2>1, <2>2, <2>3 DEF CodeExpires, CooldownEnds
    <2> QED
      BY <2>1, <2>4, <2>5, <2>6
  <1>3. /\ codes' \in Seq(CodeType) /\ Len(codes') = Len(codes) /\ codes'[i] = new
        /\ \A j \in (1 .. Len(codes)) \ {i} : codes'[j] = codes[j]
        /\ LiveIsOnly'
    BY <1>1, <1>2, CodeChanges
  <1>4. /\ invitation' = invitation /\ call' = call /\ passwordSet' = passwordSet
        /\ guesses' = guesses /\ wins' = wins
    BY DEF CodeExpires, CooldownEnds
  <1>5. CodesAreCounted'
    BY <1>1, <1>2, <1>3, <1>4 DEF CodesInv, CodesAreCounted
  <1>6. CallsNameCodes' /\ CapIsSpoken'
    BY <1>3, <1>4 DEF CodesInv, CallsNameCodes, CapIsSpoken, Issuing
  <1> QED
    BY <1>3, <1>4, <1>5, <1>6 DEF CodesInv, CodeTables

LEMMA CodesStart == CodesInit => CodesInv
  <1> SUFFICES ASSUME CodesInit PROVE CodesInv
    OBVIOUS
  <1>1. /\ codes \in Seq(CodeType) /\ Len(codes) = 0
        /\ guesses \in Seq(Nat) /\ Len(guesses) = 0 /\ wins \in Seq(Nat) /\ Len(wins) = 0
    BY DEF CodesInit
  <1>2. call \in [Callers -> CallType] /\ \A c \in Callers : call[c].phase = "free"
    BY DEF CodesInit, CallType, Free
  <1>3. Issuing = {}
    BY <1>2 DEF Issuing
  <1>4. CapIsSpoken
    <2>1. Cardinality(Issuing) = 0
      BY <1>3, FS_EmptySet
    <2>2. Cardinality(Callers) \in Nat /\ HourlyCap \in Nat \ {0}
      BY <1>3, CallersAreFinite
    <2> QED
      BY <1>1, <2>1, <2>2 DEF CapIsSpoken
  <1>5. MaxCodes \in Nat
    BY CodesAssumption DEF CodesAssumption
  <1>6. CodeTables
    <2>1. invitation \in [Inviters -> {"none", "invited", "active"}] /\ passwordSet \in BOOLEAN
      BY DEF CodesInit
    <2>2. Len(codes) <= MaxCodes /\ Len(guesses) = Len(codes) /\ Len(wins) = Len(codes)
      BY <1>1, <1>5
    <2> QED
      BY <1>1, <1>2, <2>1, <2>2 DEF CodeTables
  <1>7. CodesAreCounted /\ LiveIsOnly
    <2>1. 1 .. Len(codes) = {}
      BY <1>1
    <2> QED
      BY <2>1 DEF CodesAreCounted, LiveIsOnly
  <1>8. CallsNameCodes
    BY <1>2 DEF CallsNameCodes
  <1> QED
    BY <1>4, <1>6, <1>7, <1>8 DEF CodesInv

LEMMA CodesStep == CodesInv /\ [CodesNext]_codeVars => CodesInv'
  <1> SUFFICES ASSUME CodesInv, [CodesNext]_codeVars PROVE CodesInv'
    OBVIOUS
  <1>1. CASE UNCHANGED codeVars
    BY <1>1 DEF codeVars, CodesInv, CodeTables, CodesAreCounted, LiveIsOnly, CallsNameCodes,
       CapIsSpoken, Issuing
  <1>2. CASE CodesNext
    BY <1>2, IssueKeeps, SupersedeKeeps, CreateKeeps, FindLiveKeeps, EndingsKeep, SpendKeeps,
       ConsumeKeeps, TimePassesKeeps
       DEF CodesNext
  <1> QED
    BY <1>1, <1>2

THEOREM CodesInvariant == CodesSpec => []CodesInv
  <1> QED
    BY CodesStart, CodesStep, PTL DEF CodesSpec

\* For any number of requests about one address at once: one live code per
\* purpose, spent once, compared with at most max_attempts secrets, and the
\* hourly cap passed by no more than the other requests in flight
\* (VerificationService.issue and verify, verifications_live_uniq).
THEOREM CodesKeepLimits == CodesSpec => []CodesAreSound
  <1>1. CodesInv => CodesTypeOK
    <2> SUFFICES ASSUME CodesInv PROVE CodesTypeOK
      OBVIOUS
    <2> QED
      BY DEF CodesInv, CodeTables, CodesTypeOK
  <1>2. CodesInv => OneLiveCode
    <2> SUFFICES ASSUME CodesInv, NEW kind \in Kinds PROVE Cardinality(Live(kind)) <= 1
      BY DEF OneLiveCode
    <2>1. CASE Live(kind) = {}
      BY <2>1, FS_EmptySet
    <2>2. CASE Live(kind) # {}
      <3>1. PICK i \in Live(kind) : TRUE
        BY <2>2
      <3>2. DOMAIN codes = 1 .. Len(codes)
        BY CodesAreNumbered
      <3>3. \A j \in Live(kind) : j = i
        BY <3>2 DEF Live, CodesInv, LiveIsOnly
      <3>4. Live(kind) = {i}
        BY <3>3
      <3> QED
        BY <3>4, FS_Singleton
    <2> QED
      BY <2>1, <2>2
  <1>3. CodesInv => SpentOnce
    BY CodesAreNumbered DEF CodesInv, CodesAreCounted, SpentOnce
  <1>4. CodesInv => GuessesAreCounted
    <2> SUFFICES ASSUME CodesInv, NEW i \in DOMAIN guesses PROVE guesses[i] <= MaxAttempts
      BY DEF GuessesAreCounted
    <2>1. i \in 1 .. Len(codes) /\ codes[i] \in CodeType
      BY CodesAreNumbered
    <2> QED
      BY <2>1 DEF CodesInv, CodesAreCounted, CodeType
  <1>5. CodesInv => CapOvershootIsBounded
    <2> SUFFICES ASSUME CodesInv PROVE CapOvershootIsBounded
      OBVIOUS
    <2>1. Issuing \in SUBSET Callers
      BY DEF Issuing
    <2>2. /\ Cardinality(Issuing) \in Nat /\ Cardinality(Callers) \in Nat /\ HourlyCap \in Nat
          /\ Len(codes) \in Nat
      BY <2>1, CallersAreFinite, CodesAreNumbered
    <2> QED
      BY <2>2 DEF CodesInv, CapIsSpoken, CapOvershootIsBounded
  <1> QED
    BY <1>1, <1>2, <1>3, <1>4, <1>5, CodesInvariant, PTL DEF CodesAreSound

-----------------------------------------------------------------------------
(* Signing in (SignIn).                                                      *)

Minting == {"issue", "trim", "mint"}

RequestType ==
    {Idle}
    \cup [phase : {"wrong", "complete", "select", "proven", "revokeStaff"}]
    \cup [phase : Minting, business : Businesses \cup {NoBusiness}, stale : BOOLEAN]
    \cup [phase : {"revoke"}, business : Businesses]

SignInTables ==
    /\ employment \in [Businesses -> Standings]
    /\ reach \in BOOLEAN /\ lock \in LockStates
    /\ failed \in Nat /\ checked \in Nat /\ untrimmed \in Nat
    /\ session \in Seq(SessionStates) /\ Len(session) <= SessionBound
    /\ request \in [Clients -> RequestType]

\* Requests let past the lock with a wrong password and not yet counted.
Uncounted == {c \in Clients : request[c].phase = "wrong"}

\* While the account is open, each wrong password let through was counted or is
\* about to be; when the lock falls, at most the others in flight are uncounted.
GuessesInv ==
    /\ lock = "none" => failed < MaxFailed /\ checked <= failed + Cardinality(Uncounted)
    /\ lock = "held" =>
          /\ checked <= MaxFailed + Cardinality(Clients) - 1
          /\ failed + Cardinality(Uncounted) <= MaxFailed + Cardinality(Clients) - 1
    /\ lock = "lapsed" =>
          /\ checked <= Cardinality(Uncounted)
          /\ failed <= MaxFailed + Cardinality(Clients) - 1

SignInInv == SignInTables /\ GuessesInv /\ SessionsAreCapped /\ NothingMintedAfterDismissal

LEMMA SignInNumbers ==
    ASSUME NEW S \in SUBSET Clients
    PROVE  /\ IsFiniteSet(S) /\ Cardinality(S) \in Nat /\ Cardinality(Clients) \in Nat
           /\ Cardinality(S) <= Cardinality(Clients)
           /\ MaxFailed \in Nat \ {0} /\ MaxSessions \in Nat \ {0} /\ SessionBound \in Nat
  BY SignInAssumption, FS_Subset, FS_CardinalityType DEF SignInAssumption

LEMMA SessionsAreNumbered ==
    ASSUME SignInTables
    PROVE  /\ Len(session) \in Nat /\ DOMAIN session = 1 .. Len(session)
           /\ \A s \in 1 .. Len(session) : session[s] \in SessionStates
           /\ LiveSessions \in SUBSET (1 .. Len(session))
           /\ IsFiniteSet(LiveSessions) /\ Cardinality(LiveSessions) \in Nat
  <1>1. /\ Len(session) \in Nat /\ DOMAIN session = 1 .. Len(session)
        /\ \A s \in 1 .. Len(session) : session[s] \in SessionStates
    BY LenProperties, ElementOfSeq DEF SignInTables
  <1>2. LiveSessions \in SUBSET (1 .. Len(session))
    BY <1>1 DEF LiveSessions
  <1>3. IsFiniteSet(1 .. Len(session))
    BY <1>1, FS_Interval
  <1> QED
    BY <1>1, <1>2, <1>3, FS_Subset, FS_CardinalityType

LEMMA RequestPhases ==
    ASSUME NEW q \in RequestType
    PROVE  /\ q.phase \in Minting =>
                 q \in [phase : Minting, business : Businesses \cup {NoBusiness}, stale : BOOLEAN]
           /\ q.phase = "revoke" => q \in [phase : {"revoke"}, business : Businesses]
           /\ q.phase = "idle" <=> q = Idle
  BY DEF RequestType, Idle, Minting

\* A request that may mint is one whose reader saw standing, or knows better.
MayMint(q) == q.phase \in Minting /\ ~q.stale /\ ~reach => ~Dismissed

\* One request moves on while the standing stays.
LEMMA RequestMoves ==
    ASSUME SignInInv, NEW c \in Clients, NEW q \in RequestType, Goes(c, q),
           employment' = employment, reach' = reach, MayMint(q)
    PROVE  /\ request' \in [Clients -> RequestType] /\ request'[c] = q
           /\ \A d \in Clients \ {c} : request'[d] = request[d]
           /\ NothingMintedAfterDismissal'
  <1>1. request \in [Clients -> RequestType]
    BY DEF SignInInv, SignInTables
  <1>2. /\ request' \in [Clients -> RequestType] /\ request'[c] = q
        /\ \A d \in Clients \ {c} : request'[d] = request[d]
    BY <1>1 DEF Goes
  <1>3. Dismissed' = Dismissed
    BY DEF Dismissed, ActiveAt
  <1>4. NothingMintedAfterDismissal'
    BY <1>2, <1>3 DEF NothingMintedAfterDismissal, SignInInv, MayMint, Minting
  <1> QED
    BY <1>2, <1>4

LEMMA GuessesUntouched ==
    ASSUME SignInInv, failed' = failed, lock' = lock, checked' = checked, Uncounted' = Uncounted
    PROVE  GuessesInv'
  BY DEF SignInInv, GuessesInv

\* A login or a new password starts the count again.
LEMMA GuessesReset ==
    ASSUME failed' = 0, lock' = "none", checked' = 0
    PROVE  GuessesInv'
  <1>1. Uncounted' \in SUBSET Clients
    BY DEF Uncounted
  <1>2. Cardinality(Uncounted') \in Nat /\ MaxFailed \in Nat \ {0}
    BY <1>1, SignInNumbers
  <1> QED
    BY <1>2 DEF GuessesInv

LEMMA FewerLive ==
    ASSUME SignInInv, LiveSessions' \subseteq LiveSessions, untrimmed' = untrimmed
    PROVE  SessionsAreCapped'
  <1>1. SignInTables
    BY DEF SignInInv
  <1>2. IsFiniteSet(LiveSessions) /\ Cardinality(LiveSessions) \in Nat
    BY <1>1, SessionsAreNumbered
  <1>3. Cardinality(LiveSessions') <= Cardinality(LiveSessions) /\ Cardinality(LiveSessions') \in Nat
    BY <1>2, FS_Subset, FS_CardinalityType
  <1>4. MaxSessions \in Nat /\ untrimmed \in Nat
    BY <1>1, SignInAssumption DEF SignInTables, SignInAssumption
  <1> QED
    BY <1>2, <1>3, <1>4 DEF SignInInv, SessionsAreCapped

\* A statement over every session.
LEMMA SessionsRewritten ==
    ASSUME SignInTables, session' \in [DOMAIN session -> SessionStates]
    PROVE  /\ session' \in Seq(SessionStates) /\ Len(session') = Len(session)
           /\ DOMAIN session' = 1 .. Len(session) /\ Len(session') <= SessionBound
  <1>1. PICK n \in Nat : n = Len(session) /\ DOMAIN session = 1 .. n
    BY SessionsAreNumbered
  <1>2. session' \in Seq(SessionStates)
    BY <1>1, SeqDef
  <1>3. DOMAIN session' = 1 .. n
    BY <1>1
  <1>4. Len(session') \in Nat /\ DOMAIN session' = 1 .. Len(session')
    BY <1>2, LenProperties
  <1>5. Len(session') = n
    BY <1>1, <1>2, <1>3, <1>4
  <1> QED
    BY <1>1, <1>2, <1>3, <1>5 DEF SignInTables

LEMMA AllRevoked ==
    ASSUME SignInTables, revokeAllForIdentity
    PROVE  /\ session' \in Seq(SessionStates) /\ Len(session') <= SessionBound
           /\ LiveSessions' = {}
  <1>1. DOMAIN session = 1 .. Len(session) /\ \A s \in 1 .. Len(session) : session[s] \in SessionStates
    BY SessionsAreNumbered
  <1>2. /\ session' \in [DOMAIN session -> SessionStates]
        /\ \A s \in DOMAIN session : session'[s] # "live"
    BY <1>1 DEF revokeAllForIdentity, SessionStates
  <1>3. /\ session' \in Seq(SessionStates) /\ DOMAIN session' = DOMAIN session
        /\ Len(session') <= SessionBound
    BY <1>1, <1>2, SessionsRewritten
  <1> QED
    BY <1>2, <1>3 DEF LiveSessions

\* One session ends.
LEMMA OneEnds ==
    ASSUME SignInTables, NEW s \in DOMAIN session, NEW end \in {"revoked", "expired"},
           session' = [session EXCEPT ![s] = end]
    PROVE  /\ session' \in Seq(SessionStates) /\ Len(session') <= SessionBound
           /\ LiveSessions' \subseteq LiveSessions
  <1>1. DOMAIN session = 1 .. Len(session) /\ \A t \in 1 .. Len(session) : session[t] \in SessionStates
    BY SessionsAreNumbered
  <1>2. /\ session' \in [DOMAIN session -> SessionStates]
        /\ \A t \in DOMAIN session : session'[t] = "live" => session[t] = "live"
    BY <1>1 DEF SessionStates
  <1>3. /\ session' \in Seq(SessionStates) /\ DOMAIN session' = DOMAIN session
        /\ Len(session') <= SessionBound
    BY <1>1, <1>2, SessionsRewritten
  <1> QED
    BY <1>2, <1>3 DEF LiveSessions

-----------------------------------------------------------------------------
(* Steps of a request that touch nothing else.                               *)

LEMMA QuietKeeps ==
    ASSUME SignInInv, NEW c \in Clients, NEW q \in RequestType, Goes(c, q), MayMint(q),
           request[c].phase # "wrong", q.phase # "wrong",
           UNCHANGED <<reach, employment, failed, lock, session, untrimmed, checked>>
    PROVE  SignInInv'
  <1>1. /\ request' \in [Clients -> RequestType] /\ request'[c] = q
        /\ \A d \in Clients \ {c} : request'[d] = request[d]
        /\ NothingMintedAfterDismissal'
    BY RequestMoves
  <1>2. Uncounted' = Uncounted
    BY <1>1 DEF Uncounted
  <1>3. GuessesInv'
    BY <1>2, GuessesUntouched
  <1>4. SessionsAreCapped'
    BY DEF SignInInv, SessionsAreCapped, LiveSessions
  <1> QED
    BY <1>1, <1>3, <1>4 DEF SignInInv, SignInTables

LEMMA ActiveIsStanding ==
    ASSUME NEW b \in Businesses, employment[b] = "active"
    PROVE  ~Dismissed
  BY DEF Dismissed, ActiveAt

LEMMA QuietSteps ==
    ASSUME SignInInv, NEW c \in Clients,
           \/ RightPassword(c) \/ ProvenByCode(c) \/ Mint(c)
           \/ \E b \in Businesses : SelectEnterprise(c, b) \/ SwitchEnterprise(c, b)
           \/ \E s \in DOMAIN session : \/ RefreshUnscoped(c, s)
                                        \/ \E b \in Businesses : RefreshFor(c, s, b)
    PROVE  SignInInv'
  <1>1. CASE RightPassword(c) \/ ProvenByCode(c)
    <2>1. PICK q : q = [phase |-> "complete"]
      OBVIOUS
    <2>2. q \in RequestType /\ q.phase = "complete" /\ MayMint(q)
      BY <2>1 DEF RequestType, MayMint, Minting
    <2>3. /\ Goes(c, q) /\ request[c].phase # "wrong"
          /\ UNCHANGED <<reach, employment, failed, lock, session, untrimmed, checked>>
      BY <1>1, <2>1 DEF RightPassword, ProvenByCode, Idle
    <2> QED
      BY <2>2, <2>3, QuietKeeps
  <1>2. CASE Mint(c)
    <2>1. Idle \in RequestType /\ Idle.phase = "idle" /\ MayMint(Idle)
      BY DEF RequestType, Idle, MayMint, Minting
    <2>2. /\ Goes(c, Idle) /\ request[c].phase # "wrong"
          /\ UNCHANGED <<reach, employment, failed, lock, session, untrimmed, checked>>
      BY <1>2 DEF Mint, Ends
    <2> QED
      BY <2>1, <2>2, QuietKeeps
  <1>3. ASSUME NEW b \in Businesses, SelectEnterprise(c, b) PROVE SignInInv'
    <2>1. PICK q : q = [phase |-> "issue", business |-> b, stale |-> FALSE]
      OBVIOUS
    <2>2. q \in RequestType /\ q.phase = "issue"
      BY <2>1 DEF RequestType, Minting
    <2>3. /\ Goes(c, q) /\ request[c].phase # "wrong" /\ employment[b] = "active"
          /\ UNCHANGED <<reach, employment, failed, lock, session, untrimmed, checked>>
      BY <1>3, <2>1 DEF SelectEnterprise
    <2>4. MayMint(q)
      BY <2>3, ActiveIsStanding DEF MayMint
    <2> QED
      BY <2>2, <2>3, <2>4, QuietKeeps
  <1>4. ASSUME NEW b \in Businesses, SwitchEnterprise(c, b) PROVE SignInInv'
    <2>1. PICK q : q = [phase |-> "mint", stale |-> FALSE,
                        business |-> IF employment[b] = "active" THEN b ELSE NoBusiness]
      OBVIOUS
    <2>2. q \in RequestType /\ q.phase = "mint"
      BY <2>1 DEF RequestType, Minting
    <2>3. /\ Goes(c, q) /\ request[c].phase # "wrong" /\ (employment[b] = "active" \/ reach)
          /\ UNCHANGED <<reach, employment, failed, lock, session, untrimmed, checked>>
      BY <1>4, <2>1 DEF SwitchEnterprise, Idle
    <2>4. MayMint(q)
      BY <2>3, ActiveIsStanding DEF MayMint
    <2> QED
      BY <2>2, <2>3, <2>4, QuietKeeps
  <1>5. ASSUME NEW s \in DOMAIN session, RefreshUnscoped(c, s) PROVE SignInInv'
    <2>1. PICK q : q = [phase |-> "mint", business |-> NoBusiness, stale |-> FALSE]
      OBVIOUS
    <2>2. q \in RequestType /\ q.phase = "mint"
      BY <2>1 DEF RequestType, Minting
    <2>3. /\ Goes(c, q) /\ request[c].phase # "wrong" /\ assertStandingNotRevoked
          /\ UNCHANGED <<reach, employment, failed, lock, session, untrimmed, checked>>
      BY <1>5, <2>1 DEF RefreshUnscoped, Idle
    <2>4. MayMint(q)
      BY <2>3 DEF MayMint, assertStandingNotRevoked
    <2> QED
      BY <2>2, <2>3, <2>4, QuietKeeps
  <1>6. ASSUME NEW s \in DOMAIN session, NEW b \in Businesses, RefreshFor(c, s, b)
        PROVE  SignInInv'
    <2>1. PICK q : q = [phase |-> "mint", business |-> b, stale |-> FALSE]
      OBVIOUS
    <2>2. q \in RequestType /\ q.phase = "mint"
      BY <2>1 DEF RequestType, Minting
    <2>3. /\ Goes(c, q) /\ request[c].phase # "wrong" /\ employment[b] = "active"
          /\ UNCHANGED <<reach, employment, failed, lock, session, untrimmed, checked>>
      BY <1>6, <2>1 DEF RefreshFor, Idle
    <2>4. MayMint(q)
      BY <2>3, ActiveIsStanding DEF MayMint
    <2> QED
      BY <2>2, <2>3, <2>4, QuietKeeps
  <1> QED
    BY <1>1, <1>2, <1>3, <1>4, <1>5, <1>6

-----------------------------------------------------------------------------
(* Wrong passwords.                                                          *)

LEMMA WrongPasswordKeeps ==
    ASSUME SignInInv, NEW c \in Clients, WrongPassword(c)
    PROVE  SignInInv'
  <1>1. PICK q : q = [phase |-> "wrong"]
    OBVIOUS
  <1>2. q \in RequestType /\ q.phase = "wrong" /\ MayMint(q)
    BY <1>1 DEF RequestType, MayMint, Minting
  <1>3. /\ Goes(c, q) /\ request[c] = Idle /\ lock # "held" /\ checked' = checked + 1
        /\ reach' = reach /\ employment' = employment /\ failed' = failed /\ lock' = lock
        /\ session' = session /\ untrimmed' = untrimmed
    BY <1>1 DEF WrongPassword
  <1>4. /\ request' \in [Clients -> RequestType] /\ request'[c] = q
        /\ \A d \in Clients \ {c} : request'[d] = request[d]
        /\ NothingMintedAfterDismissal'
    BY <1>2, <1>3, RequestMoves
  <1>5. Uncounted' = Uncounted \cup {c} /\ c \notin Uncounted /\ Uncounted \in SUBSET Clients
    BY <1>2, <1>3, <1>4 DEF Uncounted, Idle
  <1>6. Cardinality(Uncounted') = Cardinality(Uncounted) + 1
    BY <1>5, SignInNumbers, FS_AddElement
  <1>7. Cardinality(Uncounted) \in Nat /\ failed \in Nat /\ checked \in Nat /\ lock \in LockStates
    BY <1>5, SignInNumbers DEF SignInInv, SignInTables
  <1>8. GuessesInv'
    BY <1>3, <1>6, <1>7 DEF GuessesInv, SignInInv, LockStates
  <1>9. SessionsAreCapped'
    BY <1>3 DEF SignInInv, SessionsAreCapped, LiveSessions
  <1> QED
    BY <1>3, <1>4, <1>7, <1>8, <1>9 DEF SignInInv, SignInTables

\* The request that was being counted leaves the uncounted as it counts.
LEMMA CountFailureKeeps ==
    ASSUME SignInInv, NEW c \in Clients, CountFailure(c)
    PROVE  SignInInv'
  <1>1. Idle \in RequestType /\ Idle.phase = "idle" /\ MayMint(Idle)
    BY DEF RequestType, Idle, MayMint, Minting
  <1>2. /\ Goes(c, Idle) /\ request[c].phase = "wrong"
        /\ failed' = NextFailed
        /\ lock' = IF lock = "held" \/ NextFailed >= MaxFailed THEN "held" ELSE "none"
        /\ checked' = IF lock = "lapsed" THEN 1 ELSE checked
        /\ reach' = reach /\ employment' = employment
        /\ session' = session /\ untrimmed' = untrimmed
    BY DEF CountFailure, Ends, recordFailedLogin
  <1>3. /\ request' \in [Clients -> RequestType] /\ request'[c] = Idle
        /\ \A d \in Clients \ {c} : request'[d] = request[d]
        /\ NothingMintedAfterDismissal'
    BY <1>1, <1>2, RequestMoves
  <1>4. Uncounted' = Uncounted \ {c} /\ c \in Uncounted /\ Uncounted \in SUBSET Clients
    BY <1>1, <1>2, <1>3 DEF Uncounted
  <1>5. Cardinality(Uncounted') = Cardinality(Uncounted) - 1
    BY <1>4, SignInNumbers, FS_RemoveElement
  <1>6. /\ Cardinality(Uncounted) \in Nat /\ Cardinality(Uncounted') \in Nat
        /\ Cardinality(Clients) \in Nat /\ Cardinality(Uncounted) <= Cardinality(Clients)
        /\ MaxFailed \in Nat \ {0}
    BY <1>4, SignInNumbers
  <1>7. failed \in Nat /\ checked \in Nat /\ lock \in LockStates
    BY DEF SignInInv, SignInTables
  <1>8. NextFailed = IF lock = "lapsed" THEN 1 ELSE failed + 1
    BY DEF NextFailed
  <1>9. GuessesInv'
    <2>1. CASE lock = "none"
      BY <1>2, <1>5, <1>6, <1>7, <1>8, <2>1 DEF GuessesInv, SignInInv
    <2>2. CASE lock = "held"
      BY <1>2, <1>5, <1>6, <1>7, <1>8, <2>2 DEF GuessesInv, SignInInv
    <2>3. CASE lock = "lapsed"
      BY <1>2, <1>5, <1>6, <1>7, <1>8, <2>3 DEF GuessesInv, SignInInv
    <2> QED
      BY <1>7, <2>1, <2>2, <2>3 DEF LockStates
  <1>10. SessionsAreCapped'
    BY <1>2 DEF SignInInv, SessionsAreCapped, LiveSessions
  <1>11. failed' \in Nat /\ checked' \in Nat /\ lock' \in LockStates
    BY <1>2, <1>7, <1>8 DEF LockStates
  <1> QED
    BY <1>2, <1>3, <1>9, <1>10, <1>11 DEF SignInInv, SignInTables

LEMMA CompleteLoginKeeps ==
    ASSUME SignInInv, NEW c \in Clients, CompleteLogin(c)
    PROVE  SignInInv'
  <1>1. PICK b : b = CHOOSE a \in ActiveAt : TRUE
    OBVIOUS
  <1>2. /\ failed' = 0 /\ lock' = "none" /\ checked' = 0
        /\ reach' = reach /\ employment' = employment
        /\ session' = session /\ untrimmed' = untrimmed
        /\ \/ Goes(c, [phase |-> "select"])
           \/ Cardinality(ActiveAt) = 1 /\ Goes(c, [phase |-> "issue", business |-> b, stale |-> FALSE])
           \/ reach /\ Goes(c, [phase |-> "issue", business |-> NoBusiness, stale |-> FALSE])
           \/ Goes(c, Idle)
    BY <1>1 DEF CompleteLogin, recordSuccessfulLogin, Ends
  <1>3. PICK q \in RequestType : Goes(c, q) /\ MayMint(q)
    <2>1. CASE Goes(c, [phase |-> "select"])
      <3>1. [phase |-> "select"] \in RequestType /\ MayMint([phase |-> "select"])
        BY DEF RequestType, MayMint, Minting
      <3> QED
        BY <2>1, <3>1
    <2>2. CASE /\ Cardinality(ActiveAt) = 1
               /\ Goes(c, [phase |-> "issue", business |-> b, stale |-> FALSE])
      <3>1. ActiveAt # {}
        BY <2>2, FS_EmptySet
      <3>2. b \in Businesses /\ employment[b] = "active"
        BY <1>1, <3>1 DEF ActiveAt
      <3>3. [phase |-> "issue", business |-> b, stale |-> FALSE] \in RequestType
        BY <3>2 DEF RequestType, Minting
      <3>4. MayMint([phase |-> "issue", business |-> b, stale |-> FALSE])
        BY <3>2, ActiveIsStanding DEF MayMint
      <3> QED
        BY <2>2, <3>3, <3>4
    <2>3. CASE reach /\ Goes(c, [phase |-> "issue", business |-> NoBusiness, stale |-> FALSE])
      <3>1. [phase |-> "issue", business |-> NoBusiness, stale |-> FALSE] \in RequestType
        BY DEF RequestType, Minting
      <3>2. MayMint([phase |-> "issue", business |-> NoBusiness, stale |-> FALSE])
        BY <2>3 DEF MayMint
      <3> QED
        BY <2>3, <3>1, <3>2
    <2>4. CASE Goes(c, Idle)
      <3>1. Idle \in RequestType /\ MayMint(Idle)
        BY DEF RequestType, Idle, MayMint, Minting
      <3> QED
        BY <2>4, <3>1
    <2> QED
      BY <1>2, <2>1, <2>2, <2>3, <2>4
  <1>4. request' \in [Clients -> RequestType] /\ NothingMintedAfterDismissal'
    BY <1>2, <1>3, RequestMoves
  <1>5. GuessesInv'
    BY <1>2, GuessesReset
  <1>6. SessionsAreCapped'
    BY <1>2 DEF SignInInv, SessionsAreCapped, LiveSessions
  <1> QED
    BY <1>2, <1>4, <1>5, <1>6 DEF SignInInv, SignInTables, LockStates

-----------------------------------------------------------------------------
(* Sessions.                                                                 *)

LEMMA CreateSessionKeeps ==
    ASSUME SignInInv, NEW c \in Clients, CreateSession(c)
    PROVE  SignInInv'
  <1>1. PICK p \in RequestType : p = request[c]
    BY DEF SignInInv, SignInTables
  <1>2. PICK q : q = [p EXCEPT !.phase = "trim"]
    OBVIOUS
  <1>3. /\ p.phase = "issue" /\ Goes(c, q) /\ Len(session) < SessionBound
        /\ session' = Append(session, "live") /\ untrimmed' = untrimmed + 1
        /\ reach' = reach /\ employment' = employment /\ failed' = failed /\ lock' = lock
        /\ checked' = checked
    BY <1>1, <1>2 DEF CreateSession
  <1>4. p \in [phase : Minting, business : Businesses \cup {NoBusiness}, stale : BOOLEAN]
    BY <1>3, RequestPhases DEF Minting
  <1>5. q \in RequestType /\ q.phase = "trim" /\ q.stale = p.stale
    BY <1>2, <1>4 DEF RequestType, Minting
  <1>6. MayMint(q)
    BY <1>1, <1>3, <1>5 DEF MayMint, Minting, SignInInv, NothingMintedAfterDismissal
  <1>7. /\ request' \in [Clients -> RequestType] /\ request'[c] = q
        /\ \A d \in Clients \ {c} : request'[d] = request[d]
        /\ NothingMintedAfterDismissal'
    BY <1>3, <1>5, <1>6, RequestMoves
  <1>8. Uncounted' = Uncounted
    BY <1>1, <1>3, <1>5, <1>7 DEF Uncounted
  <1>9. GuessesInv'
    BY <1>3, <1>8, GuessesUntouched
  <1>10. PICK n \in Nat : n = Len(session) /\ DOMAIN session = 1 .. n
    BY SessionsAreNumbered DEF SignInInv
  <1>11. /\ session' \in Seq(SessionStates) /\ Len(session') = n + 1 /\ session'[n + 1] = "live"
         /\ \A s \in 1 .. n : session'[s] = session[s]
    <2>1. session \in Seq(SessionStates) /\ "live" \in SessionStates
      BY DEF SignInInv, SignInTables, SessionStates
    <2> QED
      BY <1>3, <1>10, <2>1
  <1>12. DOMAIN session' = 1 .. (n + 1)
    BY <1>11, LenProperties
  <1>13. LiveSessions' = LiveSessions \cup {n + 1} /\ (n + 1) \notin LiveSessions
    BY <1>10, <1>11, <1>12 DEF LiveSessions
  <1>14. SessionsAreCapped'
    <2>1. IsFiniteSet(LiveSessions) /\ Cardinality(LiveSessions) \in Nat
      BY SessionsAreNumbered DEF SignInInv
    <2>2. Cardinality(LiveSessions') = Cardinality(LiveSessions) + 1
      BY <1>13, <2>1, FS_AddElement
    <2>3. MaxSessions \in Nat /\ untrimmed \in Nat
      BY SignInAssumption DEF SignInAssumption, SignInInv, SignInTables
    <2> QED
      BY <1>3, <2>1, <2>2, <2>3 DEF SignInInv, SessionsAreCapped
  <1>15. Len(session') <= SessionBound
    BY <1>3, <1>10, <1>11, SignInAssumption DEF SignInAssumption
  <1> QED
    BY <1>3, <1>7, <1>9, <1>11, <1>14, <1>15 DEF SignInInv, SignInTables

\* Of some positions in a sequence one is the first.
LEMMA Least ==
    ASSUME NEW n \in Nat, NEW S \in SUBSET (1 .. n), S # {}
    PROVE  \E m \in S : \A y \in S : m <= y
  <1>1. S \in SUBSET Nat
    OBVIOUS
  <1> QED
    BY <1>1, LeastNumber

\* Of the sessions that are kept, the oldest has fewer than MaxSessions newer
\* live ones, and all the others are among those.
LEMMA KeptAreFew ==
    ASSUME SignInTables
    PROVE  Cardinality(LiveSessions \ BeyondNewest) <= MaxSessions
  <1>1. /\ Len(session) \in Nat /\ LiveSessions \in SUBSET (1 .. Len(session))
        /\ IsFiniteSet(LiveSessions)
    BY SessionsAreNumbered
  <1>2. MaxSessions \in Nat \ {0}
    BY SignInAssumption DEF SignInAssumption
  <1>3. PICK K : K = LiveSessions \ BeyondNewest
    OBVIOUS
  <1>4. CASE K = {}
    BY <1>2, <1>3, <1>4, FS_EmptySet
  <1>5. CASE K # {}
    <2>1. PICK m \in K : \A y \in K : m <= y
      BY <1>1, <1>3, <1>5, Least
    <2>2. PICK Newer : Newer = {t \in LiveSessions : t > m}
      OBVIOUS
    <2>3. IsFiniteSet(Newer) /\ Cardinality(Newer) \in Nat
      BY <1>1, <2>2, FS_Subset, FS_CardinalityType
    <2>4. Cardinality(Newer) < MaxSessions
      BY <1>2, <1>3, <2>2, <2>3 DEF BeyondNewest
    <2>5. K \ {m} \in SUBSET Newer
      <3>1. \A y \in K : y \in Nat
        BY <1>1, <1>3
      <3> QED
        BY <1>3, <2>1, <2>2, <3>1
    <2>6. Cardinality(K \ {m}) <= Cardinality(Newer)
      BY <2>3, <2>5, FS_Subset
    <2>7. IsFiniteSet(K) /\ Cardinality(K) \in Nat
      BY <1>1, <1>3, FS_Subset, FS_CardinalityType
    <2>8. Cardinality(K \ {m}) = Cardinality(K) - 1
      BY <2>1, <2>7, FS_RemoveElement
    <2> QED
      BY <1>2, <1>3, <2>3, <2>4, <2>6, <2>7, <2>8
  <1> QED
    BY <1>4, <1>5

LEMMA Trimmed ==
    ASSUME SignInTables, revokeBeyondNewest
    PROVE  /\ session' \in Seq(SessionStates) /\ Len(session') <= SessionBound
           /\ LiveSessions' = LiveSessions \ BeyondNewest
  <1>1. DOMAIN session = 1 .. Len(session) /\ \A s \in 1 .. Len(session) : session[s] \in SessionStates
    BY SessionsAreNumbered
  <1>2. session' = [s \in DOMAIN session |-> IF s \in BeyondNewest THEN "revoked" ELSE session[s]]
    BY DEF revokeBeyondNewest
  <1>3. session' \in [DOMAIN session -> SessionStates]
    BY <1>1, <1>2 DEF SessionStates
  <1>4. /\ session' \in Seq(SessionStates) /\ DOMAIN session' = DOMAIN session
        /\ Len(session') <= SessionBound
    BY <1>1, <1>3, SessionsRewritten
  <1>5. LiveSessions' = LiveSessions \ BeyondNewest
    BY <1>2, <1>4 DEF LiveSessions
  <1> QED
    BY <1>4, <1>5

\* A request that ends; the standing and the count of guesses stay.
LEMMA EndsQuietly ==
    ASSUME SignInInv, NEW c \in Clients, Ends(c), request[c].phase # "wrong",
           employment' = employment, reach' = reach,
           failed' = failed, lock' = lock, checked' = checked
    PROVE  /\ request' \in [Clients -> RequestType] /\ NothingMintedAfterDismissal' /\ GuessesInv'
  <1>1. Idle \in RequestType /\ Idle.phase = "idle" /\ MayMint(Idle) /\ Goes(c, Idle)
    BY DEF RequestType, Idle, MayMint, Minting, Ends
  <1>2. /\ request' \in [Clients -> RequestType] /\ request'[c] = Idle
        /\ \A d \in Clients \ {c} : request'[d] = request[d]
        /\ NothingMintedAfterDismissal'
    BY <1>1, RequestMoves
  <1>3. Uncounted' = Uncounted
    BY <1>1, <1>2 DEF Uncounted
  <1> QED
    BY <1>2, <1>3, GuessesUntouched

LEMMA TrimKeeps ==
    ASSUME SignInInv, NEW c \in Clients, TrimAndMint(c)
    PROVE  SignInInv'
  <1>1. /\ request[c].phase = "trim" /\ revokeBeyondNewest /\ untrimmed' = 0 /\ Ends(c)
        /\ reach' = reach /\ employment' = employment /\ failed' = failed /\ lock' = lock
        /\ checked' = checked
    BY DEF TrimAndMint
  <1>2. /\ request' \in [Clients -> RequestType] /\ NothingMintedAfterDismissal' /\ GuessesInv'
    BY <1>1, EndsQuietly
  <1>3. /\ session' \in Seq(SessionStates) /\ Len(session') <= SessionBound
        /\ LiveSessions' = LiveSessions \ BeyondNewest
    BY <1>1, Trimmed DEF SignInInv
  <1>4. Cardinality(LiveSessions') <= MaxSessions
    BY <1>3, KeptAreFew DEF SignInInv
  <1>5. SessionsAreCapped'
    BY <1>1, <1>4, SignInAssumption DEF SessionsAreCapped, SignInAssumption
  <1> QED
    BY <1>1, <1>2, <1>3, <1>5 DEF SignInInv, SignInTables

\* Every statement that ends all sessions, or some.
LEMMA SessionsOnly ==
    ASSUME SignInInv, UNCHANGED <<reach, employment, failed, lock, request, untrimmed, checked>>,
           session' \in Seq(SessionStates), Len(session') <= SessionBound,
           LiveSessions' \subseteq LiveSessions
    PROVE  SignInInv'
  <1>1. Uncounted' = Uncounted
    BY DEF Uncounted
  <1>2. GuessesInv'
    BY <1>1, GuessesUntouched
  <1>3. SessionsAreCapped'
    BY FewerLive
  <1>4. NothingMintedAfterDismissal'
    BY DEF SignInInv, NothingMintedAfterDismissal, Dismissed, ActiveAt
  <1> QED
    BY <1>2, <1>3, <1>4 DEF SignInInv, SignInTables

LEMMA SessionStepsKeep ==
    ASSUME SignInInv,
           \/ \E c \in Clients, s \in DOMAIN session : RefreshRefused(c, s)
           \/ \E s \in DOMAIN session : Logout(s) \/ SessionExpires(s)
           \/ SignOutEverywhere
    PROVE  SignInInv'
  <1>1. SignInTables
    BY DEF SignInInv
  <1>2. ASSUME revokeAllForIdentity,
               UNCHANGED <<reach, employment, failed, lock, request, untrimmed, checked>>
        PROVE  SignInInv'
    <2>1. /\ session' \in Seq(SessionStates) /\ Len(session') <= SessionBound
          /\ LiveSessions' = {}
      BY <1>1, <1>2, AllRevoked
    <2> QED
      BY <1>2, <2>1, SessionsOnly
  <1>3. ASSUME NEW s \in DOMAIN session, NEW end \in {"revoked", "expired"},
               session' = [session EXCEPT ![s] = end],
               UNCHANGED <<reach, employment, failed, lock, request, untrimmed, checked>>
        PROVE  SignInInv'
    <2>1. /\ session' \in Seq(SessionStates) /\ Len(session') <= SessionBound
          /\ LiveSessions' \subseteq LiveSessions
      BY <1>1, <1>3, OneEnds
    <2> QED
      BY <1>3, <2>1, SessionsOnly
  <1>4. CASE \E c \in Clients, s \in DOMAIN session : RefreshRefused(c, s)
    BY <1>2, <1>4 DEF RefreshRefused
  <1>5. CASE \E s \in DOMAIN session : Logout(s) \/ SessionExpires(s)
    BY <1>3, <1>5 DEF Logout, SessionExpires
  <1>6. CASE SignOutEverywhere
    BY <1>2, <1>6 DEF SignOutEverywhere
  <1> QED
    BY <1>4, <1>5, <1>6

-----------------------------------------------------------------------------
(* Leaving and coming.                                                       *)

LEMMA StaleIsRequest ==
    ASSUME NEW q \in RequestType
    PROVE  /\ Stale(q) \in RequestType /\ Stale(q).phase = q.phase
           /\ q.phase \in Minting => Stale(q).stale
  <1>1. CASE q.phase \in Minting
    <2>1. q \in [phase : Minting, business : Businesses \cup {NoBusiness}, stale : BOOLEAN]
      BY <1>1, RequestPhases
    <2>2. PICK s : s = [q EXCEPT !.stale = TRUE]
      OBVIOUS
    <2>3. /\ s \in [phase : Minting, business : Businesses \cup {NoBusiness}, stale : BOOLEAN]
          /\ s.phase = q.phase /\ s.stale = TRUE
      BY <2>1, <2>2
    <2>4. Stale(q) = s
      BY <1>1, <2>2 DEF Stale, Minting
    <2> QED
      BY <2>3, <2>4 DEF RequestType
  <1>2. CASE q.phase \notin Minting
    BY <1>2 DEF Stale, Minting
  <1> QED
    BY <1>1, <1>2

\* A dismissal marks every request that had read the standing before it.
LEMMA DismissalKeeps ==
    ASSUME SignInInv, NEW c \in Clients, NEW q \in RequestType, request[c] = Idle,
           q.phase \in {"revoke", "revokeStaff"},
           request' = [d \in Clients |-> IF d = c THEN q ELSE Stale(request[d])],
           employment' \in [Businesses -> Standings], reach' \in BOOLEAN,
           UNCHANGED <<failed, lock, session, untrimmed, checked>>
    PROVE  SignInInv'
  <1>1. request \in [Clients -> RequestType]
    BY DEF SignInInv, SignInTables
  <1>2. /\ request' \in [Clients -> RequestType] /\ request'[c] = q
        /\ \A d \in Clients \ {c} :
              /\ request'[d].phase = request[d].phase
              /\ request[d].phase \in Minting => request'[d].stale
    BY <1>1, StaleIsRequest
  <1>3. Uncounted' = Uncounted
    BY <1>2 DEF Uncounted, Idle
  <1>4. GuessesInv'
    BY <1>3, GuessesUntouched
  <1>5. NothingMintedAfterDismissal'
    BY <1>2 DEF NothingMintedAfterDismissal, Minting
  <1>6. SessionsAreCapped'
    BY DEF SignInInv, SessionsAreCapped, LiveSessions
  <1> QED
    BY <1>2, <1>4, <1>5, <1>6 DEF SignInInv, SignInTables

LEMMA SuspensionsKeep ==
    ASSUME SignInInv, NEW c \in Clients,
           SuspendStaff(c) \/ \E b \in Businesses : Suspend(c, b)
    PROVE  SignInInv'
  <1>1. employment \in [Businesses -> Standings] /\ reach \in BOOLEAN
    BY DEF SignInInv, SignInTables
  <1>2. CASE SuspendStaff(c)
    <2>1. PICK q : q = [phase |-> "revokeStaff"]
      OBVIOUS
    <2>2. q \in RequestType /\ q.phase = "revokeStaff"
      BY <2>1 DEF RequestType
    <2>3. /\ request[c] = Idle /\ reach' = FALSE /\ employment' = employment
          /\ request' = [d \in Clients |-> IF d = c THEN q ELSE Stale(request[d])]
          /\ UNCHANGED <<failed, lock, session, untrimmed, checked>>
      BY <1>2, <2>1 DEF SuspendStaff
    <2> QED
      BY <1>1, <2>2, <2>3, DismissalKeeps
  <1>3. ASSUME NEW b \in Businesses, Suspend(c, b) PROVE SignInInv'
    <2>1. PICK q : q = [phase |-> "revoke", business |-> b]
      OBVIOUS
    <2>2. q \in RequestType /\ q.phase = "revoke"
      BY <2>1 DEF RequestType
    <2>3. /\ request[c] = Idle /\ reach' = reach
          /\ employment' = [employment EXCEPT ![b] = "suspended"]
          /\ request' = [d \in Clients |-> IF d = c THEN q ELSE Stale(request[d])]
          /\ UNCHANGED <<failed, lock, session, untrimmed, checked>>
      BY <1>3, <2>1 DEF Suspend
    <2>4. employment' \in [Businesses -> Standings]
      BY <1>1, <2>3 DEF Standings
    <2> QED
      BY <1>1, <2>2, <2>3, <2>4, DismissalKeeps
  <1> QED
    BY <1>2, <1>3

LEMMA RevocationsKeep ==
    ASSUME SignInInv, NEW c \in Clients, RevokeAfterSuspension(c) \/ RevokeAfterStaffSuspension(c)
    PROVE  SignInInv'
  <1>1. /\ request[c].phase \in {"revoke", "revokeStaff"} /\ Ends(c)
        /\ session' = session \/ revokeAllForIdentity
        /\ reach' = reach /\ employment' = employment /\ failed' = failed /\ lock' = lock
        /\ untrimmed' = untrimmed /\ checked' = checked
    BY DEF RevokeAfterSuspension, RevokeAfterStaffSuspension
  <1>2. /\ request' \in [Clients -> RequestType] /\ NothingMintedAfterDismissal' /\ GuessesInv'
    BY <1>1, EndsQuietly
  <1>3. /\ session' \in Seq(SessionStates) /\ Len(session') <= SessionBound
        /\ LiveSessions' \subseteq LiveSessions
    <2>1. CASE session' = session
      BY <2>1 DEF SignInInv, SignInTables, LiveSessions
    <2>2. CASE revokeAllForIdentity
      BY <2>2, AllRevoked DEF SignInInv
    <2> QED
      BY <1>1, <2>1, <2>2
  <1>4. SessionsAreCapped'
    BY <1>1, <1>3, FewerLive
  <1> QED
    BY <1>1, <1>2, <1>3, <1>4 DEF SignInInv, SignInTables

LEMMA ReinstateKeeps ==
    ASSUME SignInInv, NEW b \in Businesses, Reinstate(b)
    PROVE  SignInInv'
  <1>1. /\ employment' = [employment EXCEPT ![b] = "active"]
        /\ reach' = reach /\ failed' = failed /\ lock' = lock /\ session' = session
        /\ request' = request /\ untrimmed' = untrimmed /\ checked' = checked
    BY DEF Reinstate
  <1>2. employment' \in [Businesses -> Standings] /\ employment'[b] = "active"
    BY <1>1 DEF SignInInv, SignInTables, Standings
  <1>3. NothingMintedAfterDismissal'
    <2>1. Dismissed' = FALSE
      BY <1>2 DEF Dismissed, ActiveAt
    <2> QED
      BY <2>1 DEF NothingMintedAfterDismissal
  <1>4. GuessesInv' /\ SessionsAreCapped'
    BY <1>1 DEF SignInInv, GuessesInv, Uncounted, SessionsAreCapped, LiveSessions
  <1> QED
    BY <1>1, <1>2, <1>3, <1>4 DEF SignInInv, SignInTables

LEMMA CompleteInviteKeeps ==
    ASSUME SignInInv, NEW c \in Clients, NEW b \in Businesses, CompleteInvite(c, b)
    PROVE  SignInInv'
  <1>1. PICK q : q = [phase |-> "proven"]
    OBVIOUS
  <1>2. q \in RequestType
    BY <1>1 DEF RequestType
  <1>3. /\ employment' = [employment EXCEPT ![b] = "active"] /\ Goes(c, q)
        /\ failed' = 0 /\ lock' = "none" /\ checked' = 0 /\ revokeAllForIdentity
        /\ reach' = reach /\ untrimmed' = untrimmed
    BY <1>1 DEF CompleteInvite, updatePasswordHash
  <1>4. employment' \in [Businesses -> Standings] /\ employment'[b] = "active"
    BY <1>3 DEF SignInInv, SignInTables, Standings
  <1>5. NothingMintedAfterDismissal'
    <2>1. Dismissed' = FALSE
      BY <1>4 DEF Dismissed, ActiveAt
    <2> QED
      BY <2>1 DEF NothingMintedAfterDismissal
  <1>6. request' \in [Clients -> RequestType]
    BY <1>2, <1>3 DEF SignInInv, SignInTables, Goes
  <1>7. /\ session' \in Seq(SessionStates) /\ Len(session') <= SessionBound
        /\ LiveSessions' = {}
    BY <1>3, AllRevoked DEF SignInInv
  <1>8. GuessesInv' /\ SessionsAreCapped'
    BY <1>3, <1>7, GuessesReset, FewerLive
  <1> QED
    BY <1>3, <1>4, <1>5, <1>6, <1>7, <1>8 DEF SignInInv, SignInTables, LockStates

LEMMA LockLapsesKeeps ==
    ASSUME SignInInv, LockLapses
    PROVE  SignInInv'
  <1>1. /\ lock = "held" /\ lock' = "lapsed" /\ checked' = 0
        /\ reach' = reach /\ employment' = employment /\ failed' = failed
        /\ session' = session /\ request' = request /\ untrimmed' = untrimmed
    BY DEF LockLapses
  <1>2. Uncounted' = Uncounted /\ Uncounted \in SUBSET Clients
    BY <1>1 DEF Uncounted
  <1>3. /\ Cardinality(Uncounted) \in Nat /\ Cardinality(Clients) \in Nat /\ MaxFailed \in Nat
        /\ failed \in Nat
    BY <1>2, SignInNumbers DEF SignInInv, SignInTables
  <1>4. GuessesInv'
    BY <1>1, <1>2, <1>3 DEF SignInInv, GuessesInv
  <1>5. NothingMintedAfterDismissal' /\ SessionsAreCapped'
    BY <1>1 DEF SignInInv, NothingMintedAfterDismissal, Dismissed, ActiveAt, SessionsAreCapped,
       LiveSessions
  <1> QED
    BY <1>1, <1>4, <1>5 DEF SignInInv, SignInTables, LockStates

\* One that dies uncounted also gave no answer.
LEMMA CrashKeeps ==
    ASSUME SignInInv, NEW c \in Clients, Crash(c)
    PROVE  SignInInv'
  <1>1. /\ Ends(c)
        /\ checked' = IF request[c].phase = "wrong" /\ checked > 0 THEN checked - 1 ELSE checked
        /\ reach' = reach /\ employment' = employment /\ failed' = failed /\ lock' = lock
        /\ session' = session /\ untrimmed' = untrimmed
    BY DEF Crash
  <1>2. Idle \in RequestType /\ Idle.phase = "idle" /\ MayMint(Idle) /\ Goes(c, Idle)
    BY <1>1 DEF RequestType, Idle, MayMint, Minting, Ends
  <1>3. /\ request' \in [Clients -> RequestType] /\ request'[c] = Idle
        /\ \A d \in Clients \ {c} : request'[d] = request[d]
        /\ NothingMintedAfterDismissal'
    BY <1>1, <1>2, RequestMoves
  <1>4. SessionsAreCapped'
    BY <1>1 DEF SignInInv, SessionsAreCapped, LiveSessions
  <1>5. checked \in Nat /\ failed \in Nat
    BY DEF SignInInv, SignInTables
  <1>6. GuessesInv'
    <2>1. CASE request[c].phase # "wrong"
      BY <1>1, <2>1, EndsQuietly
    <2>2. CASE request[c].phase = "wrong"
      <3>1. Uncounted' = Uncounted \ {c} /\ c \in Uncounted /\ Uncounted \in SUBSET Clients
        BY <1>2, <1>3, <2>2 DEF Uncounted
      <3>2. Cardinality(Uncounted') = Cardinality(Uncounted) - 1
        BY <3>1, SignInNumbers, FS_RemoveElement
      <3>3. /\ Cardinality(Uncounted) \in Nat /\ Cardinality(Uncounted') \in Nat
            /\ Cardinality(Clients) \in Nat /\ MaxFailed \in Nat
        BY <3>1, SignInNumbers
      <3> QED
        BY <1>1, <1>5, <2>2, <3>2, <3>3 DEF SignInInv, GuessesInv
    <2> QED
      BY <2>1, <2>2
  <1> QED
    BY <1>1, <1>3, <1>4, <1>5, <1>6 DEF SignInInv, SignInTables

LEMMA SignInStarts == SignInInit => SignInInv
  <1> SUFFICES ASSUME SignInInit PROVE SignInInv
    OBVIOUS
  <1>1. Uncounted = {} /\ request \in [Clients -> RequestType]
    BY DEF SignInInit, Uncounted, Idle, RequestType
  <1>2. Cardinality(Uncounted) \in Nat /\ MaxFailed \in Nat \ {0} /\ MaxSessions \in Nat \ {0}
        /\ SessionBound \in Nat
    BY <1>1, SignInNumbers
  <1>3. session \in Seq(SessionStates) /\ Len(session) = 0
    BY DEF SignInInit
  <1>4. LiveSessions = {}
    BY DEF SignInInit, LiveSessions
  <1>5. SessionsAreCapped
    BY <1>2, <1>4, FS_EmptySet DEF SessionsAreCapped, SignInInit
  <1>6. GuessesInv
    BY <1>2 DEF GuessesInv, SignInInit
  <1>7. NothingMintedAfterDismissal
    BY DEF NothingMintedAfterDismissal, SignInInit, Idle
  <1>8. SignInTables
    <2>1. Len(session) <= SessionBound
      BY <1>2, <1>3
    <2>2. /\ employment \in [Businesses -> Standings] /\ reach \in BOOLEAN /\ lock = "none"
          /\ failed = 0 /\ checked = 0 /\ untrimmed = 0
      BY DEF SignInInit
    <2> QED
      BY <1>1, <1>3, <2>1, <2>2 DEF SignInTables, LockStates
  <1> QED
    BY <1>5, <1>6, <1>7, <1>8 DEF SignInInv

LEMMA SignInStep == SignInInv /\ [SignInNext]_signInVars => SignInInv'
  <1> SUFFICES ASSUME SignInInv, [SignInNext]_signInVars PROVE SignInInv'
    OBVIOUS
  <1>1. CASE UNCHANGED signInVars
    <2>1. /\ UNCHANGED <<reach, employment, failed, lock, request, untrimmed, checked>>
          /\ session' = session
      BY <1>1 DEF signInVars
    <2>2. /\ session' \in Seq(SessionStates) /\ Len(session') <= SessionBound
          /\ LiveSessions' \subseteq LiveSessions
      BY <2>1 DEF SignInInv, SignInTables, LiveSessions
    <2> QED
      BY <2>1, <2>2, SessionsOnly
  <1>2. CASE SignInNext
    BY <1>2, WrongPasswordKeeps, CountFailureKeeps, QuietSteps, CompleteLoginKeeps,
       CreateSessionKeeps, TrimKeeps, SuspensionsKeep, CompleteInviteKeeps, SessionStepsKeep,
       RevocationsKeep, CrashKeeps, ReinstateKeeps, LockLapsesKeeps
       DEF SignInNext
  <1> QED
    BY <1>1, <1>2

THEOREM SignInInvariant == SignInSpec => []SignInInv
  <1> QED
    BY SignInStarts, SignInStep, PTL DEF SignInSpec

-----------------------------------------------------------------------------
\* Only the trim itself, or its death, ends a request that was about to trim.
LEMMA TrimEnds ==
    ASSUME SignInInv, [SignInNext]_signInVars, NEW c \in Clients,
           request[c].phase = "trim", request'[c] = Idle
    PROVE  TrimAndMint(c) \/ session' = session
  <1>1. request \in [Clients -> RequestType]
    BY DEF SignInInv, SignInTables
  <1>2. Idle.phase = "idle" /\ request' # request
    BY DEF Idle
  <1>3. \A d \in Clients : \A q : Goes(d, q) => d = c
    BY <1>1, <1>2 DEF Goes
  <1>4. Stale(request[c]).phase = "trim"
    BY <1>1, StaleIsRequest
  <1>5. SignInNext
    BY <1>2 DEF signInVars
  <1>6. ASSUME NEW d \in Clients, NEW b \in Businesses, Suspend(d, b) PROVE FALSE
    BY <1>2, <1>4, <1>6 DEF Suspend
  <1>7. ASSUME NEW d \in Clients, SuspendStaff(d) PROVE FALSE
    BY <1>2, <1>4, <1>7 DEF SuspendStaff
  <1>8. \/ \E d \in Clients : TrimAndMint(d) \/ Crash(d)
        \/ \E d \in Clients : /\ request[d].phase # "trim"
                              /\ \E q : Goes(d, q)
        \/ session' = session
    BY <1>2, <1>5, <1>6, <1>7 DEF SignInNext, WrongPassword, CountFailure, RightPassword, ProvenByCode,
       CompleteLogin, CreateSession, Mint, SelectEnterprise, SwitchEnterprise, CompleteInvite,
       RefreshUnscoped, RefreshRefused, RefreshFor, RevokeAfterSuspension,
       RevokeAfterStaffSuspension, Logout, SessionExpires, Reinstate, SignOutEverywhere,
       LockLapses, Ends
  <1>9. ASSUME NEW d \in Clients, TrimAndMint(d) PROVE d = c
    BY <1>3, <1>9 DEF TrimAndMint, Ends
  <1>10. ASSUME NEW d \in Clients, Crash(d) PROVE session' = session
    BY <1>10 DEF Crash
  <1> QED
    BY <1>3, <1>8, <1>9, <1>10

\* A newer session has no more newer ones than an older one has.
LEMMA TrimKeepsNewer ==
    ASSUME SignInInv, revokeBeyondNewest, NEW s \in DOMAIN session, NEW t \in DOMAIN session,
           s < t, session[s] = "live", session[t] = "live", session'[s] = "live"
    PROVE  session'[t] = "live"
  <1>1. /\ Len(session) \in Nat /\ DOMAIN session = 1 .. Len(session)
        /\ LiveSessions \in SUBSET (1 .. Len(session)) /\ IsFiniteSet(LiveSessions)
    BY SessionsAreNumbered DEF SignInInv
  <1>2. PICK S : S = {u \in LiveSessions : u > s}
    OBVIOUS
  <1>3. PICK T : T = {u \in LiveSessions : u > t}
    OBVIOUS
  <1>4. T \in SUBSET S
    <2>1. s \in Nat /\ t \in Nat /\ \A u \in LiveSessions : u \in Nat
      BY <1>1
    <2>2. \A u \in LiveSessions : u > t => u > s
      BY <2>1
    <2> QED
      BY <1>2, <1>3, <2>2
  <1>5. /\ IsFiniteSet(S) /\ Cardinality(S) \in Nat /\ Cardinality(T) \in Nat
        /\ Cardinality(T) <= Cardinality(S)
    BY <1>1, <1>2, <1>4, FS_Subset, FS_CardinalityType
  <1>6. s \notin BeyondNewest /\ s \in LiveSessions
    BY DEF revokeBeyondNewest, LiveSessions
  <1>7. ~(Cardinality(S) >= MaxSessions) /\ MaxSessions \in Nat
    BY <1>2, <1>6, SignInAssumption DEF BeyondNewest, SignInAssumption
  <1>8. t \notin BeyondNewest
    BY <1>3, <1>5, <1>7 DEF BeyondNewest
  <1> QED
    BY <1>8 DEF revokeBeyondNewest

\* For any number of requests at once, and whichever of them die half way: live
\* sessions stay within the cap, the trim keeps the newest, wrong passwords are
\* counted to within the requests in flight, and nothing is minted by a request
\* that read the standing after the dismissal (recordFailedLogin, issueSession,
\* revokeBeyondNewest, assertStandingNotRevoked).
THEOREM SessionsKeepLimits == SignInSpec => SessionsAreSound
  <1>1. SignInInv => GuessingIsBounded /\ failed \in 0 .. MaxFailed + Cardinality(Clients) - 1
    <2> SUFFICES ASSUME SignInInv
                 PROVE  GuessingIsBounded /\ failed \in 0 .. MaxFailed + Cardinality(Clients) - 1
      OBVIOUS
    <2>1. Uncounted \in SUBSET Clients
      BY DEF Uncounted
    <2>2. /\ Cardinality(Uncounted) \in Nat /\ Cardinality(Clients) \in Nat
          /\ Cardinality(Uncounted) <= Cardinality(Clients) /\ MaxFailed \in Nat \ {0}
      BY <2>1, SignInNumbers
    <2>3. failed \in Nat /\ checked \in Nat /\ lock \in LockStates
      BY DEF SignInInv, SignInTables
    <2> QED
      BY <2>2, <2>3 DEF SignInInv, GuessesInv, LockStates, GuessingIsBounded
  <1>2. SignInInv => SignInTypeOK
    <2> SUFFICES ASSUME SignInInv PROVE SignInTypeOK
      OBVIOUS
    <2>1. DOMAIN request = Clients
      BY DEF SignInInv, SignInTables
    <2> QED
      BY <1>1, <2>1 DEF SignInInv, SignInTables, SignInTypeOK
  <1>3. SignInInv => SessionsAreCapped /\ NothingMintedAfterDismissal
    BY DEF SignInInv
  <1>4. SignInInv /\ [SignInNext]_signInVars
          => [\A s, t \in DOMAIN session :
                 /\ s < t
                 /\ (\E c \in Clients : request[c].phase = "trim" /\ request'[c] = Idle)
                 /\ session[s] = "live" /\ session[t] = "live" /\ session'[s] = "live"
                 => session'[t] = "live"]_signInVars
    <2> SUFFICES ASSUME SignInInv, [SignInNext]_signInVars,
                        NEW s \in DOMAIN session, NEW t \in DOMAIN session, s < t,
                        NEW c \in Clients, request[c].phase = "trim", request'[c] = Idle,
                        session[s] = "live", session[t] = "live", session'[s] = "live"
                 PROVE  session'[t] = "live"
      OBVIOUS
    <2>1. TrimAndMint(c) \/ session' = session
      BY TrimEnds
    <2> QED
      BY <2>1, TrimKeepsNewer DEF TrimAndMint
  <1> QED
    BY <1>1, <1>2, <1>3, <1>4, SignInInvariant, PTL
       DEF SignInSpec, SessionsAreSound, NewestSurvive

-----------------------------------------------------------------------------
(* Customers.                                                                *)

OneProjection == [stage : {"creating", "resolved", "linked"}, event : Events,
                  customer : CustomerIds, created : BOOLEAN]

OneHolder == [customer : CustomerIds, by : Projections \cup {Committed}]

CustomerTables ==
    /\ person \in [CustomerIds -> CustomerRow]
    /\ identifier \in [IdentifierValues -> {Unheld} \cup OneHolder]
    /\ threadOf \in [ThreadsOfPeople -> [customer : CustomerIds \cup {NoCustomer}, theirs : BOOLEAN]]
    /\ engagement \in [CustomerIds -> Nat]
    /\ resync \in SUBSET People
    /\ projecting \in [Projections -> {Resting} \cup OneProjection]

\* A worker goes on with a row of its own, which holds the identity once it is
\* past the insert, or with a committed one that holds it.
Stands(w) ==
    LET p == projecting[w]
        row == person[p.customer] IN
    /\ p.created =>
          /\ row.row = w /\ row.createdBy = p.event.kind
          /\ BringsName(p.event) => row.name = "known"
          /\ p.stage # "creating" => identifier[KeyOf(p.event)] = [customer |-> p.customer, by |-> w]
    /\ ~p.created =>
          /\ row.row = Committed /\ p.stage # "creating"
          /\ identifier[KeyOf(p.event)] = [customer |-> p.customer, by |-> Committed]

EachStands == \A w \in Projections : projecting[w] # Resting => Stands(w)

\* A row that is not committed is the one its worker has inserted.
RowsAreTheirs ==
    \A c \in CustomerIds, w \in Projections : person[c].row = w =>
        projecting[w] # Resting /\ projecting[w].created /\ projecting[w].customer = c

\* What a worker holds is the identity of its event and, last, the handle.
HoldsFor(k, w) ==
    /\ projecting[w] # Resting /\ projecting[w].stage # "creating"
    /\ identifier[k].customer = projecting[w].customer
    /\ k # KeyOf(projecting[w].event) =>
          projecting[w].stage = "linked" /\ k = HandleOf[projecting[w].event.person]

IdentifiersAreTheirs ==
    \A k \in IdentifierValues, w \in Projections : identifier[k].by = w => HoldsFor(k, w)

\* What is committed points to what is committed, and nothing is without a value.
CommittedIsWhole ==
    /\ \A k \in IdentifierValues : Known(k) => person[identifier[k].customer].row = Committed
    /\ \A c \in CustomerIds : person[c].row = Committed =>
          \E k \in IdentifierValues : identifier[k] = [customer |-> c, by |-> Committed]

OpenedBy(c) == {t \in ThreadsOfPeople : threadOf[t].customer = c /\ threadOf[t].theirs}

ThreadsAreCounted ==
    \A c \in CustomerIds : IsFiniteSet(OpenedBy(c)) /\ engagement[c] = Cardinality(OpenedBy(c))

CustomersInv ==
    /\ CustomerTables /\ EachStands /\ RowsAreTheirs /\ IdentifiersAreTheirs /\ CommittedIsWhole
    /\ ThreadsAreCounted /\ NamelessIsAskedFor

\* A name that is known stays known over a step.
NamesStay ==
    \A c \in CustomerIds : person[c].row = Committed /\ person[c].name = "known" => person'[c].name = "known"

\* A key is a value, the handle of a person is not a scoped id, and an event
\* that brings a handle is keyed on something else.
LEMMA KeysAre ==
    ASSUME NEW e \in Events
    PROVE  /\ e.person \in People /\ e.kind \in EventKinds
           /\ KeyOf(e) \in IdentifierValues
           /\ HandleOf[e.person] \in IdentifierValues /\ HandleOf[e.person] \notin People
           /\ BringsHandle(e) => KeyOf(e) # HandleOf[e.person]
           /\ KeyOf(e) \in People => KeyOf(e) = e.person
  BY CustomersAssumption DEF CustomersAssumption, Events, KeyOf, IdentifierValues, BringsHandle, EventKinds

\* A worker is no state of a row.
LEMMA WorkersAre == \A w \in Projections : w # "unused" /\ w # "gone" /\ w # Committed
  BY CustomersAssumption DEF CustomersAssumption, Committed

LEMMA CustomersAre == NoCustomer \notin CustomerIds
  BY CustomersAssumption DEF CustomersAssumption, NoCustomer, CustomerIds

\* The transaction of a worker that is under way.
LEMMA UnderWay ==
    ASSUME CustomerTables, NEW w \in Projections, projecting[w] # Resting
    PROVE  /\ projecting[w] \in OneProjection
           /\ projecting[w].event \in Events /\ projecting[w].customer \in CustomerIds
           /\ projecting[w].created \in BOOLEAN
           /\ projecting[w].stage \in {"creating", "resolved", "linked"}
  BY DEF CustomerTables, OneProjection

LEMMA StageMeans ==
    ASSUME NEW w \in Projections, projecting[w].stage # "rest"
    PROVE  projecting[w] # Resting
  BY DEF Resting

\* What is held has a customer.
LEMMA HoldersAre ==
    ASSUME CustomerTables, NEW k \in IdentifierValues
    PROVE  /\ identifier[k].by \in Projections \cup {Committed}
           /\ identifier[k].customer \in CustomerIds \cup {NoCustomer}
           /\ identifier[k].customer # NoCustomer => identifier[k] \in OneHolder
           /\ identifier[k] # Unheld => identifier[k].customer \in CustomerIds
           /\ identifier[k].by \in Projections => identifier[k].customer \in CustomerIds
           /\ identifier[k].customer = NoCustomer <=> identifier[k] = Unheld
           /\ Known(k) => identifier[k] = [customer |-> identifier[k].customer, by |-> Committed]
  <1>1. identifier[k] \in {Unheld} \cup OneHolder
    BY DEF CustomerTables
  <1>2. CASE identifier[k] = Unheld
    BY <1>2, WorkersAre DEF Unheld, Known
  <1>3. CASE identifier[k] \in OneHolder
    <2>1. identifier[k].customer # NoCustomer /\ identifier[k] # Unheld
      BY <1>3, CustomersAre DEF OneHolder, Unheld
    <2> QED
      BY <1>3, <2>1 DEF OneHolder, Known
  <1> QED
    BY <1>1, <1>2, <1>3

\* What a worker in the middle of a transaction may count on.
LEMMA CustomerIsThere ==
    ASSUME CustomersInv, NEW w \in Projections, projecting[w] # Resting
    PROVE  person[projecting[w].customer].row \in {w, Committed}
  BY UnderWay DEF CustomersInv, EachStands, Stands

\* A row that is new has no holder yet.
LEMMA NewRowsAreFree ==
    ASSUME CustomersInv, NEW k \in IdentifierValues, identifier[k].customer # NoCustomer
    PROVE  /\ identifier[k].customer \in CustomerIds
           /\ person[identifier[k].customer].row \in {identifier[k].by, Committed}
  <1>1. CustomerTables
    BY DEF CustomersInv
  <1>2. identifier[k].customer \in CustomerIds /\ identifier[k].by \in Projections \cup {Committed}
    BY <1>1, HoldersAre
  <1>3. CASE identifier[k].by = Committed
    BY <1>2, <1>3 DEF Known, CustomersInv, CommittedIsWhole
  <1>4. CASE identifier[k].by \in Projections
    <2>1. PICK w \in Projections : identifier[k].by = w
      BY <1>4
    <2>2. HoldsFor(k, w)
      BY <2>1 DEF CustomersInv, IdentifiersAreTheirs
    <2>3. person[projecting[w].customer].row \in {w, Committed}
      BY <2>2, CustomerIsThere DEF HoldsFor
    <2> QED
      BY <1>2, <2>1, <2>2, <2>3 DEF HoldsFor
  <1> QED
    BY <1>2, <1>3, <1>4

-----------------------------------------------------------------------------
(* Each step.                                                                *)

LEMMA CustomersStart == CustomersInit => CustomersInv
  <1> SUFFICES ASSUME CustomersInit PROVE CustomersInv
    OBVIOUS
  <1>1. CustomerTables
    BY DEF CustomersInit, CustomerTables, CustomerRow, Unused
  <1>2. \A k \in IdentifierValues : identifier[k] = Unheld
    BY DEF CustomersInit
  <1>3. \A c \in CustomerIds : person[c].row = "unused"
    BY DEF CustomersInit, Unused
  <1>4. EachStands
    BY DEF CustomersInit, EachStands
  <1>5. RowsAreTheirs
    BY <1>3, WorkersAre DEF RowsAreTheirs
  <1>6. IdentifiersAreTheirs
    BY <1>2, WorkersAre DEF IdentifiersAreTheirs, Unheld
  <1>7. CommittedIsWhole
    BY <1>2, <1>3 DEF CommittedIsWhole, Known, Unheld, Committed
  <1>8. ThreadsAreCounted
    <2>1. ASSUME NEW c \in CustomerIds PROVE OpenedBy(c) = {}
      BY CustomersAre DEF OpenedBy, CustomersInit
    <2> QED
      BY <2>1, FS_EmptySet DEF ThreadsAreCounted, CustomersInit
  <1>9. NamelessIsAskedFor
    BY <1>2 DEF NamelessIsAskedFor, Known, Unheld, IdentifierValues
  <1> QED
    BY <1>1, <1>4, <1>5, <1>6, <1>7, <1>8, <1>9 DEF CustomersInv

LEMMA CountsRest ==
    ASSUME ThreadsAreCounted, UNCHANGED <<threadOf, engagement>>
    PROVE  ThreadsAreCounted'
  <1>1. \A c \in CustomerIds : OpenedBy(c)' = OpenedBy(c)
    BY DEF OpenedBy
  <1> QED
    BY <1>1 DEF ThreadsAreCounted

LEMMA ResolveKeeps ==
    ASSUME CustomersInv, NEW w \in Projections, NEW e \in Events, resolveOrCreate(w, e)
    PROVE  CustomersInv' /\ NamesStay
  <1>1. CustomerTables /\ UNCHANGED <<identifier, threadOf, engagement, resync>> /\ projecting[w] = Resting
    BY DEF resolveOrCreate, CustomersInv
  <1>2. ThreadsAreCounted'
    BY <1>1, CountsRest DEF CustomersInv
  <1>3. \A k \in IdentifierValues : identifier[k].by # w
    BY <1>1 DEF CustomersInv, IdentifiersAreTheirs, HoldsFor
  <1>4. \A c \in CustomerIds : person[c].row # w
    BY <1>1 DEF CustomersInv, RowsAreTheirs
  <1> DEFINE found == findByIdentifier(w, KeyOf(e))
  <1>5. CASE found # NoCustomer /\ UNCHANGED person
             /\ projecting' = [projecting EXCEPT ![w] =
                    [stage |-> "resolved", event |-> e, customer |-> found, created |-> FALSE]]
    <2>1. KeyOf(e) \in IdentifierValues
      BY KeysAre
    <2>2. Known(KeyOf(e)) /\ identifier[KeyOf(e)].customer = found
      BY <1>3, <1>5, <2>1 DEF findByIdentifier, SeenBy, Known, NoCustomer
    <2>3. /\ found \in CustomerIds /\ person[found].row = Committed
          /\ identifier[KeyOf(e)] = [customer |-> found, by |-> Committed]
      BY <1>1, <2>1, <2>2, HoldersAre DEF CustomersInv, CommittedIsWhole, Known
    <2> HIDE DEF found
    <2>4. /\ projecting'[w] = [stage |-> "resolved", event |-> e, customer |-> found, created |-> FALSE]
          /\ \A v \in Projections \ {w} : projecting'[v] = projecting[v]
          /\ projecting' \in [Projections -> {Resting} \cup OneProjection]
      BY <1>1, <1>5, <2>3 DEF CustomerTables, OneProjection
    <2>5. CustomerTables'
      BY <1>1, <1>5, <2>4 DEF CustomerTables
    <2>6. EachStands'
      <3> SUFFICES ASSUME NEW v \in Projections, projecting'[v] # Resting PROVE Stands(v)'
        BY DEF EachStands
      <3>1. CASE v = w
        BY <1>1, <1>5, <2>3, <2>4, <3>1 DEF Stands
      <3>2. CASE v # w
        <4>1. Stands(v) /\ projecting'[v] = projecting[v]
          BY <2>4, <3>2 DEF CustomersInv, EachStands
        <4> QED
          BY <1>1, <1>5, <4>1 DEF Stands
      <3> QED
        BY <3>1, <3>2
    <2>7. RowsAreTheirs'
      BY <1>1, <1>4, <1>5, <2>4 DEF CustomersInv, RowsAreTheirs
    <2>8. IdentifiersAreTheirs'
      <3> SUFFICES ASSUME NEW k \in IdentifierValues, NEW v \in Projections, identifier[k].by = v
                   PROVE  HoldsFor(k, v)'
        BY <1>1 DEF IdentifiersAreTheirs
      <3>1. v # w /\ HoldsFor(k, v)
        BY <1>3 DEF CustomersInv, IdentifiersAreTheirs
      <3> QED
        BY <1>1, <2>4, <3>1 DEF HoldsFor
    <2>9. CommittedIsWhole' /\ NamelessIsAskedFor' /\ NamesStay
      BY <1>1, <1>5 DEF CustomersInv, CommittedIsWhole, NamelessIsAskedFor, NamesStay, Known, findIdByIdentifier
    <2> QED
      BY <1>2, <2>5, <2>6, <2>7, <2>8, <2>9 DEF CustomersInv
  <1>6. CASE /\ \E c \in CustomerIds : person[c].row = "unused"
             /\ projecting' = [projecting EXCEPT ![w] =
                    [stage |-> "creating", event |-> e, customer |-> NextId, created |-> TRUE]]
             /\ person' = [person EXCEPT ![NextId] =
                    [row |-> w, name |-> IF BringsName(e) THEN "known" ELSE "none",
                     picture |-> "none", createdBy |-> e.kind]]
    <2> DEFINE n == NextId
               fresh == [row |-> w, name |-> IF BringsName(e) THEN "known" ELSE "none",
                         picture |-> "none", createdBy |-> e.kind]
    <2>1. n \in CustomerIds /\ person[n].row = "unused"
      <3> DEFINE free == {c \in CustomerIds : person[c].row = "unused"}
      <3>1. CustomerIds \in SUBSET Nat
        BY CustomersAssumption DEF CustomersAssumption, CustomerIds
      <3>2. free # {} /\ free \in SUBSET Nat
        BY <1>6, <3>1
      <3>3. PICK c \in free : \A o \in free : c <= o
        BY <3>2, LeastNumber
      <3>4. \A o \in 1 .. c - 1 : person[o].row # "unused"
        <4> SUFFICES ASSUME NEW o \in 1 .. c - 1, person[o].row = "unused" PROVE FALSE
          OBVIOUS
        <4>1. c \in 1 .. MaxCustomers /\ MaxCustomers \in Nat
          BY <3>3, CustomersAssumption DEF CustomersAssumption, CustomerIds
        <4>2. o \in CustomerIds /\ o \in Nat /\ o < c
          BY <4>1 DEF CustomerIds
        <4> QED
          BY <3>3, <4>1, <4>2
      <3>5. \E d \in CustomerIds : person[d].row = "unused" /\ \A o \in 1 .. d - 1 : person[o].row # "unused"
        BY <3>3, <3>4
      <3> QED
        BY <3>5 DEF NextId
    <2>2. fresh \in CustomerRow /\ e \in Events
      BY KeysAre DEF CustomerRow
    <2> HIDE DEF n
    <2>3. /\ projecting' = [projecting EXCEPT ![w] = [stage |-> "creating", event |-> e, customer |-> n, created |-> TRUE]]
          /\ person' = [person EXCEPT ![n] = fresh]
      BY <1>6 DEF n
    <2>4. fresh.row = w /\ fresh.createdBy = e.kind /\ (BringsName(e) => fresh.name = "known")
      OBVIOUS
    <2> HIDE DEF fresh
    <2>5. /\ projecting'[w] = [stage |-> "creating", event |-> e, customer |-> n, created |-> TRUE]
          /\ \A v \in Projections \ {w} : projecting'[v] = projecting[v]
          /\ projecting' \in [Projections -> {Resting} \cup OneProjection]
      BY <1>1, <2>1, <2>3 DEF CustomerTables, OneProjection
    <2>6. /\ person'[n] = fresh /\ \A c \in CustomerIds \ {n} : person'[c] = person[c]
          /\ person' \in [CustomerIds -> CustomerRow]
      BY <1>1, <2>1, <2>2, <2>3 DEF CustomerTables
    <2>7. CustomerTables'
      BY <1>1, <2>5, <2>6 DEF CustomerTables
    <2>8. EachStands'
      <3> SUFFICES ASSUME NEW v \in Projections, projecting'[v] # Resting PROVE Stands(v)'
        BY DEF EachStands
      <3>1. CASE v = w
        BY <2>4, <2>5, <2>6, <3>1 DEF Stands
      <3>2. CASE v # w
        <4>1. Stands(v) /\ projecting'[v] = projecting[v] /\ projecting[v] # Resting
          BY <2>5, <3>2 DEF CustomersInv, EachStands
        <4>2. projecting[v].customer \in CustomerIds /\ projecting[v].customer # n
          BY <1>1, <2>1, <4>1, UnderWay, CustomerIsThere, WorkersAre DEF Committed
        <4>3. person'[projecting[v].customer] = person[projecting[v].customer]
          BY <2>6, <4>2
        <4> QED
          BY <1>1, <4>1, <4>3 DEF Stands
      <3> QED
        BY <3>1, <3>2
    <2>9. RowsAreTheirs'
      <3> SUFFICES ASSUME NEW c \in CustomerIds, NEW v \in Projections, person'[c].row = v
                   PROVE  projecting'[v] # Resting /\ projecting'[v].created /\ projecting'[v].customer = c
        BY DEF RowsAreTheirs
      <3>1. CASE c = n
        BY <2>4, <2>5, <2>6, <3>1 DEF Resting
      <3>2. CASE c # n
        BY <1>4, <2>5, <2>6, <3>2 DEF CustomersInv, RowsAreTheirs
      <3> QED
        BY <3>1, <3>2
    <2>10. IdentifiersAreTheirs'
      <3> SUFFICES ASSUME NEW k \in IdentifierValues, NEW v \in Projections, identifier[k].by = v
                   PROVE  HoldsFor(k, v)'
        BY <1>1 DEF IdentifiersAreTheirs
      <3>1. v # w /\ HoldsFor(k, v)
        BY <1>3 DEF CustomersInv, IdentifiersAreTheirs
      <3> QED
        BY <1>1, <2>5, <3>1 DEF HoldsFor
    <2>11. \A c \in CustomerIds : person[c].row = Committed => c # n /\ person'[c] = person[c]
      BY <2>1, <2>6 DEF Committed
    <2>12. \A k \in IdentifierValues : Known(k) => person'[identifier[k].customer] = person[identifier[k].customer]
      BY <1>1, <2>11, HoldersAre DEF CustomersInv, CommittedIsWhole, Known
    <2>13. CommittedIsWhole'
      <3>1. \A c \in CustomerIds : person'[c].row = Committed => person[c].row = Committed
        BY <2>4, <2>6, WorkersAre
      <3> QED
        BY <1>1, <2>12, <3>1 DEF CustomersInv, CommittedIsWhole, Known
    <2>14. NamelessIsAskedFor' /\ NamesStay
      BY <1>1, <2>11, <2>12 DEF CustomersInv, NamelessIsAskedFor, NamesStay, Known, findIdByIdentifier, IdentifierValues
    <2> QED
      BY <1>2, <2>7, <2>8, <2>9, <2>10, <2>13, <2>14 DEF CustomersInv
  <1> QED
    BY <1>5, <1>6 DEF resolveOrCreate

LEMMA InsertKeeps ==
    ASSUME CustomersInv, NEW w \in Projections, insertIdentifier(w)
    PROVE  CustomersInv' /\ NamesStay
  <1> DEFINE p == projecting[w]
             key == KeyOf(p.event)
             mine == [customer |-> p.customer, by |-> w]
  <1>1. /\ CustomerTables /\ UNCHANGED <<person, threadOf, engagement, resync>>
        /\ p.stage = "creating" /\ identifier[key] = Unheld
        /\ identifier' = [identifier EXCEPT ![key] = mine]
        /\ projecting' = [projecting EXCEPT ![w].stage = "resolved"]
    BY DEF insertIdentifier, CustomersInv
  <1>2. projecting[w] # Resting
    BY <1>1, StageMeans
  <1>3. /\ p \in OneProjection /\ p.event \in Events /\ p.customer \in CustomerIds
        /\ key \in IdentifierValues /\ p.created \in BOOLEAN
    BY <1>1, <1>2, UnderWay, KeysAre
  <1>4. ThreadsAreCounted'
    BY <1>1, CountsRest DEF CustomersInv
  <1>5. Stands(w) /\ p.created /\ person[p.customer].row = w
    BY <1>1, <1>2, <1>3 DEF CustomersInv, EachStands, Stands
  <1>6. \A k \in IdentifierValues : identifier[k].by # w
    BY <1>1 DEF CustomersInv, IdentifiersAreTheirs, HoldsFor
  <1> HIDE DEF key, mine
  <1>7. /\ identifier'[key] = mine /\ mine \in OneHolder
        /\ \A k \in IdentifierValues \ {key} : identifier'[k] = identifier[k]
        /\ identifier' \in [IdentifierValues -> {Unheld} \cup OneHolder]
    BY <1>1, <1>3 DEF CustomerTables, OneHolder, mine
  <1>8. /\ projecting'[w] = [p EXCEPT !.stage = "resolved"]
        /\ \A v \in Projections \ {w} : projecting'[v] = projecting[v]
        /\ projecting' \in [Projections -> {Resting} \cup OneProjection]
    BY <1>1, <1>3 DEF CustomerTables, OneProjection
  <1>9. /\ projecting'[w] # Resting /\ projecting'[w].stage = "resolved" /\ projecting'[w].event = p.event
        /\ projecting'[w].customer = p.customer /\ projecting'[w].created = p.created
    BY <1>3, <1>8 DEF OneProjection, Resting
  <1>10. CustomerTables'
    BY <1>1, <1>7, <1>8 DEF CustomerTables
  <1>11. EachStands'
    <2> SUFFICES ASSUME NEW v \in Projections, projecting'[v] # Resting PROVE Stands(v)'
      BY DEF EachStands
    <2>1. CASE v = w
      BY <1>1, <1>5, <1>7, <1>9, <2>1 DEF Stands, key, mine
    <2>2. CASE v # w
      <3>1. Stands(v) /\ projecting'[v] = projecting[v] /\ projecting[v] # Resting
        BY <1>8, <2>2 DEF CustomersInv, EachStands
      <3>2. /\ KeyOf(projecting[v].event) \in IdentifierValues /\ projecting[v].customer \in CustomerIds
            /\ projecting[v].created \in BOOLEAN
        BY <1>1, <3>1, UnderWay, KeysAre
      <3>3. ASSUME KeyOf(projecting[v].event) = key PROVE projecting[v].created /\ projecting[v].stage = "creating"
        <4>1. identifier[key] = [customer |-> 0, by |-> Committed]
          BY <1>1 DEF Unheld, NoCustomer
        <4>2. projecting[v].customer # 0
          BY <3>2, CustomersAre DEF NoCustomer
        <4> QED
          BY <3>1, <3>2, <3>3, <4>1, <4>2 DEF Stands
      <3> QED
        BY <1>1, <1>7, <3>1, <3>2, <3>3 DEF Stands
    <2> QED
      BY <2>1, <2>2
  <1>12. RowsAreTheirs'
    BY <1>1, <1>8, <1>9 DEF CustomersInv, RowsAreTheirs
  <1>13. IdentifiersAreTheirs'
    <2> SUFFICES ASSUME NEW k \in IdentifierValues, NEW v \in Projections, identifier'[k].by = v
                 PROVE  HoldsFor(k, v)'
      BY DEF IdentifiersAreTheirs
    <2>1. CASE k = key
      BY <1>7, <1>9, <2>1 DEF HoldsFor, key, mine
    <2>2. CASE k # key
      <3>1. v # w /\ HoldsFor(k, v)
        BY <1>6, <1>7, <2>2 DEF CustomersInv, IdentifiersAreTheirs
      <3> QED
        BY <1>7, <1>8, <2>2, <3>1 DEF HoldsFor
    <2> QED
      BY <2>1, <2>2
  <1>14. \A k \in IdentifierValues : Known(k)' => Known(k) /\ identifier'[k] = identifier[k]
    BY <1>7, WorkersAre DEF Known, mine
  <1>15. CommittedIsWhole'
    <2>1. \A k \in IdentifierValues, c \in CustomerIds :
             identifier[k] = [customer |-> c, by |-> Committed] => identifier'[k] = identifier[k]
      BY <1>1, <1>7, CustomersAre DEF Unheld
    <2> QED
      BY <1>1, <1>14, <2>1 DEF CustomersInv, CommittedIsWhole
  <1>16. NamelessIsAskedFor' /\ NamesStay
    BY <1>1, <1>14 DEF CustomersInv, NamelessIsAskedFor, NamesStay, findIdByIdentifier, IdentifierValues
  <1> QED
    BY <1>4, <1>10, <1>11, <1>12, <1>13, <1>15, <1>16 DEF CustomersInv

LEMMA AdoptKeeps ==
    ASSUME CustomersInv, NEW w \in Projections, adoptWinner(w)
    PROVE  CustomersInv' /\ NamesStay
  <1> DEFINE p == projecting[w]
             key == KeyOf(p.event)
             found == findByIdentifier(w, key)
             orphan == [Unused EXCEPT !.row = "gone"]
  <1>1. /\ CustomerTables /\ UNCHANGED <<identifier, threadOf, engagement, resync>>
        /\ p.stage = "creating" /\ SeenBy(w, key)
        /\ person' = [person EXCEPT ![p.customer] = orphan]
        /\ projecting' = [projecting EXCEPT ![w].stage = "resolved", ![w].created = FALSE, ![w].customer = found]
    BY DEF adoptWinner, discardOrphan, CustomersInv
  <1>2. projecting[w] # Resting
    BY <1>1, StageMeans
  <1>3. /\ p \in OneProjection /\ p.event \in Events /\ p.customer \in CustomerIds
        /\ key \in IdentifierValues /\ p.created \in BOOLEAN
    BY <1>1, <1>2, UnderWay, KeysAre
  <1>4. ThreadsAreCounted'
    BY <1>1, CountsRest DEF CustomersInv
  <1>5. p.created /\ person[p.customer].row = w
    BY <1>1, <1>2, <1>3 DEF CustomersInv, EachStands, Stands
  <1>6. \A k \in IdentifierValues : identifier[k].by # w
    BY <1>1 DEF CustomersInv, IdentifiersAreTheirs, HoldsFor
  <1>7. Known(key) /\ found = identifier[key].customer
    BY <1>1, <1>3, <1>6 DEF SeenBy, Known, findByIdentifier
  <1>8. /\ found \in CustomerIds /\ person[found].row = Committed
        /\ identifier[key] = [customer |-> found, by |-> Committed]
    BY <1>1, <1>3, <1>7, HoldersAre DEF CustomersInv, CommittedIsWhole, Known
  <1>9. orphan \in CustomerRow /\ orphan.row = "gone"
    BY DEF Unused, CustomerRow
  <1> HIDE DEF key, found, orphan
  <1>10. /\ person'[p.customer] = orphan /\ \A c \in CustomerIds \ {p.customer} : person'[c] = person[c]
         /\ person' \in [CustomerIds -> CustomerRow]
    BY <1>1, <1>3, <1>9 DEF CustomerTables
  <1>11. /\ projecting'[w] = [p EXCEPT !.stage = "resolved", !.created = FALSE, !.customer = found]
         /\ \A v \in Projections \ {w} : projecting'[v] = projecting[v]
         /\ projecting' \in [Projections -> {Resting} \cup OneProjection]
    BY <1>1, <1>3, <1>8 DEF CustomerTables, OneProjection
  <1>12. /\ projecting'[w] # Resting /\ projecting'[w].stage = "resolved" /\ projecting'[w].event = p.event
         /\ projecting'[w].customer = found /\ projecting'[w].created = FALSE
    BY <1>3, <1>11 DEF OneProjection, Resting
  <1>13. CustomerTables'
    BY <1>1, <1>10, <1>11 DEF CustomerTables
  <1>14. \A c \in CustomerIds : person[c].row = Committed => c # p.customer /\ person'[c] = person[c]
    BY <1>5, <1>10, WorkersAre
  <1>15. EachStands'
    <2> SUFFICES ASSUME NEW v \in Projections, projecting'[v] # Resting PROVE Stands(v)'
      BY DEF EachStands
    <2>1. CASE v = w
      BY <1>1, <1>8, <1>12, <1>14, <2>1 DEF Stands, key
    <2>2. CASE v # w
      <3>1. Stands(v) /\ projecting'[v] = projecting[v] /\ projecting[v] # Resting
        BY <1>11, <2>2 DEF CustomersInv, EachStands
      <3>2. projecting[v].customer \in CustomerIds /\ person[projecting[v].customer].row \in {v, Committed}
        BY <1>1, <3>1, UnderWay, CustomerIsThere
      <3>3. person'[projecting[v].customer] = person[projecting[v].customer]
        BY <1>5, <1>10, <2>2, <3>2, WorkersAre
      <3> QED
        BY <1>1, <3>1, <3>3 DEF Stands
    <2> QED
      BY <2>1, <2>2
  <1>16. RowsAreTheirs'
    <2> SUFFICES ASSUME NEW c \in CustomerIds, NEW v \in Projections, person'[c].row = v
                 PROVE  projecting'[v] # Resting /\ projecting'[v].created /\ projecting'[v].customer = c
      BY DEF RowsAreTheirs
    <2>1. c # p.customer /\ person[c].row = v
      BY <1>9, <1>10, WorkersAre
    <2>2. projecting[v] # Resting /\ projecting[v].created /\ projecting[v].customer = c
      BY <2>1 DEF CustomersInv, RowsAreTheirs
    <2> QED
      BY <1>11, <2>1, <2>2
  <1>17. IdentifiersAreTheirs'
    <2> SUFFICES ASSUME NEW k \in IdentifierValues, NEW v \in Projections, identifier[k].by = v
                 PROVE  HoldsFor(k, v)'
      BY <1>1 DEF IdentifiersAreTheirs
    <2>1. v # w /\ HoldsFor(k, v)
      BY <1>6 DEF CustomersInv, IdentifiersAreTheirs
    <2> QED
      BY <1>1, <1>11, <2>1 DEF HoldsFor
  <1>18. \A k \in IdentifierValues : Known(k) => person'[identifier[k].customer] = person[identifier[k].customer]
    BY <1>1, <1>14, HoldersAre DEF CustomersInv, CommittedIsWhole, Known
  <1>19. CommittedIsWhole'
    <2>1. \A c \in CustomerIds : person'[c].row = Committed => person[c].row = Committed
      BY <1>9, <1>10 DEF Committed
    <2> QED
      BY <1>1, <1>18, <2>1 DEF CustomersInv, CommittedIsWhole, Known
  <1>20. NamelessIsAskedFor' /\ NamesStay
    BY <1>1, <1>14, <1>18 DEF CustomersInv, NamelessIsAskedFor, NamesStay, Known, findIdByIdentifier, IdentifierValues
  <1> QED
    BY <1>4, <1>13, <1>15, <1>16, <1>17, <1>19, <1>20 DEF CustomersInv

LEMMA LinkKeeps ==
    ASSUME CustomersInv, NEW w \in Projections, linkIdentifier(w)
    PROVE  CustomersInv' /\ NamesStay
  <1> DEFINE p == projecting[w]
             h == HandleOf[p.event.person]
             mine == [customer |-> p.customer, by |-> w]
             takes == BringsHandle(p.event) /\ identifier[h] = Unheld
  <1>1. /\ CustomerTables /\ UNCHANGED <<person, threadOf, engagement, resync>>
        /\ p.stage = "resolved"
        /\ identifier' = IF takes THEN [identifier EXCEPT ![h] = mine] ELSE identifier
        /\ projecting' = [projecting EXCEPT ![w].stage = "linked"]
    BY DEF linkIdentifier, CustomersInv
  <1>2. projecting[w] # Resting
    BY <1>1, StageMeans
  <1>3. /\ p \in OneProjection /\ p.event \in Events /\ p.customer \in CustomerIds
        /\ h \in IdentifierValues /\ p.created \in BOOLEAN /\ KeyOf(p.event) \in IdentifierValues
    BY <1>1, <1>2, UnderWay, KeysAre
  <1>4. ThreadsAreCounted'
    BY <1>1, CountsRest DEF CustomersInv
  <1>5. Stands(w)
    BY <1>2 DEF CustomersInv, EachStands
  <1> HIDE DEF h, mine, takes
  <1>6. /\ mine \in OneHolder
        /\ takes => identifier'[h] = mine /\ identifier[h] = Unheld
        /\ \A k \in IdentifierValues : ~takes \/ k # h => identifier'[k] = identifier[k]
        /\ identifier' \in [IdentifierValues -> {Unheld} \cup OneHolder]
    BY <1>1, <1>3 DEF CustomerTables, OneHolder, mine, takes
  <1>7. /\ projecting'[w] = [p EXCEPT !.stage = "linked"]
        /\ \A v \in Projections \ {w} : projecting'[v] = projecting[v]
        /\ projecting' \in [Projections -> {Resting} \cup OneProjection]
    BY <1>1, <1>3 DEF CustomerTables, OneProjection
  <1>8. /\ projecting'[w] # Resting /\ projecting'[w].stage = "linked" /\ projecting'[w].event = p.event
        /\ projecting'[w].customer = p.customer /\ projecting'[w].created = p.created
    BY <1>3, <1>7 DEF OneProjection, Resting
  <1>9. CustomerTables'
    BY <1>1, <1>6, <1>7 DEF CustomerTables
  <1>10. \A k \in IdentifierValues, c \in CustomerIds, b \in Projections \cup {Committed} :
            identifier[k] = [customer |-> c, by |-> b] => identifier'[k] = identifier[k]
    BY <1>6, CustomersAre DEF Unheld
  <1>11. EachStands'
    <2> SUFFICES ASSUME NEW v \in Projections, projecting'[v] # Resting PROVE Stands(v)'
      BY DEF EachStands
    <2>1. CASE v = w
      BY <1>1, <1>3, <1>5, <1>8, <1>10, <2>1 DEF Stands
    <2>2. CASE v # w
      <3>1. Stands(v) /\ projecting'[v] = projecting[v] /\ projecting[v] # Resting
        BY <1>7, <2>2 DEF CustomersInv, EachStands
      <3>2. /\ KeyOf(projecting[v].event) \in IdentifierValues /\ projecting[v].customer \in CustomerIds
            /\ projecting[v].created \in BOOLEAN
        BY <1>1, <3>1, UnderWay, KeysAre
      <3> QED
        BY <1>1, <1>10, <3>1, <3>2 DEF Stands
    <2> QED
      BY <2>1, <2>2
  <1>12. RowsAreTheirs'
    BY <1>1, <1>7, <1>8 DEF CustomersInv, RowsAreTheirs
  <1>13. IdentifiersAreTheirs'
    <2> SUFFICES ASSUME NEW k \in IdentifierValues, NEW v \in Projections, identifier'[k].by = v
                 PROVE  HoldsFor(k, v)'
      BY DEF IdentifiersAreTheirs
    <2>1. CASE takes /\ k = h
      BY <1>6, <1>8, <2>1 DEF HoldsFor, h, mine
    <2>2. CASE ~takes \/ k # h
      <3>1. HoldsFor(k, v) /\ identifier'[k] = identifier[k]
        BY <1>6, <2>2 DEF CustomersInv, IdentifiersAreTheirs
      <3>2. CASE v = w
        BY <1>1, <1>8, <3>1, <3>2 DEF HoldsFor
      <3>3. CASE v # w
        BY <1>7, <3>1, <3>3 DEF HoldsFor
      <3> QED
        BY <3>2, <3>3
    <2> QED
      BY <2>1, <2>2
  <1>14. \A k \in IdentifierValues : Known(k)' => Known(k) /\ identifier'[k] = identifier[k]
    BY <1>6, WorkersAre DEF Known, mine
  <1>15. CommittedIsWhole'
    BY <1>1, <1>10, <1>14 DEF CustomersInv, CommittedIsWhole
  <1>16. NamelessIsAskedFor' /\ NamesStay
    BY <1>1, <1>14 DEF CustomersInv, NamelessIsAskedFor, NamesStay, findIdByIdentifier, IdentifierValues
  <1> QED
    BY <1>4, <1>9, <1>11, <1>12, <1>13, <1>15, <1>16 DEF CustomersInv

\* What the commit of a worker makes of the rows and of the identifiers.
LEMMA CommitWrites ==
    ASSUME CustomerTables, NEW w \in Projections, projecting[w] # Resting, project(w)
    PROVE  /\ \A c \in CustomerIds :
                 /\ person'[c].row = (IF person[c].row = w THEN Committed ELSE person[c].row)
                 /\ person'[c].createdBy = person[c].createdBy
                 /\ person'[c].name = (IF c = projecting[w].customer /\ BringsName(projecting[w].event)
                                       THEN "known" ELSE person[c].name)
           /\ person' \in [CustomerIds -> CustomerRow]
           /\ \A k \in IdentifierValues :
                 /\ identifier[k].by = w => identifier'[k] = [customer |-> identifier[k].customer, by |-> Committed]
                 /\ identifier[k].by # w => identifier'[k] = identifier[k]
           /\ identifier' \in [IdentifierValues -> {Unheld} \cup OneHolder]
  <1> DEFINE p == projecting[w]
             known == BringsName(p.event)
             after(o) == [person[o] EXCEPT !.name = IF o = p.customer /\ known THEN "known" ELSE @,
                                           !.row = IF @ = w THEN Committed ELSE @]
             held(k) == IF identifier[k].by = w THEN [identifier[k] EXCEPT !.by = Committed] ELSE identifier[k]
  <1>1. /\ person' = [o \in CustomerIds |-> after(o)]
        /\ identifier' = [k \in IdentifierValues |-> held(k)]
    BY DEF project, fillName
  <1>2. ASSUME NEW c \in CustomerIds
        PROVE  /\ after(c) \in CustomerRow
               /\ after(c).row = (IF person[c].row = w THEN Committed ELSE person[c].row)
               /\ after(c).createdBy = person[c].createdBy
               /\ after(c).name = (IF c = p.customer /\ known THEN "known" ELSE person[c].name)
    <2>1. person[c] \in CustomerRow
      BY DEF CustomerTables
    <2> HIDE DEF p, known
    <2> QED
      BY <2>1 DEF CustomerRow
  <1>3. ASSUME NEW k \in IdentifierValues
        PROVE  /\ held(k) \in {Unheld} \cup OneHolder
               /\ identifier[k].by = w => held(k) = [customer |-> identifier[k].customer, by |-> Committed]
               /\ identifier[k].by # w => held(k) = identifier[k]
    <2>1. identifier[k] \in {Unheld} \cup OneHolder /\ (identifier[k].by = w => identifier[k] \in OneHolder)
      BY WorkersAre DEF CustomerTables, Unheld
    <2> QED
      BY <2>1 DEF OneHolder
  <1> HIDE DEF after, held
  <1> QED
    BY <1>1, <1>2, <1>3

LEMMA CommitCounts ==
    ASSUME CustomerTables, ThreadsAreCounted, NEW w \in Projections, projecting[w] # Resting, project(w)
    PROVE  /\ threadOf' \in [ThreadsOfPeople -> [customer : CustomerIds \cup {NoCustomer}, theirs : BOOLEAN]]
           /\ engagement' \in [CustomerIds -> Nat]
           /\ ThreadsAreCounted'
  <1> DEFINE p == projecting[w]
             t == ThreadKey(p.event)
             opened == threadOf[t].customer = NoCustomer
             inbound == p.event.kind # "echo"
  <1>1. /\ p.event \in Events /\ p.customer \in CustomerIds
        /\ t \in ThreadsOfPeople
    <2>1. p.event \in Events /\ p.customer \in CustomerIds
      BY UnderWay
    <2> QED
      BY <2>1 DEF Events, EventKinds, ThreadKey, ThreadsOfPeople
  <1>2. /\ threadOf' = IF opened THEN [threadOf EXCEPT ![t] = [customer |-> p.customer, theirs |-> inbound]]
                       ELSE threadOf
        /\ engagement' = IF inbound THEN recordEngagement(p.customer, opened) ELSE engagement
    BY DEF project
  <1> HIDE DEF t
  <1>0. PICK who \in CustomerIds : who = p.customer
    BY <1>1
  <1>6. PICK place \in ThreadsOfPeople : place = t
    BY <1>1
  <1> HIDE DEF p
  <1>3. CASE opened /\ inbound
    <2>1. threadOf' = [threadOf EXCEPT ![place] = [customer |-> who, theirs |-> TRUE]]
      <3>1. inbound = TRUE
        BY <1>3
      <3> HIDE DEF inbound
      <3> QED
        BY <1>0, <1>2, <1>3, <1>6, <3>1
    <2>2. engagement' = [engagement EXCEPT ![who] = @ + 1]
      BY <1>0, <1>2, <1>3 DEF recordEngagement
    <2>3. OpenedBy(who)' = OpenedBy(who) \cup {place} /\ place \notin OpenedBy(who)
      BY <1>0, <1>3, <1>6, <2>1, CustomersAre DEF OpenedBy, CustomerTables
    <2>4. \A c \in CustomerIds \ {who} : OpenedBy(c)' = OpenedBy(c) /\ engagement'[c] = engagement[c]
      BY <1>0, <1>3, <1>6, <2>1, <2>2, CustomersAre DEF OpenedBy, CustomerTables
    <2>5. /\ IsFiniteSet(OpenedBy(who)) /\ engagement[who] = Cardinality(OpenedBy(who))
          /\ engagement'[who] = engagement[who] + 1
      BY <1>1, <2>2 DEF ThreadsAreCounted, CustomerTables
    <2>6. IsFiniteSet(OpenedBy(who)') /\ engagement'[who] = Cardinality(OpenedBy(who)')
      BY <2>3, <2>5, FS_AddElement
    <2>7. ThreadsAreCounted'
      BY <2>4, <2>6 DEF ThreadsAreCounted
    <2> QED
      BY <1>1, <2>1, <2>2, <2>7 DEF CustomerTables
  <1>4. CASE opened /\ ~inbound
    <2>1. threadOf' = [threadOf EXCEPT ![place] = [customer |-> who, theirs |-> FALSE]]
      <3>1. inbound = FALSE
        BY <1>4
      <3> HIDE DEF inbound
      <3> QED
        BY <1>0, <1>2, <1>4, <1>6, <3>1
    <2>2. engagement' = engagement
      BY <1>2, <1>4
    <2>3. \A c \in CustomerIds : OpenedBy(c)' = OpenedBy(c)
      BY <1>0, <1>4, <1>6, <2>1, CustomersAre DEF OpenedBy, CustomerTables
    <2> QED
      BY <1>1, <2>1, <2>2, <2>3 DEF CustomerTables, ThreadsAreCounted
  <1>5. CASE ~opened
    <2>1. threadOf' = threadOf
      BY <1>2, <1>5
    <2>2. engagement' = engagement
      <3>1. \A c \in CustomerIds : engagement[c] + 0 = engagement[c]
        BY DEF CustomerTables
      <3>2. recordEngagement(p.customer, opened) = [engagement EXCEPT ![who] = @ + 0]
        BY <1>0, <1>5 DEF recordEngagement
      <3>3. [engagement EXCEPT ![who] = @ + 0] = engagement
        BY <1>1, <3>1 DEF CustomerTables
      <3> QED
        BY <1>2, <3>2, <3>3
    <2> QED
      BY <2>1, <2>2, CountsRest DEF CustomerTables
  <1> QED
    BY <1>3, <1>4, <1>5

LEMMA ProjectKeeps ==
    ASSUME CustomersInv, NEW w \in Projections, project(w)
    PROVE  CustomersInv' /\ NamesStay
  <1> DEFINE p == projecting[w]
  <1>1. /\ CustomerTables /\ p.stage = "linked"
        /\ projecting' = [projecting EXCEPT ![w] = Resting]
        /\ resync' = IF AskForName(w) THEN resync \cup {p.event.person} ELSE resync
    BY DEF project, CustomersInv
  <1>2. projecting[w] # Resting
    BY <1>1, StageMeans
  <1>3. /\ p.event \in Events /\ p.customer \in CustomerIds /\ p.created \in BOOLEAN
        /\ KeyOf(p.event) \in IdentifierValues /\ p.event.person \in People
    BY <1>1, <1>2, UnderWay, KeysAre
  <1>4. /\ threadOf' \in [ThreadsOfPeople -> [customer : CustomerIds \cup {NoCustomer}, theirs : BOOLEAN]]
        /\ engagement' \in [CustomerIds -> Nat] /\ ThreadsAreCounted'
    BY <1>1, <1>2, CommitCounts DEF CustomersInv
  <1>5. /\ \A c \in CustomerIds :
              /\ person'[c].row = (IF person[c].row = w THEN Committed ELSE person[c].row)
              /\ person'[c].createdBy = person[c].createdBy
              /\ person'[c].name = (IF c = p.customer /\ BringsName(p.event) THEN "known" ELSE person[c].name)
        /\ person' \in [CustomerIds -> CustomerRow]
        /\ \A k \in IdentifierValues :
              /\ identifier[k].by = w => identifier'[k] = [customer |-> identifier[k].customer, by |-> Committed]
              /\ identifier[k].by # w => identifier'[k] = identifier[k]
        /\ identifier' \in [IdentifierValues -> {Unheld} \cup OneHolder]
    BY <1>1, <1>2, CommitWrites
  <1>6. Stands(w) /\ \A k \in IdentifierValues : identifier[k].by = w => HoldsFor(k, w)
    BY <1>2 DEF CustomersInv, EachStands, IdentifiersAreTheirs
  <1>7. /\ projecting'[w] = Resting /\ \A v \in Projections \ {w} : projecting'[v] = projecting[v]
        /\ projecting' \in [Projections -> {Resting} \cup OneProjection]
    BY <1>1 DEF CustomerTables
  <1>8. CustomerTables'
    BY <1>1, <1>3, <1>4, <1>5, <1>7 DEF CustomerTables
  <1>9. EachStands'
    <2> SUFFICES ASSUME NEW v \in Projections, projecting'[v] # Resting PROVE Stands(v)'
      BY DEF EachStands
    <2>1. v # w /\ Stands(v) /\ projecting'[v] = projecting[v] /\ projecting[v] # Resting
      BY <1>7 DEF CustomersInv, EachStands
    <2>2. /\ KeyOf(projecting[v].event) \in IdentifierValues /\ projecting[v].customer \in CustomerIds
          /\ projecting[v].created \in BOOLEAN
      BY <1>1, <2>1, UnderWay, KeysAre
    <2>3. CASE projecting[v].created
      BY <1>5, <2>1, <2>2, <2>3, WorkersAre DEF Stands
    <2>4. CASE ~projecting[v].created
      BY <1>5, <2>1, <2>2, <2>4, WorkersAre DEF Stands
    <2> QED
      BY <2>2, <2>3, <2>4
  <1>10. \A c \in CustomerIds, v \in Projections : person'[c].row = v => v # w /\ person[c].row = v
    BY <1>5, WorkersAre
  <1>11. RowsAreTheirs'
    BY <1>7, <1>10 DEF CustomersInv, RowsAreTheirs
  <1>12. \A k \in IdentifierValues, v \in Projections :
            identifier'[k].by = v => v # w /\ identifier[k].by = v /\ identifier'[k] = identifier[k]
    BY <1>5, WorkersAre
  <1>13. IdentifiersAreTheirs'
    BY <1>7, <1>12 DEF CustomersInv, IdentifiersAreTheirs, HoldsFor
  <1>14. ASSUME NEW k \in IdentifierValues, Known(k)', ~Known(k)
         PROVE  identifier[k].by = w /\ identifier[k].customer = p.customer /\ identifier'[k].customer = p.customer
    <2>1. identifier[k].by = w
      BY <1>5, <1>14 DEF Known
    <2> QED
      BY <1>5, <1>6, <2>1 DEF HoldsFor
  <1>15. \A k \in IdentifierValues : Known(k) => identifier'[k] = identifier[k] /\ identifier[k].customer \in CustomerIds
    BY <1>1, <1>5, HoldersAre, WorkersAre DEF Known
  <1>16. CommittedIsWhole'
    <2>1. ASSUME NEW k \in IdentifierValues, Known(k)' PROVE person'[identifier'[k].customer].row = Committed
      <3>1. CASE Known(k)
        BY <1>5, <1>15, <3>1 DEF CustomersInv, CommittedIsWhole
      <3>2. CASE ~Known(k)
        <4>1. person[p.customer].row \in {w, Committed}
          BY <1>2, CustomerIsThere
        <4> QED
          BY <1>3, <1>5, <1>14, <2>1, <3>2, <4>1
      <3> QED
        BY <3>1, <3>2
    <2>2. ASSUME NEW c \in CustomerIds, person'[c].row = Committed
          PROVE  \E k \in IdentifierValues : identifier'[k] = [customer |-> c, by |-> Committed]
      <3>1. CASE person[c].row = Committed
        <4>1. PICK k \in IdentifierValues : identifier[k] = [customer |-> c, by |-> Committed]
          BY <3>1 DEF CustomersInv, CommittedIsWhole
        <4>2. identifier'[k] = identifier[k]
          BY <1>5, <4>1, WorkersAre
        <4> QED
          BY <4>1, <4>2
      <3>2. CASE person[c].row = w
        <4>1. p.created /\ p.customer = c
          BY <3>2 DEF CustomersInv, RowsAreTheirs
        <4>2. identifier[KeyOf(p.event)] = [customer |-> c, by |-> w]
          BY <1>1, <1>6, <4>1 DEF Stands
        <4> QED
          BY <1>3, <1>5, <4>2
      <3> QED
        BY <1>5, <2>2, <3>1, <3>2
    <2> QED
      BY <2>1, <2>2 DEF CommittedIsWhole
  <1>17. NamelessIsAskedFor'
    <2> SUFFICES ASSUME NEW q \in People, Known(q)', NEW c, c = identifier'[q].customer,
                        person'[c].createdBy = "message", person'[c].name = "none"
                 PROVE  q \in resync'
      BY DEF NamelessIsAskedFor, findIdByIdentifier
    <2>1. q \in IdentifierValues /\ resync \subseteq resync'
      BY <1>1 DEF IdentifierValues
    <2>2. CASE Known(q)
      <3>1. c \in CustomerIds /\ c = identifier[q].customer
        BY <1>15, <2>1, <2>2
      <3>2. person[c].createdBy = "message" /\ person[c].name = "none"
        BY <1>5, <3>1
      <3> QED
        BY <2>1, <2>2, <3>1, <3>2 DEF CustomersInv, NamelessIsAskedFor, findIdByIdentifier
    <2>3. CASE ~Known(q)
      <3>1. identifier[q].by = w /\ c = p.customer /\ HoldsFor(q, w)
        BY <1>6, <1>14, <2>1, <2>3
      <3>2. q = KeyOf(p.event) /\ q = p.event.person
        BY <1>3, <3>1, KeysAre DEF HoldsFor
      <3>3. p.created
        BY <1>3, <1>6, <3>1, <3>2, WorkersAre DEF Stands
      <3>4. p.event.kind = "message" /\ ~BringsName(p.event)
        BY <1>3, <1>5, <1>6, <3>1, <3>3 DEF Stands
      <3>5. AskForName(w)
        BY <3>3, <3>4 DEF AskForName, BringsName
      <3> QED
        BY <1>1, <3>2, <3>5
    <2> QED
      BY <2>2, <2>3
  <1>18. NamesStay
    BY <1>5 DEF NamesStay
  <1> QED
    BY <1>4, <1>8, <1>9, <1>11, <1>13, <1>16, <1>17, <1>18 DEF CustomersInv

LEMMA RollBackKeeps ==
    ASSUME CustomersInv, NEW w \in Projections, RollBack(w)
    PROVE  CustomersInv' /\ NamesStay
  <1> DEFINE gone == [Unused EXCEPT !.row = "gone"]
  <1>1. /\ CustomerTables /\ UNCHANGED <<threadOf, engagement, resync>> /\ projecting[w] # Resting
        /\ person' = [c \in CustomerIds |-> IF person[c].row = w THEN gone ELSE person[c]]
        /\ identifier' = [k \in IdentifierValues |-> IF identifier[k].by = w THEN Unheld ELSE identifier[k]]
        /\ projecting' = [projecting EXCEPT ![w] = Resting]
    BY DEF RollBack, CustomersInv
  <1>2. ThreadsAreCounted'
    BY <1>1, CountsRest DEF CustomersInv
  <1>3. gone \in CustomerRow /\ gone.row = "gone"
    BY DEF Unused, CustomerRow
  <1> HIDE DEF gone
  <1>4. /\ \A c \in CustomerIds :
              /\ person[c].row = w => person'[c] = gone
              /\ person[c].row # w => person'[c] = person[c]
        /\ person' \in [CustomerIds -> CustomerRow]
    BY <1>1, <1>3 DEF CustomerTables
  <1>5. /\ \A k \in IdentifierValues :
              /\ identifier[k].by = w => identifier'[k] = Unheld
              /\ identifier[k].by # w => identifier'[k] = identifier[k]
        /\ identifier' \in [IdentifierValues -> {Unheld} \cup OneHolder]
    BY <1>1 DEF CustomerTables
  <1>6. /\ projecting'[w] = Resting /\ \A v \in Projections \ {w} : projecting'[v] = projecting[v]
        /\ projecting' \in [Projections -> {Resting} \cup OneProjection]
    BY <1>1 DEF CustomerTables
  <1>7. CustomerTables'
    BY <1>1, <1>4, <1>5, <1>6 DEF CustomerTables
  <1>8. EachStands'
    <2> SUFFICES ASSUME NEW v \in Projections, projecting'[v] # Resting PROVE Stands(v)'
      BY DEF EachStands
    <2>1. v # w /\ Stands(v) /\ projecting'[v] = projecting[v] /\ projecting[v] # Resting
      BY <1>6 DEF CustomersInv, EachStands
    <2>2. /\ KeyOf(projecting[v].event) \in IdentifierValues /\ projecting[v].customer \in CustomerIds
          /\ projecting[v].created \in BOOLEAN
      BY <1>1, <2>1, UnderWay, KeysAre
    <2>3. person[projecting[v].customer].row \in {v, Committed}
      BY <2>1, CustomerIsThere
    <2>4. person'[projecting[v].customer] = person[projecting[v].customer]
      BY <1>4, <2>1, <2>2, <2>3, WorkersAre
    <2> QED
      BY <1>5, <2>1, <2>2, <2>4, WorkersAre DEF Stands
  <1>9. \A c \in CustomerIds, v \in Projections : person'[c].row = v => v # w /\ person[c].row = v
    BY <1>3, <1>4, WorkersAre
  <1>10. RowsAreTheirs'
    BY <1>6, <1>9 DEF CustomersInv, RowsAreTheirs
  <1>11. \A k \in IdentifierValues, v \in Projections :
            identifier'[k].by = v => v # w /\ identifier[k].by = v /\ identifier'[k] = identifier[k]
    BY <1>5, WorkersAre DEF Unheld
  <1>12. IdentifiersAreTheirs'
    BY <1>6, <1>11 DEF CustomersInv, IdentifiersAreTheirs, HoldsFor
  <1>13. \A k \in IdentifierValues :
            Known(k)' => /\ Known(k) /\ identifier'[k] = identifier[k] /\ identifier[k].customer \in CustomerIds
                         /\ person[identifier[k].customer].row = Committed
                         /\ person'[identifier[k].customer] = person[identifier[k].customer]
    <2> SUFFICES ASSUME NEW k \in IdentifierValues, Known(k)'
                 PROVE  /\ Known(k) /\ identifier'[k] = identifier[k] /\ identifier[k].customer \in CustomerIds
                        /\ person[identifier[k].customer].row = Committed
                        /\ person'[identifier[k].customer] = person[identifier[k].customer]
      OBVIOUS
    <2>1. Known(k) /\ identifier'[k] = identifier[k]
      BY <1>5 DEF Known, Unheld
    <2>2. identifier[k].customer \in CustomerIds
      BY <1>1, <2>1, HoldersAre DEF Known
    <2>3. person[identifier[k].customer].row = Committed
      BY <2>1 DEF CustomersInv, CommittedIsWhole
    <2> QED
      BY <1>4, <2>1, <2>2, <2>3, WorkersAre
  <1>14. CommittedIsWhole'
    <2>1. ASSUME NEW c \in CustomerIds, person'[c].row = Committed
          PROVE  \E k \in IdentifierValues : identifier'[k] = [customer |-> c, by |-> Committed]
      <3>1. person[c].row = Committed
        BY <1>3, <1>4, <2>1 DEF Committed
      <3>2. PICK k \in IdentifierValues : identifier[k] = [customer |-> c, by |-> Committed]
        BY <3>1 DEF CustomersInv, CommittedIsWhole
      <3> QED
        BY <1>5, <3>2, WorkersAre
    <2> QED
      BY <1>13, <2>1 DEF CommittedIsWhole
  <1>15. NamelessIsAskedFor'
    <2> SUFFICES ASSUME NEW q \in People, Known(q)', NEW c, c = identifier'[q].customer,
                        person'[c].createdBy = "message", person'[c].name = "none"
                 PROVE  q \in resync'
      BY DEF NamelessIsAskedFor, findIdByIdentifier
    <2>1. Known(q) /\ c = identifier[q].customer /\ person'[c] = person[c]
      BY <1>13 DEF IdentifierValues
    <2> QED
      BY <1>1, <2>1 DEF CustomersInv, NamelessIsAskedFor, findIdByIdentifier
  <1>16. NamesStay
    BY <1>4, WorkersAre DEF NamesStay
  <1> QED
    BY <1>2, <1>7, <1>8, <1>10, <1>12, <1>14, <1>15, <1>16 DEF CustomersInv

\* A step outside a projection: it fills rows that are there without taking a
\* name, and binds what is free to what is committed.
LEMMA EnrichmentKeeps ==
    ASSUME CustomersInv, UNCHANGED <<threadOf, engagement, projecting>>, resync' \in SUBSET People,
           person' \in [CustomerIds -> CustomerRow],
           \A c \in CustomerIds :
              /\ person'[c].row = person[c].row /\ person'[c].createdBy = person[c].createdBy
              /\ person[c].name = "known" => person'[c].name = "known",
           identifier' \in [IdentifierValues -> {Unheld} \cup OneHolder],
           \A k \in IdentifierValues :
              \/ identifier'[k] = identifier[k]
              \/ /\ identifier[k] = Unheld /\ k \notin People
                 /\ identifier'[k].by = Committed /\ person[identifier'[k].customer].row = Committed,
           \A p \in People, c \in CustomerIds :
              p \in resync \ resync' /\ c = identifier[p].customer /\ Known(p) => person'[c].name = "known"
    PROVE  CustomersInv' /\ NamesStay
  <1>1. CustomerTables
    BY DEF CustomersInv
  <1>2. CustomerTables'
    BY <1>1 DEF CustomerTables
  <1>3. EachStands'
    <2> SUFFICES ASSUME NEW v \in Projections, projecting[v] # Resting PROVE Stands(v)'
      BY DEF EachStands
    <2>1. /\ Stands(v) /\ projecting[v].customer \in CustomerIds /\ projecting[v].created \in BOOLEAN
          /\ KeyOf(projecting[v].event) \in IdentifierValues
      BY <1>1, UnderWay, KeysAre DEF CustomersInv, EachStands
    <2>2. identifier[KeyOf(projecting[v].event)] = Unheld => projecting[v].created /\ projecting[v].stage = "creating"
      BY <2>1, CustomersAre DEF Stands, Unheld
    <2> QED
      BY <2>1, <2>2 DEF Stands
  <1>4. RowsAreTheirs'
    BY DEF CustomersInv, RowsAreTheirs
  <1>5. IdentifiersAreTheirs'
    <2>1. \A k \in IdentifierValues, v \in Projections : identifier'[k].by = v => identifier'[k] = identifier[k]
      BY WorkersAre
    <2> QED
      BY <2>1 DEF CustomersInv, IdentifiersAreTheirs, HoldsFor
  <1>6. CommittedIsWhole'
    <2>1. ASSUME NEW k \in IdentifierValues, Known(k)' PROVE person'[identifier'[k].customer].row = Committed
      <3>1. identifier'[k].customer \in CustomerIds
        BY <1>2, <2>1 DEF CustomerTables, Known, OneHolder, Unheld
      <3>2. CASE identifier'[k] = identifier[k]
        BY <2>1, <3>1, <3>2 DEF CustomersInv, CommittedIsWhole, Known
      <3> QED
        BY <3>1, <3>2
    <2>2. ASSUME NEW c \in CustomerIds, person'[c].row = Committed
          PROVE  \E k \in IdentifierValues : identifier'[k] = [customer |-> c, by |-> Committed]
      <3>1. PICK k \in IdentifierValues : identifier[k] = [customer |-> c, by |-> Committed]
        BY <2>2 DEF CustomersInv, CommittedIsWhole
      <3>2. identifier[k] # Unheld
        BY <3>1, CustomersAre DEF Unheld
      <3> QED
        BY <3>1, <3>2
    <2> QED
      BY <2>1, <2>2 DEF CommittedIsWhole
  <1>7. ThreadsAreCounted'
    BY CountsRest DEF CustomersInv
  <1>8. NamelessIsAskedFor'
    <2> SUFFICES ASSUME NEW q \in People, Known(q)', NEW c, c = identifier'[q].customer,
                        person'[c].createdBy = "message", person'[c].name = "none"
                 PROVE  q \in resync'
      BY DEF NamelessIsAskedFor, findIdByIdentifier
    <2>1. q \in IdentifierValues /\ identifier'[q] = identifier[q] /\ Known(q)
      BY DEF IdentifierValues, Known
    <2>2. c \in CustomerIds
      BY <1>1, <2>1, HoldersAre DEF Known
    <2>3. person[c].createdBy = "message" /\ person[c].name = "none"
      BY <1>1, <2>2 DEF CustomerTables, CustomerRow
    <2>4. q \in resync
      BY <2>1, <2>3 DEF CustomersInv, NamelessIsAskedFor, findIdByIdentifier
    <2> QED
      BY <2>1, <2>2, <2>4
  <1> QED
    BY <1>2, <1>3, <1>4, <1>5, <1>6, <1>7, <1>8 DEF CustomersInv, NamesStay

LEMMA KnownPerson ==
    ASSUME CustomersInv, NEW q \in People, Known(q)
    PROVE  findIdByIdentifier(q) \in CustomerIds /\ person[findIdByIdentifier(q)].row = Committed
  BY HoldersAre DEF CustomersInv, CommittedIsWhole, Known, findIdByIdentifier, IdentifierValues

LEMMA NameKeeps ==
    ASSUME CustomersInv, NEW q \in People, nameByIdentifier(q)
    PROVE  CustomersInv' /\ NamesStay
  <1> DEFINE n == findIdByIdentifier(q)
             h == HandleOf[q]
             holder == [customer |-> n, by |-> Committed]
  <1>1. /\ CustomerTables /\ UNCHANGED <<threadOf, engagement, projecting>>
        /\ resync' = resync \ {q} /\ Known(q)
        /\ person' = [person EXCEPT ![n].name = "known"]
        /\ identifier' = IF identifier[h] = Unheld THEN [identifier EXCEPT ![h] = holder] ELSE identifier
    BY DEF nameByIdentifier, CustomersInv
  <1>2. n \in CustomerIds /\ person[n].row = Committed
    BY <1>1, KnownPerson
  <1>3. h \in IdentifierValues /\ h \notin People
    BY CustomersAssumption DEF CustomersAssumption, IdentifierValues
  <1>4. n = identifier[q].customer
    BY DEF findIdByIdentifier
  <1> HIDE DEF n, h
  <1>5. holder \in OneHolder /\ holder.by = Committed /\ holder.customer = n
    BY <1>2 DEF OneHolder
  <1> HIDE DEF holder
  <1>6. /\ identifier' \in [IdentifierValues -> {Unheld} \cup OneHolder]
        /\ \A k \in IdentifierValues :
              identifier'[k] = identifier[k] \/ (k = h /\ identifier[k] = Unheld /\ identifier'[k] = holder)
    BY <1>1, <1>3, <1>5 DEF CustomerTables
  <1>7. /\ person' \in [CustomerIds -> CustomerRow] /\ person'[n].name = "known"
        /\ \A c \in CustomerIds :
              /\ person'[c].row = person[c].row /\ person'[c].createdBy = person[c].createdBy
              /\ person[c].name = "known" => person'[c].name = "known"
    BY <1>1, <1>2 DEF CustomerTables, CustomerRow
  <1>8. resync' \in SUBSET People
    BY <1>1 DEF CustomerTables
  <1>9. \A k \in IdentifierValues :
           \/ identifier'[k] = identifier[k]
           \/ /\ identifier[k] = Unheld /\ k \notin People
              /\ identifier'[k].by = Committed /\ person[identifier'[k].customer].row = Committed
    BY <1>2, <1>3, <1>5, <1>6
  <1>10. \A p \in People, c \in CustomerIds :
            p \in resync \ resync' /\ c = identifier[p].customer /\ Known(p) => person'[c].name = "known"
    BY <1>1, <1>4, <1>7
  <1> QED
    BY <1>1, <1>6, <1>7, <1>8, <1>9, <1>10, EnrichmentKeeps

LEMMA PictureKeeps ==
    ASSUME CustomersInv, NEW c \in CustomerIds, NEW s \in {"fresh", "old"},
           person' = [person EXCEPT ![c].picture = s],
           UNCHANGED <<identifier, threadOf, engagement, resync, projecting>>
    PROVE  CustomersInv' /\ NamesStay
  <1>1. CustomerTables
    BY DEF CustomersInv
  <1>2. /\ person' \in [CustomerIds -> CustomerRow]
        /\ \A o \in CustomerIds :
              /\ person'[o].row = person[o].row /\ person'[o].createdBy = person[o].createdBy
              /\ person[o].name = "known" => person'[o].name = "known"
    BY <1>1 DEF CustomerTables, CustomerRow
  <1>3. /\ identifier' \in [IdentifierValues -> {Unheld} \cup OneHolder] /\ resync' \in SUBSET People
        /\ \A k \in IdentifierValues : identifier'[k] = identifier[k]
        /\ resync \ resync' = {}
    BY <1>1 DEF CustomerTables
  <1> QED
    BY <1>2, <1>3, EnrichmentKeeps

LEMMA AvatarKeeps ==
    ASSUME CustomersInv, NEW q \in People, NEW picture \in {"none", "fresh"}, withFreshCustomerAvatar(q, picture)
    PROVE  CustomersInv' /\ NamesStay
  <1> DEFINE n == findIdByIdentifier(q)
  <1>1. /\ CustomerTables /\ UNCHANGED <<identifier, threadOf, engagement, resync, projecting>>
        /\ Known(q) /\ picture = "fresh"
        /\ person' = applyPlatformProfile(n, "none", "fresh")
    BY DEF withFreshCustomerAvatar, CustomersInv
  <1>2. n \in CustomerIds
    BY <1>1, KnownPerson
  <1> HIDE DEF n
  <1>3. person' = [person EXCEPT ![n].picture = "fresh"]
    BY <1>1, <1>2 DEF applyPlatformProfile, CustomerTables, CustomerRow
  <1> QED
    BY <1>1, <1>2, <1>3, PictureKeeps

LEMMA CustomersStep == CustomersInv /\ [CustomersNext]_customerVars => CustomersInv' /\ NamesStay
  <1> SUFFICES ASSUME CustomersInv, [CustomersNext]_customerVars PROVE CustomersInv' /\ NamesStay
    OBVIOUS
  <1>1. ASSUME NEW w \in Projections, NEW e \in Events, resolveOrCreate(w, e) PROVE CustomersInv' /\ NamesStay
    BY <1>1, ResolveKeeps
  <1>2. ASSUME NEW w \in Projections,
               insertIdentifier(w) \/ adoptWinner(w) \/ linkIdentifier(w) \/ project(w) \/ RollBack(w)
        PROVE  CustomersInv' /\ NamesStay
    BY <1>2, InsertKeeps, AdoptKeeps, LinkKeeps, ProjectKeeps, RollBackKeeps
  <1>3. ASSUME NEW p \in People,
               nameByIdentifier(p) \/ \E picture \in {"none", "fresh"} : withFreshCustomerAvatar(p, picture)
        PROVE  CustomersInv' /\ NamesStay
    BY <1>3, NameKeeps, AvatarKeeps
  <1>4. ASSUME NEW c \in CustomerIds, PictureExpires(c) PROVE CustomersInv' /\ NamesStay
    BY <1>4, PictureKeeps DEF PictureExpires
  <1>5. CASE UNCHANGED customerVars
    <2>1. /\ CustomerTables /\ UNCHANGED <<person, identifier, threadOf, engagement, resync, projecting>>
      BY <1>5 DEF CustomersInv, customerVars
    <2>2. resync' \in SUBSET People /\ person' \in [CustomerIds -> CustomerRow]
          /\ identifier' \in [IdentifierValues -> {Unheld} \cup OneHolder] /\ resync \ resync' = {}
      BY <2>1 DEF CustomerTables
    <2> QED
      BY <2>1, <2>2, EnrichmentKeeps
  <1> QED
    BY <1>1, <1>2, <1>3, <1>4, <1>5 DEF CustomersNext

\* The invariant gives what others may rely on: a waiting worker that has not
\* linked yet holds its identity only, which is no handle.
LEMMA NoTwoWait ==
    ASSUME CustomersInv
    PROVE  NoWaitingCycle
  <1> SUFFICES ASSUME NEW w \in Projections, NEW v \in Projections, WaitsFor(w, v), WaitsFor(v, w) PROVE FALSE
    BY DEF NoWaitingCycle
  <1>1. ASSUME NEW a \in Projections, NEW b \in Projections, WaitsFor(a, b), WaitsFor(b, a)
        PROVE  /\ projecting[b] # Resting /\ projecting[b].stage = "resolved"
               /\ BringsHandle(projecting[b].event)
               /\ projecting[a].stage = "creating" =>
                     identifier[KeyOf(projecting[a].event)].by = b
               /\ projecting[a].stage # "creating" =>
                     /\ projecting[a].stage = "resolved"
                     /\ identifier[HandleOf[projecting[a].event.person]].by = b
    <2>1. projecting[a] # Resting /\ projecting[b] # Resting
      BY <1>1, StageMeans DEF WaitsFor
    <2>2. /\ KeyOf(projecting[a].event) \in IdentifierValues
          /\ HandleOf[projecting[a].event.person] \in IdentifierValues
      BY <2>1, UnderWay, KeysAre DEF CustomersInv
    <2>3. \E k \in IdentifierValues : identifier[k].by = b
      BY <1>1, <2>2 DEF WaitsFor
    <2>4. projecting[b].stage # "creating"
      BY <2>3 DEF CustomersInv, IdentifiersAreTheirs, HoldsFor
    <2> QED
      BY <1>1, <2>1, <2>4 DEF WaitsFor
  <1>2. /\ projecting[w] # Resting /\ projecting[w].stage = "resolved"
        /\ projecting[v] # Resting /\ projecting[v].stage = "resolved" /\ BringsHandle(projecting[v].event)
        /\ identifier[HandleOf[projecting[w].event.person]].by = v
    BY <1>1
  <1> DEFINE h == HandleOf[projecting[w].event.person]
  <1>3. h \in IdentifierValues /\ h \in Handles
    BY <1>2, UnderWay, KeysAre, CustomersAssumption DEF CustomersInv, CustomersAssumption
  <1>4. h = KeyOf(projecting[v].event)
    BY <1>2, <1>3 DEF CustomersInv, IdentifiersAreTheirs, HoldsFor
  <1>5. KeyOf(projecting[v].event) \in People
    BY <1>2, UnderWay, KeysAre DEF CustomersInv, KeyOf, BringsHandle
  <1> QED
    BY <1>3, <1>4, <1>5, CustomersAssumption DEF CustomersAssumption

LEMMA CustomersInvGives ==
    CustomersInv => CustomersAreWhole /\ EngagementCountsThreads /\ NamelessIsAskedFor
  <1> SUFFICES ASSUME CustomersInv PROVE CustomersAreWhole /\ EngagementCountsThreads /\ NamelessIsAskedFor
    OBVIOUS
  <1>1. NoOrphanCustomer
    <2>1. ASSUME NEW c \in CustomerIds, person[c].row = Committed
          PROVE  \E k \in IdentifierValues : identifier[k].customer = c
      <3>1. PICK k \in IdentifierValues : identifier[k] = [customer |-> c, by |-> Committed]
        BY <2>1 DEF CustomersInv, CommittedIsWhole
      <3>2. identifier[k].customer = c
        BY <3>1
      <3> QED
        BY <3>2
    <2> QED
      BY <2>1 DEF CustomersInv, CommittedIsWhole, NoOrphanCustomer
  <1>2. ResolvedCustomerStays
    BY CustomerIsThere, StageMeans DEF ResolvedCustomerStays
  <1>3. EngagementCountsThreads
    BY DEF CustomersInv, ThreadsAreCounted, EngagementCountsThreads, OpenedBy
  <1> QED
    BY <1>1, <1>2, <1>3, NoTwoWait DEF CustomersInv, CustomersAreWhole

\* OnePersonOneCustomer for any number of workers, people and handles, two of
\* whom may have used the same one (CustomerRepository.resolveOrCreate,
\* discardOrphan, linkIdentifier, recordEngagement).
THEOREM PeopleAreOneCustomer == CustomersSpec => OnePersonOneCustomer
  <1>1. CustomersSpec => []CustomersInv
    BY CustomersStart, CustomersStep, PTL DEF CustomersSpec
  <1>2. CustomersInv /\ [CustomersNext]_customerVars =>
           [\A c \in CustomerIds : (person[c].row = Committed /\ person[c].name = "known")
                                       => person'[c].name = "known"]_customerVars
    BY CustomersStep DEF NamesStay
  <1> QED
    BY <1>1, <1>2, CustomersInvGives, PTL DEF CustomersSpec, OnePersonOneCustomer, NamesAreKept

=============================================================================
