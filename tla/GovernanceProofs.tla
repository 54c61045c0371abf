--------------------------- MODULE GovernanceProofs ---------------------------
(***************************************************************************)
(* A business keeps an active owner, and authority in it comes from owners; *)
(* the platform keeps an active admin, and what its admins decide follows   *)
(* the documented machines; a page has one connection in a business, and    *)
(* nothing usable is left of a closed one: for any number of people, roles, *)
(* permissions, features, pages, and decisions and callbacks in flight.     *)
(***************************************************************************)
EXTENDS Staffing, Tenancy, Connections, Aggregates

-----------------------------------------------------------------------------
\* Max is what its name says.
LEMMA Greatest ==
    ASSUME NEW n \in Nat, NEW S \in SUBSET (0 .. n), S # {}
    PROVE  Max(S) \in S /\ \A y \in S : y <= Max(S)
  <1>1. \A y \in S : y \in Nat
    OBVIOUS
  <1>2. \E x \in S : \A y \in S : x >= y
    BY <1>1, GreatestNumber
  <1>3. Max(S) \in S /\ \A y \in S : Max(S) >= y
    BY <1>2 DEF Max
  <1> QED
    BY <1>1, <1>3

-----------------------------------------------------------------------------
(* The invariant.                                                            *)

ActiveOwner(e) == employee[e].status = "active" /\ Owner \in holds[e]

\* What a request asks for was checked when it was read, against tables that
\* others may have changed since.  These checks do not grow stale: permissions
\* once released and invitations once accepted stay so.
Asked(q) ==
    /\ q.op \in {"create", "update"} =>
          /\ q.role \in CustomRoles /\ q.level \in CreatableLevels
          /\ q.perms \in SUBSET Permissions
          /\ q.owner \/ q.perms \subseteq released
    /\ q.op = "archive" => q.role \in CustomRoles
    /\ q.op = "setRoles" => q.target \in Employees /\ q.roles \in SUBSET Roles
    /\ q.op = "invite" => q.target \in Employees /\ q.role \in Roles
    /\ q.op = "setStatus" =>
          /\ q.target \in Employees /\ q.to \in {"active", "suspended"}
          /\ q.to = "active" => employee[q.target].joined

\* A request that has counted the owners holds their lock, and the other owner
\* it counted is still there.
Counted(a) ==
    request[a].op = "counted" =>
        /\ ownerLock = a
        /\ request[a].what.op \in {"setRoles", "setStatus"}
        /\ Asked(request[a].what)
        /\ \E o \in Employees \ {request[a].what.target} : ActiveOwner(o)

Tables ==
    /\ employee \in [Employees -> EmployeeType]
    /\ role \in [Roles -> RoleType]
    /\ holds \in [Employees -> SUBSET Roles]
    /\ request = [e \in Employees |-> request[e]]
    /\ ownerLock \in Employees \cup {Nobody}
    /\ released \subseteq Permissions

RolesOK ==
    /\ role[Owner].status = "active"
    /\ \A r \in Roles \ {Owner} : role[r].perms \subseteq released

EmploymentOK ==
    \A e \in Employees :
        /\ employee[e].status = "active" => employee[e].joined
        /\ employee[e].joined => employee[e].status # "none"

StaffingInv ==
    /\ Tables /\ RolesOK /\ EmploymentOK
    /\ \E e \in Employees : ActiveOwner(e)
    /\ \A a \in Employees : Asked(request[a]) /\ Counted(a)

LEMMA OwnerIsRole == Owner \in Roles /\ SystemRoles \subseteq Roles /\ CustomRoles \subseteq Roles
                     /\ Owner \notin CustomRoles
  BY StaffingAssumption DEF StaffingAssumption, Roles, SystemRoles

LEMMA OwnersAreListed ==
    ASSUME StaffingInv, NEW e \in Employees
    PROVE  /\ IsOwner(e) <=> Owner \in holds[e]
           /\ Owner \in listRoleNamesForEmployee(e) <=> Owner \in holds[e]
  BY DEF StaffingInv, RolesOK, IsOwner, listRoleNamesForEmployee

\* What somebody below Owner may do was released by an owner.
LEMMA CodesAreReleased ==
    ASSUME StaffingInv, NEW e \in Employees
    PROVE  /\ authorityOfEmployee(e).codes \subseteq Permissions
           /\ ~IsOwner(e) => authorityOfEmployee(e).codes \subseteq released
  <1>1. authorityOfEmployee(e).codes = UNION {role[r].perms : r \in listRoleNamesForEmployee(e)}
    BY DEF authorityOfEmployee
  <1>2. ASSUME NEW r \in listRoleNamesForEmployee(e)
        PROVE  /\ r \in Roles /\ role[r].perms \subseteq Permissions
               /\ ~IsOwner(e) => r # Owner
    BY <1>2 DEF listRoleNamesForEmployee, StaffingInv, Tables, RoleType, IsOwner
  <1>3. ~IsOwner(e) => \A r \in listRoleNamesForEmployee(e) : role[r].perms \subseteq released
    BY <1>2 DEF StaffingInv, RolesOK
  <1> QED
    BY <1>1, <1>2, <1>3

-----------------------------------------------------------------------------
(* What every step has to show.                                              *)

\* Nothing a request was granted on is taken back.
Steady ==
    /\ released \subseteq released'
    /\ \A e \in Employees : employee[e].joined => employee'[e].joined

LEMMA AskedStays ==
    ASSUME Steady, NEW q, Asked(q) PROVE Asked(q)'
  BY DEF Steady, Asked

\* A step of a request that has not counted leaves every owner where it was.
LEMMA OwnersKept ==
    ASSUME StaffingInv, Steady, NEW a \in Employees, NEW q,
           request' = [request EXCEPT ![a] = q], request[a].op # "counted", q.op # "counted",
           Asked(q)', ownerLock' = ownerLock,
           \A e \in Employees : ActiveOwner(e) => ActiveOwner(e)'
    PROVE  /\ (\E e \in Employees : ActiveOwner(e))'
           /\ \A b \in Employees : Asked(request[b])' /\ Counted(b)'
           /\ request' = [e \in Employees |-> request'[e]]
  <1>1. request = [e \in Employees |-> request[e]]
    BY DEF StaffingInv, Tables
  <1>2. /\ request' = [e \in Employees |-> request'[e]]
        /\ request'[a] = q /\ \A b \in Employees \ {a} : request'[b] = request[b]
    BY <1>1
  <1>3. (\E e \in Employees : ActiveOwner(e))'
    BY DEF StaffingInv
  <1>4. ASSUME NEW b \in Employees PROVE Asked(request[b])' /\ Counted(b)'
    <2>1. CASE b = a
      BY <1>2, <2>1 DEF Counted
    <2>2. CASE b # a
      <3>1. request'[b] = request[b] /\ Asked(request[b]) /\ Counted(b)
        BY <1>2, <2>2 DEF StaffingInv
      <3>2. Asked(request[b])'
        BY <3>1, AskedStays DEF Asked, Steady
      <3>3. Counted(b)'
        <4>1. Asked(request[b].what) => (Asked(request[b].what))'
          BY <3>1 DEF Asked, Steady
        <4> QED
          BY <3>1, <4>1 DEF Counted
      <3> QED
        BY <3>2, <3>3
    <2> QED
      BY <2>1, <2>2
  <1> QED
    BY <1>2, <1>3, <1>4

\* One that has counted takes away nobody but its target, and it was alone.
LEMMA OwnersLeft ==
    ASSUME StaffingInv, Steady, NEW a \in Employees, request[a].op = "counted",
           request' = [request EXCEPT ![a] = Idle], ownerLock' = Nobody,
           \A e \in Employees \ {request[a].what.target} : ActiveOwner(e) => ActiveOwner(e)'
    PROVE  /\ (\E e \in Employees : ActiveOwner(e))'
           /\ \A b \in Employees : Asked(request[b])' /\ Counted(b)'
           /\ request' = [e \in Employees |-> request'[e]]
  <1>1. request = [e \in Employees |-> request[e]] /\ Counted(a)
    BY DEF StaffingInv, Tables
  <1>2. /\ request' = [e \in Employees |-> request'[e]]
        /\ request'[a] = Idle /\ \A b \in Employees \ {a} : request'[b] = request[b]
    BY <1>1
  <1>3. (\E e \in Employees : ActiveOwner(e))'
    BY <1>1 DEF Counted
  <1>4. ASSUME NEW b \in Employees PROVE Asked(request[b])' /\ Counted(b)'
    <2>1. CASE b = a
      BY <1>2, <2>1 DEF Counted, Asked, Idle
    <2>2. CASE b # a
      <3>1. request'[b] = request[b] /\ Asked(request[b]) /\ Counted(b)
        BY <1>2, <2>2 DEF StaffingInv
      <3>2. Asked(request[b])'
        BY <3>1 DEF Asked, Steady
      <3>3. request[b].op # "counted"
        BY <1>1, <2>2, <3>1 DEF Counted
      <3> QED
        BY <3>1, <3>2, <3>3 DEF Counted
    <2> QED
      BY <2>1, <2>2
  <1> QED
    BY <1>2, <1>3, <1>4

-----------------------------------------------------------------------------
(* First steps.                                                              *)

LEMMA ReadsKeep ==
    ASSUME StaffingInv, NEW a \in Employees, NEW q, request[a].op # "counted",
           Reads(a, q), Asked(q), q.op # "counted"
    PROVE  StaffingInv'
  <1>1. /\ request' = [request EXCEPT ![a] = q]
        /\ employee' = employee /\ role' = role /\ holds' = holds
        /\ ownerLock' = ownerLock /\ released' = released
    BY DEF Reads
  <1>2. Steady
    BY <1>1 DEF Steady
  <1>3. Asked(q)'
    BY <1>2, AskedStays
  <1>4. \A e \in Employees : ActiveOwner(e) => ActiveOwner(e)'
    BY <1>1 DEF ActiveOwner
  <1>5. /\ (\E e \in Employees : ActiveOwner(e))'
        /\ \A b \in Employees : Asked(request[b])' /\ Counted(b)'
        /\ request' = [e \in Employees |-> request'[e]]
    BY <1>1, <1>2, <1>3, <1>4, OwnersKept
  <1> QED
    BY <1>1, <1>5 DEF StaffingInv, Tables, RolesOK, EmploymentOK

\* A role is given only what its author holds.
LEMMA DefinedFromCodes ==
    ASSUME StaffingInv, NEW a \in Employees, NEW r \in CustomRoles, NEW level \in CreatableLevels,
           NEW perms \in SUBSET Permissions, mayDefineRole(authorityOfEmployee(a), r, level, perms),
           NEW op \in {"create", "update"},
           NEW q, q = [op |-> op, role |-> r, level |-> level, perms |-> perms,
                       owner |-> IsOwner(a)]
    PROVE  Asked(q) /\ q.op # "counted"
  <1>1. perms \subseteq authorityOfEmployee(a).codes
    BY DEF mayDefineRole
  <1>2. IsOwner(a) \/ perms \subseteq released
    BY <1>1, CodesAreReleased
  <1>3. /\ q.op = op /\ q.role = r /\ q.level = level /\ q.perms = perms
        /\ q.owner = IsOwner(a)
    OBVIOUS
  <1> QED
    BY <1>2, <1>3 DEF Asked

LEMMA FirstStepKeeps ==
    ASSUME StaffingInv, NEW a \in Employees,
           \/ \E r \in CustomRoles, level \in CreatableLevels, perms \in SUBSET Permissions :
                 CreateRole(a, r, level, perms) \/ UpdateRole(a, r, level, perms)
           \/ \E r \in CustomRoles : ArchiveRole(a, r)
           \/ \E t \in Employees, roles \in (SUBSET Roles) \ {{}} : SetEmployeeRoles(a, t, roles)
           \/ \E t \in Employees, r \in Roles : Invite(a, t, r)
           \/ \E t \in Employees, to \in {"active", "suspended"} : SetStatus(a, t, to)
    PROVE  StaffingInv'
  <1>1. request[a].op # "counted"
    <2>1. request[a] = Idle
      BY DEF CreateRole, UpdateRole, ArchiveRole, SetEmployeeRoles, Invite, SetStatus, Arrives
    <2> QED
      BY <2>1 DEF Idle
  <1>2. ASSUME NEW r \in CustomRoles, NEW level \in CreatableLevels, NEW perms \in SUBSET Permissions,
               CreateRole(a, r, level, perms)
        PROVE  StaffingInv'
    <2>1. PICK q : q = [op |-> "create", role |-> r, level |-> level, perms |-> perms,
                        owner |-> IsOwner(a)]
      OBVIOUS
    <2>2. Reads(a, q) /\ mayDefineRole(authorityOfEmployee(a), r, level, perms)
      BY <1>2, <2>1 DEF CreateRole
    <2>3. Asked(q) /\ q.op # "counted"
      BY <2>1, <2>2, DefinedFromCodes
    <2> QED
      BY <1>1, <2>2, <2>3, ReadsKeep
  <1>3. ASSUME NEW r \in CustomRoles, NEW level \in CreatableLevels, NEW perms \in SUBSET Permissions,
               UpdateRole(a, r, level, perms)
        PROVE  StaffingInv'
    <2>1. PICK q : q = [op |-> "update", role |-> r, level |-> level, perms |-> perms,
                        owner |-> IsOwner(a)]
      OBVIOUS
    <2>2. Reads(a, q) /\ mayDefineRole(authorityOfEmployee(a), r, level, perms)
      BY <1>3, <2>1 DEF UpdateRole
    <2>3. Asked(q) /\ q.op # "counted"
      BY <2>1, <2>2, DefinedFromCodes
    <2> QED
      BY <1>1, <2>2, <2>3, ReadsKeep
  <1>4. ASSUME NEW r \in CustomRoles, ArchiveRole(a, r) PROVE StaffingInv'
    <2>1. PICK q : q = [op |-> "archive", role |-> r]
      OBVIOUS
    <2>2. Reads(a, q)
      BY <1>4, <2>1 DEF ArchiveRole
    <2>3. Asked(q) /\ q.op # "counted"
      BY <2>1 DEF Asked
    <2> QED
      BY <1>1, <2>2, <2>3, ReadsKeep
  <1>5. ASSUME NEW t \in Employees, NEW roles \in SUBSET Roles, SetEmployeeRoles(a, t, roles)
        PROVE  StaffingInv'
    <2>1. PICK q : q = [op |-> "setRoles", target |-> t, roles |-> roles]
      OBVIOUS
    <2>2. Reads(a, q)
      BY <1>5, <2>1 DEF SetEmployeeRoles
    <2>3. Asked(q) /\ q.op # "counted"
      BY <2>1 DEF Asked
    <2> QED
      BY <1>1, <2>2, <2>3, ReadsKeep
  <1>6. ASSUME NEW t \in Employees, NEW r \in Roles, Invite(a, t, r) PROVE StaffingInv'
    <2>1. PICK q : q = [op |-> "invite", target |-> t, role |-> r]
      OBVIOUS
    <2>2. Reads(a, q)
      BY <1>6, <2>1 DEF Invite
    <2>3. Asked(q) /\ q.op # "counted"
      BY <2>1 DEF Asked
    <2> QED
      BY <1>1, <2>2, <2>3, ReadsKeep
  <1>7. ASSUME NEW t \in Employees, NEW to \in {"active", "suspended"}, SetStatus(a, t, to)
        PROVE  StaffingInv'
    <2>1. PICK q : q = [op |-> "setStatus", target |-> t, from |-> employee[t].status, to |-> to]
      OBVIOUS
    <2>2. Reads(a, q) /\ (to = "active" => employee[t].joined)
      BY <1>7, <2>1 DEF SetStatus, mayChangeStatus
    <2>3. Asked(q) /\ q.op # "counted"
      BY <2>1, <2>2 DEF Asked
    <2> QED
      BY <1>1, <2>2, <2>3, ReadsKeep
  <1> QED
    BY <1>2, <1>3, <1>4, <1>5, <1>6, <1>7

\* The lock is free, so nobody else has counted; another owner is found: the
\* one assertNotLastOwner asks for, or the one the business has.
LEMMA LockAndCountKeeps ==
    ASSUME StaffingInv, NEW a \in Employees, LockAndCount(a) PROVE StaffingInv'
  <1>1. PICK q : q = request[a]
    OBVIOUS
  <1>2. PICK n : n = [op |-> "counted", what |-> q]
    OBVIOUS
  <1>3. /\ q.op \in {"setRoles", "setStatus"} /\ ownerLock = Nobody /\ ownerLock' = a
        /\ assertNotLastOwner(q.target)
        /\ request' = [request EXCEPT ![a] = n]
        /\ employee' = employee /\ role' = role /\ holds' = holds /\ released' = released
    BY <1>1, <1>2 DEF LockAndCount, lockOwnerRole
  <1>4. /\ request = [e \in Employees |-> request[e]] /\ Asked(q)
        /\ \A b \in Employees : Asked(request[b]) /\ Counted(b)
    BY <1>1 DEF StaffingInv, Tables
  <1>5. /\ request' = [e \in Employees |-> request'[e]]
        /\ request'[a] = n /\ \A b \in Employees \ {a} : request'[b] = request[b]
    BY <1>3, <1>4
  <1>6. \E o \in Employees \ {q.target} : ActiveOwner(o)
    <2>1. q.target \in Employees
      BY <1>3, <1>4 DEF Asked
    <2>2. PICK e \in Employees : ActiveOwner(e)
      BY DEF StaffingInv
    <2>3. CASE e # q.target
      BY <2>2, <2>3
    <2>4. CASE e = q.target
      <3>1. Owner \in listRoleNamesForEmployee(q.target)
        BY <2>1, <2>2, <2>4, OwnersAreListed DEF ActiveOwner
      <3>2. PICK o \in Employees \ {q.target} :
                employee[o].status = "active" /\ Owner \in listRoleNamesForEmployee(o)
        BY <1>3, <3>1 DEF assertNotLastOwner, OtherActiveOwners
      <3>3. ActiveOwner(o)
        BY <3>2, OwnersAreListed DEF ActiveOwner
      <3> QED
        BY <3>3
    <2> QED
      BY <2>3, <2>4
  <1>7. ASSUME NEW e PROVE ActiveOwner(e)' <=> ActiveOwner(e)
    BY <1>3 DEF ActiveOwner
  <1>8. n.op = "counted" /\ n.what = q
    BY <1>2
  <1>9. ASSUME NEW x, Asked(x) PROVE Asked(x)'
    BY <1>3, <1>9 DEF Asked
  <1>10. Asked(request[a])' /\ Counted(a)'
    <2>1. Asked(n)
      BY <1>8 DEF Asked
    <2>2. Asked(n)' /\ Asked(q)'
      BY <1>4, <1>9, <2>1
    <2>3. \E o \in Employees \ {q.target} : ActiveOwner(o)'
      BY <1>6, <1>7
    <2> QED
      BY <1>3, <1>5, <1>8, <2>2, <2>3 DEF Counted, Asked, ActiveOwner
  <1>11. ASSUME NEW b \in Employees \ {a} PROVE Asked(request[b])' /\ Counted(b)'
    <2>1. request'[b] = request[b] /\ Asked(request[b])
      BY <1>4, <1>5
    <2>2. request[b].op # "counted"
      BY <1>3, <1>4, LockAssumption DEF Counted, LockAssumption
    <2>3. Asked(request[b])'
      BY <1>3, <2>1 DEF Asked
    <2> QED
      BY <2>1, <2>2, <2>3 DEF Counted
  <1>12. (\E e \in Employees : ActiveOwner(e))'
    BY <1>7 DEF StaffingInv
  <1>13. Tables' /\ RolesOK' /\ EmploymentOK'
    BY <1>3, <1>5 DEF StaffingInv, Tables, RolesOK, EmploymentOK
  <1> QED
    BY <1>10, <1>11, <1>12, <1>13 DEF StaffingInv

LEMMA RefuseLastOwnerKeeps ==
    ASSUME StaffingInv, NEW a \in Employees, RefuseLastOwner(a) PROVE StaffingInv'
  <1>1. request[a].op # "counted" /\ Reads(a, Idle)
    BY DEF RefuseLastOwner, Done, Reads
  <1>2. Asked(Idle) /\ Idle.op # "counted"
    BY DEF Asked, Idle
  <1> QED
    BY <1>1, <1>2, ReadsKeep

-----------------------------------------------------------------------------
(* Second steps.                                                             *)

LEMMA CommitCreateKeeps ==
    ASSUME StaffingInv, NEW a \in Employees, CommitCreate(a) PROVE StaffingInv'
  <1>1. PICK q : q = request[a]
    OBVIOUS
  <1>2. /\ q.op = "create" /\ Asked(q) /\ request' = [request EXCEPT ![a] = Idle]
        /\ employee' = employee /\ holds' = holds /\ ownerLock' = ownerLock
    BY <1>1 DEF CommitCreate, Done, StaffingInv
  <1>3. /\ q.role \in CustomRoles /\ q.level \in CreatableLevels
        /\ q.perms \in SUBSET Permissions
        /\ q.owner \/ q.perms \subseteq released
    BY <1>2 DEF Asked
  <1>4. \/ role' = role /\ released' = released
        \/ /\ role' = [role EXCEPT ![q.role] = [status |-> "active", level |-> q.level,
                                                perms |-> q.perms]]
           /\ released' = IF q.owner THEN released \cup q.perms ELSE released
    BY <1>1 DEF CommitCreate, Release
  <1>5. q.role \in Roles /\ q.role # Owner /\ Owner \in Roles /\ role \in [Roles -> RoleType]
    BY <1>3, OwnerIsRole DEF StaffingInv, Tables
  <1>6. /\ released \subseteq released' /\ released' \subseteq Permissions
        /\ role' = role \/ q.perms \subseteq released'
    BY <1>3, <1>4 DEF StaffingInv, Tables
  <1>7. role' \in [Roles -> RoleType]
    <2>1. [status |-> "active", level |-> q.level, perms |-> q.perms] \in RoleType
      <3>1. OwnerLevel \in Nat
        BY StaffingAssumption DEF StaffingAssumption
      <3>2. q.level \in 0 .. OwnerLevel
        BY <1>3, <3>1 DEF CreatableLevels
      <3> QED
        BY <1>3, <3>2 DEF RoleType
    <2> QED
      BY <1>4, <1>5, <2>1
  <1>8. RolesOK'
    <2>1. role[Owner].status = "active" /\ \A r \in Roles \ {Owner} : role[r].perms \subseteq released
      BY DEF StaffingInv, RolesOK
    <2>2. \A r \in Roles \ {q.role} : role'[r] = role[r]
      BY <1>4, <1>5
    <2>3. role'[q.role].perms \subseteq released'
      BY <1>4, <1>5, <1>6, <2>1
    <2> QED
      BY <1>5, <1>6, <2>1, <2>2, <2>3 DEF RolesOK
  <1>9. Steady
    BY <1>2, <1>6 DEF Steady
  <1>10. Asked(Idle)' /\ Idle.op # "counted"
    BY DEF Asked, Idle
  <1>11. \A e \in Employees : ActiveOwner(e) => ActiveOwner(e)'
    BY <1>2 DEF ActiveOwner
  <1>12. /\ (\E e \in Employees : ActiveOwner(e))'
         /\ \A b \in Employees : Asked(request[b])' /\ Counted(b)'
         /\ request' = [e \in Employees |-> request'[e]]
    BY <1>1, <1>2, <1>9, <1>10, <1>11, OwnersKept
  <1> QED
    BY <1>2, <1>6, <1>7, <1>8, <1>12 DEF StaffingInv, Tables, EmploymentOK

LEMMA CommitUpdateKeeps ==
    ASSUME StaffingInv, NEW a \in Employees, CommitUpdate(a) PROVE StaffingInv'
  <1>1. PICK q : q = request[a]
    OBVIOUS
  <1>2. /\ q.op = "update" /\ Asked(q) /\ request' = [request EXCEPT ![a] = Idle]
        /\ employee' = employee /\ holds' = holds /\ ownerLock' = ownerLock
    BY <1>1 DEF CommitUpdate, Done, StaffingInv
  <1>3. /\ q.role \in CustomRoles /\ q.level \in CreatableLevels
        /\ q.perms \in SUBSET Permissions
        /\ q.owner \/ q.perms \subseteq released
    BY <1>2 DEF Asked
  <1>4. /\ role' = [role EXCEPT ![q.role].level = q.level, ![q.role].perms = q.perms]
        /\ released' = IF q.owner THEN released \cup q.perms ELSE released
    BY <1>1 DEF CommitUpdate, Release
  <1>5. q.role \in Roles /\ q.role # Owner /\ Owner \in Roles /\ role \in [Roles -> RoleType]
    BY <1>3, OwnerIsRole DEF StaffingInv, Tables
  <1>6. /\ released \subseteq released' /\ released' \subseteq Permissions
        /\ q.perms \subseteq released'
    BY <1>3, <1>4 DEF StaffingInv, Tables
  <1>7. /\ role' \in [Roles -> RoleType] /\ role'[q.role].perms = q.perms
        /\ \A r \in Roles \ {q.role} : role'[r] = role[r]
    <2>1. OwnerLevel \in Nat
      BY StaffingAssumption DEF StaffingAssumption
    <2>2. q.level \in 0 .. OwnerLevel
      BY <1>3, <2>1 DEF CreatableLevels
    <2>3. PICK old \in RoleType : old = role[q.role]
      BY <1>5
    <2>4. PICK new : new = [old EXCEPT !.level = q.level, !.perms = q.perms]
      OBVIOUS
    <2>5. new \in RoleType /\ new.perms = q.perms
      BY <1>3, <2>2, <2>4 DEF RoleType
    <2>6. role' = [role EXCEPT ![q.role] = new]
      BY <1>4, <1>5, <2>3, <2>4
    <2> QED
      BY <1>5, <2>5, <2>6
  <1>8. RolesOK'
    <2>1. role[Owner].status = "active" /\ \A r \in Roles \ {Owner} : role[r].perms \subseteq released
      BY DEF StaffingInv, RolesOK
    <2> QED
      BY <1>5, <1>6, <1>7, <2>1 DEF RolesOK
  <1>9. Steady
    BY <1>2, <1>6 DEF Steady
  <1>10. Asked(Idle)' /\ Idle.op # "counted"
    BY DEF Asked, Idle
  <1>11. \A e \in Employees : ActiveOwner(e) => ActiveOwner(e)'
    BY <1>2 DEF ActiveOwner
  <1>12. /\ (\E e \in Employees : ActiveOwner(e))'
         /\ \A b \in Employees : Asked(request[b])' /\ Counted(b)'
         /\ request' = [e \in Employees |-> request'[e]]
    BY <1>1, <1>2, <1>9, <1>10, <1>11, OwnersKept
  <1> QED
    BY <1>2, <1>6, <1>7, <1>8, <1>12 DEF StaffingInv, Tables, EmploymentOK

LEMMA CommitArchiveKeeps ==
    ASSUME StaffingInv, NEW a \in Employees, CommitArchive(a) PROVE StaffingInv'
  <1>1. PICK q : q = request[a]
    OBVIOUS
  <1>2. /\ q.op = "archive" /\ Asked(q) /\ request' = [request EXCEPT ![a] = Idle]
        /\ role' = [role EXCEPT ![q.role].status = "archived"]
        /\ employee' = employee /\ holds' = holds /\ ownerLock' = ownerLock
        /\ released' = released
    BY <1>1 DEF CommitArchive, Done, StaffingInv
  <1>3. /\ q.role \in Roles /\ q.role # Owner /\ Owner \in Roles
        /\ role \in [Roles -> RoleType]
    BY <1>2, OwnerIsRole DEF Asked, StaffingInv, Tables
  <1>4. role' \in [Roles -> RoleType] /\ \A r \in Roles : role'[r].perms = role[r].perms
    BY <1>2, <1>3 DEF RoleType
  <1>5. role'[Owner] = role[Owner]
    BY <1>2, <1>3
  <1>6. RolesOK'
    BY <1>2, <1>4, <1>5 DEF StaffingInv, RolesOK
  <1>7. Steady /\ Asked(Idle)' /\ Idle.op # "counted"
    BY <1>2 DEF Steady, Asked, Idle
  <1>8. \A e \in Employees : ActiveOwner(e) => ActiveOwner(e)'
    BY <1>2 DEF ActiveOwner
  <1>9. /\ (\E e \in Employees : ActiveOwner(e))'
        /\ \A b \in Employees : Asked(request[b])' /\ Counted(b)'
        /\ request' = [e \in Employees |-> request'[e]]
    BY <1>1, <1>2, <1>7, <1>8, OwnersKept
  <1> QED
    BY <1>2, <1>4, <1>6, <1>9 DEF StaffingInv, Tables, EmploymentOK

\* Without the lock only a set of roles with Owner in it is written.
LEMMA CommitSetRolesKeeps ==
    ASSUME StaffingInv, NEW a \in Employees, CommitSetRoles(a) PROVE StaffingInv'
  <1>1. PICK q : q = request[a]
    OBVIOUS
  <1>2. /\ q.op = "setRoles" /\ Asked(q) /\ request' = [request EXCEPT ![a] = Idle]
        /\ Owner \in q.roles /\ holds' = [holds EXCEPT ![q.target] = q.roles]
        /\ employee' = employee /\ role' = role /\ ownerLock' = ownerLock
        /\ released' = released
    BY <1>1 DEF CommitSetRoles, replaceEmployeeRoles, NeedsOwnerLock, Done, StaffingInv
  <1>3. /\ q.target \in Employees /\ q.roles \in SUBSET Roles
        /\ holds \in [Employees -> SUBSET Roles]
    BY <1>2 DEF Asked, StaffingInv, Tables
  <1>4. holds' \in [Employees -> SUBSET Roles]
    BY <1>2, <1>3
  <1>5. \A e \in Employees : ActiveOwner(e) => ActiveOwner(e)'
    BY <1>2, <1>3 DEF ActiveOwner
  <1>6. Steady /\ Asked(Idle)' /\ Idle.op # "counted"
    BY <1>2 DEF Steady, Asked, Idle
  <1>7. /\ (\E e \in Employees : ActiveOwner(e))'
        /\ \A b \in Employees : Asked(request[b])' /\ Counted(b)'
        /\ request' = [e \in Employees |-> request'[e]]
    BY <1>1, <1>2, <1>5, <1>6, OwnersKept
  <1> QED
    BY <1>2, <1>4, <1>7 DEF StaffingInv, Tables, RolesOK, EmploymentOK

LEMMA CommitLockedRolesKeeps ==
    ASSUME StaffingInv, NEW a \in Employees, CommitLockedRoles(a) PROVE StaffingInv'
  <1>1. PICK q : q = request[a].what
    OBVIOUS
  <1>2. /\ request[a].op = "counted" /\ q.op = "setRoles" /\ Asked(q)
        /\ request' = [request EXCEPT ![a] = Idle]
        /\ holds' = [holds EXCEPT ![q.target] = q.roles]
        /\ employee' = employee /\ role' = role /\ ownerLock' = Nobody
        /\ released' = released
    BY <1>1 DEF CommitLockedRoles, replaceEmployeeRoles, Done, StaffingInv, Counted
  <1>3. /\ q.target \in Employees /\ q.roles \in SUBSET Roles
        /\ holds \in [Employees -> SUBSET Roles]
    BY <1>2 DEF Asked, StaffingInv, Tables
  <1>4. holds' \in [Employees -> SUBSET Roles]
    BY <1>2, <1>3
  <1>5. \A e \in Employees \ {q.target} : ActiveOwner(e) => ActiveOwner(e)'
    BY <1>2, <1>3 DEF ActiveOwner
  <1>6. Steady
    BY <1>2 DEF Steady
  <1>7. /\ (\E e \in Employees : ActiveOwner(e))'
        /\ \A b \in Employees : Asked(request[b])' /\ Counted(b)'
        /\ request' = [e \in Employees |-> request'[e]]
    BY <1>1, <1>2, <1>5, <1>6, OwnersLeft
  <1> QED
    BY <1>2, <1>4, <1>7 DEF StaffingInv, Tables, RolesOK, EmploymentOK

LEMMA CommitInviteKeeps ==
    ASSUME StaffingInv, NEW a \in Employees, CommitInvite(a) PROVE StaffingInv'
  <1>1. PICK q : q = request[a]
    OBVIOUS
  <1>2. /\ q.op = "invite" /\ Asked(q) /\ request' = [request EXCEPT ![a] = Idle]
        /\ role' = role /\ ownerLock' = ownerLock /\ released' = released
    BY <1>1 DEF CommitInvite, Done, StaffingInv
  <1>3. /\ q.target \in Employees /\ q.role \in Roles
        /\ holds \in [Employees -> SUBSET Roles] /\ employee \in [Employees -> EmployeeType]
    BY <1>2 DEF Asked, StaffingInv, Tables
  <1>4. \/ employee' = employee /\ holds' = holds
        \/ /\ employee[q.target].status = "none"
           /\ employee' = [employee EXCEPT ![q.target] = [status |-> "invited", joined |-> FALSE]]
           /\ holds' = [holds EXCEPT ![q.target] = {q.role}]
    BY <1>1 DEF CommitInvite
  <1>5. holds' \in [Employees -> SUBSET Roles] /\ employee' \in [Employees -> EmployeeType]
    <2>1. [status |-> "invited", joined |-> FALSE] \in EmployeeType
      BY DEF EmployeeType, Statuses
    <2> QED
      BY <1>3, <1>4, <2>1
  <1>6. EmploymentOK /\ \A e \in Employees : ActiveOwner(e) => ActiveOwner(e)'
    BY <1>3, <1>4 DEF ActiveOwner, StaffingInv
  <1>7. Steady /\ EmploymentOK'
    BY <1>2, <1>3, <1>4, <1>6 DEF Steady, EmploymentOK
  <1>8. Asked(Idle)' /\ Idle.op # "counted"
    BY DEF Asked, Idle
  <1>9. /\ (\E e \in Employees : ActiveOwner(e))'
        /\ \A b \in Employees : Asked(request[b])' /\ Counted(b)'
        /\ request' = [e \in Employees |-> request'[e]]
    BY <1>1, <1>2, <1>6, <1>7, <1>8, OwnersKept
  <1> QED
    BY <1>2, <1>5, <1>7, <1>9 DEF StaffingInv, Tables, RolesOK

\* The status moves only from what was read; an owner who is suspended was
\* counted out before.
LEMMA WriteStatusKeeps ==
    ASSUME Tables, EmploymentOK, NEW q, WriteStatus(q), q.target \in Employees,
           q.to \in {"active", "suspended"},
           q.to = "active" => employee[q.target].joined
    PROVE  /\ employee' \in [Employees -> EmployeeType]
           /\ \A e \in Employees : employee'[e].joined = employee[e].joined
           /\ \A e \in Employees \ {q.target} : employee'[e] = employee[e]
           /\ q.to = "active" => \A e \in Employees :
                 employee[e].status = "active" => employee'[e].status = "active"
           /\ \A e \in Employees :
                 /\ employee'[e].status = "active" => employee[e].joined
                 /\ employee[e].joined => employee'[e].status # "none"
  <1>1. employee \in [Employees -> EmployeeType]
    BY DEF Tables
  <1>2. \/ employee' = employee
        \/ employee' = [employee EXCEPT ![q.target].status = q.to]
    BY DEF WriteStatus
  <1>3. CASE employee' = employee
    BY <1>1, <1>3 DEF EmploymentOK
  <1>4. CASE employee' = [employee EXCEPT ![q.target].status = q.to]
    <2>1. PICK old \in EmployeeType : old = employee[q.target]
      BY <1>1
    <2>2. PICK new : new = [old EXCEPT !.status = q.to]
      OBVIOUS
    <2>3. new \in EmployeeType /\ new.status = q.to /\ new.joined = old.joined
      BY <2>2 DEF EmployeeType, Statuses
    <2>4. employee' = [employee EXCEPT ![q.target] = new]
      BY <1>1, <1>4, <2>1, <2>2
    <2>5. /\ employee' \in [Employees -> EmployeeType] /\ employee'[q.target] = new
          /\ \A e \in Employees \ {q.target} : employee'[e] = employee[e]
      BY <1>1, <2>3, <2>4
    <2> QED
      BY <2>1, <2>3, <2>5 DEF EmploymentOK
  <1> QED
    BY <1>2, <1>3, <1>4

LEMMA CommitReinstateKeeps ==
    ASSUME StaffingInv, NEW a \in Employees, CommitReinstate(a) PROVE StaffingInv'
  <1>1. PICK q : q = request[a]
    OBVIOUS
  <1>2. /\ q.op = "setStatus" /\ q.to # "suspended" /\ Asked(q) /\ WriteStatus(q)
        /\ request' = [request EXCEPT ![a] = Idle]
        /\ holds' = holds /\ role' = role /\ ownerLock' = ownerLock /\ released' = released
    BY <1>1 DEF CommitReinstate, NeedsOwnerLock, Done, StaffingInv
  <1>3. /\ q.target \in Employees /\ q.to = "active" /\ employee[q.target].joined
        /\ Tables /\ EmploymentOK
    BY <1>2 DEF Asked, StaffingInv
  <1>4. /\ employee' \in [Employees -> EmployeeType]
        /\ \A e \in Employees : employee'[e].joined = employee[e].joined
        /\ \A e \in Employees : employee[e].status = "active" => employee'[e].status = "active"
        /\ \A e \in Employees :
              /\ employee'[e].status = "active" => employee[e].joined
              /\ employee[e].joined => employee'[e].status # "none"
    BY <1>2, <1>3, WriteStatusKeeps
  <1>5. Steady /\ EmploymentOK'
    BY <1>2, <1>4 DEF Steady, EmploymentOK
  <1>6. \A e \in Employees : ActiveOwner(e) => ActiveOwner(e)'
    BY <1>2, <1>4 DEF ActiveOwner
  <1>7. Asked(Idle)' /\ Idle.op # "counted" /\ request[a].op # "counted"
    BY <1>1, <1>2 DEF Asked, Idle
  <1>8. /\ (\E e \in Employees : ActiveOwner(e))'
        /\ \A b \in Employees : Asked(request[b])' /\ Counted(b)'
        /\ request' = [e \in Employees |-> request'[e]]
    BY <1>2, <1>5, <1>6, <1>7, OwnersKept
  <1> QED
    BY <1>2, <1>4, <1>5, <1>8 DEF StaffingInv, Tables, RolesOK

LEMMA CommitSuspendKeeps ==
    ASSUME StaffingInv, NEW a \in Employees, CommitSuspend(a) PROVE StaffingInv'
  <1>1. PICK q : q = request[a].what
    OBVIOUS
  <1>2. /\ request[a].op = "counted" /\ q.op = "setStatus" /\ Asked(q) /\ WriteStatus(q)
        /\ request' = [request EXCEPT ![a] = Idle]
        /\ holds' = holds /\ role' = role /\ ownerLock' = Nobody /\ released' = released
    BY <1>1 DEF CommitSuspend, Done, StaffingInv, Counted
  <1>3. /\ q.target \in Employees /\ q.to \in {"active", "suspended"}
        /\ q.to = "active" => employee[q.target].joined
        /\ Tables /\ EmploymentOK
    BY <1>2 DEF Asked, StaffingInv
  <1>4. /\ employee' \in [Employees -> EmployeeType]
        /\ \A e \in Employees : employee'[e].joined = employee[e].joined
        /\ \A e \in Employees \ {q.target} : employee'[e] = employee[e]
        /\ \A e \in Employees :
              /\ employee'[e].status = "active" => employee[e].joined
              /\ employee[e].joined => employee'[e].status # "none"
    BY <1>2, <1>3, WriteStatusKeeps
  <1>5. Steady /\ EmploymentOK'
    BY <1>2, <1>4 DEF Steady, EmploymentOK
  <1>6. \A e \in Employees \ {q.target} : ActiveOwner(e) => ActiveOwner(e)'
    BY <1>2, <1>4 DEF ActiveOwner
  <1>7. /\ (\E e \in Employees : ActiveOwner(e))'
        /\ \A b \in Employees : Asked(request[b])' /\ Counted(b)'
        /\ request' = [e \in Employees |-> request'[e]]
    BY <1>1, <1>2, <1>5, <1>6, OwnersLeft
  <1> QED
    BY <1>2, <1>4, <1>5, <1>7 DEF StaffingInv, Tables, RolesOK

\* The person accepts while any requests are in flight.
LEMMA AcceptInviteKeeps ==
    ASSUME StaffingInv, NEW p \in Employees, AcceptInvite(p) PROVE StaffingInv'
  <1>1. /\ employee' = [employee EXCEPT ![p] = [status |-> "active", joined |-> TRUE]]
        /\ role' = role /\ holds' = holds /\ request' = request
        /\ ownerLock' = ownerLock /\ released' = released
    BY DEF AcceptInvite
  <1>2. employee \in [Employees -> EmployeeType]
    BY DEF StaffingInv, Tables
  <1>3. /\ employee' \in [Employees -> EmployeeType]
        /\ \A e \in Employees :
              \/ employee'[e] = employee[e]
              \/ employee'[e].status = "active" /\ employee'[e].joined
    <2>1. [status |-> "active", joined |-> TRUE] \in EmployeeType
      BY DEF EmployeeType, Statuses
    <2> QED
      BY <1>1, <1>2, <2>1
  <1>4. Steady /\ EmploymentOK'
    BY <1>1, <1>3 DEF Steady, EmploymentOK, StaffingInv
  <1>5. \A e \in Employees : ActiveOwner(e) => ActiveOwner(e)'
    BY <1>1, <1>3 DEF ActiveOwner
  <1>6. ASSUME NEW b \in Employees PROVE Asked(request[b])' /\ Counted(b)'
    <2>1. Asked(request[b]) /\ Counted(b) /\ request'[b] = request[b]
      BY <1>1 DEF StaffingInv
    <2>2. Asked(request[b])'
      BY <1>4, <2>1 DEF Asked, Steady
    <2>3. Asked(request[b].what) => (Asked(request[b].what))'
      BY <1>4, <2>1 DEF Asked, Steady
    <2> QED
      BY <1>1, <1>5, <2>1, <2>2, <2>3 DEF Counted
  <1>7. (\E e \in Employees : ActiveOwner(e))'
    BY <1>5 DEF StaffingInv
  <1> QED
    BY <1>1, <1>3, <1>4, <1>6, <1>7 DEF StaffingInv, Tables, RolesOK

LEMMA StaffingStarts == StaffingInit => StaffingInv
  <1> SUFFICES ASSUME StaffingInit PROVE StaffingInv
    OBVIOUS
  <1>1. /\ Founder \in Employees /\ Owner # Manager /\ ManagerPermissions \subseteq Permissions
        /\ ManagerLevel \in 0 .. OwnerLevel /\ OwnerLevel \in 0 .. OwnerLevel /\ 0 \in 0 .. OwnerLevel
    BY StaffingAssumption DEF StaffingAssumption
  <1>2. employee \in [Employees -> EmployeeType] /\ employee[Founder].status = "active"
        /\ EmploymentOK
    BY <1>1 DEF StaffingInit, EmployeeType, Statuses, EmploymentOK
  <1>3. role \in [Roles -> RoleType] /\ RolesOK
    <2>1. /\ SystemRole(OwnerLevel, Permissions) \in RoleType
          /\ SystemRole(ManagerLevel, ManagerPermissions) \in RoleType
          /\ NoRole \in RoleType
      BY <1>1 DEF SystemRole, NoRole, RoleType
    <2>2. role = [r \in Roles |-> IF r = Owner THEN SystemRole(OwnerLevel, Permissions)
                                  ELSE IF r = Manager
                                  THEN SystemRole(ManagerLevel, ManagerPermissions) ELSE NoRole]
      BY <1>1 DEF StaffingInit, instantiateSystemRoles
    <2>3. role \in [Roles -> RoleType]
      BY <2>1, <2>2
    <2>4. role[Owner].status = "active"
      BY <2>2, OwnerIsRole DEF SystemRole
    <2>5. \A r \in Roles \ {Owner} : role[r].perms \subseteq released
      BY <2>2 DEF SystemRole, NoRole, StaffingInit
    <2> QED
      BY <2>3, <2>4, <2>5 DEF RolesOK
  <1>4. holds \in [Employees -> SUBSET Roles] /\ Owner \in holds[Founder]
    BY <1>1, OwnerIsRole DEF StaffingInit, grantOwner
  <1>5. \A a \in Employees : Asked(request[a]) /\ Counted(a)
    BY DEF StaffingInit, Idle, Asked, Counted
  <1>6. /\ request = [e \in Employees |-> request[e]] /\ ownerLock \in Employees \cup {Nobody}
        /\ released \subseteq Permissions
    BY <1>1 DEF StaffingInit
  <1> QED
    BY <1>1, <1>2, <1>3, <1>4, <1>5, <1>6 DEF StaffingInv, Tables, ActiveOwner

LEMMA StaffingStep == StaffingInv /\ [StaffingNext]_staffingVars => StaffingInv'
  <1> SUFFICES ASSUME StaffingInv, [StaffingNext]_staffingVars PROVE StaffingInv'
    OBVIOUS
  <1>1. ASSUME NEW a \in Employees, Commit(a) PROVE StaffingInv'
    BY <1>1, CommitCreateKeeps, CommitUpdateKeeps, CommitArchiveKeeps, CommitSetRolesKeeps,
       CommitLockedRolesKeeps, CommitInviteKeeps, CommitReinstateKeeps, CommitSuspendKeeps
       DEF Commit
  <1>2. CASE UNCHANGED staffingVars
    <2>1. /\ employee' = employee /\ role' = role /\ holds' = holds /\ request' = request
          /\ ownerLock' = ownerLock /\ released' = released
      BY <1>2 DEF staffingVars
    <2> QED
      BY <2>1 DEF StaffingInv, Tables, RolesOK, EmploymentOK, Asked, Counted, ActiveOwner
  <1> QED
    BY <1>1, <1>2, FirstStepKeeps, LockAndCountKeeps, RefuseLastOwnerKeeps, AcceptInviteKeeps
       DEF StaffingNext

THEOREM StaffingInvariant == StaffingSpec => []StaffingInv
  <1> QED
    BY StaffingStarts, StaffingStep, PTL DEF StaffingSpec

\* Whatever any number of owners do to one another at the same time, the business
\* keeps an active one: every write that could take the last away counts the
\* others under the lock of the Owner role (setStatus, setEmployeeRoles).
THEOREM AnOwnerStays == StaffingSpec => []SomebodyOwns
  <1>1. StaffingInv => SomebodyOwns
    BY OwnersAreListed DEF StaffingInv, ActiveOwner, SomebodyOwns
  <1> QED
    BY <1>1, StaffingInvariant, PTL

-----------------------------------------------------------------------------
(* Levels.                                                                   *)

\* A level is a number, 0 for somebody without an active role.
LEMMA LevelIsNumber ==
    ASSUME StaffingInv, NEW e \in Employees
    PROVE  highestLevelForEmployee(e) \in Nat
  <1>1. PICK S : S = {0} \cup {role[r].level : r \in listRoleNamesForEmployee(e)}
    OBVIOUS
  <1>2. OwnerLevel \in Nat
    BY StaffingAssumption DEF StaffingAssumption
  <1>3. ASSUME NEW r \in listRoleNamesForEmployee(e) PROVE role[r].level \in 0 .. OwnerLevel
    BY <1>3 DEF listRoleNamesForEmployee, StaffingInv, Tables, RoleType
  <1>4. S \in SUBSET (0 .. OwnerLevel) /\ S # {}
    BY <1>1, <1>2, <1>3
  <1>5. Max(S) \in S
    BY <1>2, <1>4, Greatest
  <1> QED
    BY <1>1, <1>4, <1>5 DEF highestLevelForEmployee

LEMMA ListIsRule == StaffingInv => ListFollowsRule
  <1> SUFFICES ASSUME StaffingInv, NEW a \in Employees
               PROVE  EmployeesList(a) = {e \in Employees :
                          /\ employee[e].status # "none"
                          /\ maySeeEmployee(highestLevelForEmployee(a), highestLevelForEmployee(e))}
    BY DEF ListFollowsRule
  <1>1. highestLevelForEmployee(a) \in Nat
    BY LevelIsNumber
  <1>2. ASSUME NEW e \in Employees
        PROVE  (/\ highestLevelForEmployee(a) # 0
                /\ Coalesced(e) <= highestLevelForEmployee(a) - 1)
                 <=> maySeeEmployee(highestLevelForEmployee(a), highestLevelForEmployee(e))
    BY <1>1, LevelIsNumber DEF Coalesced, maySeeEmployee
  <1>3. CASE highestLevelForEmployee(a) = 0
    BY <1>2, <1>3 DEF EmployeesList
  <1>4. CASE highestLevelForEmployee(a) # 0
    BY <1>2, <1>4 DEF EmployeesList, listForEnterprise
  <1> QED
    BY <1>3, <1>4

\* For any number of requests at once and however stale their checks: no
\* permission is in a role below Owner that no owner put there, nobody works
\* here without having accepted an invitation, and the list shows each employee
\* whom the rule lets them see (mayDefineRole, mayChangeStatus, the fence of
\* setStatus, maySeeEmployee).
THEOREM AuthorityComesFromOwners == StaffingSpec => []AuthorityIsEarned
  <1>1. StaffingInv => StaffingTypeOK
    <2> SUFFICES ASSUME StaffingInv PROVE DOMAIN request = Employees
      BY DEF StaffingInv, Tables, StaffingTypeOK
    <2>1. request = [e \in Employees |-> request[e]]
      BY DEF StaffingInv, Tables
    <2> QED
      BY <2>1
  <1>2. StaffingInv => PermissionsFlowFromOwners /\ ActiveMeansAccepted
    BY DEF StaffingInv, RolesOK, EmploymentOK, PermissionsFlowFromOwners, ActiveMeansAccepted
  <1> QED
    BY <1>1, <1>2, ListIsRule, StaffingInvariant, PTL DEF AuthorityIsEarned

-----------------------------------------------------------------------------
(* The platform (Tenancy).                                                   *)

StaffStatuses == {"none", "invited", "active", "suspended"}

BusinessTasks ==
    {q \in [op : {"business"}, from : BusinessStatuses, to : BusinessStatuses] :
        q.to \in ENTERPRISE_STATUS_TRANSITIONS[q.from]}

FeatureTasks ==
    {q \in [op : {"feature"}, feature : Features, from : FeatureStatuses \cup {"none"},
            to : FeatureStatuses] :
        q.to \in ENTERPRISE_FEATURE_TRANSITIONS[q.from]}

StaffTasks ==
    [op : {"staff", "counted"}, target : Staff, from : StaffStatuses,
     to : {"active", "suspended"}, full : BOOLEAN]

\* Every decision in flight was allowed by the machine from the state it read.
PlatformTables ==
    /\ business \in BusinessStatuses \cup {"none"}
    /\ feature \in [Features -> FeatureStatuses \cup {"none"}]
    /\ asking \in {NoTask} \cup [op : {"ask"}, feature : Features]
    /\ staff \in [Staff -> StaffType]
    /\ task \in [Staff -> {NoTask} \cup BusinessTasks \cup FeatureTasks \cup StaffTasks]
    /\ adminLock \in Staff \cup {NoHolder}

\* Full access is never given or taken back, so what a decision read of it is
\* still so when it is written.
FullStaysFull ==
    /\ \A t \in Staff : staff[t].full => staff[t].status \in {"active", "suspended"}
    /\ staff[Configured].full
    /\ \A s \in Staff : task[s] \in StaffTasks =>
          /\ task[s].full = staff[task[s].target].full
          /\ staff[task[s].target].status # "none"

\* An admin about to suspend another holds the lock, and a third one is there.
CountedAdmins ==
    \A s \in Staff : task[s].op = "counted" =>
        /\ adminLock = s
        /\ \E o \in Staff \ {task[s].target} : Admin(o)

TenancyInv ==
    /\ PlatformTables /\ FullStaysFull /\ CountedAdmins
    /\ \E s \in Staff : Admin(s)

\* The shape of a decision tells what it decides.
LEMMA TaskShapes ==
    ASSUME NEW q \in {NoTask} \cup BusinessTasks \cup FeatureTasks \cup StaffTasks
    PROVE  /\ q.op = "business" => q \in BusinessTasks
           /\ q.op = "feature" => q \in FeatureTasks
           /\ q.op \in {"staff", "counted"} <=> q \in StaffTasks
           /\ q.op = "idle" <=> q = NoTask
  <1>1. q \in BusinessTasks => q.op = "business"
    BY DEF BusinessTasks
  <1>2. q \in FeatureTasks => q.op = "feature"
    BY DEF FeatureTasks
  <1>3. q \in StaffTasks => q.op \in {"staff", "counted"}
    BY DEF StaffTasks
  <1>4. NoTask.op = "idle"
    BY DEF NoTask
  <1> QED
    BY <1>1, <1>2, <1>3, <1>4

\* A step that leaves the staff alone and puts a decision of another kind, or
\* none, in the place of one member's.
LEMMA StaffUntouched ==
    ASSUME TenancyInv, NEW s \in Staff, task[s].op # "counted",
           NEW q \in {NoTask} \cup BusinessTasks \cup FeatureTasks,
           task' = [task EXCEPT ![s] = q], staff' = staff, adminLock' = adminLock
    PROVE  /\ task' \in [Staff -> {NoTask} \cup BusinessTasks \cup FeatureTasks \cup StaffTasks]
           /\ staff' \in [Staff -> StaffType] /\ adminLock' \in Staff \cup {NoHolder}
           /\ FullStaysFull' /\ CountedAdmins' /\ (\E t \in Staff : Admin(t))'
  <1>1. /\ task \in [Staff -> {NoTask} \cup BusinessTasks \cup FeatureTasks \cup StaffTasks]
        /\ staff \in [Staff -> StaffType] /\ adminLock \in Staff \cup {NoHolder}
    BY DEF TenancyInv, PlatformTables
  <1>2. /\ task' \in [Staff -> {NoTask} \cup BusinessTasks \cup FeatureTasks \cup StaffTasks]
        /\ task'[s] = q /\ \A b \in Staff \ {s} : task'[b] = task[b]
    BY <1>1
  <1>3. q \notin StaffTasks /\ q.op # "counted"
    <2>1. NoTask.op = "idle"
      BY DEF NoTask
    <2>2. q \in BusinessTasks => q.op = "business"
      BY DEF BusinessTasks
    <2>3. q \in FeatureTasks => q.op = "feature"
      BY DEF FeatureTasks
    <2>4. q.op \notin {"staff", "counted"}
      BY <2>1, <2>2, <2>3
    <2> QED
      BY <2>4, TaskShapes
  <1>4. FullStaysFull'
    BY <1>2, <1>3 DEF FullStaysFull, TenancyInv
  <1>5. \A t \in Staff : Admin(t)' <=> Admin(t)
    BY DEF Admin
  <1>6. CountedAdmins'
    BY <1>2, <1>3, <1>5 DEF CountedAdmins, TenancyInv
  <1> QED
    BY <1>1, <1>2, <1>4, <1>5, <1>6 DEF TenancyInv

-----------------------------------------------------------------------------
(* The business and its features.                                            *)

LEMMA SignupKeeps == ASSUME TenancyInv, Signup PROVE TenancyInv'
  BY DEF Signup, TenancyInv, PlatformTables, FullStaysFull, CountedAdmins, Admin, BusinessStatuses

LEMMA SetEnterpriseStatusKeeps ==
    ASSUME TenancyInv, NEW s \in Staff, NEW to \in BusinessStatuses, SetEnterpriseStatus(s, to)
    PROVE  TenancyInv'
  <1>1. PICK q : q = [op |-> "business", from |-> business, to |-> to]
    OBVIOUS
  <1>2. /\ task[s] = NoTask /\ business # "none" /\ to \in ENTERPRISE_STATUS_TRANSITIONS[business]
        /\ task' = [task EXCEPT ![s] = q] /\ business' = business /\ feature' = feature
        /\ asking' = asking /\ staff' = staff /\ adminLock' = adminLock
    BY <1>1 DEF SetEnterpriseStatus, PlatformAdminGuard, Decides
  <1>3. q \in BusinessTasks
    BY <1>1, <1>2 DEF BusinessTasks, TenancyInv, PlatformTables
  <1>4. task[s].op # "counted"
    BY <1>2 DEF NoTask
  <1> QED
    BY <1>2, <1>3, <1>4, StaffUntouched DEF TenancyInv, PlatformTables

LEMMA CommitEnterpriseStatusKeeps ==
    ASSUME TenancyInv, NEW s \in Staff, CommitEnterpriseStatus(s)
    PROVE  TenancyInv'
  <1>1. /\ task[s].op = "business" /\ task' = [task EXCEPT ![s] = NoTask]
        /\ business' = IF business = task[s].from THEN task[s].to ELSE business
        /\ feature' = feature /\ asking' = asking /\ staff' = staff /\ adminLock' = adminLock
    BY DEF CommitEnterpriseStatus, updateEnterpriseStatus, Decided
  <1>2. task[s] \in BusinessTasks
    BY <1>1, TaskShapes DEF TenancyInv, PlatformTables
  <1>3. business' \in BusinessStatuses \cup {"none"}
    BY <1>1, <1>2 DEF BusinessTasks, TenancyInv, PlatformTables
  <1> QED
    BY <1>1, <1>3, StaffUntouched DEF TenancyInv, PlatformTables

LEMMA RequestFeatureKeeps ==
    ASSUME TenancyInv, NEW f \in Features, RequestFeature(f)
    PROVE  TenancyInv'
  <1>1. [op |-> "ask", feature |-> f] \in [op : {"ask"}, feature : Features]
    OBVIOUS
  <1> QED
    BY <1>1 DEF RequestFeature, TenancyInv, PlatformTables, FullStaysFull, CountedAdmins, Admin

LEMMA CommitRequestKeeps == ASSUME TenancyInv, CommitRequest PROVE TenancyInv'
  <1>1. feature' \in [Features -> FeatureStatuses \cup {"none"}]
    BY DEF CommitRequest, TenancyInv, PlatformTables, FeatureStatuses
  <1> QED
    BY <1>1 DEF CommitRequest, TenancyInv, PlatformTables, FullStaysFull, CountedAdmins, Admin

LEMMA ExpireFeatureKeeps ==
    ASSUME TenancyInv, NEW f \in Features, ExpireFeature(f)
    PROVE  TenancyInv'
  <1>1. feature' \in [Features -> FeatureStatuses \cup {"none"}]
    BY DEF ExpireFeature, TenancyInv, PlatformTables, FeatureStatuses
  <1> QED
    BY <1>1 DEF ExpireFeature, TenancyInv, PlatformTables, FullStaysFull, CountedAdmins, Admin

LEMMA DecideFeatureKeeps ==
    ASSUME TenancyInv, NEW s \in Staff, NEW f \in Features, NEW to \in FeatureStatuses,
           DecideFeature(s, f, to)
    PROVE  TenancyInv'
  <1>1. PICK q : q = [op |-> "feature", feature |-> f, from |-> feature[f], to |-> to]
    OBVIOUS
  <1>2. /\ task[s] = NoTask /\ to \in ENTERPRISE_FEATURE_TRANSITIONS[feature[f]]
        /\ task' = [task EXCEPT ![s] = q] /\ business' = business /\ feature' = feature
        /\ asking' = asking /\ staff' = staff /\ adminLock' = adminLock
    BY <1>1 DEF DecideFeature, PlatformAdminGuard, Decides
  <1>3. q \in FeatureTasks
    BY <1>1, <1>2 DEF FeatureTasks, TenancyInv, PlatformTables
  <1>4. task[s].op # "counted"
    BY <1>2 DEF NoTask
  <1> QED
    BY <1>2, <1>3, <1>4, StaffUntouched DEF TenancyInv, PlatformTables

LEMMA CommitDecisionKeeps ==
    ASSUME TenancyInv, NEW s \in Staff, CommitDecision(s)
    PROVE  TenancyInv'
  <1>1. /\ task[s].op = "feature" /\ task' = [task EXCEPT ![s] = NoTask]
        /\ feature' = IF DecisionApplies(task[s])
                      THEN [feature EXCEPT ![task[s].feature] = task[s].to] ELSE feature
        /\ business' = business /\ asking' = asking /\ staff' = staff /\ adminLock' = adminLock
    BY DEF CommitDecision, Decided
  <1>2. task[s] \in FeatureTasks
    BY <1>1, TaskShapes DEF TenancyInv, PlatformTables
  <1>3. feature' \in [Features -> FeatureStatuses \cup {"none"}]
    BY <1>1, <1>2 DEF FeatureTasks, TenancyInv, PlatformTables
  <1> QED
    BY <1>1, <1>3, StaffUntouched DEF TenancyInv, PlatformTables

-----------------------------------------------------------------------------
(* The platform's own people.                                                *)

\* A step that moves no decision, keeps everybody's access, keeps nobody's row
\* from existing and leaves the active active.
LEMMA PeopleKept ==
    ASSUME TenancyInv, task' = task, adminLock' = adminLock, staff' \in [Staff -> StaffType],
           \A t \in Staff :
               /\ staff'[t].full <=> staff[t].full
               /\ staff[t].status = "active" => staff'[t].status = "active"
               /\ staff[t].status \in {"suspended", "invited"} =>
                     staff'[t].status = staff[t].status \/ staff'[t].status = "active"
    PROVE  FullStaysFull' /\ CountedAdmins' /\ (\E t \in Staff : Admin(t))'
  <1>1. /\ task \in [Staff -> {NoTask} \cup BusinessTasks \cup FeatureTasks \cup StaffTasks]
        /\ staff \in [Staff -> StaffType] /\ Configured \in Staff
    BY TenancyAssumption DEF TenancyAssumption, TenancyInv, PlatformTables
  <1>2. \A q \in StaffTasks : q.target \in Staff
    BY DEF StaffTasks
  <1>3. \A t \in Staff : staff[t].full \in BOOLEAN /\ staff'[t].full \in BOOLEAN
                         /\ staff[t].status \in StaffStatuses
    BY <1>1 DEF StaffType, StaffStatuses
  <1>4. \A t \in Staff : staff'[t].full = staff[t].full
    BY <1>3
  <1>5. \A t \in Staff : Admin(t) => Admin(t)'
    BY DEF Admin
  <1>6. FullStaysFull'
    BY <1>1, <1>2, <1>3, <1>4 DEF FullStaysFull, TenancyInv, StaffStatuses
  <1> QED
    BY <1>5, <1>6 DEF TenancyInv, CountedAdmins

LEMMA InviteStaffKeeps ==
    ASSUME TenancyInv, NEW s \in Staff, NEW t \in Staff, NEW roles \in BOOLEAN,
           InviteStaff(s, t, roles)
    PROVE  TenancyInv'
  <1>1. PICK new : new = [status |-> "invited", full |-> FALSE, accepted |-> FALSE, roles |-> roles]
    OBVIOUS
  <1>2. /\ staff[t].status = "none" /\ staff' = [staff EXCEPT ![t] = new]
        /\ business' = business /\ feature' = feature /\ asking' = asking
        /\ task' = task /\ adminLock' = adminLock
    BY <1>1 DEF InviteStaff
  <1>3. new \in StaffType /\ new.full = FALSE
    BY <1>1 DEF StaffType
  <1>4. staff \in [Staff -> StaffType] /\ staff[t].full \in BOOLEAN /\ ~staff[t].full
    BY <1>2 DEF TenancyInv, PlatformTables, FullStaysFull, StaffType
  <1>5. /\ staff' \in [Staff -> StaffType] /\ staff'[t] = new
        /\ \A o \in Staff \ {t} : staff'[o] = staff[o]
    BY <1>2, <1>3, <1>4
  <1>6. FullStaysFull' /\ CountedAdmins' /\ (\E o \in Staff : Admin(o))'
    BY <1>2, <1>3, <1>4, <1>5, PeopleKept
  <1> QED
    BY <1>2, <1>5, <1>6 DEF TenancyInv, PlatformTables

LEMMA AcceptStaffInviteKeeps ==
    ASSUME TenancyInv, NEW t \in Staff, AcceptStaffInvite(t)
    PROVE  TenancyInv'
  <1>1. PICK old \in StaffType : old = staff[t]
    BY DEF TenancyInv, PlatformTables
  <1>2. PICK new : new = [old EXCEPT !.status = "active", !.accepted = TRUE]
    OBVIOUS
  <1>3. new \in StaffType /\ new.full = old.full /\ new.status = "active"
    BY <1>2 DEF StaffType
  <1>4. staff \in [Staff -> StaffType]
    BY DEF TenancyInv, PlatformTables
  <1>5. /\ staff[t].status = "invited"
        /\ staff' = [staff EXCEPT ![t].status = "active", ![t].accepted = TRUE]
        /\ business' = business /\ feature' = feature /\ asking' = asking
        /\ task' = task /\ adminLock' = adminLock
    BY DEF AcceptStaffInvite
  <1>6. staff' = [staff EXCEPT ![t] = new]
    BY <1>1, <1>2, <1>4, <1>5
  <1>7. /\ staff' \in [Staff -> StaffType] /\ staff'[t] = new
        /\ \A o \in Staff \ {t} : staff'[o] = staff[o]
    BY <1>3, <1>4, <1>6
  <1>8. FullStaysFull' /\ CountedAdmins' /\ (\E o \in Staff : Admin(o))'
    BY <1>1, <1>3, <1>5, <1>7, PeopleKept
  <1> QED
    BY <1>5, <1>7, <1>8 DEF TenancyInv, PlatformTables

LEMMA SetStaffRolesKeeps ==
    ASSUME TenancyInv, NEW s \in Staff, NEW t \in Staff, NEW roles \in BOOLEAN,
           SetStaffRoles(s, t, roles)
    PROVE  TenancyInv'
  <1>1. PICK old \in StaffType : old = staff[t]
    BY DEF TenancyInv, PlatformTables
  <1>2. PICK new : new = [old EXCEPT !.roles = roles]
    OBVIOUS
  <1>3. new \in StaffType /\ new.full = old.full /\ new.status = old.status
    BY <1>2 DEF StaffType
  <1>4. staff \in [Staff -> StaffType]
    BY DEF TenancyInv, PlatformTables
  <1>5. /\ staff' = [staff EXCEPT ![t].roles = roles]
        /\ business' = business /\ feature' = feature /\ asking' = asking
        /\ task' = task /\ adminLock' = adminLock
    BY DEF SetStaffRoles
  <1>6. staff' = [staff EXCEPT ![t] = new]
    BY <1>1, <1>2, <1>4, <1>5
  <1>7. /\ staff' \in [Staff -> StaffType] /\ staff'[t] = new
        /\ \A o \in Staff \ {t} : staff'[o] = staff[o]
    BY <1>3, <1>4, <1>6
  <1>8. FullStaysFull' /\ CountedAdmins' /\ (\E o \in Staff : Admin(o))'
    BY <1>1, <1>3, <1>5, <1>7, PeopleKept
  <1> QED
    BY <1>5, <1>7, <1>8 DEF TenancyInv, PlatformTables

\* Only an active address is provisioned, and the configured admin already has
\* full access.
LEMMA BootstrapKeeps == ASSUME TenancyInv, Bootstrap PROVE TenancyInv'
  <1>1. PICK old \in StaffType : old = staff[Configured]
    BY TenancyAssumption DEF TenancyAssumption, TenancyInv, PlatformTables
  <1>2. PICK new : new = [old EXCEPT !.status = "active", !.full = TRUE]
    OBVIOUS
  <1>3. new \in StaffType /\ new.full = TRUE /\ new.status = "active"
    BY <1>2 DEF StaffType
  <1>4. staff \in [Staff -> StaffType] /\ Configured \in Staff /\ staff[Configured].full
    BY TenancyAssumption DEF TenancyAssumption, TenancyInv, PlatformTables, FullStaysFull
  <1>5. /\ staff' = staff \/ staff' = [staff EXCEPT ![Configured] = new]
        /\ business' = business /\ feature' = feature /\ asking' = asking
        /\ task' = task /\ adminLock' = adminLock
    BY <1>1, <1>2 DEF Bootstrap, ensureStaffRow
  <1>6. /\ staff' \in [Staff -> StaffType]
        /\ staff'[Configured] = new \/ staff' = staff
        /\ \A o \in Staff \ {Configured} : staff'[o] = staff[o]
    BY <1>3, <1>4, <1>5
  <1>7. FullStaysFull' /\ CountedAdmins' /\ (\E o \in Staff : Admin(o))'
    BY <1>3, <1>4, <1>5, <1>6, PeopleKept
  <1> QED
    BY <1>5, <1>6, <1>7 DEF TenancyInv, PlatformTables

LEMMA SetStaffStatusKeeps ==
    ASSUME TenancyInv, NEW s \in Staff, NEW t \in Staff, NEW to \in {"active", "suspended"},
           SetStaffStatus(s, t, to)
    PROVE  TenancyInv'
  <1>1. PICK q : q = [op |-> "staff", target |-> t, from |-> staff[t].status, to |-> to,
                      full |-> staff[t].full]
    OBVIOUS
  <1>2. /\ task[s] = NoTask /\ staff[t].status # "none" /\ task' = [task EXCEPT ![s] = q]
        /\ business' = business /\ feature' = feature
        /\ asking' = asking /\ staff' = staff /\ adminLock' = adminLock
    BY <1>1 DEF SetStaffStatus, PlatformAdminGuard, Decides
  <1>3. /\ task \in [Staff -> {NoTask} \cup BusinessTasks \cup FeatureTasks \cup StaffTasks]
        /\ staff \in [Staff -> StaffType]
    BY DEF TenancyInv, PlatformTables
  <1>4. q \in StaffTasks /\ q.op = "staff" /\ q.target = t /\ q.full = staff[t].full
    BY <1>1, <1>3 DEF StaffTasks, StaffType, StaffStatuses
  <1>5. /\ task' \in [Staff -> {NoTask} \cup BusinessTasks \cup FeatureTasks \cup StaffTasks]
        /\ task'[s] = q /\ \A b \in Staff \ {s} : task'[b] = task[b]
    BY <1>2, <1>3, <1>4
  <1>6. FullStaysFull'
    BY <1>2, <1>4, <1>5 DEF FullStaysFull, TenancyInv
  <1>7. \A o \in Staff : Admin(o)' <=> Admin(o)
    BY <1>2 DEF Admin
  <1>8. CountedAdmins'
    BY <1>2, <1>4, <1>5, <1>7 DEF CountedAdmins, TenancyInv
  <1> QED
    BY <1>2, <1>5, <1>6, <1>7, <1>8 DEF TenancyInv, PlatformTables

LEMMA LockAndCountAdminsKeeps ==
    ASSUME TenancyInv, NEW s \in Staff, LockAndCountAdmins(s)
    PROVE  TenancyInv'
  <1>1. /\ task \in [Staff -> {NoTask} \cup BusinessTasks \cup FeatureTasks \cup StaffTasks]
        /\ staff \in [Staff -> StaffType]
    BY DEF TenancyInv, PlatformTables
  <1>2. PICK q : q = task[s]
    OBVIOUS
  <1>3. PICK n : n = [q EXCEPT !.op = "counted"]
    OBVIOUS
  <1>4. /\ q.op = "staff" /\ adminLock = NoHolder /\ adminLock' = s
        /\ \E o \in Staff \ {q.target} : Admin(o)
        /\ task' = [task EXCEPT ![s].op = "counted"]
        /\ business' = business /\ feature' = feature /\ asking' = asking /\ staff' = staff
    BY <1>2 DEF LockAndCountAdmins, NeedsAdminLock, lockPlatformAdmins, OtherActiveAdmins
  <1>5. q \in StaffTasks
    BY <1>1, <1>2, <1>4, TaskShapes
  <1>6. n \in StaffTasks /\ n.op = "counted" /\ n.target = q.target /\ n.full = q.full
    BY <1>3, <1>5 DEF StaffTasks
  <1>7. task' = [task EXCEPT ![s] = n]
    BY <1>1, <1>2, <1>3, <1>4
  <1>8. /\ task' \in [Staff -> {NoTask} \cup BusinessTasks \cup FeatureTasks \cup StaffTasks]
        /\ task'[s] = n /\ \A b \in Staff \ {s} : task'[b] = task[b]
    BY <1>1, <1>6, <1>7
  <1>9. FullStaysFull'
    BY <1>2, <1>4, <1>5, <1>6, <1>8 DEF FullStaysFull, TenancyInv
  <1>10. \A o \in Staff : Admin(o)' <=> Admin(o)
    BY <1>4 DEF Admin
  <1>11. \A b \in Staff : task[b].op # "counted"
    BY <1>4, HolderAssumption DEF HolderAssumption, TenancyInv, CountedAdmins
  <1>12. CountedAdmins'
    BY <1>4, <1>6, <1>8, <1>10, <1>11 DEF CountedAdmins
  <1> QED
    BY <1>4, <1>8, <1>9, <1>10, <1>12 DEF TenancyInv, PlatformTables

LEMMA RefuseLastAdminKeeps ==
    ASSUME TenancyInv, NEW s \in Staff, RefuseLastAdmin(s)
    PROVE  TenancyInv'
  <1>1. /\ task[s].op = "staff" /\ task' = [task EXCEPT ![s] = NoTask]
        /\ business' = business /\ feature' = feature
        /\ asking' = asking /\ staff' = staff /\ adminLock' = adminLock
    BY DEF RefuseLastAdmin, NeedsAdminLock, Decided
  <1> QED
    BY <1>1, StaffUntouched DEF TenancyInv, PlatformTables

\* The write moves the target from what was read, or nothing.
LEMMA WriteStaffStatusKeeps ==
    ASSUME PlatformTables, NEW q \in StaffTasks, WriteStaffStatus(q),
           staff[q.target].status # "none"
    PROVE  /\ staff' \in [Staff -> StaffType]
           /\ \A t \in Staff :
                 /\ staff'[t].full = staff[t].full
                 /\ staff'[t].status = staff[t].status \/ (t = q.target /\ staff'[t].status = q.to)
  <1>1. staff \in [Staff -> StaffType] /\ q.target \in Staff /\ q.to \in {"active", "suspended"}
    BY DEF PlatformTables, StaffTasks
  <1>2. PICK old \in StaffType : old = staff[q.target]
    BY <1>1
  <1>3. PICK new : new = [old EXCEPT !.status = q.to]
    OBVIOUS
  <1>4. new \in StaffType /\ new.full = old.full /\ new.status = q.to
    BY <1>1, <1>3 DEF StaffType
  <1>5. staff' = staff \/ staff' = [staff EXCEPT ![q.target].status = q.to]
    BY DEF WriteStaffStatus
  <1>6. staff' = staff \/ staff' = [staff EXCEPT ![q.target] = new]
    BY <1>1, <1>2, <1>3, <1>5
  <1>7. CASE staff' = staff
    BY <1>1, <1>7
  <1>8. CASE staff' = [staff EXCEPT ![q.target] = new]
    BY <1>1, <1>2, <1>4, <1>8
  <1> QED
    BY <1>6, <1>7, <1>8

\* What a decision on the staff leaves of the others in flight.
LEMMA StaffWritten ==
    ASSUME TenancyInv, NEW s \in Staff, task[s].op \in {"staff", "counted"},
           WriteStaffStatus(task[s]), Decided(s)
    PROVE  /\ task[s] \in StaffTasks
           /\ task' \in [Staff -> {NoTask} \cup BusinessTasks \cup FeatureTasks \cup StaffTasks]
           /\ task'[s] = NoTask /\ \A b \in Staff \ {s} : task'[b] = task[b]
           /\ staff' \in [Staff -> StaffType] /\ FullStaysFull'
           /\ \A t \in Staff :
                 /\ staff'[t].full = staff[t].full
                 /\ \/ staff'[t].status = staff[t].status
                    \/ t = task[s].target /\ staff'[t].status = task[s].to
  <1>1. /\ task \in [Staff -> {NoTask} \cup BusinessTasks \cup FeatureTasks \cup StaffTasks]
        /\ PlatformTables /\ FullStaysFull /\ Configured \in Staff
    BY TenancyAssumption DEF TenancyAssumption, TenancyInv, PlatformTables
  <1>2. task[s] \in StaffTasks
    BY <1>1, TaskShapes
  <1>3. staff[task[s].target].status # "none"
    BY <1>1, <1>2 DEF FullStaysFull
  <1>4. /\ staff' \in [Staff -> StaffType]
        /\ \A t \in Staff :
              /\ staff'[t].full = staff[t].full
              /\ \/ staff'[t].status = staff[t].status
                 \/ t = task[s].target /\ staff'[t].status = task[s].to
    BY <1>1, <1>2, <1>3, WriteStaffStatusKeeps
  <1>5. /\ task' \in [Staff -> {NoTask} \cup BusinessTasks \cup FeatureTasks \cup StaffTasks]
        /\ task'[s] = NoTask /\ \A b \in Staff \ {s} : task'[b] = task[b]
    BY <1>1 DEF Decided
  <1>6. NoTask \notin StaffTasks
    BY DEF NoTask, StaffTasks
  <1>7. \A q \in StaffTasks : q.target \in Staff /\ q.to \in {"active", "suspended"}
    BY DEF StaffTasks
  <1>8. FullStaysFull'
    BY <1>1, <1>2, <1>4, <1>5, <1>6, <1>7 DEF FullStaysFull
  <1> QED
    BY <1>2, <1>4, <1>5, <1>8

\* Without the lock nobody stops being an active admin.
LEMMA CommitStaffStatusKeeps ==
    ASSUME TenancyInv, NEW s \in Staff, CommitStaffStatus(s)
    PROVE  TenancyInv'
  <1>1. /\ task[s].op = "staff" /\ ~NeedsAdminLock(task[s]) /\ WriteStaffStatus(task[s])
        /\ Decided(s) /\ adminLock' = adminLock
        /\ business' = business /\ feature' = feature /\ asking' = asking
    BY DEF CommitStaffStatus
  <1>2. /\ task[s] \in StaffTasks
        /\ task' \in [Staff -> {NoTask} \cup BusinessTasks \cup FeatureTasks \cup StaffTasks]
        /\ task'[s] = NoTask /\ \A b \in Staff \ {s} : task'[b] = task[b]
        /\ staff' \in [Staff -> StaffType] /\ FullStaysFull'
        /\ \A t \in Staff :
              /\ staff'[t].full = staff[t].full
              /\ \/ staff'[t].status = staff[t].status
                 \/ t = task[s].target /\ staff'[t].status = task[s].to
    BY <1>1, StaffWritten
  <1>3. task[s].to = "active" \/ ~staff[task[s].target].full
    BY <1>1, <1>2 DEF NeedsAdminLock, StaffTasks, TenancyInv, FullStaysFull
  <1>4. \A t \in Staff : Admin(t) => Admin(t)'
    BY <1>2, <1>3 DEF Admin
  <1>5. CountedAdmins'
    BY <1>1, <1>2, <1>4 DEF CountedAdmins, TenancyInv, NoTask
  <1> QED
    BY <1>1, <1>2, <1>4, <1>5 DEF TenancyInv, PlatformTables

\* With it the one counted is still there afterwards.
LEMMA CommitAdminSuspensionKeeps ==
    ASSUME TenancyInv, NEW s \in Staff, CommitAdminSuspension(s)
    PROVE  TenancyInv'
  <1>1. /\ task[s].op = "counted" /\ WriteStaffStatus(task[s])
        /\ Decided(s) /\ adminLock' = NoHolder
        /\ business' = business /\ feature' = feature /\ asking' = asking
    BY DEF CommitAdminSuspension
  <1>2. /\ task[s] \in StaffTasks
        /\ task' \in [Staff -> {NoTask} \cup BusinessTasks \cup FeatureTasks \cup StaffTasks]
        /\ task'[s] = NoTask /\ \A b \in Staff \ {s} : task'[b] = task[b]
        /\ staff' \in [Staff -> StaffType] /\ FullStaysFull'
        /\ \A t \in Staff :
              /\ staff'[t].full = staff[t].full
              /\ \/ staff'[t].status = staff[t].status
                 \/ t = task[s].target /\ staff'[t].status = task[s].to
    BY <1>1, StaffWritten
  <1>3. PICK o \in Staff \ {task[s].target} : Admin(o)
    BY <1>1 DEF TenancyInv, CountedAdmins
  <1>4. Admin(o)'
    BY <1>2, <1>3 DEF Admin
  <1>5. \A b \in Staff \ {s} : task[b].op # "counted"
    BY <1>1 DEF TenancyInv, CountedAdmins
  <1>6. CountedAdmins'
    BY <1>2, <1>5 DEF CountedAdmins, NoTask
  <1> QED
    BY <1>1, <1>2, <1>4, <1>6 DEF TenancyInv, PlatformTables

LEMMA TenancyStarts == TenancyInit => TenancyInv
  <1> SUFFICES ASSUME TenancyInit PROVE TenancyInv
    OBVIOUS
  <1>1. FullAdmin \in StaffType /\ NotStaff \in StaffType
    BY DEF FullAdmin, NotStaff, StaffType
  <1>2. /\ staff \in [Staff -> StaffType] /\ Configured \in Staff
        /\ \A t \in Staff : staff[t] = FullAdmin \/ staff[t] = NotStaff
        /\ staff[Configured] = FullAdmin
    BY <1>1, TenancyAssumption DEF TenancyInit, TenancyAssumption
  <1>3. NoTask \notin StaffTasks /\ NoTask.op = "idle"
    BY DEF NoTask, StaffTasks
  <1>4. Admin(Configured) /\ FullStaysFull
    BY <1>2, <1>3 DEF TenancyInit, Admin, FullStaysFull, FullAdmin, NotStaff
  <1> QED
    BY <1>2, <1>3, <1>4 DEF TenancyInit, TenancyInv, PlatformTables, CountedAdmins

LEMMA TenancyStep == TenancyInv /\ [TenancyNext]_tenancyVars => TenancyInv'
  <1> SUFFICES ASSUME TenancyInv, [TenancyNext]_tenancyVars PROVE TenancyInv'
    OBVIOUS
  <1>1. CASE UNCHANGED tenancyVars
    BY <1>1 DEF tenancyVars, TenancyInv, PlatformTables, FullStaysFull, CountedAdmins, Admin
  <1>2. CASE TenancyNext
    BY <1>2, SignupKeeps, CommitRequestKeeps, BootstrapKeeps, RequestFeatureKeeps,
       ExpireFeatureKeeps, SetEnterpriseStatusKeeps, DecideFeatureKeeps, InviteStaffKeeps,
       SetStaffRolesKeeps, SetStaffStatusKeeps, CommitEnterpriseStatusKeeps, CommitDecisionKeeps,
       LockAndCountAdminsKeeps, RefuseLastAdminKeeps, CommitStaffStatusKeeps,
       CommitAdminSuspensionKeeps, AcceptStaffInviteKeeps
       DEF TenancyNext
  <1> QED
    BY <1>1, <1>2

THEOREM TenancyInvariant == TenancySpec => []TenancyInv
  <1> QED
    BY TenancyStarts, TenancyStep, PTL DEF TenancySpec

-----------------------------------------------------------------------------
(* What a step may never do.                                                 *)

\* Two writers move a feature; each moves it along the machine, from the state
\* its fence names.
LEMMA FeatureMoves ==
    ASSUME TenancyInv, [TenancyNext]_tenancyVars, NEW f \in Features, feature'[f] # feature[f]
    PROVE  feature'[f] \in ENTERPRISE_FEATURE_TRANSITIONS[feature[f]]
  <1>1. feature \in [Features -> FeatureStatuses \cup {"none"}]
    BY DEF TenancyInv, PlatformTables
  <1>2. feature' # feature
    OBVIOUS
  <1>3. \/ CommitRequest \/ (\E g \in Features : ExpireFeature(g))
        \/ (\E s \in Staff : CommitDecision(s))
    BY <1>2 DEF TenancyNext, tenancyVars, Signup, Bootstrap, RequestFeature, SetEnterpriseStatus,
       DecideFeature, InviteStaff, SetStaffRoles, SetStaffStatus, CommitEnterpriseStatus,
       LockAndCountAdmins, RefuseLastAdmin, CommitStaffStatus, CommitAdminSuspension,
       AcceptStaffInvite, Decides
  <1>4. CASE CommitRequest
    <2>1. /\ feature[f] \in {"none", "declined"} /\ feature'[f] = "access_requested"
      BY <1>1, <1>4 DEF CommitRequest, Requestable
    <2> QED
      BY <2>1 DEF ENTERPRISE_FEATURE_TRANSITIONS
  <1>5. CASE \E g \in Features : ExpireFeature(g)
    <2>1. feature[f] = "active" /\ feature'[f] = "expired"
      BY <1>1, <1>5 DEF ExpireFeature
    <2> QED
      BY <2>1 DEF ENTERPRISE_FEATURE_TRANSITIONS
  <1>6. ASSUME NEW s \in Staff, CommitDecision(s)
        PROVE  feature'[f] \in ENTERPRISE_FEATURE_TRANSITIONS[feature[f]]
    <2>1. task[s] \in FeatureTasks
      BY <1>6, TaskShapes DEF CommitDecision, TenancyInv, PlatformTables
    <2>2. /\ f = task[s].feature /\ feature[f] = task[s].from /\ feature'[f] = task[s].to
      BY <1>1, <1>6 DEF CommitDecision, DecisionApplies
    <2> QED
      BY <2>1, <2>2 DEF FeatureTasks
  <1> QED
    BY <1>3, <1>4, <1>5, <1>6

LEMMA SuspensionEnds ==
    ASSUME TenancyInv, [TenancyNext]_tenancyVars, business = "suspended", business' = "active"
    PROVE  \E s \in Staff : /\ task[s].op = "business" /\ task'[s] = NoTask
                            /\ task[s].from = "suspended"
  <1>1. business' # business
    OBVIOUS
  <1>2. Signup \/ \E s \in Staff : CommitEnterpriseStatus(s)
    BY <1>1 DEF TenancyNext, tenancyVars, Bootstrap, RequestFeature, SetEnterpriseStatus,
       DecideFeature, InviteStaff, SetStaffRoles, SetStaffStatus, CommitDecision, CommitRequest,
       ExpireFeature, LockAndCountAdmins, RefuseLastAdmin, CommitStaffStatus,
       CommitAdminSuspension, AcceptStaffInvite, Decides
  <1>3. PICK s \in Staff : CommitEnterpriseStatus(s)
    BY <1>2 DEF Signup
  <1>4. task \in [Staff -> {NoTask} \cup BusinessTasks \cup FeatureTasks \cup StaffTasks]
    BY DEF TenancyInv, PlatformTables
  <1>5. task[s].op = "business" /\ task'[s] = NoTask /\ task[s].from = "suspended"
    BY <1>3, <1>4 DEF CommitEnterpriseStatus, updateEnterpriseStatus, Decided
  <1> QED
    BY <1>5

\* For any number of admins, businesses' requests and sweeps at once: the
\* console keeps an active platform admin, a feature moves only along its
\* machine, and a suspension is lifted only by an admin who saw it (the fences
\* of requestAccess, updateEnterpriseFeatureStatus, updateEnterpriseStatus and
\* setStaffStatus, and the lock on the admins' rows).
THEOREM DecisionsStaySound == TenancySpec => TenancyIsSound
  <1>1. TenancyInv => TenancyTypeOK /\ SomebodyAdministers
    BY DEF TenancyInv, PlatformTables, TenancyTypeOK, SomebodyAdministers
  <1>2. TenancyInv /\ [TenancyNext]_tenancyVars
          => [\A f \in Features :
                 feature'[f] # feature[f]
                   => feature'[f] \in ENTERPRISE_FEATURE_TRANSITIONS[feature[f]]]_tenancyVars
    BY FeatureMoves
  <1>3. TenancyInv /\ [TenancyNext]_tenancyVars
          => [business = "suspended" /\ business' = "active"
                => \E s \in Staff : /\ task[s].op = "business" /\ task'[s] = NoTask
                                    /\ task[s].from = "suspended"]_tenancyVars
    BY SuspensionEnds
  <1> QED
    BY <1>1, <1>2, <1>3, TenancyInvariant, PTL
       DEF TenancySpec, TenancyIsSound, FeatureFollowsMachine, SuspensionLiftedKnowingly

-----------------------------------------------------------------------------
(* Connections: a state establishes one connection, whatever callbacks,     *)
(* disconnects, revocations and failures meet.                              *)

CallbackType ==
    {AtRest}
    \cup [phase : {"signed", "spent"}, state : States, login : Logins]
    \cup [phase : {"found", "free"}, state : States, login : Logins, pages : SUBSET PlatformPages]
    \cup [phase : {"subscribe"}, todo : SUBSET PlatformPages]

LeavingType == {AtRest} \cup [phase : {"telling"}, login : Logins, todo : SUBSET PlatformPages]

ReconcilerType ==
    {AtRest} \cup [phase : {"compare", "cascade"}, business : Businesses, login : Logins,
                   page : PlatformPages]

ConnectionTables ==
    /\ ConnectionsTypeOK
    /\ callback \in [Callbacks -> CallbackType]
    /\ leaving \in [Businesses -> LeavingType]
    /\ reconciler \in ReconcilerType

\* A state was minted for a business, and is spent when it is consumed.
StatesAreMinted ==
    \A n \in States :
        /\ state[n].status # "none" => state[n].business \in Businesses
        /\ state[n].status \in {"none", "minted"} => uses[n] = 0
        /\ uses[n] <= 1

\* A callback carries a state that exists.
CallbacksAreMinted ==
    \A c \in Callbacks :
        callback[c].phase \in {"signed", "spent", "found", "free"}
            => state[callback[c].state].status # "none"

\* The index: no two logins of a business hold one page.
PagesAreUnique ==
    \A b \in Businesses, p \in PlatformPages, l, m \in Logins :
        HeldUnder(b, l, p) /\ HeldUnder(b, m, p) => l = m

ConnectionsInv ==
    /\ ConnectionTables /\ StatesAreMinted /\ CallbacksAreMinted /\ PagesAreUnique
    /\ NoTokenAfterDisconnect

LEMMA CallbackPhases ==
    ASSUME NEW q \in CallbackType
    PROVE  /\ q.phase \in {"signed", "spent"} =>
                 q \in [phase : {"signed", "spent"}, state : States, login : Logins]
           /\ q.phase \in {"found", "free"} =>
                 q \in [phase : {"found", "free"}, state : States, login : Logins,
                        pages : SUBSET PlatformPages]
           /\ q.phase = "subscribe" => q \in [phase : {"subscribe"}, todo : SUBSET PlatformPages]
           /\ q.phase \in {"signed", "spent", "found", "free"} => q.state \in States
  BY DEF CallbackType, AtRest

\* One callback moves on: it rests, subscribes, or carries a state that exists.
LEMMA CallbackMoves ==
    ASSUME ConnectionTables, CallbacksAreMinted, NEW c \in Callbacks, NEW q \in CallbackType,
           callback' = [callback EXCEPT ![c] = q],
           \A n \in States : state[n].status # "none" => state'[n].status # "none",
           q.phase \in {"signed", "spent", "found", "free"} => state[q.state].status # "none"
    PROVE  callback' \in [Callbacks -> CallbackType] /\ CallbacksAreMinted'
  <1>1. callback \in [Callbacks -> CallbackType]
    BY DEF ConnectionTables
  <1>2. /\ callback' \in [Callbacks -> CallbackType] /\ callback'[c] = q
        /\ \A d \in Callbacks \ {c} : callback'[d] = callback[d]
    BY <1>1
  <1>3. \A r \in CallbackType : r.phase \in {"signed", "spent", "found", "free"} => r.state \in States
    BY CallbackPhases
  <1> QED
    BY <1>1, <1>2, <1>3 DEF CallbacksAreMinted

\* What rests on the channels alone.
LEMMA ChannelsUntouched ==
    ASSUME ConnectionsInv, channel' = channel
    PROVE  PagesAreUnique' /\ NoTokenAfterDisconnect'
  BY DEF ConnectionsInv, PagesAreUnique, NoTokenAfterDisconnect, HeldUnder

\* The rows of one login in one business change; the others stay.
LEMMA ChannelsWritten ==
    ASSUME ConnectionsInv, NEW b \in Businesses, NEW l \in Logins,
           NEW rows \in [PlatformPages -> ChannelType],
           channel' = [channel EXCEPT ![b][l] = rows],
           \A p \in PlatformPages : rows[p].status = "disconnected" => ~rows[p].token,
           \A p \in PlatformPages :
               rows[p].status # "none" =>
                   \/ HeldUnder(b, l, p)
                   \/ \A m \in Logins \ {l} : ~HeldUnder(b, m, p)
    PROVE  /\ channel' \in [Businesses -> [Logins -> [PlatformPages -> ChannelType]]]
           /\ PagesAreUnique' /\ NoTokenAfterDisconnect'
  <1>1. channel \in [Businesses -> [Logins -> [PlatformPages -> ChannelType]]]
    BY DEF ConnectionsInv, ConnectionTables, ConnectionsTypeOK
  <1>2. PICK own \in [Logins -> [PlatformPages -> ChannelType]] : own = [channel[b] EXCEPT ![l] = rows]
    BY <1>1
  <1>3. channel' = [channel EXCEPT ![b] = own]
    BY <1>1, <1>2
  <1>4. /\ channel' \in [Businesses -> [Logins -> [PlatformPages -> ChannelType]]]
        /\ channel'[b] = own /\ \A o \in Businesses \ {b} : channel'[o] = channel[o]
    BY <1>1, <1>3
  <1>5. channel'[b][l] = rows /\ \A m \in Logins \ {l} : channel'[b][m] = channel[b][m]
    BY <1>1, <1>2, <1>4
  <1>6. NoTokenAfterDisconnect'
    BY <1>4, <1>5 DEF NoTokenAfterDisconnect, ConnectionsInv
  <1>7. PagesAreUnique'
    <2> SUFFICES ASSUME NEW o \in Businesses, NEW p \in PlatformPages, NEW x \in Logins,
                        NEW y \in Logins, HeldUnder(o, x, p)', HeldUnder(o, y, p)'
                 PROVE  x = y
      BY DEF PagesAreUnique
    <2>1. CASE o # b
      BY <1>4, <2>1 DEF HeldUnder, PagesAreUnique, ConnectionsInv
    <2>2. CASE o = b
      <3>1. \A m \in Logins \ {l} : HeldUnder(b, m, p)' <=> HeldUnder(b, m, p)
        BY <1>5 DEF HeldUnder
      <3>2. HeldUnder(b, l, p)' <=> rows[p].status # "none"
        BY <1>5 DEF HeldUnder
      <3> QED
        BY <2>2, <3>1, <3>2 DEF PagesAreUnique, ConnectionsInv
    <2> QED
      BY <2>1, <2>2
  <1> QED
    BY <1>4, <1>6, <1>7

-----------------------------------------------------------------------------
(* The OAuth round trip.                                                     *)

LEMMA MintKeeps ==
    ASSUME ConnectionsInv, NEW n \in States, NEW b \in Businesses, mint(n, b)
    PROVE  ConnectionsInv'
  <1>1. PICK new : new = [status |-> "minted", business |-> b]
    OBVIOUS
  <1>2. new \in StateType /\ new.status = "minted" /\ new.business = b
    BY <1>1 DEF StateType
  <1>3. /\ state[n].status = "none" /\ state' = [state EXCEPT ![n] = new]
        /\ UNCHANGED <<trading, callback, connection, channel, leaving, reconciler, subscribed,
                       failures, uses>>
    BY <1>1 DEF mint
  <1>4. state \in [States -> StateType]
    BY DEF ConnectionsInv, ConnectionTables, ConnectionsTypeOK
  <1>5. /\ state' \in [States -> StateType] /\ state'[n] = new
        /\ \A o \in States \ {n} : state'[o] = state[o]
    BY <1>2, <1>3, <1>4
  <1>6. StatesAreMinted'
    BY <1>2, <1>3, <1>5 DEF StatesAreMinted, ConnectionsInv
  <1>7. CallbacksAreMinted'
    BY <1>2, <1>3, <1>5, CallbackPhases DEF CallbacksAreMinted, ConnectionsInv, ConnectionTables
  <1>8. PagesAreUnique' /\ NoTokenAfterDisconnect'
    BY <1>3, ChannelsUntouched
  <1> QED
    BY <1>3, <1>5, <1>6, <1>7, <1>8 DEF ConnectionsInv, ConnectionTables, ConnectionsTypeOK

LEMMA StateExpiresKeeps ==
    ASSUME ConnectionsInv, NEW n \in States, StateExpires(n)
    PROVE  ConnectionsInv'
  <1>1. state \in [States -> StateType]
    BY DEF ConnectionsInv, ConnectionTables, ConnectionsTypeOK
  <1>2. PICK old \in StateType : old = state[n]
    BY <1>1
  <1>3. PICK new : new = [old EXCEPT !.status = "expired"]
    OBVIOUS
  <1>4. new \in StateType /\ new.status = "expired" /\ new.business = old.business
    BY <1>3 DEF StateType
  <1>5. /\ state[n].status = "minted" /\ state' = [state EXCEPT ![n].status = "expired"]
        /\ UNCHANGED <<trading, callback, connection, channel, leaving, reconciler, subscribed,
                       failures, uses>>
    BY DEF StateExpires
  <1>6. state' = [state EXCEPT ![n] = new]
    BY <1>1, <1>2, <1>3, <1>5
  <1>7. /\ state' \in [States -> StateType] /\ state'[n] = new
        /\ \A o \in States \ {n} : state'[o] = state[o]
    BY <1>1, <1>4, <1>6
  <1>8. StatesAreMinted'
    BY <1>2, <1>4, <1>5, <1>7 DEF StatesAreMinted, ConnectionsInv
  <1>9. CallbacksAreMinted'
    BY <1>4, <1>5, <1>7, CallbackPhases DEF CallbacksAreMinted, ConnectionsInv, ConnectionTables
  <1>10. PagesAreUnique' /\ NoTokenAfterDisconnect'
    BY <1>5, ChannelsUntouched
  <1> QED
    BY <1>5, <1>7, <1>8, <1>9, <1>10 DEF ConnectionsInv, ConnectionTables, ConnectionsTypeOK

\* A step of one callback that writes nothing.
LEMMA CallbackOnly ==
    ASSUME ConnectionsInv, NEW c \in Callbacks, NEW q \in CallbackType,
           callback' = [callback EXCEPT ![c] = q],
           q.phase \in {"signed", "spent", "found", "free"} => state[q.state].status # "none",
           UNCHANGED <<trading, state, connection, channel, leaving, reconciler, uses>>,
           subscribed' \subseteq PlatformPages, failures' \in 0 .. MaxFailures
    PROVE  ConnectionsInv'
  <1>1. callback' \in [Callbacks -> CallbackType] /\ CallbacksAreMinted'
    BY CallbackMoves DEF ConnectionsInv
  <1>2. PagesAreUnique' /\ NoTokenAfterDisconnect'
    BY ChannelsUntouched
  <1>3. StatesAreMinted'
    BY DEF ConnectionsInv, StatesAreMinted
  <1> QED
    BY <1>1, <1>2, <1>3 DEF ConnectionsInv, ConnectionTables, ConnectionsTypeOK

\* A call to the platform fails within its bound.
LEMMA FailuresBounded ==
    ASSUME ConnectionsInv
    PROVE  /\ subscribed \subseteq PlatformPages /\ failures \in 0 .. MaxFailures
           /\ CallFails => failures' \in 0 .. MaxFailures
  <1>1. MaxFailures \in Nat
    BY ConnectionsAssumption DEF ConnectionsAssumption
  <1>2. subscribed \subseteq PlatformPages /\ failures \in 0 .. MaxFailures
    BY DEF ConnectionsInv, ConnectionTables, ConnectionsTypeOK
  <1> QED
    BY <1>1, <1>2 DEF CallFails

LEMMA ReceiveCallbackKeeps ==
    ASSUME ConnectionsInv, NEW c \in Callbacks, NEW n \in States, NEW l \in Logins,
           ReceiveCallback(c, n, l)
    PROVE  ConnectionsInv'
  <1>1. PICK q : q = [phase |-> "signed", state |-> n, login |-> l]
    OBVIOUS
  <1>2. q \in CallbackType /\ q.state = n
    BY <1>1 DEF CallbackType
  <1>3. /\ callback' = [callback EXCEPT ![c] = q] /\ state[n].status \in {"minted", "consumed"}
        /\ UNCHANGED <<trading, state, connection, channel, leaving, reconciler, uses>>
        /\ subscribed' = subscribed /\ failures' = failures
    BY <1>1 DEF ReceiveCallback
  <1> QED
    BY <1>2, <1>3, FailuresBounded, CallbackOnly

LEMMA RestIsCallback == AtRest \in CallbackType /\ AtRest.phase = "idle"
  BY DEF CallbackType, AtRest

\* The nonce is spent by the statement that finds it unspent.
LEMMA ConsumeStateKeeps ==
    ASSUME ConnectionsInv, NEW c \in Callbacks, consume(c)
    PROVE  ConnectionsInv'
  <1>1. PICK p \in CallbackType : p = callback[c]
    BY DEF ConnectionsInv, ConnectionTables
  <1>2. PICK n : n = p.state
    OBVIOUS
  <1>3. p \in [phase : {"signed", "spent"}, state : States, login : Logins]
    BY <1>1, CallbackPhases DEF consume
  <1>4. /\ n \in States /\ state[n].status # "none" /\ state \in [States -> StateType]
        /\ uses \in [States -> Nat] /\ callback \in [Callbacks -> CallbackType]
    BY <1>1, <1>2, <1>3 DEF ConnectionsInv, CallbacksAreMinted, ConnectionTables, ConnectionsTypeOK
  <1>5. UNCHANGED <<trading, connection, channel, leaving, reconciler, subscribed, failures>>
    BY DEF consume
  <1>6. CASE ~Spendable(n)
    <2>1. callback' = [callback EXCEPT ![c] = AtRest] /\ state' = state /\ uses' = uses
      BY <1>1, <1>2, <1>6 DEF consume
    <2>2. subscribed' \subseteq PlatformPages /\ failures' \in 0 .. MaxFailures
      BY <1>5, FailuresBounded
    <2> QED
      BY <1>5, <2>1, <2>2, RestIsCallback, CallbackOnly
  <1>7. CASE Spendable(n)
    <2>1. PICK old \in StateType : old = state[n]
      BY <1>4
    <2>2. PICK new : new = [old EXCEPT !.status = "consumed"]
      OBVIOUS
    <2>3. PICK q : q = [p EXCEPT !.phase = "spent"]
      OBVIOUS
    <2>4. /\ old.status = "minted"
          /\ state' = [state EXCEPT ![n].status = "consumed"]
          /\ uses' = [uses EXCEPT ![n] = uses[n] + 1]
          /\ callback' = [callback EXCEPT ![c].phase = "spent"]
      BY <1>1, <1>2, <1>7, <2>1 DEF consume, Spendable
    <2>5. state' = [state EXCEPT ![n] = new] /\ callback' = [callback EXCEPT ![c] = q]
      BY <1>1, <1>4, <2>1, <2>2, <2>3, <2>4
    <2>6. /\ new \in StateType /\ new.status = "consumed" /\ new.business = old.business
          /\ q \in CallbackType /\ q.state = n
      BY <1>2, <1>3, <2>2, <2>3 DEF StateType, CallbackType
    <2>7. /\ state' \in [States -> StateType] /\ state'[n] = new
          /\ \A o \in States \ {n} : state'[o] = state[o]
      BY <1>4, <2>5, <2>6
    <2>8. uses[n] = 0
      BY <1>4, <2>1, <2>4 DEF ConnectionsInv, StatesAreMinted
    <2>9. /\ uses' \in [States -> Nat] /\ uses'[n] = 1
          /\ \A o \in States \ {n} : uses'[o] = uses[o]
      BY <1>4, <2>4, <2>8
    <2>10. StatesAreMinted'
      BY <2>1, <2>4, <2>6, <2>7, <2>9 DEF ConnectionsInv, StatesAreMinted
    <2>11. callback' \in [Callbacks -> CallbackType] /\ CallbacksAreMinted'
      <3>1. \A o \in States : state[o].status # "none" => state'[o].status # "none"
        BY <2>6, <2>7
      <3> QED
        BY <1>4, <2>5, <2>6, <3>1, CallbackMoves DEF ConnectionsInv
    <2>12. PagesAreUnique' /\ NoTokenAfterDisconnect'
      BY <1>5, ChannelsUntouched
    <2> QED
      BY <1>5, <2>7, <2>9, <2>10, <2>11, <2>12
         DEF ConnectionsInv, ConnectionTables, ConnectionsTypeOK
  <1> QED
    BY <1>6, <1>7

LEMMA DiscoverKeeps ==
    ASSUME ConnectionsInv, NEW c \in Callbacks, NEW accounts \in SUBSET PlatformPages,
           NEW granular \in SUBSET PlatformPages, Discover(c, accounts, granular)
    PROVE  ConnectionsInv'
  <1>1. PICK p \in CallbackType : p = callback[c]
    BY DEF ConnectionsInv, ConnectionTables
  <1>2. PICK q : q = [phase |-> "found", state |-> p.state, login |-> p.login,
                      pages |-> discover(accounts, granular)]
    OBVIOUS
  <1>3. /\ p.phase = "spent" /\ callback \in [Callbacks -> CallbackType]
        /\ \/ callback' = [callback EXCEPT ![c] = q]
           \/ callback' = [callback EXCEPT ![c] = AtRest]
        /\ UNCHANGED <<trading, state, connection, channel, leaving, reconciler, uses>>
        /\ subscribed' = subscribed /\ failures' = failures
    BY <1>1, <1>2 DEF Discover, ConnectionsInv, ConnectionTables
  <1>4. p \in [phase : {"signed", "spent"}, state : States, login : Logins]
    BY <1>3, CallbackPhases
  <1>5. q \in CallbackType /\ q.state = p.state
    BY <1>2, <1>4 DEF CallbackType, discover
  <1>6. state[q.state].status # "none"
    BY <1>1, <1>3, <1>5 DEF ConnectionsInv, CallbacksAreMinted
  <1> QED
    BY <1>3, <1>5, <1>6, RestIsCallback, FailuresBounded, CallbackOnly

LEMMA CheckClaimsKeeps ==
    ASSUME ConnectionsInv, NEW c \in Callbacks, CheckClaims(c)
    PROVE  ConnectionsInv'
  <1>1. PICK p \in CallbackType : p = callback[c]
    BY DEF ConnectionsInv, ConnectionTables
  <1>2. PICK q : q = [p EXCEPT !.phase = "free"]
    OBVIOUS
  <1>3. /\ p.phase = "found" /\ callback \in [Callbacks -> CallbackType]
        /\ \/ callback' = [callback EXCEPT ![c].phase = "free"]
           \/ callback' = [callback EXCEPT ![c] = AtRest]
        /\ UNCHANGED <<trading, state, connection, channel, leaving, reconciler, uses>>
        /\ subscribed' = subscribed /\ failures' = failures
    BY <1>1 DEF CheckClaims, ConnectionsInv, ConnectionTables
  <1>4. \/ callback' = [callback EXCEPT ![c] = q]
        \/ callback' = [callback EXCEPT ![c] = AtRest]
    BY <1>1, <1>2, <1>3
  <1>5. p \in [phase : {"found", "free"}, state : States, login : Logins,
               pages : SUBSET PlatformPages]
    BY <1>3, CallbackPhases
  <1>6. q \in CallbackType /\ q.state = p.state
    BY <1>2, <1>5 DEF CallbackType
  <1>7. state[q.state].status # "none"
    BY <1>1, <1>3, <1>6 DEF ConnectionsInv, CallbacksAreMinted
  <1> QED
    BY <1>3, <1>4, <1>6, <1>7, RestIsCallback, FailuresBounded, CallbackOnly

\* The index is asked by the statement that writes, whatever was claimed when
\* CheckClaims looked.
LEMMA UpsertType ==
    ASSUME NEW o \in ChannelType, NEW set, NEW p
    PROVE  /\ upsertChannel(o, p \in set) \in ChannelType
           /\ upsertChannel(o, p \in set).status \in {"active", "error"}
  <1>1. PICK s : s = IF p \in set THEN "active" ELSE "error"
    OBVIOUS
  <1>2. s \in {"active", "error"}
    BY <1>1
  <1>3. (p \in set \/ o.token) \in BOOLEAN
    BY Zenon
  <1>4. upsertChannel(o, p \in set) = [status |-> s, token |-> p \in set \/ o.token, reauth |-> FALSE]
    BY <1>1 DEF upsertChannel
  <1>5. PICK t \in BOOLEAN : t = (p \in set \/ o.token)
    BY <1>3, Zenon
  <1>6. upsertChannel(o, p \in set) = [status |-> s, token |-> t, reauth |-> FALSE]
    BY <1>4, <1>5, Zenon
  <1>7. PICK r : r = [status |-> s, token |-> t, reauth |-> FALSE]
    OBVIOUS
  <1>8. r \in ChannelType /\ r.status \in {"active", "error"}
    BY <1>2, <1>7 DEF ChannelType
  <1>9. upsertChannel(o, p \in set) = r
    BY <1>6, <1>7, Zenon
  <1> QED
    BY <1>8, <1>9, Zenon

LEMMA PersistKeeps ==
    ASSUME ConnectionsInv, NEW c \in Callbacks, NEW withToken \in SUBSET PlatformPages,
           Persist(c, withToken)
    PROVE  ConnectionsInv'
  <1>1. PICK p \in CallbackType : p = callback[c]
    BY DEF ConnectionsInv, ConnectionTables
  <1>2. PICK b : b = state[p.state].business
    OBVIOUS
  <1>3. /\ p.phase = "free" /\ withToken \subseteq p.pages
        /\ callback \in [Callbacks -> CallbackType]
        /\ UNCHANGED <<trading, state, leaving, reconciler, subscribed, failures, uses>>
    BY <1>1 DEF Persist, ConnectionsInv, ConnectionTables
  <1>4. p \in [phase : {"found", "free"}, state : States, login : Logins,
               pages : SUBSET PlatformPages]
    BY <1>3, CallbackPhases
  <1>5. b \in Businesses /\ p.login \in Logins
    <2>1. p.state \in States /\ p.login \in Logins
      BY <1>4
    <2>2. state[p.state].status # "none"
      BY <1>1, <1>3 DEF ConnectionsInv, CallbacksAreMinted
    <2> QED
      BY <1>2, <2>1, <2>2 DEF ConnectionsInv, StatesAreMinted
  <1>6. subscribed' \subseteq PlatformPages /\ failures' \in 0 .. MaxFailures
    BY <1>3, FailuresBounded
  <1>7. CASE CollidesOnPage(b, p.login, p.pages)
    <2>1. callback' = [callback EXCEPT ![c] = AtRest] /\ connection' = connection /\ channel' = channel
      BY <1>1, <1>2, <1>7 DEF Persist
    <2> QED
      BY <1>3, <1>6, <2>1, RestIsCallback, CallbackOnly
  <1>8. CASE ~CollidesOnPage(b, p.login, p.pages)
    <2>1. PICK old : old = channel[b][p.login]
      OBVIOUS
    <2>2. PICK rows : rows = [g \in PlatformPages |->
                                IF g \in p.pages THEN upsertChannel(old[g], g \in withToken) ELSE old[g]]
      OBVIOUS
    <2>3. PICK row : row = [status |-> "active", reauth |-> FALSE]
      OBVIOUS
    <2>4. PICK q : q = [phase |-> "subscribe", todo |-> withToken]
      OBVIOUS
    <2>5. /\ connection' = [connection EXCEPT ![b][p.login] = row]
          /\ channel' = [channel EXCEPT ![b][p.login] = rows]
          /\ callback' = [callback EXCEPT ![c] = q]
      BY <1>1, <1>2, <1>8, <2>1, <2>2, <2>3, <2>4 DEF Persist
    <2>6. /\ connection \in [Businesses -> [Logins -> ConnectionType]]
          /\ channel \in [Businesses -> [Logins -> [PlatformPages -> ChannelType]]]
      BY DEF ConnectionsInv, ConnectionTables, ConnectionsTypeOK
    <2>7. old \in [PlatformPages -> ChannelType]
      BY <1>5, <2>1, <2>6
    <2>8. ASSUME NEW g \in PlatformPages
          PROVE  /\ rows[g] \in ChannelType
                 /\ rows[g].status = "disconnected" => ~rows[g].token
                 /\ rows[g].status # "none" =>
                       \/ HeldUnder(b, p.login, g)
                       \/ \A m \in Logins \ {p.login} : ~HeldUnder(b, m, g)
      <3>1. CASE g \in p.pages
        <4>1. PICK o \in ChannelType : o = old[g]
          BY <2>7
        <4>2. rows[g] = upsertChannel(o, g \in withToken)
          BY <2>2, <3>1, <4>1
        <4>3. rows[g] \in ChannelType /\ rows[g].status \in {"active", "error"}
          BY <4>2, UpsertType
        <4>4. \A m \in Logins \ {p.login} : ~HeldUnder(b, m, g)
          BY <1>8, <3>1 DEF CollidesOnPage, findClaimedByAnotherConnection
        <4> QED
          BY <4>3, <4>4
      <3>2. CASE g \notin p.pages
        <4>1. rows[g] = old[g]
          BY <2>2, <3>2
        <4> QED
          BY <1>5, <2>1, <2>7, <4>1 DEF HeldUnder, ConnectionsInv, NoTokenAfterDisconnect
      <3> QED
        BY <3>1, <3>2
    <2>9. rows \in [PlatformPages -> ChannelType]
      <3>1. DOMAIN rows = PlatformPages /\ rows = [g \in PlatformPages |-> rows[g]]
        BY <2>2
      <3> QED
        BY <2>8, <3>1
    <2>10. /\ channel' \in [Businesses -> [Logins -> [PlatformPages -> ChannelType]]]
           /\ PagesAreUnique' /\ NoTokenAfterDisconnect'
      BY <1>5, <2>5, <2>8, <2>9, ChannelsWritten
    <2>11. connection' \in [Businesses -> [Logins -> ConnectionType]]
      <3>1. row \in ConnectionType
        BY <2>3 DEF ConnectionType
      <3> QED
        BY <1>5, <2>5, <2>6, <3>1
    <2>12. callback' \in [Callbacks -> CallbackType] /\ CallbacksAreMinted'
      <3>1. q \in CallbackType /\ q.phase = "subscribe"
        BY <1>3, <1>4, <2>4 DEF CallbackType
      <3>2. state' = state
        BY <1>3
      <3> QED
        BY <2>5, <3>1, <3>2, CallbackMoves DEF ConnectionsInv
    <2>13. StatesAreMinted'
      BY <1>3 DEF ConnectionsInv, StatesAreMinted
    <2> QED
      BY <1>3, <1>6, <2>10, <2>11, <2>12, <2>13
         DEF ConnectionsInv, ConnectionTables, ConnectionsTypeOK
  <1> QED
    BY <1>7, <1>8

LEMMA SubscribePageKeeps ==
    ASSUME ConnectionsInv, NEW c \in Callbacks, NEW p \in PlatformPages, SubscribePage(c, p)
    PROVE  ConnectionsInv'
  <1>1. PICK old \in CallbackType : old = callback[c]
    BY DEF ConnectionsInv, ConnectionTables
  <1>2. PICK q : q = [old EXCEPT !.todo = old.todo \ {p}]
    OBVIOUS
  <1>3. /\ old.phase = "subscribe" /\ callback \in [Callbacks -> CallbackType]
        /\ callback' = [callback EXCEPT ![c].todo = callback[c].todo \ {p}]
        /\ UNCHANGED <<trading, state, connection, channel, leaving, reconciler, uses>>
        /\ \/ subscribed' = subscribed \cup {p} /\ failures' = failures
           \/ CallFails /\ subscribed' = subscribed
    BY <1>1 DEF SubscribePage, ConnectionsInv, ConnectionTables
  <1>4. callback' = [callback EXCEPT ![c] = q]
    BY <1>1, <1>2, <1>3
  <1>5. old \in [phase : {"subscribe"}, todo : SUBSET PlatformPages]
    BY <1>3, CallbackPhases
  <1>6. q \in CallbackType /\ q.phase = "subscribe"
    BY <1>2, <1>5 DEF CallbackType
  <1>7. subscribed' \subseteq PlatformPages /\ failures' \in 0 .. MaxFailures
    BY <1>3, FailuresBounded
  <1> QED
    BY <1>3, <1>4, <1>6, <1>7, CallbackOnly

LEMMA CallbackEndsKeeps ==
    ASSUME ConnectionsInv, NEW c \in Callbacks, CallbackEnds(c)
    PROVE  ConnectionsInv'
  <1>1. /\ callback' = [callback EXCEPT ![c] = AtRest]
        /\ UNCHANGED <<trading, state, connection, channel, leaving, reconciler, uses>>
        /\ subscribed' = subscribed /\ failures' = failures
    BY DEF CallbackEnds
  <1> QED
    BY <1>1, RestIsCallback, FailuresBounded, CallbackOnly

-----------------------------------------------------------------------------
(* Disconnecting and reconciling.                                            *)

\* Steps that leave states, callbacks and channels alone.
LEMMA RowsUntouched ==
    ASSUME ConnectionsInv, UNCHANGED <<state, callback, channel, uses>>,
           trading' \subseteq Businesses,
           connection' \in [Businesses -> [Logins -> ConnectionType]],
           leaving' \in [Businesses -> LeavingType], reconciler' \in ReconcilerType,
           subscribed' \subseteq PlatformPages, failures' \in 0 .. MaxFailures
    PROVE  ConnectionsInv'
  <1>1. PagesAreUnique' /\ NoTokenAfterDisconnect'
    BY ChannelsUntouched
  <1>2. StatesAreMinted' /\ CallbacksAreMinted'
    BY DEF ConnectionsInv, StatesAreMinted, CallbacksAreMinted
  <1> QED
    BY <1>1, <1>2 DEF ConnectionsInv, ConnectionTables, ConnectionsTypeOK

LEMMA RowTypes ==
    ASSUME ConnectionsInv
    PROVE  /\ trading \subseteq Businesses
           /\ connection \in [Businesses -> [Logins -> ConnectionType]]
           /\ channel \in [Businesses -> [Logins -> [PlatformPages -> ChannelType]]]
           /\ leaving \in [Businesses -> LeavingType] /\ reconciler \in ReconcilerType
           /\ subscribed \subseteq PlatformPages /\ failures \in 0 .. MaxFailures
  BY DEF ConnectionsInv, ConnectionTables, ConnectionsTypeOK

LEMMA LeavingPhases ==
    ASSUME NEW q \in LeavingType, q.phase = "telling"
    PROVE  q \in [phase : {"telling"}, login : Logins, todo : SUBSET PlatformPages]
  BY DEF LeavingType, AtRest

LEMMA StartDisconnectKeeps ==
    ASSUME ConnectionsInv, NEW b \in Businesses, NEW l \in Logins, StartDisconnect(b, l)
    PROVE  ConnectionsInv'
  <1>1. PICK q : q = [phase |-> "telling", login |-> l,
                      todo |-> {p \in PlatformPages : channel[b][l][p].token}]
    OBVIOUS
  <1>2. q \in LeavingType
    BY <1>1 DEF LeavingType
  <1>3. /\ leaving' = [leaving EXCEPT ![b] = q]
        /\ UNCHANGED <<trading, state, callback, connection, channel, reconciler, subscribed,
                       failures, uses>>
    BY <1>1 DEF StartDisconnect
  <1>4. leaving' \in [Businesses -> LeavingType]
    BY <1>2, <1>3, RowTypes
  <1> QED
    BY <1>3, <1>4, RowTypes, RowsUntouched

LEMMA UnsubscribeKeeps ==
    ASSUME ConnectionsInv, NEW b \in Businesses, NEW p \in PlatformPages, unsubscribeQuietly(b, p)
    PROVE  ConnectionsInv'
  <1>1. PICK old \in LeavingType : old = leaving[b]
    BY RowTypes
  <1>2. PICK q : q = [old EXCEPT !.todo = old.todo \ {p}]
    OBVIOUS
  <1>3. /\ old.phase = "telling"
        /\ leaving' = [leaving EXCEPT ![b].todo = leaving[b].todo \ {p}]
        /\ UNCHANGED <<trading, state, callback, connection, channel, reconciler, uses>>
        /\ \/ subscribed' = subscribed \ {p} /\ failures' = failures
           \/ CallFails /\ subscribed' = subscribed
    BY <1>1 DEF unsubscribeQuietly
  <1>4. leaving' = [leaving EXCEPT ![b] = q]
    BY <1>1, <1>2, <1>3, RowTypes
  <1>5. q \in LeavingType
    BY <1>1, <1>2, <1>3, LeavingPhases DEF LeavingType
  <1>6. leaving' \in [Businesses -> LeavingType]
    BY <1>4, <1>5, RowTypes
  <1>7. subscribed' \subseteq PlatformPages /\ failures' \in 0 .. MaxFailures
    BY <1>3, FailuresBounded
  <1> QED
    BY <1>3, <1>6, <1>7, RowTypes, RowsUntouched

\* Rows are closed and lose their token in one statement.
LEMMA DisconnectKeeps ==
    ASSUME ConnectionsInv, NEW b \in Businesses, Disconnect(b)
    PROVE  ConnectionsInv'
  <1>1. PICK l : l = leaving[b].login
    OBVIOUS
  <1>2. leaving[b].phase = "telling" /\ leaving[b] \in LeavingType
    BY RowTypes DEF Disconnect
  <1>3. l \in Logins
    BY <1>1, <1>2, LeavingPhases
  <1>4. PICK old \in [PlatformPages -> ChannelType] : old = channel[b][l]
    BY <1>3, RowTypes
  <1>5. PICK rows : rows = [p \in PlatformPages |-> disconnectForConnection(old[p])]
    OBVIOUS
  <1>6. /\ channel' = [channel EXCEPT ![b][l] = rows]
        /\ connection' = [connection EXCEPT ![b][l] = revoke(connection[b][l])]
        /\ leaving' = [leaving EXCEPT ![b] = AtRest]
        /\ UNCHANGED <<trading, state, callback, reconciler, subscribed, failures, uses>>
    BY <1>1, <1>4, <1>5 DEF Disconnect
  <1>7. ASSUME NEW p \in PlatformPages
        PROVE  /\ rows[p] \in ChannelType
               /\ rows[p].status = "disconnected" => ~rows[p].token
               /\ rows[p].status # "none" => HeldUnder(b, l, p)
    <2>1. old[p] \in ChannelType /\ rows[p] = disconnectForConnection(old[p])
      BY <1>5
    <2>2. CASE old[p].status = "none"
      BY <2>1, <2>2 DEF disconnectForConnection
    <2>3. CASE old[p].status # "none"
      BY <1>4, <2>1, <2>3 DEF disconnectForConnection, ChannelType, HeldUnder
    <2> QED
      BY <2>2, <2>3
  <1>8. rows \in [PlatformPages -> ChannelType]
    <2>1. rows = [p \in PlatformPages |-> rows[p]]
      BY <1>5
    <2> QED
      BY <1>7, <2>1
  <1>9. /\ channel' \in [Businesses -> [Logins -> [PlatformPages -> ChannelType]]]
        /\ PagesAreUnique' /\ NoTokenAfterDisconnect'
    BY <1>3, <1>6, <1>7, <1>8, ChannelsWritten
  <1>10. connection' \in [Businesses -> [Logins -> ConnectionType]]
    <2>1. revoke(connection[b][l]) \in ConnectionType
      BY <1>3, RowTypes DEF revoke, ConnectionType
    <2> QED
      BY <1>3, <1>6, <2>1, RowTypes
  <1>11. leaving' \in [Businesses -> LeavingType]
    BY <1>6, RowTypes DEF LeavingType
  <1>12. StatesAreMinted' /\ CallbacksAreMinted'
    BY <1>6 DEF ConnectionsInv, StatesAreMinted, CallbacksAreMinted
  <1> QED
    BY <1>6, <1>9, <1>10, <1>11, <1>12 DEF ConnectionsInv, ConnectionTables, ConnectionsTypeOK

LEMMA ReconcilerPhases ==
    ASSUME NEW q \in ReconcilerType, q.phase \in {"compare", "cascade"}
    PROVE  q \in [phase : {"compare", "cascade"}, business : Businesses, login : Logins,
                  page : PlatformPages]
  BY DEF ReconcilerType, AtRest

LEMMA ReconcileChannelKeeps ==
    ASSUME ConnectionsInv, NEW b \in Businesses, NEW l \in Logins, NEW p \in PlatformPages,
           ReconcileChannel(b, l, p)
    PROVE  ConnectionsInv'
  <1>1. reconciler' \in ReconcilerType
    BY DEF ReconcileChannel, ReconcilerType
  <1> QED
    BY <1>1, RowTypes, RowsUntouched DEF ReconcileChannel

LEMMA ReconcileSucceedsKeeps ==
    ASSUME ConnectionsInv, ReconcileSucceeds
    PROVE  ConnectionsInv'
  <1>1. reconciler.page \in PlatformPages
    BY RowTypes, ReconcilerPhases DEF ReconcileSucceeds
  <1>2. reconciler' \in ReconcilerType /\ subscribed' \subseteq PlatformPages
    BY <1>1, RowTypes DEF ReconcileSucceeds, compareAndRepair, ReconcilerType
  <1> QED
    BY <1>2, RowTypes, RowsUntouched DEF ReconcileSucceeds

LEMMA ReconcileFailsKeeps ==
    ASSUME ConnectionsInv, NEW dead \in BOOLEAN, ReconcileFails(dead)
    PROVE  ConnectionsInv'
  <1>1. PICK old \in ReconcilerType : old = reconciler
    BY RowTypes
  <1>2. PICK row : row = [status |-> "revoked", reauth |-> TRUE]
    OBVIOUS
  <1>3. PICK q : q = [old EXCEPT !.phase = "cascade"]
    OBVIOUS
  <1>4. /\ old.phase = "compare" /\ CallFails
        /\ \/ /\ connection' = [connection EXCEPT ![old.business][old.login] = row]
              /\ reconciler' = q
           \/ connection' = connection /\ reconciler' = AtRest
        /\ UNCHANGED <<trading, state, callback, channel, leaving, subscribed, uses>>
    BY <1>1, <1>2, <1>3 DEF ReconcileFails
  <1>5. old \in [phase : {"compare", "cascade"}, business : Businesses, login : Logins,
                 page : PlatformPages]
    BY <1>4, ReconcilerPhases
  <1>6. q \in ReconcilerType /\ AtRest \in ReconcilerType /\ row \in ConnectionType
    BY <1>2, <1>3, <1>5 DEF ReconcilerType, ConnectionType
  <1>7. connection' \in [Businesses -> [Logins -> ConnectionType]]
    <2>1. PICK b \in Businesses, l \in Logins : b = old.business /\ l = old.login
      BY <1>5
    <2>2. connection \in [Businesses -> [Logins -> ConnectionType]]
      BY RowTypes
    <2>3. CASE connection' = [connection EXCEPT ![b][l] = row]
      BY <1>6, <2>1, <2>2, <2>3
    <2>4. CASE connection' = connection
      BY <2>2, <2>4
    <2> QED
      BY <1>4, <2>1, <2>3, <2>4
  <1>8. failures' \in 0 .. MaxFailures
    BY <1>4, FailuresBounded
  <1> QED
    BY <1>4, <1>6, <1>7, <1>8, RowTypes, RowsUntouched

\* The flag leaves status and token alone.
LEMMA CascadeKeeps ==
    ASSUME ConnectionsInv, CascadeReauth
    PROVE  ConnectionsInv'
  <1>1. PICK r \in ReconcilerType : r = reconciler
    BY RowTypes
  <1>2. PICK b : b = r.business
    OBVIOUS
  <1>3. PICK l : l = r.login
    OBVIOUS
  <1>4. b \in Businesses /\ l \in Logins
    BY <1>1, <1>2, <1>3, ReconcilerPhases DEF CascadeReauth
  <1>5. PICK old \in [PlatformPages -> ChannelType] : old = channel[b][l]
    BY <1>4, RowTypes
  <1>6. PICK rows : rows = [p \in PlatformPages |-> markReauth(old[p])]
    OBVIOUS
  <1>7. /\ channel' = [channel EXCEPT ![b][l] = rows] /\ reconciler' = AtRest
        /\ UNCHANGED <<trading, state, callback, connection, leaving, subscribed, failures, uses>>
    BY <1>1, <1>2, <1>3, <1>5, <1>6 DEF CascadeReauth
  <1>8. ASSUME NEW p \in PlatformPages
        PROVE  /\ rows[p] \in ChannelType
               /\ rows[p].status = "disconnected" => ~rows[p].token
               /\ rows[p].status # "none" => HeldUnder(b, l, p)
    <2>1. PICK o \in ChannelType : o = old[p]
      OBVIOUS
    <2>2. rows[p] = markReauth(o)
      BY <1>6, <2>1
    <2>3. /\ rows[p] \in ChannelType /\ rows[p].status = o.status
          /\ rows[p].token = o.token
      BY <2>2 DEF markReauth, ChannelType
    <2>4. o = channel[b][l][p]
      BY <1>5, <2>1
    <2> QED
      BY <1>4, <2>3, <2>4 DEF HeldUnder, ConnectionsInv, NoTokenAfterDisconnect
  <1>9. rows \in [PlatformPages -> ChannelType]
    <2>1. rows = [p \in PlatformPages |-> rows[p]]
      BY <1>6
    <2> QED
      BY <1>8, <2>1
  <1>10. /\ channel' \in [Businesses -> [Logins -> [PlatformPages -> ChannelType]]]
         /\ PagesAreUnique' /\ NoTokenAfterDisconnect'
    BY <1>4, <1>7, <1>8, <1>9, ChannelsWritten
  <1>11. reconciler' \in ReconcilerType
    BY <1>7 DEF ReconcilerType
  <1>12. StatesAreMinted' /\ CallbacksAreMinted'
    BY <1>7 DEF ConnectionsInv, StatesAreMinted, CallbacksAreMinted
  <1> QED
    BY <1>7, <1>10, <1>11, <1>12 DEF ConnectionsInv, ConnectionTables, ConnectionsTypeOK

LEMMA TradingKeeps ==
    ASSUME ConnectionsInv, NEW b \in Suspendable, TradingChanges(b)
    PROVE  ConnectionsInv'
  <1>1. trading' \subseteq Businesses
    BY RowTypes, ConnectionsAssumption DEF TradingChanges, ConnectionsAssumption
  <1> QED
    BY <1>1, RowTypes, RowsUntouched DEF TradingChanges

LEMMA ConnectionsStart == ConnectionsInit => ConnectionsInv
  <1> SUFFICES ASSUME ConnectionsInit PROVE ConnectionsInv
    OBVIOUS
  <1>1. PICK none : none = [status |-> "none", token |-> FALSE, reauth |-> FALSE]
    OBVIOUS
  <1>2. none \in ChannelType /\ none.status = "none"
    BY <1>1 DEF ChannelType
  <1>3. channel = [b \in Businesses |-> [l \in Logins |-> [p \in PlatformPages |-> none]]]
    BY <1>1 DEF ConnectionsInit
  <1>4. /\ channel \in [Businesses -> [Logins -> [PlatformPages -> ChannelType]]]
        /\ \A b \in Businesses, l \in Logins, p \in PlatformPages : channel[b][l][p].status = "none"
    BY <1>2, <1>3
  <1>5. PagesAreUnique /\ NoTokenAfterDisconnect
    BY <1>4 DEF PagesAreUnique, NoTokenAfterDisconnect, HeldUnder
  <1>6. /\ state \in [States -> StateType] /\ uses \in [States -> Nat] /\ StatesAreMinted
    BY DEF ConnectionsInit, StateType, StatesAreMinted
  <1>7. /\ callback \in [Callbacks -> CallbackType] /\ CallbacksAreMinted
        /\ leaving \in [Businesses -> LeavingType] /\ reconciler \in ReconcilerType
    BY RestIsCallback DEF ConnectionsInit, CallbacksAreMinted, LeavingType, ReconcilerType
  <1>8. connection \in [Businesses -> [Logins -> ConnectionType]]
    <2>1. [status |-> "none", reauth |-> FALSE] \in ConnectionType
      BY DEF ConnectionType
    <2> QED
      BY <2>1 DEF ConnectionsInit
  <1>9. trading \subseteq Businesses /\ subscribed \subseteq PlatformPages
        /\ failures \in 0 .. MaxFailures
    BY ConnectionsAssumption DEF ConnectionsInit, ConnectionsAssumption
  <1> QED
    BY <1>4, <1>5, <1>6, <1>7, <1>8, <1>9 DEF ConnectionsInv, ConnectionTables, ConnectionsTypeOK

LEMMA ConnectionsStep == ConnectionsInv /\ [ConnectionsNext]_connectionVars => ConnectionsInv'
  <1> SUFFICES ASSUME ConnectionsInv, [ConnectionsNext]_connectionVars PROVE ConnectionsInv'
    OBVIOUS
  <1>1. CASE UNCHANGED connectionVars
    BY <1>1, RowTypes, RowsUntouched DEF connectionVars
  <1>2. CASE ConnectionsNext
    BY <1>2, MintKeeps, StateExpiresKeeps, ReceiveCallbackKeeps, ConsumeStateKeeps,
       DiscoverKeeps, CheckClaimsKeeps, PersistKeeps, SubscribePageKeeps, CallbackEndsKeeps,
       StartDisconnectKeeps, UnsubscribeKeeps, DisconnectKeeps, ReconcileChannelKeeps,
       ReconcileSucceedsKeeps, ReconcileFailsKeeps, CascadeKeeps, TradingKeeps
       DEF ConnectionsNext
  <1> QED
    BY <1>1, <1>2

THEOREM ConnectionsInvariant == ConnectionsSpec => []ConnectionsInv
  BY ConnectionsStart, ConnectionsStep, PTL DEF ConnectionsSpec

\* For any number of businesses, logins, pages and callbacks at once: a state
\* establishes one connection, a page has one in a business, and a disconnected
\* channel holds no token, whatever callbacks and reconciliations were under way
\* (OauthStateService.consume, channels_enterprise_platform_uniq,
\* disconnectForConnection).
THEOREM ConnectionsStaySound == ConnectionsSpec => []ConnectionsAreSound
  <1>1. ConnectionsInv => ConnectionsTypeOK /\ NoTokenAfterDisconnect
    BY DEF ConnectionsInv, ConnectionTables
  <1>2. ConnectionsInv => StateSpentOnce
    BY DEF ConnectionsInv, StatesAreMinted, StateSpentOnce
  <1>3. ConnectionsInv => OnePageOneConnection
    <2> SUFFICES ASSUME ConnectionsInv, NEW b \in Businesses, NEW p \in PlatformPages
                 PROVE  Cardinality({l \in Logins : HeldUnder(b, l, p)}) <= 1
      BY DEF OnePageOneConnection
    <2>1. PICK L : L = {l \in Logins : HeldUnder(b, l, p)}
      OBVIOUS
    <2>2. CASE L = {}
      BY <2>1, <2>2, FS_EmptySet
    <2>3. CASE L # {}
      <3>1. PICK l \in L : TRUE
        BY <2>3
      <3>2. l \in Logins /\ HeldUnder(b, l, p)
        BY <2>1, <3>1
      <3>3. \A m \in L : m \in Logins /\ HeldUnder(b, m, p)
        BY <2>1
      <3>4. \A m \in L : m = l
        BY <3>2, <3>3 DEF ConnectionsInv, PagesAreUnique
      <3>5. L = {l}
        BY <3>1, <3>4
      <3>6. Cardinality(L) = 1
        BY <3>5, FS_Singleton
      <3>7. Cardinality(L) <= 1
        BY <3>6
      <3> QED
        BY <2>1, <3>7, Zenon
    <2> QED
      BY <2>2, <2>3
  <1> QED
    BY <1>1, <1>2, <1>3, ConnectionsInvariant, PTL DEF ConnectionsAreSound
=============================================================================
