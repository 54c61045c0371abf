------------------------------ MODULE Staffing ------------------------------
(***************************************************************************)
(* The people and the roles of one business: EmployeesService and          *)
(* RolesService over EnterpriseEmployeeRepository and RoleRepository, with *)
(* the authority rules of shared/rbac.                                     *)
(*                                                                         *)
(* Every write is a request of an acting employee in two or three steps,   *)
(* as in the code: the guards and the authority rules read the tables      *)
(* first; the transaction that writes starts later, on what was read then. *)
(* Between the two any other request may commit.  The writes that can take *)
(* an owner away first take the row lock of the Owner role and count the   *)
(* other owners under it.                                                  *)
(*                                                                         *)
(* A role is identified by its name, which roles_enterprise_name_uniq      *)
(* keeps unique; renaming, descriptions, audit and version rows are left   *)
(* out.  Sessions ended by a suspension are in SignIn.                     *)
(***************************************************************************)
EXTENDS Naturals, FiniteSets, FiniteSetsExt, EmployeeLifecycle

CONSTANTS
    Employees,        \* everybody who may ever be employed here
    Founder,          \* the employee who signed the business up
    Owner, Manager,   \* the seeded system roles the model tells apart
    CustomRoles,      \* the names a business may give to its own roles
    Permissions,      \* the permission codes
    ManagerPermissions, \* what the Manager template carries
    RolesManage, EmployeesManage, EmployeesInvite, \* what the handlers require
    OwnerLevel, ManagerLevel,                      \* ROLE_LEVEL
    MaxRoles          \* MAX_ROLES_PER_ENTERPRISE

ASSUME StaffingAssumption ==
    /\ Founder \in Employees
    /\ Owner # Manager /\ {Owner, Manager} \cap CustomRoles = {}
    /\ {RolesManage, EmployeesManage, EmployeesInvite} \subseteq Permissions
    /\ ManagerPermissions \subseteq Permissions
    /\ ManagerLevel \in Nat /\ OwnerLevel \in Nat /\ 0 < ManagerLevel /\ ManagerLevel < OwnerLevel
    /\ MaxRoles \in Nat

VARIABLES
    employee,   \* enterprise_employees: status and whether joined_at is set
    role,       \* roles: status, level, permissions; is_system is by name
    holds,      \* employee_roles: the roles granted to each employee
    request,    \* the request each employee has in flight
    ownerLock,  \* who holds the row lock of the Owner role, or nobody
    released    \* history: permissions some owner has put into a role

staffingVars == <<employee, role, holds, request, ownerLock, released>>

SystemRoles == {Owner, Manager}
Roles == SystemRoles \cup CustomRoles
Nobody == "nobody"

\* The lock of a row is held by a transaction or by none.
ASSUME LockAssumption == Nobody \notin Employees

\* MIN_ROLE_LEVEL .. MAX_CREATABLE_ROLE_LEVEL; 0 stands for "holds no role".
CreatableLevels == 1 .. (OwnerLevel - 1)

Statuses == {"none", "invited", "active", "suspended"}
EmployeeType == [status : Statuses, joined : BOOLEAN]
RoleType == [status : {"none", "active", "archived"}, level : 0 .. OwnerLevel,
             perms : SUBSET Permissions]

Idle == [op |-> "idle"]

StaffingTypeOK ==
    /\ employee \in [Employees -> EmployeeType]
    /\ role \in [Roles -> RoleType]
    /\ holds \in [Employees -> SUBSET Roles]
    /\ DOMAIN request = Employees
    /\ ownerLock \in Employees \cup {Nobody}
    /\ released \subseteq Permissions

-----------------------------------------------------------------------------
(* What a business starts with: its copies of the role templates and its   *)
(* founder, active and owner.                                              *)

SystemRole(level, perms) == [status |-> "active", level |-> level, perms |-> perms]
NoRole == [status |-> "none", level |-> 0, perms |-> {}]

instantiateSystemRoles ==
    [r \in Roles |-> CASE r = Owner   -> SystemRole(OwnerLevel, Permissions)
                       [] r = Manager -> SystemRole(ManagerLevel, ManagerPermissions)
                       [] OTHER       -> NoRole]

grantOwner == [e \in Employees |-> IF e = Founder THEN {Owner} ELSE {}]

StaffingInit ==
    /\ employee = [e \in Employees |-> IF e = Founder
                                       THEN [status |-> "active", joined |-> TRUE]
                                       ELSE [status |-> "none", joined |-> FALSE]]
    /\ role = instantiateSystemRoles
    /\ holds = grantOwner
    /\ request = [e \in Employees |-> Idle]
    /\ ownerLock = Nobody
    /\ released = ManagerPermissions

-----------------------------------------------------------------------------
(* Reads.  An archived role confers nothing.                               *)

listRoleNamesForEmployee(e) == {r \in holds[e] : role[r].status = "active"}

highestLevelForEmployee(e) ==
    Max({0} \cup {role[r].level : r \in listRoleNamesForEmployee(e)})

authorityOfEmployee(e) ==
    [level |-> highestLevelForEmployee(e),
     names |-> listRoleNamesForEmployee(e),
     codes |-> UNION {role[r].perms : r \in listRoleNamesForEmployee(e)}]

\* The permissions a request runs with: those of an active employee only.
listEffectivePermissions(e) ==
    IF employee[e].status = "active" THEN authorityOfEmployee(e).codes ELSE {}

OtherActiveOwners(e) ==
    {o \in Employees \ {e} : employee[o].status = "active" /\ Owner \in listRoleNamesForEmployee(o)}

Holders(r) == {e \in Employees : r \in holds[e]}

countForEnterprise == Cardinality({r \in Roles : role[r].status # "none"})

-----------------------------------------------------------------------------
(* The rules of shared/rbac.                                               *)

mayAssignRole(actor, r) ==
    /\ actor.level > 0
    /\ IF r = Owner \/ role[r].level >= OwnerLevel
       THEN Owner \in actor.names
       ELSE role[r].level < actor.level /\ role[r].perms \subseteq actor.codes

\* A role may be given permissions its author lacks.
mayDefineRole_AnyPermission(actor, r, level, perms) ==
    /\ actor.level > 0 /\ r \notin SystemRoles
    /\ level <= OwnerLevel - 1 /\ level < actor.level

mayDefineRole(actor, r, level, perms) ==
    /\ actor.level > 0
    /\ r \notin SystemRoles
    /\ level <= OwnerLevel - 1
    /\ level < actor.level
    /\ perms \subseteq actor.codes

mayModifyEmployee(a, actor, target) ==
    LET level == highestLevelForEmployee(target) IN
    /\ a # target
    /\ actor.level > 0
    /\ \/ level = 0
       \/ level >= OwnerLevel /\ actor.level >= OwnerLevel
       \/ level < actor.level

\* Whom the rule lets an employee see, and whom the list query returns.
maySeeEmployee(actorLevel, targetLevel) ==
    actorLevel # 0 /\ (targetLevel = 0 \/ targetLevel <= actorLevel)

Coalesced(e) == highestLevelForEmployee(e) - 1  \* COALESCE(max(level), -1)

listForEnterprise(viewerLevel) ==
    {e \in Employees : /\ employee[e].status # "none"
                       /\ Coalesced(e) <= viewerLevel - 1}

EmployeesList(a) ==
    IF highestLevelForEmployee(a) = 0 THEN {}
    ELSE listForEnterprise(highestLevelForEmployee(a))

-----------------------------------------------------------------------------
(* The guards in front of the handlers, and the permission each declares.  *)

RolesControllerRequires ==
    [create |-> RolesManage, update |-> RolesManage, archive |-> RolesManage,
     setRoles |-> EmployeesManage]

EmployeesControllerRequires == [invite |-> EmployeesInvite, setStatus |-> EmployeesManage]

Arrives(a, permission) ==
    /\ request[a] = Idle
    /\ permission \in listEffectivePermissions(a)

Reads(a, what) ==
    /\ request' = [request EXCEPT ![a] = what]
    /\ UNCHANGED <<employee, role, holds, ownerLock, released>>

Done(a) == request' = [request EXCEPT ![a] = Idle]

IsOwner(e) == Owner \in listRoleNamesForEmployee(e)

-----------------------------------------------------------------------------
(* First step of each request: every check made before the transaction.    *)

CreateRole(a, r, level, perms) ==
    /\ Arrives(a, RolesControllerRequires.create)
    /\ mayDefineRole(authorityOfEmployee(a), r, level, perms)
    /\ countForEnterprise < MaxRoles
    /\ role[r].status = "none"
    /\ Reads(a, [op |-> "create", role |-> r, level |-> level, perms |-> perms,
                 owner |-> IsOwner(a)])

UpdateRole(a, r, level, perms) ==
    /\ Arrives(a, RolesControllerRequires.update)
    /\ role[r].status # "none"
    /\ mayDefineRole(authorityOfEmployee(a), r, role[r].level, role[r].perms)
    /\ mayDefineRole(authorityOfEmployee(a), r, level, perms)
    /\ Reads(a, [op |-> "update", role |-> r, level |-> level, perms |-> perms,
                 owner |-> IsOwner(a)])

ArchiveRole(a, r) ==
    /\ Arrives(a, RolesControllerRequires.archive)
    /\ role[r].status # "none"
    /\ mayDefineRole(authorityOfEmployee(a), r, role[r].level, role[r].perms)
    /\ Holders(r) = {}
    /\ Reads(a, [op |-> "archive", role |-> r])

SetEmployeeRoles(a, target, roles) ==
    /\ Arrives(a, RolesControllerRequires.setRoles)
    /\ employee[target].status # "none"
    /\ mayModifyEmployee(a, authorityOfEmployee(a), target)
    /\ \A r \in roles : role[r].status = "active" /\ mayAssignRole(authorityOfEmployee(a), r)
    /\ Reads(a, [op |-> "setRoles", target |-> target, roles |-> roles])

Invite(a, target, r) ==
    /\ Arrives(a, EmployeesControllerRequires.invite)
    /\ role[r].status = "active"
    /\ mayAssignRole(authorityOfEmployee(a), r)
    /\ Reads(a, [op |-> "invite", target |-> target, role |-> r])

SetStatus(a, target, to) ==
    /\ Arrives(a, EmployeesControllerRequires.setStatus)
    /\ employee[target].status # "none"
    /\ mayModifyEmployee(a, authorityOfEmployee(a), target)
    /\ mayChangeStatus(employee[target].status, to, employee[target].joined)
    /\ Reads(a, [op |-> "setStatus", target |-> target, from |-> employee[target].status, to |-> to])

-----------------------------------------------------------------------------
(* The lock.  A write that may take the last owner away waits for the row  *)
(* of the Owner role, and only then looks for another owner.               *)

NeedsOwnerLock(q) ==
    \/ q.op = "setRoles" /\ Owner \notin q.roles
    \/ q.op = "setStatus" /\ q.to = "suspended"

\* The count is made without waiting for the lock.
lockOwnerRole_Skipped(a) == ownerLock' = a

lockOwnerRole(a) == ownerLock = Nobody /\ ownerLock' = a

assertNotLastOwner(target) ==
    Owner \in listRoleNamesForEmployee(target) => OtherActiveOwners(target) # {}

LockAndCount(a) ==
    LET q == request[a] IN
    /\ q.op \in {"setRoles", "setStatus"} /\ NeedsOwnerLock(q)
    /\ lockOwnerRole(a)
    /\ assertNotLastOwner(q.target)
    /\ request' = [request EXCEPT ![a] = [op |-> "counted", what |-> q]]
    /\ UNCHANGED <<employee, role, holds, released>>

\* The only owner is asked to go: the transaction rolls back.
RefuseLastOwner(a) ==
    LET q == request[a] IN
    /\ q.op \in {"setRoles", "setStatus"} /\ NeedsOwnerLock(q)
    /\ ownerLock = Nobody
    /\ ~assertNotLastOwner(q.target)
    /\ Done(a)
    /\ UNCHANGED <<employee, role, holds, ownerLock, released>>

-----------------------------------------------------------------------------
(* Second step: the transaction.                                           *)

Release(perms, owner) == released' = IF owner THEN released \cup perms ELSE released

\* roles_enterprise_name_uniq turns a second creation of the name into an error.
CommitCreate(a) ==
    LET q == request[a] IN
    /\ q.op = "create"
    /\ IF role[q.role].status = "none"
       THEN /\ role' = [role EXCEPT ![q.role] = [status |-> "active", level |-> q.level,
                                                 perms |-> q.perms]]
            /\ Release(q.perms, q.owner)
       ELSE UNCHANGED <<role, released>>
    /\ Done(a)
    /\ UNCHANGED <<employee, holds, ownerLock>>

CommitUpdate(a) ==
    LET q == request[a] IN
    /\ q.op = "update"
    /\ role' = [role EXCEPT ![q.role].level = q.level, ![q.role].perms = q.perms]
    /\ Release(q.perms, q.owner)
    /\ Done(a)
    /\ UNCHANGED <<employee, holds, ownerLock>>

CommitArchive(a) ==
    LET q == request[a] IN
    /\ q.op = "archive"
    /\ role' = [role EXCEPT ![q.role].status = "archived"]
    /\ Done(a)
    /\ UNCHANGED <<employee, holds, ownerLock, released>>

replaceEmployeeRoles(e, roles) == holds' = [holds EXCEPT ![e] = roles]

CommitSetRoles(a) ==
    LET q == request[a] IN
    /\ q.op = "setRoles" /\ ~NeedsOwnerLock(q)
    /\ replaceEmployeeRoles(q.target, q.roles)
    /\ Done(a)
    /\ UNCHANGED <<employee, role, ownerLock, released>>

CommitLockedRoles(a) ==
    LET q == request[a] IN
    /\ q.op = "counted" /\ q.what.op = "setRoles"
    /\ replaceEmployeeRoles(q.what.target, q.what.roles)
    /\ ownerLock' = Nobody
    /\ Done(a)
    /\ UNCHANGED <<employee, role, released>>

\* The person may have been added meanwhile: EmployeeAlreadyExists.
CommitInvite(a) ==
    LET q == request[a] IN
    /\ q.op = "invite"
    /\ IF employee[q.target].status = "none"
       THEN /\ employee' = [employee EXCEPT ![q.target] = [status |-> "invited", joined |-> FALSE]]
            /\ holds' = [holds EXCEPT ![q.target] = {q.role}]
       ELSE UNCHANGED <<employee, holds>>
    /\ Done(a)
    /\ UNCHANGED <<role, ownerLock, released>>

\* The UPDATE is fenced on the status read before; a moved row is left alone.
WriteStatus(q) ==
    IF employee[q.target].status = q.from
    THEN employee' = [employee EXCEPT ![q.target].status = q.to]
    ELSE UNCHANGED employee

CommitReinstate(a) ==
    LET q == request[a] IN
    /\ q.op = "setStatus" /\ ~NeedsOwnerLock(q)
    /\ WriteStatus(q)
    /\ Done(a)
    /\ UNCHANGED <<role, holds, ownerLock, released>>

CommitSuspend(a) ==
    LET q == request[a] IN
    /\ q.op = "counted" /\ q.what.op = "setStatus"
    /\ WriteStatus(q.what)
    /\ ownerLock' = Nobody
    /\ Done(a)
    /\ UNCHANGED <<role, holds, released>>

\* The invited person sets a password: activate() is fenced on "invited".
AcceptInvite(e) ==
    /\ employee[e].status = "invited"
    /\ employee' = [employee EXCEPT ![e] = [status |-> "active", joined |-> TRUE]]
    /\ UNCHANGED <<role, holds, request, ownerLock, released>>

Commit(a) ==
    \/ CommitCreate(a) \/ CommitUpdate(a) \/ CommitArchive(a)
    \/ CommitSetRoles(a) \/ CommitLockedRoles(a)
    \/ CommitInvite(a) \/ CommitReinstate(a) \/ CommitSuspend(a)

StaffingNext ==
    \/ \E a \in Employees :
        \/ \E r \in CustomRoles, level \in CreatableLevels, perms \in SUBSET Permissions :
              CreateRole(a, r, level, perms) \/ UpdateRole(a, r, level, perms)
        \/ \E r \in CustomRoles : ArchiveRole(a, r)
        \/ \E t \in Employees, roles \in (SUBSET Roles) \ {{}} : SetEmployeeRoles(a, t, roles)
        \/ \E t \in Employees, r \in Roles : Invite(a, t, r)
        \/ \E t \in Employees, to \in {"active", "suspended"} : SetStatus(a, t, to)
        \/ LockAndCount(a) \/ RefuseLastOwner(a) \/ Commit(a)
    \/ \E e \in Employees : AcceptInvite(e)

StaffingSpec == StaffingInit /\ [][StaffingNext]_staffingVars

-----------------------------------------------------------------------------
\* SomebodyOwns: whatever two owners do to one another at the same time
\* (each demoting or suspending the other), the business keeps an active
\* owner, because every such write counts the others under the lock of the
\* Owner role (EmployeesService.setStatus, RolesService.setEmployeeRoles).
SomebodyOwns ==
    \E e \in Employees : employee[e].status = "active" /\ IsOwner(e)

\* A permission is in a role below Owner only if it came with the Manager
\* template or some owner put it into a role; no chain of role definitions by
\* others, however long and however stale its checks, brings in another one.
PermissionsFlowFromOwners ==
    \A r \in Roles \ {Owner} : role[r].perms \subseteq released

\* Nobody works here who never accepted an invitation; in particular an
\* invitation that was suspended cannot be turned into an employment, also when
\* the person accepts while the suspension is under way.
ActiveMeansAccepted ==
    \A e \in Employees : employee[e].status = "active" => employee[e].joined

\* The list query, which compares levels in SQL, returns to each employee
\* exactly the colleagues maySeeEmployee lets them see.
ListFollowsRule ==
    \A a \in Employees :
        EmployeesList(a) = {e \in Employees :
            /\ employee[e].status # "none"
            /\ maySeeEmployee(highestLevelForEmployee(a), highestLevelForEmployee(e))}

\* AuthorityIsEarned: whatever is invited, accepted, assigned, redefined and
\* suspended at the same time, authority comes from owners, employment from an
\* accepted invitation, and sight from the level (mayDefineRole, mayChangeStatus,
\* the fence of setStatus, maySeeEmployee).
AuthorityIsEarned ==
    StaffingTypeOK /\ PermissionsFlowFromOwners /\ ActiveMeansAccepted /\ ListFollowsRule
=============================================================================
