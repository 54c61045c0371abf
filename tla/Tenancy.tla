------------------------------- MODULE Tenancy -------------------------------
(***************************************************************************)
(* What the platform decides about one business, and who decides: the      *)
(* status of the business, its features, and the platform's own staff.     *)
(* PlatformService over PlatformAdminRepository and StaffMemberRepository, *)
(* FeaturesService, the signup, the sweeper's feature expiry, and the      *)
(* bootstrap that provisions one admin from configuration.                 *)
(*                                                                         *)
(* A decision reads the current status, checks it against the transition   *)
(* map and writes later with a fence on what it read.  Admins, the         *)
(* business and the sweeper do so concurrently.                            *)
(***************************************************************************)
EXTENDS Naturals, FiniteSets, EmployeeLifecycle

CONSTANTS
    Features,    \* feature keys
    Staff,       \* the platform's own people
    Configured,  \* the one PLATFORM_ADMIN_* names
    Others       \* staff with full access from earlier deployments

ASSUME TenancyAssumption == Configured \in Staff /\ Others \subseteq Staff /\ Configured \notin Others

VARIABLES
    business,   \* enterprises.status, or "none" before the signup
    feature,    \* enterprise_features.status, or "none" without a row
    asking,     \* the business's feature request in flight
    staff,      \* staff_members
    task,       \* the decision each staff member has in flight
    adminLock   \* who holds the rows of the platform admins

tenancyVars == <<business, feature, asking, staff, task, adminLock>>

NoHolder == "nobody"

\* The admins' rows are locked by a staff member's transaction or by none.
ASSUME HolderAssumption == NoHolder \notin Staff

NoTask == [op |-> "idle"]

BusinessStatuses == {"pending_activation", "active", "suspended"}
FeatureStatuses == {"access_requested", "declined", "active", "disabled", "expired", "revoked"}
StaffType == [status : {"none", "invited", "active", "suspended"},
              full : BOOLEAN, accepted : BOOLEAN, roles : BOOLEAN]

ENTERPRISE_STATUS_TRANSITIONS ==
    [pending_activation |-> {"active", "suspended"}, active |-> {"suspended"},
     suspended |-> {"active"}]

\* "none" is a feature without a row: requestAccess and decideFeature insert.
ENTERPRISE_FEATURE_TRANSITIONS ==
    [none |-> {"access_requested", "active", "declined"},
     access_requested |-> {"active", "declined"}, declined |-> {"access_requested"},
     active |-> {"disabled", "expired", "revoked"}, disabled |-> {"active"},
     expired |-> {"active"}, revoked |-> {}]

TenancyTypeOK ==
    /\ business \in BusinessStatuses \cup {"none"}
    /\ feature \in [Features -> FeatureStatuses \cup {"none"}]
    /\ staff \in [Staff -> StaffType]
    /\ DOMAIN task = Staff
    /\ adminLock \in Staff \cup {NoHolder}

NotStaff == [status |-> "none", full |-> FALSE, accepted |-> FALSE, roles |-> FALSE]
FullAdmin == [status |-> "active", full |-> TRUE, accepted |-> TRUE, roles |-> FALSE]

\* The first boot has provisioned the configured admin.
TenancyInit ==
    /\ business = "none"
    /\ feature = [f \in Features |-> "none"]
    /\ asking = NoTask
    /\ staff = [s \in Staff |-> IF s = Configured \/ s \in Others THEN FullAdmin ELSE NotStaff]
    /\ task = [s \in Staff |-> NoTask]
    /\ adminLock = NoHolder

-----------------------------------------------------------------------------
(* Guards.                                                                 *)

Admin(s) == staff[s].status = "active" /\ staff[s].full

PlatformAdminGuard(s) == task[s] = NoTask /\ Admin(s)

\* Every tenant-scoped route refuses a business that is not active.
EnterpriseActiveGuard == business = "active"

Decides(s, what) ==
    /\ task' = [task EXCEPT ![s] = what]
    /\ UNCHANGED <<business, feature, asking, staff, adminLock>>

Decided(s) == task' = [task EXCEPT ![s] = NoTask]

-----------------------------------------------------------------------------
(* The business.                                                           *)

\* One transaction writes the business, its founder, the system roles and
\* the Owner grant; the first-login code follows it.
Signup ==
    /\ business = "none"
    /\ business' = "pending_activation"
    /\ UNCHANGED <<feature, asking, staff, task, adminLock>>

SetEnterpriseStatus(s, to) ==
    /\ PlatformAdminGuard(s)
    /\ business # "none" /\ business # to
    /\ to \in ENTERPRISE_STATUS_TRANSITIONS[business]
    /\ Decides(s, [op |-> "business", from |-> business, to |-> to])

updateEnterpriseStatus(from, to) == business' = IF business = from THEN to ELSE business

CommitEnterpriseStatus(s) ==
    /\ task[s].op = "business"
    /\ updateEnterpriseStatus(task[s].from, task[s].to)
    /\ Decided(s)
    /\ UNCHANGED <<feature, asking, staff, adminLock>>

-----------------------------------------------------------------------------
(* Features.                                                               *)

mayRequestFrom(status) == "access_requested" \in ENTERPRISE_FEATURE_TRANSITIONS[status]

RequestFeature(f) ==
    /\ asking = NoTask
    /\ EnterpriseActiveGuard
    /\ mayRequestFrom(feature[f])
    /\ asking' = [op |-> "ask", feature |-> f]
    /\ UNCHANGED <<business, feature, staff, task, adminLock>>

\* One upsert, which moves an existing row from "declined" only.
Requestable(f) == feature[f] \in {"none", "declined"}

CommitRequest ==
    /\ asking # NoTask
    /\ feature' = IF Requestable(asking.feature)
                  THEN [feature EXCEPT ![asking.feature] = "access_requested"] ELSE feature
    /\ asking' = NoTask
    /\ UNCHANGED <<business, staff, task, adminLock>>

DecideFeature(s, f, to) ==
    /\ PlatformAdminGuard(s)
    /\ business # "none"
    /\ to # feature[f] /\ to \in ENTERPRISE_FEATURE_TRANSITIONS[feature[f]]
    /\ Decides(s, [op |-> "feature", feature |-> f, from |-> feature[f], to |-> to])

\* A decision on a row that did not exist inserts, and yields to one that
\* appeared; any other is fenced on the status it read.
DecisionApplies_Unfenced(q) == TRUE

DecisionApplies(q) == feature[q.feature] = q.from

CommitDecision(s) ==
    /\ task[s].op = "feature"
    /\ feature' = IF DecisionApplies(task[s])
                  THEN [feature EXCEPT ![task[s].feature] = task[s].to] ELSE feature
    /\ Decided(s)
    /\ UNCHANGED <<business, asking, staff, adminLock>>

\* The sweeper, on a feature whose expires_at has passed.
ExpireFeature(f) ==
    /\ feature[f] = "active"
    /\ feature' = [feature EXCEPT ![f] = "expired"]
    /\ UNCHANGED <<business, asking, staff, task, adminLock>>

-----------------------------------------------------------------------------
(* The platform's own people.                                              *)

\* Identity, staff row and roles in one transaction; never with full access.
InviteStaff(s, t, roles) ==
    /\ PlatformAdminGuard(s)
    /\ staff[t].status = "none"
    /\ staff' = [staff EXCEPT ![t] = [status |-> "invited", full |-> FALSE,
                                      accepted |-> FALSE, roles |-> roles]]
    /\ UNCHANGED <<business, feature, asking, task, adminLock>>

AcceptStaffInvite(t) ==
    /\ staff[t].status = "invited"
    /\ staff' = [staff EXCEPT ![t].status = "active", ![t].accepted = TRUE]
    /\ UNCHANGED <<business, feature, asking, task, adminLock>>

SetStaffRoles(s, t, roles) ==
    /\ PlatformAdminGuard(s)
    /\ s # t /\ staff[t].status # "none" /\ ~staff[t].full
    /\ staff' = [staff EXCEPT ![t].roles = roles]
    /\ UNCHANGED <<business, feature, asking, task, adminLock>>

SetStaffStatus(s, t, to) ==
    /\ PlatformAdminGuard(s)
    /\ s # t /\ staff[t].status # "none"
    /\ mayChangeStatus(staff[t].status, to, staff[t].accepted)
    /\ Decides(s, [op |-> "staff", target |-> t, from |-> staff[t].status, to |-> to,
                 full |-> staff[t].full])

NeedsAdminLock(q) == q.op = "staff" /\ q.to = "suspended" /\ q.full

OtherActiveAdmins(t) == {o \in Staff \ {t} : Admin(o)}

lockPlatformAdmins(s) == adminLock = NoHolder /\ adminLock' = s

LockAndCountAdmins(s) ==
    /\ NeedsAdminLock(task[s])
    /\ lockPlatformAdmins(s)
    /\ OtherActiveAdmins(task[s].target) # {}
    /\ task' = [task EXCEPT ![s].op = "counted"]
    /\ UNCHANGED <<business, feature, asking, staff>>

RefuseLastAdmin(s) ==
    /\ NeedsAdminLock(task[s])
    /\ adminLock = NoHolder
    /\ OtherActiveAdmins(task[s].target) = {}
    /\ Decided(s)
    /\ UNCHANGED <<business, feature, asking, staff, adminLock>>

WriteStaffStatus(q) ==
    IF staff[q.target].status = q.from
    THEN staff' = [staff EXCEPT ![q.target].status = q.to]
    ELSE UNCHANGED staff

CommitStaffStatus(s) ==
    /\ task[s].op = "staff" /\ ~NeedsAdminLock(task[s])
    /\ WriteStaffStatus(task[s])
    /\ Decided(s)
    /\ UNCHANGED <<business, feature, asking, adminLock>>

CommitAdminSuspension(s) ==
    /\ task[s].op = "counted"
    /\ WriteStaffStatus(task[s])
    /\ adminLock' = NoHolder
    /\ Decided(s)
    /\ UNCHANGED <<business, feature, asking>>

-----------------------------------------------------------------------------
(* Boot: every process provisions the configured admin, in one transaction *)
(* that refuses an address whose owner is not active staff.                *)

BootRefuses == staff[Configured].status # "active"

ensureStaffRow == [staff[Configured] EXCEPT !.status = "active", !.full = TRUE]

Bootstrap ==
    /\ staff' = IF BootRefuses THEN staff ELSE [staff EXCEPT ![Configured] = ensureStaffRow]
    /\ UNCHANGED <<business, feature, asking, task, adminLock>>

TenancyNext ==
    \/ Signup \/ CommitRequest \/ Bootstrap
    \/ \E f \in Features : RequestFeature(f) \/ ExpireFeature(f)
    \/ \E s \in Staff :
        \/ \E to \in BusinessStatuses : SetEnterpriseStatus(s, to)
        \/ \E f \in Features, to \in FeatureStatuses \ {"access_requested", "expired"} :
              DecideFeature(s, f, to)
        \/ \E t \in Staff, roles \in BOOLEAN : InviteStaff(s, t, roles) \/ SetStaffRoles(s, t, roles)
        \/ \E t \in Staff, to \in {"active", "suspended"} : SetStaffStatus(s, t, to)
        \/ CommitEnterpriseStatus(s) \/ CommitDecision(s) \/ LockAndCountAdmins(s)
        \/ RefuseLastAdmin(s) \/ CommitStaffStatus(s) \/ CommitAdminSuspension(s)
        \/ AcceptStaffInvite(s)

TenancySpec == TenancyInit /\ [][TenancyNext]_tenancyVars

-----------------------------------------------------------------------------
\* Whatever the admins, the business and the sweeper do at the same time, a
\* feature only ever moves along the documented map; in particular a revoked
\* feature never comes back.
FeatureFollowsMachine ==
    [][\A f \in Features :
         feature'[f] # feature[f] => feature'[f] \in ENTERPRISE_FEATURE_TRANSITIONS[feature[f]]
      ]_tenancyVars

\* A suspension is only lifted by an admin who saw it.  One who read "pending"
\* and activates the business late does not undo the suspension another made
\* meanwhile.
SuspensionLiftedKnowingly ==
    [][business = "suspended" /\ business' = "active"
         => \E s \in Staff : /\ task[s].op = "business" /\ task'[s] = NoTask
                             /\ task[s].from = "suspended"]_tenancyVars

\* Admins suspending one another at the same time never leave the console
\* without an active platform admin.
SomebodyAdministers == \E s \in Staff : Admin(s)

\* TenancyIsSound: decisions of several admins about a business, its features
\* and each other, taken on what they read earlier, never add up to a state
\* none of them could have decided (the fences of requestAccess,
\* updateEnterpriseFeatureStatus, updateEnterpriseStatus, setStaffStatus).
TenancyIsSound ==
    [](TenancyTypeOK /\ SomebodyAdministers) /\ FeatureFollowsMachine /\ SuspensionLiftedKnowingly
=============================================================================
