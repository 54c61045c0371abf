\* Two colleagues, one of them the founder; three platform staff, two admins.
CONSTANTS
    Employees = {boss, e1}
    Founder = boss
    Owner = owner
    Manager = manager
    CustomRoles = {r1}
    Permissions = {manage, extra}
    ManagerPermissions = {manage}
    RolesManage = manage
    EmployeesManage = manage
    EmployeesInvite = manage
    OwnerLevel = 3
    ManagerLevel = 2
    MaxRoles = 3
    Features = {f1}
    Staff = {s1, s2, s3}
    Configured = s1
    Others = {s2}
SPECIFICATION GovernanceSpec
INVARIANTS
    SomebodyOwns
    AuthorityIsEarned
PROPERTIES
    TenancyIsSound
CHECK_DEADLOCK FALSE
