----------------------------- MODULE MCGovernance -----------------------------
(* Staffing and Tenancy share no table: each runs with the other at rest.   *)
EXTENDS Staffing, Tenancy

GovernanceInit == StaffingInit /\ TenancyInit

GovernanceNext ==
    \/ TenancyInit /\ StaffingNext /\ UNCHANGED tenancyVars
    \/ StaffingInit /\ TenancyNext /\ UNCHANGED staffingVars

GovernanceSpec == GovernanceInit /\ [][GovernanceNext]_<<staffingVars, tenancyVars>>
=============================================================================
