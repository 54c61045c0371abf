-------------------------- MODULE EmployeeLifecycle --------------------------
(***************************************************************************)
(* shared/rbac/employee-lifecycle.ts: which change of status is allowed.   *)
(* Employees of a business and the platform's staff follow the same rule.  *)
(***************************************************************************)

mayChangeStatus(from, to, everAccepted) ==
    /\ from # to
    /\ to = "active" => from # "invited" /\ everAccepted
=============================================================================
