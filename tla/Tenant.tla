------------------------------- MODULE Tenant -------------------------------
(***************************************************************************)
(* What surrounds an organization's traces: the rows that say who may do   *)
(* what, the admission of its requests, and a developer's machine.  The    *)
(* three share no state here, and a behaviour is about one of them.        *)
(***************************************************************************)
EXTENDS ControlPlane, Admission, LocalDev

VARIABLE part

tenantVars == <<part, controlVars, admissionVars, localVars>>

TenantInit ==
  /\ part \in {"control", "admission", "local"}
  /\ ControlInit /\ AdmissionInit /\ LocalInit

TenantNext ==
  /\ UNCHANGED part
  /\ \/ part = "control" /\ ControlNext /\ UNCHANGED <<admissionVars, localVars>>
     \/ part = "admission" /\ AdmissionNext /\ UNCHANGED <<controlVars, localVars>>
     \/ part = "local" /\ LocalNext /\ UNCHANGED <<controlVars, admissionVars>>

TenantSpec == TenantInit /\ [][TenantNext]_tenantVars

=============================================================================
