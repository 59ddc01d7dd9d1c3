----------------------------- MODULE MCControl ------------------------------
(***************************************************************************)
(* One request at a time of an administrator: each of the audited          *)
(* operations and the entry the interceptor writes for it.                 *)
(***************************************************************************)
EXTENDS ControlPlane

=============================================================================
