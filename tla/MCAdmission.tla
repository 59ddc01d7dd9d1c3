----------------------------- MODULE MCAdmission -----------------------------
(***************************************************************************)
(* The admission of one request at a time.                                 *)
(***************************************************************************)
EXTENDS Admission

=============================================================================
