------------------------------ MODULE MCPortal -----------------------------
(***************************************************************************)
(* Three traces of one project in pages of one, another project to switch  *)
(* to, windows of one and two days, and a request cache of one payload for *)
(* two; two users of Clerk, each with an organization, and two links of a  *)
(* session.                                                                *)
(***************************************************************************)
EXTENDS Portal

CONSTANTS p1, starter, growth, ann, bob, annsOrg, bobsOrg, devOrg

MCProjectOf == [i \in Ids |-> p1]

MCOrgOf == (ann :> annsOrg) @@ (bob :> bobsOrg) @@ (NoPerson :> devOrg)

MCRetentionDays == (starter :> 1) @@ (growth :> 2)

\* Payload references are interchangeable.
MCSymmetry == Permutations(Refs)

=============================================================================
