------------------------------ MODULE MCTenant ------------------------------
(***************************************************************************)
(* Two requests at a time, an administrator to be and a person to invite,  *)
(* one API key; two slots, so that two requests are checked against the    *)
(* same usage, and buckets of two tokens over a span that refills them;    *)
(* two runs of the bootstrap and two keys, so that a key can be lost,      *)
(* revoked and replaced.                                                   *)
(***************************************************************************)
EXTENDS Tenant, TLC

\* Requests, persons, slots, runs of the bootstrap and its keys are interchangeable.  A
\* behaviour is about one part, so that those of two parts can have the same names.
MCSymmetry == Permutations(Requests) \cup Permutations(Persons)

=============================================================================
