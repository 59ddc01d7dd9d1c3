------------------------------ MODULE MCIndexer ------------------------------
(***************************************************************************)
(* Traces that reach each branch of the status resolver: one that becomes  *)
(* completed, one that stays in progress and one cancelled, with a         *)
(* completion event that must not prevail.                                 *)
(***************************************************************************)
EXTENDS Indexer, TLC

CONSTANTS t1, e1, e2, e3, small

Ev(id, type) == [id |-> id, type |-> type, payload |-> small]

Body(s, evs) == [trace |-> t1, status |-> s, events |-> evs, valid |-> TRUE]

MCEnvelopes ==
  {Body("unset", <<Ev(e1, "prompt"), Ev(e2, "retrieval"), Ev(e3, "completion")>>),
   Body("completed", <<Ev(e1, "prompt"), Ev(e2, "tool_call")>>),
   Body("cancelled", <<Ev(e1, "approval"), Ev(e2, "completion")>>)}

Symmetry == Permutations(Requests) \cup Permutations(Workers)

=============================================================================
