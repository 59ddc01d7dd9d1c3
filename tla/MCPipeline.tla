------------------------------ MODULE MCPipeline ------------------------------
(***************************************************************************)
(* A trace that ends completed, and the same trace sent again, under the   *)
(* SDK's idempotency key (the trace id) or without one; and two exports on *)
(* a page that lists one.                                                  *)
(***************************************************************************)
EXTENDS Outcomes

CONSTANTS t1, e1, e2, small, big, k1

Ev(id, type, payload) == [id |-> id, type |-> type, payload |-> payload]

Full == [trace |-> t1, status |-> "unset", valid |-> TRUE,
         events |-> <<Ev(e1, "prompt", small), Ev(e2, "completion", big)>>]

MCEnvelopes == {Full}

MCPosts == {<<Full, k1>>, <<Full, NoKey>>}

=============================================================================
