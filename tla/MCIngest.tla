------------------------------- MODULE MCIngest -------------------------------
(***************************************************************************)
(* Small bodies for TLC: a trace, the same trace sent again with one event *)
(* changed and another added (what an SDK flushes later), another trace    *)
(* that reuses an event id and, in one post, the idempotency key of the    *)
(* first, and a body that fails validation.                                *)
(***************************************************************************)
EXTENDS Ingest, TLC

CONSTANTS t1, t2, e1, e2, small, big1, big2, k1

Ev(id, type, payload) == [id |-> id, type |-> type, payload |-> payload]

First == [trace |-> t1, status |-> "unset", valid |-> TRUE,
          events |-> <<Ev(e1, "prompt", big1)>>]
Update == [trace |-> t1, status |-> "completed", valid |-> TRUE,
           events |-> <<Ev(e1, "prompt", big2), Ev(e2, "completion", small)>>]
Other == [trace |-> t2, status |-> "failed", valid |-> TRUE,
          events |-> <<Ev(e1, "custom", small)>>]
Disjoint == [trace |-> t1, status |-> "completed", valid |-> TRUE,
             events |-> <<Ev(e2, "completion", big2)>>]
Collide == [trace |-> t2, status |-> "cancelled", valid |-> TRUE,
            events |-> <<Ev(e2, "approval", big1)>>]
Invalid == [trace |-> t1, status |-> "unset", valid |-> FALSE, events |-> <<>>]

MCEnvelopes == {First, Update, Other, Disjoint, Collide, Invalid}

MCPosts == {<<First, k1>>, <<Update, k1>>, <<Other, NoKey>>, <<Disjoint, NoKey>>,
            <<Collide, k1>>, <<Invalid, k1>>}

Symmetry == Permutations(Requests)

=============================================================================
