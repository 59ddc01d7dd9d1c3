------------------------------- MODULE AuditLog -------------------------------
(***************************************************************************)
(* What the ingest path and the indexer promise together: an append-only   *)
(* log of traces.  An entry is recorded whole, keeps the digest of what    *)
(* was recorded, becomes searchable, is sealed with the outcome its        *)
(* content determines, and leaves only by retention.  A client is told a   *)
(* trace is accepted only when its entry has been recorded.                *)
(***************************************************************************)
CONSTANTS
  Entries,
  Contents,
  NoContent,
  NoDigest,
  TraceOf(_),      \* the trace id in a content
  DigestOf(_),     \* the hash of the events of a content
  OutcomeOf(_)     \* the status a content resolves to

VARIABLES
  phase,      \* "absent" | "recorded" | "indexed" | "sealed" | "expired"
  content,    \* what was recorded
  digest,     \* the hash kept with it
  outcome,    \* the status of a sealed entry
  announced   \* the entries some client was told of

vars == <<phase, content, digest, outcome, announced>>

Live(i) == phase[i] \in {"recorded", "indexed", "sealed"}

Init ==
  /\ phase = [i \in Entries |-> "absent"]
  /\ content = [i \in Entries |-> NoContent]
  /\ digest = [i \in Entries |-> NoDigest]
  /\ outcome = [i \in Entries |-> "open"]
  /\ announced = {}

Record(i, c) ==
  /\ phase[i] = "absent"
  /\ \A j \in Entries : Live(j) => TraceOf(content[j]) # TraceOf(c)
  /\ phase' = [phase EXCEPT ![i] = "recorded"]
  /\ content' = [content EXCEPT ![i] = c]
  /\ digest' = [digest EXCEPT ![i] = DigestOf(c)]
  /\ UNCHANGED <<outcome, announced>>

Index(i) ==
  /\ phase[i] = "recorded"
  /\ phase' = [phase EXCEPT ![i] = "indexed"]
  /\ UNCHANGED <<content, digest, outcome, announced>>

Seal(i) ==
  /\ phase[i] = "indexed"
  /\ OutcomeOf(content[i]) # "in_progress"
  /\ phase' = [phase EXCEPT ![i] = "sealed"]
  /\ outcome' = [outcome EXCEPT ![i] = OutcomeOf(content[i])]
  /\ UNCHANGED <<content, digest, announced>>

Expire(S) ==
  /\ \A i \in S : Live(i)
  /\ phase' = [i \in Entries |-> IF i \in S THEN "expired" ELSE phase[i]]
  /\ UNCHANGED <<content, digest, outcome, announced>>

Announce(i) ==
  /\ phase[i] # "absent"
  /\ announced' = announced \cup {i}
  /\ UNCHANGED <<phase, content, digest, outcome>>

Next ==
  \/ \E i \in Entries :
       (\E c \in Contents : Record(i, c)) \/ Index(i) \/ Seal(i) \/ Announce(i)
  \/ \E S \in SUBSET Entries : Expire(S)

Spec == Init /\ [][Next]_vars

=============================================================================
