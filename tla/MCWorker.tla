------------------------------ MODULE MCWorker ------------------------------
(***************************************************************************)
(* One export, of a trace named by its id or of two traces that satisfy a  *)
(* filter and exceed its cap, and two workers, so that a pass can overlap  *)
(* the next one; two overlapping runs of the compaction over two traces in *)
(* batches of one, under two plans; and archives of the three files of an  *)
(* export, of which some are too large for their fields.                   *)
(***************************************************************************)
EXTENDS Worker, TLC

CONSTANTS t1, t2, starter, growth, empty, small, large

MCFilters == {[byIds |-> TRUE, traces |-> {t1}], [byIds |-> FALSE, traces |-> {t1, t2}]}

MCRetentionDays == (starter :> 1) @@ (growth :> 2)

MCNameLength ==
  ("manifest.json" :> 13) @@ ("events.jsonl" :> 12) @@ ("permission_snapshots.json" :> 25)
MCPaths == <<"manifest.json", "events.jsonl", "permission_snapshots.json">>

MCBodyLength == (empty :> 0) @@ (small :> 40) @@ (large :> 180)

=============================================================================
