-------------------------------- MODULE MCSdk --------------------------------
(***************************************************************************)
(* Two callers and two traces: one that is changed again while it is sent, *)
(* and either changed once more or joined by a second trace, which fills   *)
(* the buffer.                                                             *)
(***************************************************************************)
EXTENDS Sdk, TLC

CONSTANTS t1, t2

MCMaxRevs == {(t1 :> 4) @@ (t2 :> 0), (t1 :> 3) @@ (t2 :> 1)}

=============================================================================
