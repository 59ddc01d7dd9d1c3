------------------------------ MODULE Outcomes ------------------------------
(***************************************************************************)
(* What becomes of what was begun: a trace, from its request to its seal,  *)
(* and an export, on the console's page whose rows are polled until they   *)
(* are final.  The two share no state here, and a behaviour is about one   *)
(* of them.                                                                *)
(***************************************************************************)
EXTENDS TracePipeline, ConsoleExports

VARIABLE part

outcomeVars == <<part, vars, consoleExportVars>>

OutcomesInit == Init /\ ConsoleExportsInit /\ part \in {"trace", "exports"}

OutcomesNext ==
  /\ UNCHANGED part
  /\ \/ part = "trace" /\ Next /\ UNCHANGED consoleExportVars
     \/ part = "exports" /\ ConsoleExportsNext /\ UNCHANGED vars

\* Before a request nothing of Fairness is enabled, and nothing of the console's before
\* a fetch.
OutcomesSpec ==
  OutcomesInit /\ [][OutcomesNext]_outcomeVars /\ Fairness /\ ConsoleExportsFairness

=============================================================================
