------------------------------- MODULE Portal -------------------------------
(***************************************************************************)
(* A user of the web console: on the way to a page, or on the pages that   *)
(* show traces, with the API and the tables they read.  The two share no   *)
(* state here, and a behaviour is about one of them.                       *)
(***************************************************************************)
EXTENDS Query, ConsoleSession

VARIABLE part

portalVars == <<part, allVars, sessionVars>>

\* The part that rests has one state.
PortalInit ==
  /\ QueryInit /\ SessionInit
  /\ \/ part = "session" /\ explorer.project = CHOOSE p \in Projects : TRUE
     \/ part = "query" /\ ~clerk /\ route = "sign-in" /\ storedOrg = NoOrg

PortalNext ==
  /\ UNCHANGED part
  /\ \/ part = "session" /\ SessionNext /\ UNCHANGED allVars
     \/ part = "query" /\ QueryNext /\ UNCHANGED sessionVars

PortalSpec == PortalInit /\ [][PortalNext]_portalVars

=============================================================================
