--------------------------- MODULE ConsoleSession ---------------------------
(***************************************************************************)
(* How the web console gets from a Clerk session to its pages: the routes  *)
(* with ProtectedRoute and SignInPage, AuthBootstrap, which links the user *)
(* to an organization before it shows a page, and OnboardingPage, which    *)
(* makes a new organization.  Pages send requests for the organization     *)
(* that local storage names.                                               *)
(*                                                                         *)
(* A step is what React does up to its next rest: a change with the        *)
(* rendering, the redirects and the effects it brings about.               *)
(***************************************************************************)
EXTENDS Naturals, FiniteSets

CONSTANTS
  Persons,
  NoPerson,       \* nobody, for whom the form names VITE_DEV_USER_ID
  Default,        \* VITE_DEFAULT_ORG_ID, or the API's LOCAL_DEV_ORG_ID
  NoOrg,
  OrgOf,          \* who fills in the form -> the organization this makes
  MaxLinks        \* bound: links of a behaviour

Users == Persons \cup {NoPerson}

Orgs == {Default} \cup {OrgOf[p] : p \in Users}

ASSUME SessionAssumption ==
  /\ NoPerson \notin Persons /\ MaxLinks \in Nat
  /\ DOMAIN OrgOf = Users /\ NoOrg \notin Orgs
  /\ \A p \in Users : OrgOf[p] # Default

Links == 1..MaxLinks

VARIABLES
  clerk,      \* isClerkEnabled, of the build
  loaded,     \* isLoaded of useAppAuth
  user,       \* the signed-in person
  entered,    \* the mark of SignInPage's button in session storage
  route,      \* "sign-in" | "onboarding" | "app"
  boot,       \* AuthBootstrap: "none" | "linking" | "ready" | "error"
  current,    \* the link whose answer it waits for, 0 when it was cancelled
  links,      \* POST /public/auth/session: [by, pc: "none" | "sent" | "linked"]
  signup,     \* POST /public/onboarding: [by, pc: "none" | "sent" | "made"]
  storedOrg,  \* defaultOrgId in local storage
  members,    \* memberships
  diverted    \* history: the form was answered after its user had left it

authVars == <<clerk, loaded, user, entered>>
sessionVars ==
  <<authVars, route, boot, current, links, signup, storedOrg, members, diverted>>

NoLink == [by |-> NoPerson, pc |-> "none"]

SessionInit ==
  /\ clerk \in BOOLEAN
  /\ loaded = ~clerk
  /\ user = NoPerson
  /\ entered = FALSE
  /\ route \in {"sign-in", "onboarding"}
  /\ boot = "none"
  /\ current = 0
  /\ links = [l \in Links |-> NoLink]
  /\ signup = NoLink
  /\ storedOrg \in Orgs \cup {NoOrg}
  /\ members = {}
  /\ diverted = FALSE

-----------------------------------------------------------------------------
\* ProtectedRoute lets its pages be.
Allowed == IF clerk THEN user' # NoPerson ELSE entered'

\* What is shown at the route asked for.  A session that is not loaded yet shows
\* neither a page nor the form to sign in.
RouteTo(asked) ==
  route' = IF ~loaded' THEN asked
           ELSE IF asked = "app" /\ ~Allowed THEN "sign-in"
           ELSE IF asked = "sign-in" /\ clerk /\ user' # NoPerson THEN "app"
           ELSE asked

\* AuthBootstrap is mounted with the pages, and its effect runs when it is and when the
\* user changes; the clean-up cancels the link before.
Bootstrap ==
  IF ~loaded' \/ route' # "app"
    THEN boot' = "none" /\ current' = 0 /\ UNCHANGED links
    ELSE IF ~clerk THEN boot' = "ready" /\ current' = 0 /\ UNCHANGED links
    ELSE IF boot # "none" /\ user' = user THEN UNCHANGED <<boot, current, links>>
    ELSE \E l \in Links :
           /\ links[l].pc = "none" /\ \A k \in Links : k < l => links[k].pc # "none"
           /\ links' = [links EXCEPT ![l] = [by |-> user', pc |-> "sent"]]
           /\ boot' = "linking" /\ current' = l

Render(asked) == RouteTo(asked) /\ Bootstrap

-----------------------------------------------------------------------------
\* Clerk knows whether its session is still good.
Load(p) ==
  /\ ~loaded
  /\ loaded' = TRUE /\ user' = p
  /\ UNCHANGED <<clerk, entered>>
  /\ Render(route)
  /\ UNCHANGED <<signup, storedOrg, members, diverted>>

\* The user signs in, out, or changes to another of its sessions.
SwitchUser(p) ==
  /\ clerk /\ loaded /\ p # user
  /\ user' = p
  /\ UNCHANGED <<clerk, loaded, entered>>
  /\ Render(route)
  /\ UNCHANGED <<signup, storedOrg, members, diverted>>

EnterConsole ==
  /\ ~clerk /\ route = "sign-in"
  /\ entered' = TRUE
  /\ UNCHANGED <<clerk, loaded, user>>
  /\ Render("app")
  /\ UNCHANGED <<signup, storedOrg, members, diverted>>

\* The user follows a link or types an address.
Navigate(asked) ==
  /\ asked # route
  /\ UNCHANGED authVars
  /\ Render(asked)
  /\ UNCHANGED <<signup, storedOrg, members, diverted>>

-----------------------------------------------------------------------------
\* SessionService.linkClerkUser, for the organization of the build.
LinkCommits(l) ==
  /\ links[l].pc = "sent"
  /\ links' = [links EXCEPT ![l].pc = "linked"]
  /\ members' = members \cup {<<Default, links[l].by>>}
  /\ UNCHANGED <<authVars, route, boot, current, signup, storedOrg, diverted>>

\* A plausible slip: the cancelled flag is not looked at.
LinkAnsweredLate(l) ==
  /\ links[l].pc = "linked"
  /\ links' = [links EXCEPT ![l].pc = "answered"]
  /\ IF boot # "none" THEN storedOrg' = Default /\ boot' = "ready"
     ELSE UNCHANGED <<storedOrg, boot>>
  /\ UNCHANGED <<authVars, route, current, signup, members, diverted>>

LinkAnswered(l) ==
  /\ links[l].pc = "linked"
  /\ links' = [links EXCEPT ![l].pc = "answered"]
  /\ IF current = l THEN storedOrg' = Default /\ boot' = "ready"
     ELSE UNCHANGED <<storedOrg, boot>>
  /\ UNCHANGED <<authVars, route, current, signup, members, diverted>>

\* No token, an answer that is not one of success, or none at all: the pages stay
\* hidden behind the error.
LinkFails(l) ==
  /\ links[l].pc \in {"sent", "linked"}
  /\ links' = [links EXCEPT ![l].pc = "answered"]
  /\ boot' = IF current = l THEN "error" ELSE boot
  /\ UNCHANGED <<authVars, route, current, signup, storedOrg, members, diverted>>

-----------------------------------------------------------------------------
\* OnboardingPage's form.
Submit ==
  /\ route = "onboarding" /\ signup.pc = "none"
  /\ signup' = [by |-> user, pc |-> "sent"]
  /\ UNCHANGED <<authVars, route, boot, current, links, storedOrg, members, diverted>>

\* OnboardingService.completeSignup.
SignupCommits ==
  /\ signup.pc = "sent"
  /\ signup' = [signup EXCEPT !.pc = "made"]
  /\ members' = members \cup {<<OrgOf[signup.by], signup.by>>}
  /\ UNCHANGED <<authVars, route, boot, current, links, storedOrg, diverted>>

\* The answer is stored and the user sent to the projects, wherever it has gone.
SignupAnswered ==
  /\ signup.pc = "made"
  /\ signup' = NoLink
  /\ storedOrg' = OrgOf[signup.by]
  /\ diverted' = (diverted \/ route # "onboarding" \/ user # signup.by)
  /\ UNCHANGED authVars
  /\ Render("app")
  /\ UNCHANGED members

SignupFails ==
  /\ signup.pc \in {"sent", "made"}
  /\ signup' = NoLink
  /\ UNCHANGED <<authVars, route, boot, current, links, storedOrg, members, diverted>>

SessionNext ==
  \/ \E p \in Users : Load(p) \/ SwitchUser(p)
  \/ EnterConsole
  \/ \E asked \in {"sign-in", "onboarding", "app"} : Navigate(asked)
  \/ \E l \in Links : LinkCommits(l) \/ LinkAnswered(l) \/ LinkFails(l)
  \/ Submit \/ SignupCommits \/ SignupAnswered \/ SignupFails

-----------------------------------------------------------------------------
\* A page is open.
PageShown == route = "app" /\ boot = "ready"

\* The organization a page's requests are about, of useApiContext.
RequestOrg == IF storedOrg = NoOrg THEN Default ELSE storedOrg

\* A page is shown to a Clerk user only when that user is a member of the organization
\* its requests name, whichever links of earlier users are answered late, and whatever
\* organization the form has stored; unless the form was answered to a user that had
\* left it.
PagesAreLinked ==
  clerk /\ PageShown /\ ~diverted => <<RequestOrg, user>> \in members

=============================================================================
