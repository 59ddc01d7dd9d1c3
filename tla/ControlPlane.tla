---------------------------- MODULE ControlPlane ----------------------------
(***************************************************************************)
(* Users, memberships, projects and API keys of one organization, as       *)
(* concurrent requests to the API change them: sign-up, the Clerk session  *)
(* link, invitations, roles, keys, and the meta audit log an interceptor   *)
(* writes after the answer.                                                *)
(*                                                                         *)
(* A request is one of Requests and runs its statements one at a time.     *)
(* Rows of these tables are never deleted.                                 *)
(***************************************************************************)
EXTENDS Naturals, FiniteSets

CONSTANTS
  Requests,
  Persons,         \* each with a Clerk id and an e-mail
  Roles,
  Admin, Developer,  \* org_admin, developer
  Projects,        \* slugs of projects; Default is that of sign-up
  Default,
  Keys,            \* the API keys that can be generated
  None             \* absent

ASSUME ControlAssumption ==
  /\ {Admin, Developer} \subseteq Roles /\ Default \in Projects
  /\ None \notin Persons \cup Roles \cup Projects \cup Keys \cup {"api_key"}
  /\ None \notin [role : Roles, accepted : BOOLEAN]

VARIABLES
  org,        \* the organization exists
  email,      \* users: external id -> e-mail (that of a person), or None
  member,     \* memberships: external id -> [role, accepted], or None
  projects,   \* the slugs of the organization's projects
  keys,       \* API key -> "none" | "live" | "revoked"
  req         \* request -> its state, the row of meta_audit_logs it wrote in `row`

tables == <<org, email, member, projects, keys>>
controlVars == <<tables, req>>

\* users.external_id is the Clerk id, or `pending_${email}` of an invitation.
Users == Persons \X {"clerk", "pending"}

Clerk(p) == <<p, "clerk">>
Pending(p) == <<p, "pending">>

Operations == {"invite", "role", "accept", "project", "key", "revoke"}

NoRequest == [pc |-> "idle", op |-> None, by |-> None, ctx |-> None, target |-> None,
              role |-> None, revoked |-> FALSE, code |-> 0,
              row |-> None]

ControlInit ==
  /\ org = FALSE
  /\ email = [u \in Users |-> None]
  /\ member = [u \in Users |-> None]
  /\ projects = {}
  /\ keys = [k \in Keys |-> "none"]
  /\ req = [r \in Requests |-> NoRequest]

-----------------------------------------------------------------------------
Goto(r, pc) == req' = [req EXCEPT ![r].pc = pc]

\* A request ends.  The answer to an invitation is kept until the client has it.
Answer(r, code) ==
  req' = [req EXCEPT ![r] =
    IF req[r].op = "invite"
      THEN [NoRequest EXCEPT !.pc = "done", !.op = "invite", !.target = req[r].target,
                             !.code = code]
      ELSE NoRequest]

\* The unique index on the e-mail of users: no other row may have it.
EmailTaken(u, e) == \E v \in Users \ {u} : email[v] = e

\* user.upsert by external id.
UpsertUser(u, e) == email' = [email EXCEPT ![u] = e]

CreatedMember(u, role, accepted) ==
  member' = [member EXCEPT ![u] = [role |-> role, accepted |-> accepted]]

\* OnboardingService.completeSignup: one transaction, which a taken slug or a taken
\* e-mail aborts.
SignUp(r, p) ==
  /\ req[r].pc = "idle"
  /\ IF org \/ EmailTaken(Clerk(p), p)
       THEN UNCHANGED tables
       ELSE /\ org' = TRUE
            /\ UpsertUser(Clerk(p), p)
            /\ CreatedMember(Clerk(p), Admin, TRUE)
            /\ projects' = {Default}
            /\ UNCHANGED keys
  /\ UNCHANGED req

\* POST /public/organizations creates an organization without members.
CreateOrganization(r) ==
  /\ req[r].pc = "idle" /\ ~org
  /\ org' = TRUE
  /\ UNCHANGED <<email, member, projects, keys, req>>

\* SessionService.linkClerkUser, after the token: the organization is looked up.
LinkSession(r, p) ==
  /\ req[r].pc = "idle"
  /\ IF org THEN req' = [req EXCEPT ![r].pc = "ensureUser", ![r].by = p]
            ELSE Answer(r, 404)
  /\ UNCHANGED tables

\* ensureUser, with the e-mail of the token.  An invitation that holds the e-mail makes
\* the upsert fail.
EnsureUser(r) ==
  LET p == req[r].by IN
  /\ req[r].pc = "ensureUser"
  /\ IF EmailTaken(Clerk(p), p)
       THEN Answer(r, 500) /\ UNCHANGED email
       ELSE UpsertUser(Clerk(p), p) /\ Goto(r, "ensureMember")
  /\ UNCHANGED <<org, member, projects, keys>>

\* The membership upsert leaves the role of a member as it is.
EnsureMember(r) ==
  LET u == Clerk(req[r].by) IN
  /\ req[r].pc = "ensureMember"
  /\ IF member[u] = None THEN CreatedMember(u, Admin, TRUE)
                         ELSE CreatedMember(u, member[u].role, TRUE)
  /\ Answer(r, 200)
  /\ UNCHANGED <<org, email, projects, keys>>

-----------------------------------------------------------------------------
\* A request to the organization's routes, of a signed-in person.
Call(r, p, op, target, role) ==
  /\ req[r].pc = "idle"
  /\ req' = [req EXCEPT ![r] = [NoRequest EXCEPT !.pc = "findUser", !.by = p, !.op = op,
                                                 !.target = target, !.role = role]]
  /\ UNCHANGED tables

\* resolveJwtHeaders.
FindUser(r) ==
  /\ req[r].pc = "findUser"
  /\ IF email[Clerk(req[r].by)] = None THEN Answer(r, 401) ELSE Goto(r, "findMember")
  /\ UNCHANGED tables

FindMember(r) ==
  LET m == member[Clerk(req[r].by)] IN
  /\ req[r].pc = "findMember"
  /\ IF m = None \/ ~m.accepted
       THEN Answer(r, 401)
       ELSE req' = [req EXCEPT ![r].pc = "guard", ![r].ctx = m.role]
  /\ UNCHANGED tables

\* A request with an API key; `revoked` is history.
CallWithKey(r, k, op, target, role) ==
  /\ req[r].pc = "idle" /\ keys[k] # "none"
  /\ req' = [req EXCEPT ![r] = [NoRequest EXCEPT !.pc = "candidates", !.by = k, !.op = op,
                                  !.target = target, !.role = role,
                                  !.revoked = keys[k] = "revoked"]]
  /\ UNCHANGED tables

\* A plausible slip: revoked keys are candidates too.
KeyCandidatesAll(r) ==
  /\ req[r].pc = "candidates"
  /\ Goto(r, "compare")
  /\ UNCHANGED tables

\* ApiKeysService.validate reads the keys that are not revoked...
KeyCandidates(r) ==
  /\ req[r].pc = "candidates"
  /\ IF keys[req[r].by] = "live" THEN Goto(r, "compare") ELSE Answer(r, 401)
  /\ UNCHANGED tables

\* The tenant context of a key: it has no role.
KeyContext == "api_key"

\* ... and compares hashes without looking again.
KeyMatches(r) ==
  /\ req[r].pc = "compare"
  /\ req' = [req EXCEPT ![r].pc = "guard", ![r].ctx = KeyContext]
  /\ UNCHANGED tables

\* The @Roles of the routes of members, projects and keys; none is any.
MembershipRoles(op) == IF op = "accept" THEN Roles ELSE {Admin}

ProjectRoles == {Admin}

KeyRoles(op) == IF op = "key" THEN {Admin, Developer} ELSE {Admin}

RolesOf(op) ==
  CASE op \in {"invite", "role", "accept"} -> MembershipRoles(op)
    [] op = "project" -> ProjectRoles
    [] op \in {"key", "revoke"} -> KeyRoles(op)

FirstStep(op) == IF op = "invite" THEN "findInvited" ELSE op

\* RolesGuard, by the role read before: these routes ask nothing of a key.  The handler
\* needs the caller no more.
Guard(r) ==
  /\ req[r].pc = "guard"
  /\ IF req[r].ctx \in RolesOf(req[r].op) \cup {KeyContext}
       THEN req' = [req EXCEPT ![r].pc = FirstStep(req[r].op), ![r].by = None,
                               ![r].ctx = None, ![r].revoked = FALSE]
       ELSE Answer(r, 403)
  /\ UNCHANGED tables

-----------------------------------------------------------------------------
\* A handler succeeds: the answer is sent, and the interceptor's tap runs beside it.
Succeed(r, code) == req' = [req EXCEPT ![r].pc = "audit", ![r].code = code]

\* A plausible slip: a handler that finds nothing is audited as well.
RefuseAudited(r, code) == Succeed(r, code)

Refuse(r, code) == Answer(r, code)

\* The user whose row has the invited e-mail.
Invited(r) == {u \in Users : email[u] = req[r].target}

\* A plausible slip: a user is taken for a member.
FindInvitedUser(r) ==
  /\ req[r].pc = "findInvited"
  /\ IF Invited(r) # {} THEN Refuse(r, 409) ELSE Goto(r, "createInvited")
  /\ UNCHANGED tables

\* MembershipsService.invite looks up the user by e-mail...
FindInvited(r) ==
  /\ req[r].pc = "findInvited"
  /\ IF Invited(r) = {}
       THEN Goto(r, "createInvited")
       ELSE \E u \in Invited(r) :
              req' = [req EXCEPT ![r].pc = "findInvitedMember", ![r].target = u]
  /\ UNCHANGED tables

\* ... and then the membership of a user it found.
FindInvitedMember(r) ==
  /\ req[r].pc = "findInvitedMember"
  /\ IF member[req[r].target] # None THEN Refuse(r, 409) ELSE Goto(r, "createMember")
  /\ UNCHANGED tables

\* The rows a new e-mail needs are made by two statements without a transaction.
CreateInvited(r) ==
  LET u == Pending(req[r].target) IN
  /\ req[r].pc = "createInvited"
  /\ IF email[u] # None \/ EmailTaken(u, req[r].target)
       THEN Answer(r, 500) /\ UNCHANGED email
       ELSE /\ email' = [email EXCEPT ![u] = req[r].target]
            /\ req' = [req EXCEPT ![r].pc = "createMember", ![r].target = u]
  /\ UNCHANGED <<org, member, projects, keys>>

CreateMember(r) ==
  /\ req[r].pc = "createMember"
  /\ IF member[req[r].target] # None
       THEN Answer(r, 500) /\ UNCHANGED member
       ELSE CreatedMember(req[r].target, req[r].role, FALSE) /\ Succeed(r, 201)
  /\ UNCHANGED <<org, email, projects, keys>>

\* updateRole, of any membership, the last administrator's too.
UpdateRole(r) ==
  LET u == req[r].target IN
  /\ req[r].pc = "role"
  /\ IF member[u] = None
       THEN Refuse(r, 404) /\ UNCHANGED member
       ELSE CreatedMember(u, req[r].role, member[u].accepted) /\ Succeed(r, 200)
  /\ UNCHANGED <<org, email, projects, keys>>

AcceptInvite(r) ==
  LET u == req[r].target IN
  /\ req[r].pc = "accept"
  /\ IF member[u] = None
       THEN Refuse(r, 404) /\ UNCHANGED member
       ELSE CreatedMember(u, member[u].role, TRUE) /\ Succeed(r, 201)
  /\ UNCHANGED <<org, email, projects, keys>>

\* ProjectsService.create: the project with its two environments, by one statement.
CreateProject(r) ==
  /\ req[r].pc = "project"
  /\ IF req[r].target \in projects
       THEN Answer(r, 500) /\ UNCHANGED projects
       ELSE projects' = projects \cup {req[r].target} /\ Succeed(r, 201)
  /\ UNCHANGED <<org, email, member, keys>>

\* generateKey: 24 random bytes make a key that was never made before.
Fresh(k) == keys[k] = "none"

\* ApiKeysService.create, for a project of the organization.  `target` is the new key.
CreateKey(r, project) ==
  /\ req[r].pc = "key"
  /\ IF project \notin projects
       THEN Refuse(r, 404) /\ UNCHANGED keys
       ELSE /\ Fresh(req[r].target)
            /\ keys' = [keys EXCEPT ![req[r].target] = "live"]
            /\ Succeed(r, 201)
  /\ UNCHANGED <<org, email, member, projects>>

RevokeKey(r) ==
  /\ req[r].pc = "revoke"
  /\ IF keys[req[r].target] = "none"
       THEN Refuse(r, 404) /\ UNCHANGED keys
       ELSE keys' = [keys EXCEPT ![req[r].target] = "revoked"] /\ Succeed(r, 200)
  /\ UNCHANGED <<org, email, member, projects>>

-----------------------------------------------------------------------------
\* matchAuditConfig looks for `organizations` in the route and for the method: the first
\* POST of AUDITED_ACTIONS stands for all of them.
AuditedAs(op) ==
  CASE op = "role" -> "member.role_changed"
    [] op = "revoke" -> "api_key.revoked"
    [] OTHER -> "api_key.created"

\* extractResourceId: the id of the row in the answer.
Record(r) ==
  /\ req[r].pc = "audit"
  /\ req' = [req EXCEPT ![r].pc = "done",
                        ![r].row = [action |-> AuditedAs(req[r].op),
                                    resource |-> req[r].target]]
  /\ UNCHANGED tables

\* The client has the answer.
Finish(r) ==
  /\ req[r].pc = "done"
  /\ req' = [req EXCEPT ![r] = NoRequest]
  /\ UNCHANGED tables

\* A crash; or an insert into the log fails, and the rejection nobody handles ends the
\* process.
ProcessExits ==
  /\ req' = [r \in Requests |-> NoRequest]
  /\ UNCHANGED tables

Targets(op) ==
  CASE op = "invite" -> Persons
    [] op \in {"role", "accept"} -> Users
    [] op = "project" -> Projects
    [] OTHER -> Keys

RolesAsked(op) == IF op \in {"invite", "role"} THEN Roles ELSE {None}

ControlNext ==
  \/ \E r \in Requests :
       \/ \E p \in Persons : SignUp(r, p) \/ LinkSession(r, p)
       \/ CreateOrganization(r)
       \/ EnsureUser(r) \/ EnsureMember(r)
       \/ \E op \in Operations : \E t \in Targets(op), role \in RolesAsked(op) :
            \/ \E p \in Persons : Call(r, p, op, t, role)
            \/ \E k \in Keys : CallWithKey(r, k, op, t, role)
       \/ FindUser(r) \/ FindMember(r)
       \/ KeyCandidates(r) \/ KeyMatches(r)
       \/ Guard(r)
       \/ FindInvited(r) \/ FindInvitedMember(r) \/ CreateInvited(r) \/ CreateMember(r)
       \/ UpdateRole(r) \/ AcceptInvite(r)
       \/ CreateProject(r)
       \/ \E project \in Projects : CreateKey(r, project)
       \/ RevokeKey(r)
       \/ Record(r) \/ Finish(r)
  \/ ProcessExits

ControlSpec == ControlInit /\ [][ControlNext]_controlVars

-----------------------------------------------------------------------------
Steps == {"idle", "ensureUser", "ensureMember", "findUser", "findMember", "candidates",
          "compare", "guard", "findInvited", "findInvitedMember", "createInvited",
          "createMember", "role", "accept", "project", "key", "revoke", "audit", "done"}

Request ==
  [pc : Steps, op : Operations \cup {None}, by : Persons \cup Keys \cup {None},
   ctx : Roles \cup {KeyContext, None},
   target : Persons \cup Users \cup Projects \cup Keys \cup {None},
   role : Roles \cup {None}, revoked : BOOLEAN,
   code : {0, 200, 201, 401, 403, 404, 409, 500},
   row : [action : {"member.role_changed", "api_key.revoked", "api_key.created"},
          resource : Users \cup Projects \cup Keys] \cup {None}]

\* Every variable has its type, and the unique index on the e-mail of users holds.
ControlTypeOK ==
  /\ org \in BOOLEAN
  /\ email \in [Users -> Persons \cup {None}]
  /\ \A u, v \in Users : email[u] = email[v] /\ email[u] # None => u = v
  /\ member \in [Users -> [role : Roles, accepted : BOOLEAN] \cup {None}]
  /\ projects \subseteq Projects
  /\ keys \in [Keys -> {"none", "live", "revoked"}]
  /\ req \in [Requests -> Request]

\* Who invites a person and is told that the person is invited, or is a member already,
\* was told the truth, whatever invitations, sign-ins and exits came in between: the
\* person has a membership.
InviteAnswersHold ==
  \A r \in Requests :
    req[r].op = "invite" /\ req[r].code \in {201, 409} =>
      \E u \in Users : member[u] # None
                       /\ (u = req[r].target \/ u[1] = req[r].target)

\* A key that was revoked when a request came does not authenticate it, though the key is
\* read and compared in two steps beside the revocation.
RevokedKeyIsRefused ==
  \A r \in Requests : req[r].ctx = KeyContext => ~req[r].revoked

\* What an entry of the audit log is about is there, whatever action the entry names: the
\* row exists, and a key that an entry reports as revoked is.  A handler that refused, or
\* whose statement failed, leaves no entry.
AuditedRowsExist ==
  \A r \in Requests : LET row == req[r].row IN
    row # None =>
      /\ row.resource \in {u \in Users : member[u] # None} \cup projects
                           \cup {k \in Keys : keys[k] # "none"}
      /\ row.action = "api_key.revoked" => keys[row.resource] = "revoked"

\* The table AUDITED_ACTIONS of the interceptor: the action each audited route is to be
\* logged under.
AuditedActions ==
  [invite |-> "member.invited", role |-> "member.role_changed",
   key |-> "api_key.created", revoke |-> "api_key.revoked"]

\* AUDITED_ACTIONS: an entry for one of its routes names the action of that route.
EntriesNameTheirAction ==
  \A r \in Requests :
    req[r].row # None /\ req[r].op \in DOMAIN AuditedActions =>
      req[r].row.action = AuditedActions[req[r].op]

=============================================================================
