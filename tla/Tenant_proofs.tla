---------------------------- MODULE Tenant_proofs ----------------------------
(***************************************************************************)
(* Theorems about what surrounds an organization's traces, for every       *)
(* number of requests, persons, projects, keys, addresses and machines.    *)
(*                                                                         *)
(* Control plane.  The tables only grow: a membership, a project or a key  *)
(* that exists stays, and a revoked key stays revoked (Grown).  What a     *)
(* request has found out at its step (Progress) therefore holds however    *)
(* others change the tables, and each action need only be looked at for    *)
(* the request that takes it.                                              *)
(*                                                                         *)
(* Admission.  What an address got through is paid for by its bucket, and  *)
(* what an organization wrote beyond its limit by the requests that were   *)
(* past the quota check together.                                          *)
(*                                                                         *)
(* Local development.  The credentials in the file are those of a live key *)
(* however bootstraps end, unless one is killed while it writes the file.  *)
(***************************************************************************)
EXTENDS Tenant, FiniteSetTheorems, TLAPS

\* Before the organization exists nothing else does: sign-up, which replaces the set
\* of projects, replaces an empty one.
OrgFirst ==
  ~org =>
    /\ projects = {}
    /\ \A u \in Users : email[u] = None /\ member[u] = None
    /\ \A k \in Keys : keys[k] = "none"
    /\ \A r \in Requests : req[r].pc \in {"idle", "findUser", "done"}

\* What the handler of an operation has done when it succeeds.
Done(op, target) ==
  /\ op \in Operations
  /\ op \in {"invite", "role", "accept"} => target \in Users /\ member[target] # None
  /\ op = "project" => target \in projects
  /\ op = "key" => target \in Keys /\ keys[target] # "none"
  /\ op = "revoke" => target \in Keys /\ keys[target] = "revoked"

\* A request by a person or a key, until the guard has let it pass.
Asking(q) ==
  q.pc \in {"findUser", "findMember", "candidates", "compare", "guard"} =>
    /\ q.op \in Operations
    /\ q.target \in Targets(q.op)
    /\ q.role \in RolesAsked(q.op)

\* A request in its handler.
Handled(q) ==
  /\ q.pc \in {"findInvited", "createInvited"} =>
       q.op = "invite" /\ q.target \in Persons /\ q.role \in Roles
  /\ q.pc \in {"findInvitedMember", "createMember"} =>
       q.op = "invite" /\ q.target \in Users /\ q.role \in Roles
  /\ q.pc = "role" => q.op = "role" /\ q.target \in Users /\ q.role \in Roles
  /\ q.pc = "accept" => q.op = "accept" /\ q.target \in Users
  /\ q.pc = "project" => q.op = "project" /\ q.target \in Projects
  /\ q.pc = "key" => q.op = "key" /\ q.target \in Keys
  /\ q.pc = "revoke" => q.op = "revoke" /\ q.target \in Keys
  /\ q.pc = "audit" => Done(q.op, q.target)

\* Who asks, and that a key which was revoked is not accepted any more.
Caller(q) ==
  /\ q.pc \in {"ensureUser", "ensureMember", "findUser", "findMember"} => q.by \in Persons
  /\ q.pc = "candidates" => q.by \in Keys
  /\ q.revoked => q.pc = "candidates" /\ q.ctx = None /\ keys[q.by] = "revoked"

\* What the answer and the audit log say.
IsMember(target) ==
  \E u \in Users : member[u] # None /\ (u = target \/ u[1] = target)

InvitationHolds(q) ==
  q.op = "invite" /\ q.code \in {201, 409} => IsMember(q.target)

RowHolds(row) ==
  row # None =>
    /\ row.resource \in {u \in Users : member[u] # None} \cup projects
                          \cup {k \in Keys : keys[k] # "none"}
    /\ row.action = "api_key.revoked" => row.resource \in Keys /\ keys[row.resource] = "revoked"

Told(q) ==
  /\ q.pc \notin {"audit", "done"} => q.code = 0 /\ q.row = None
  /\ q.pc = "audit" => q.row = None
  /\ InvitationHolds(q)
  /\ RowHolds(q.row)

Progress(q) == Asking(q) /\ Handled(q) /\ Caller(q) /\ Told(q)

\* The inductive invariant.
ControlInv ==
  /\ ControlTypeOK
  /\ OrgFirst
  /\ \A r \in Requests : Progress(req[r])

-----------------------------------------------------------------------------
Grown ==
  /\ \A u \in Users : member[u] # None => member'[u] # None
  /\ projects \subseteq projects'
  /\ \A k \in Keys : keys[k] # "none" => keys'[k] # "none"
  /\ \A k \in Keys : keys[k] = "revoked" => keys'[k] = "revoked"

\* What a request knows stays true while it waits and others change the tables.
LEMMA ProgressIsKept ==
  ASSUME ControlTypeOK, Grown, NEW q \in Request, Progress(q)
  PROVE  Asking(q) /\ Handled(q)' /\ Caller(q)' /\ Told(q)'
<1> USE DEF Grown
<1>1. Handled(q)'
  <2>1. Done(q.op, q.target) => Done(q.op, q.target)'
    BY DEF Done
  <2> QED  BY <2>1 DEF Progress, Handled
<1>2. Caller(q)'
  BY DEF Progress, Caller
<1>3. InvitationHolds(q)'
  BY DEF Progress, Told, InvitationHolds, IsMember
<1>4. RowHolds(q.row)'
  BY DEF Progress, Told, RowHolds
<1>5. Told(q)'
  BY <1>3, <1>4 DEF Progress, Told
<1> QED  BY <1>1, <1>2, <1>5 DEF Progress

TablesOK ==
  /\ org \in BOOLEAN
  /\ email \in [Users -> Persons \cup {None}]
  /\ \A u, v \in Users : email[u] = email[v] /\ email[u] # None => u = v
  /\ member \in [Users -> [role : Roles, accepted : BOOLEAN] \cup {None}]
  /\ projects \subseteq Projects
  /\ keys \in [Keys -> {"none", "live", "revoked"}]

\* The types of the tables and of the requests.
LEMMA TypesSplit ==
  ControlTypeOK <=> TablesOK /\ req \in [Requests -> Request]
BY DEF ControlTypeOK, TablesOK

\* The tables change, or stay, and one request goes on with what it knows.
LEMMA RequestMoves ==
  ASSUME ControlInv, NEW r \in Requests, NEW q \in Request,
         req' = [req EXCEPT ![r] = q],
         TablesOK', Grown, OrgFirst', Progress(q)'
  PROVE  ControlInv'
<1>1. ControlTypeOK /\ req \in [Requests -> Request]
  BY TypesSplit DEF ControlInv
<1>2. req' \in [Requests -> Request]
  BY <1>1
<1>3. ControlTypeOK'
  BY <1>2, TypesSplit DEF ControlTypeOK, TablesOK
<1>4. ASSUME NEW s \in Requests PROVE Progress(req[s])'
  <2>1. CASE s = r
    BY <1>1, <2>1
  <2>2. CASE s # r
    <3>1. PICK p \in Request : p = req[s] /\ p = req'[s]
      BY <1>1, <2>2
    <3>2. Progress(p)
      BY <3>1 DEF ControlInv
    <3>3. Asking(p) /\ Handled(p)' /\ Caller(p)' /\ Told(p)'
      BY <1>1, <3>2, ProgressIsKept
    <3>4. Progress(p)'
      BY <3>3 DEF Progress, Asking
    <3> QED  BY <3>1, <3>4
  <2> QED  BY <2>1, <2>2
<1> QED  BY <1>3, <1>4 DEF ControlInv

\* The same when the tables stay.
LEMMA RequestGoesOn ==
  ASSUME ControlInv, NEW r \in Requests, NEW q \in Request,
         UNCHANGED tables, req' = [req EXCEPT ![r] = q],
         Progress(q), org \/ q.pc \in {"idle", "findUser", "done"}
  PROVE  ControlInv'
<1>1. TablesOK' /\ Grown
  BY TypesSplit DEF ControlInv, TablesOK, Grown, tables
<1>2. req \in [Requests -> Request]
  BY TypesSplit DEF ControlInv
<1>3. OrgFirst'
  BY <1>2 DEF ControlInv, OrgFirst, tables
<1>4. Progress(q)'
  BY DEF tables, Progress, Asking, Handled, Done, Caller, Told, InvitationHolds,
         IsMember, RowHolds
<1> QED  BY <1>1, <1>3, <1>4, RequestMoves

\* ... and when nothing is asked of the requests.
LEMMA TablesMove ==
  ASSUME ControlInv, UNCHANGED req, TablesOK', Grown, OrgFirst'
  PROVE  ControlInv'
<1>1. ControlTypeOK /\ req \in [Requests -> Request]
  BY TypesSplit DEF ControlInv
<1>2. ControlTypeOK'
  BY <1>1 DEF ControlTypeOK, TablesOK
<1>3. ASSUME NEW s \in Requests PROVE Progress(req[s])'
  <2>1. PICK p \in Request : p = req[s] /\ p = req'[s]
    BY <1>1
  <2>2. Progress(p)
    BY <2>1 DEF ControlInv
  <2>3. Asking(p) /\ Handled(p)' /\ Caller(p)' /\ Told(p)'
    BY <1>1, <2>2, ProgressIsKept
  <2>4. Progress(p)'
    BY <2>3 DEF Progress, Asking
  <2> QED  BY <2>1, <2>4
<1> QED  BY <1>2, <1>3 DEF ControlInv

-----------------------------------------------------------------------------
Codes == {0, 200, 201, 401, 403, 404, 409, 500}

AuditRow == [action : {"member.role_changed", "api_key.revoked", "api_key.created"},
             resource : Users \cup Projects \cup Keys]

\* A request with one field replaced is a request.
LEMMA FieldUpdates ==
  ASSUME NEW q \in Request
  PROVE  /\ \A step \in Steps : [q EXCEPT !.pc = step] \in Request
         /\ \A op \in Operations : [q EXCEPT !.op = op] \in Request
         /\ \A by \in Persons \cup Keys \cup {None} : [q EXCEPT !.by = by] \in Request
         /\ \A ctx \in Roles \cup {KeyContext, None} : [q EXCEPT !.ctx = ctx] \in Request
         /\ \A target \in Persons \cup Users \cup Projects \cup Keys \cup {None} :
              [q EXCEPT !.target = target] \in Request
         /\ \A role \in Roles \cup {None} : [q EXCEPT !.role = role] \in Request
         /\ \A revoked \in BOOLEAN : [q EXCEPT !.revoked = revoked] \in Request
         /\ \A code \in Codes : [q EXCEPT !.code = code] \in Request
         /\ \A row \in AuditRow : [q EXCEPT !.row = row] \in Request
BY DEF Request, Codes, AuditRow

\* A request that has not begun claims nothing.
LEMMA NoRequestKnowsNothing ==
  NoRequest \in Request /\ Progress(NoRequest)
<1>1. NoRequest \in Request
  BY DEF NoRequest, Request, Steps
<1>2. NoRequest.pc = "idle" /\ NoRequest.code = 0 /\ NoRequest.row = None /\ ~NoRequest.revoked
  BY DEF NoRequest
<1>3. Progress(NoRequest)
  BY <1>2 DEF Progress, Asking, Handled, Caller, Told, InvitationHolds, RowHolds
<1> QED  BY <1>1, <1>3

\* The tables are empty at first and no request has begun.
LEMMA ControlInitInv == ControlInit => ControlInv
<1> SUFFICES ASSUME ControlInit PROVE ControlInv
  OBVIOUS
<1>1. TablesOK
  BY DEF ControlInit, TablesOK
<1>2. \A r \in Requests : req[r] = NoRequest /\ req[r].pc = "idle"
  BY DEF ControlInit, NoRequest
<1>3. ControlTypeOK
  BY <1>1, NoRequestKnowsNothing, TypesSplit DEF ControlInit
<1>4. OrgFirst
  BY <1>2 DEF ControlInit, OrgFirst
<1>5. \A r \in Requests : Progress(req[r])
  BY <1>2, NoRequestKnowsNothing
<1> QED  BY <1>3, <1>4, <1>5 DEF ControlInv

\* A request ends: what the answer to an invitation says has to hold.
LEMMA Answers ==
  ASSUME ControlInv, NEW r \in Requests, NEW code \in {200, 401, 403, 404, 409, 500},
         code = 409 => IsMember(req[r].target)
  PROVE  \E q \in Request :
           /\ Answer(r, code) => req' = [req EXCEPT ![r] = q]
           /\ Progress(q) /\ q.pc \in {"idle", "done"}
<1>1. req[r] \in Request
  BY TypesSplit DEF ControlInv
<1>2. CASE req[r].op = "invite"
  <2> DEFINE q1 == [NoRequest EXCEPT !.pc = "done"]
             q2 == [q1 EXCEPT !.op = "invite"]
             q3 == [q2 EXCEPT !.target = req[r].target]
             q == [q3 EXCEPT !.code = code]
  <2>1. q.pc = "done" /\ q.op = "invite" /\ q.target = req[r].target /\ q.code = code
        /\ q.revoked = FALSE /\ q.row = None
    BY DEF NoRequest
  <2>2. q1 \in Request
    BY NoRequestKnowsNothing, FieldUpdates DEF Steps
  <2> HIDE DEF q1
  <2>3. q2 \in Request
    BY <2>2, FieldUpdates DEF Operations
  <2> HIDE DEF q2
  <2>4. q3 \in Request
    BY <1>1, <2>3, FieldUpdates DEF Request
  <2> HIDE DEF q3
  <2>5. q \in Request
    <3>1. code \in Codes
      BY DEF Codes
    <3> QED  BY <2>4, <3>1, FieldUpdates
  <2>6. Answer(r, code) => req' = [req EXCEPT ![r] = q]
    BY <1>2 DEF Answer, q1, q2, q3
  <2> HIDE DEF q
  <2>7. InvitationHolds(q)
    BY <2>1 DEF InvitationHolds
  <2>8. Progress(q)
    BY <2>1, <2>7 DEF Progress, Asking, Handled, Caller, Told, RowHolds
  <2> QED  BY <2>1, <2>5, <2>6, <2>8
<1>3. CASE req[r].op # "invite"
  <2>1. Answer(r, code) => req' = [req EXCEPT ![r] = NoRequest]
    BY <1>3 DEF Answer
  <2>2. NoRequest.pc = "idle"
    BY DEF NoRequest
  <2> QED  BY <2>1, <2>2, NoRequestKnowsNothing
<1> QED  BY <1>2, <1>3

\* ... and an answer that is true ends it.
LEMMA AnswerKeepsInv ==
  ASSUME ControlInv, NEW r \in Requests, NEW code \in {200, 401, 403, 404, 409, 500},
         code = 409 => IsMember(req[r].target),
         Answer(r, code), UNCHANGED tables
  PROVE  ControlInv'
<1>1. PICK q \in Request : req' = [req EXCEPT ![r] = q]
                            /\ Progress(q) /\ q.pc \in {"idle", "done"}
  BY Answers
<1> QED  BY <1>1, RequestGoesOn

-----------------------------------------------------------------------------
\* The actions that change a request alone, by their shape: its step moves on...
LEMMA StepKeepsInv ==
  ASSUME ControlInv, NEW r \in Requests, NEW step \in Steps, Goto(r, step), UNCHANGED tables,
         Progress([req[r] EXCEPT !.pc = step]),
         org \/ step \in {"idle", "findUser", "done"}
  PROVE  ControlInv'
<1> DEFINE q == [req[r] EXCEPT !.pc = step]
<1>1. req \in [Requests -> Request]
  BY TypesSplit DEF ControlInv
<1>2. q \in Request /\ q.pc = step
  BY <1>1, FieldUpdates DEF Request
<1>3. req' = [req EXCEPT ![r] = q]
  BY DEF Goto
<1> HIDE DEF q
<1> QED  BY <1>2, <1>3, RequestGoesOn DEF q

\* A request that has got beyond looking for its caller was made to an organization.
LEMMA OrgExists ==
  ASSUME ControlInv, NEW r \in Requests, req[r].pc \notin {"idle", "findUser", "done"}
  PROVE  org
BY DEF ControlInv, OrgFirst

\* linkClerkUser looks up the organization.
LEMMA LinkSessionKeepsInv ==
  ASSUME ControlInv, NEW r \in Requests, NEW p \in Persons, LinkSession(r, p)
  PROVE  ControlInv'
<1>1. req[r] \in Request /\ req[r].pc = "idle" /\ Progress(req[r]) /\ UNCHANGED tables
  BY TypesSplit DEF ControlInv, LinkSession
<1>2. CASE org
  <2> DEFINE q1 == [req[r] EXCEPT !.pc = "ensureUser"]
             q == [q1 EXCEPT !.by = p]
  <2>1. q1 \in Request
    BY <1>1, FieldUpdates DEF Steps
  <2>2. q.pc = "ensureUser" /\ q.by = p /\ q.revoked = FALSE /\ q.code = 0 /\ q.row = None
    BY <1>1 DEF Request, Progress, Caller, Told
  <2>3. req' = [req EXCEPT ![r] = q]
    BY <1>2 DEF LinkSession
  <2> HIDE DEF q1
  <2>4. q \in Request
    BY <2>1, FieldUpdates
  <2> HIDE DEF q
  <2>5. Progress(q)
    BY <2>2 DEF Progress, Asking, Handled, Caller, Told, InvitationHolds, RowHolds
  <2> QED  BY <1>1, <1>2, <2>3, <2>4, <2>5, RequestGoesOn
<1>3. CASE ~org
  BY <1>1, <1>3, AnswerKeepsInv DEF LinkSession
<1> QED  BY <1>2, <1>3

\* The upsert of the user who signs up.
LEMMA EnsureUserKeepsInv ==
  ASSUME ControlInv, NEW r \in Requests, EnsureUser(r)
  PROVE  ControlInv'
<1> DEFINE p == req[r].by
<1>1. req[r] \in Request /\ req[r].pc = "ensureUser" /\ Progress(req[r]) /\ TablesOK
      /\ req \in [Requests -> Request]
  BY TypesSplit DEF ControlInv, EnsureUser
<1>2. org /\ p \in Persons
  BY <1>1, OrgExists DEF Progress, Caller
<1>3. CASE EmailTaken(Clerk(p), p)
  BY <1>1, <1>3, AnswerKeepsInv DEF EnsureUser, tables
<1>4. CASE ~EmailTaken(Clerk(p), p)
  <2>1. PICK u \in Users : u = Clerk(p)
    BY <1>2 DEF Users, Clerk
  <2>2. email' = [email EXCEPT ![u] = p] /\ Goto(r, "ensureMember")
        /\ UNCHANGED <<org, member, projects, keys>>
    BY <1>4, <2>1 DEF EnsureUser, UpsertUser
  <2>3. \A v \in Users \ {u} : email[v] # p
    BY <1>4, <2>1 DEF EmailTaken
  <2>4. TablesOK' /\ Grown /\ OrgFirst'
    BY <1>1, <1>2, <2>2, <2>3 DEF TablesOK, Grown, OrgFirst
  <2>5. PICK q \in Request : q = [req[r] EXCEPT !.pc = "ensureMember"]
    BY <1>1, FieldUpdates DEF Steps
  <2>6. q.pc = "ensureMember" /\ q.by \in Persons /\ q.revoked = FALSE /\ q.code = 0
        /\ q.row = None
    BY <1>1, <1>2, <2>5 DEF Request, Progress, Caller, Told
  <2>7. req' = [req EXCEPT ![r] = q]
    BY <2>2, <2>5 DEF Goto
  <2>8. Progress(q)'
    BY <2>6 DEF Progress, Asking, Handled, Caller, Told, InvitationHolds, RowHolds
  <2> QED  BY <2>4, <2>5, <2>7, <2>8, RequestMoves
<1> QED  BY <1>3, <1>4

\* A membership that is created or changed is there, and the others stay.
LEMMA CreatedMemberTypes ==
  ASSUME TablesOK, NEW u \in Users, NEW role \in Roles, NEW accepted \in BOOLEAN,
         CreatedMember(u, role, accepted), UNCHANGED <<org, email, projects, keys>>
  PROVE  TablesOK' /\ Grown /\ member'[u] # None
<1>1. [role |-> role, accepted |-> accepted] # None
  BY ControlAssumption
<1> QED  BY <1>1 DEF CreatedMember, TablesOK, Grown

\* The tables change and the request is answered.
LEMMA AnswerAndTables ==
  ASSUME ControlInv, NEW r \in Requests, NEW code \in {200, 500}, Answer(r, code),
         TablesOK', Grown, org'
  PROVE  ControlInv'
<1>1. PICK q \in Request : req' = [req EXCEPT ![r] = q] /\ Progress(q)
  BY Answers
<1>2. Asking(q) /\ Handled(q)' /\ Caller(q)' /\ Told(q)'
  BY <1>1, ProgressIsKept DEF ControlInv
<1>3. Progress(q)' /\ OrgFirst'
  BY <1>2 DEF Progress, Asking, OrgFirst
<1> QED  BY <1>1, <1>3, RequestMoves

\* The upsert of the membership of who signs up.
LEMMA EnsureMemberKeepsInv ==
  ASSUME ControlInv, NEW r \in Requests, EnsureMember(r)
  PROVE  ControlInv'
<1>1. req[r] \in Request /\ req[r].pc = "ensureMember" /\ Progress(req[r]) /\ TablesOK
  BY TypesSplit DEF ControlInv, EnsureMember
<1>2. org /\ req[r].by \in Persons
  BY <1>1, OrgExists DEF Progress, Caller
<1>3. PICK u \in Users : u = Clerk(req[r].by)
  BY <1>2 DEF Users, Clerk
<1>4. Answer(r, 200) /\ UNCHANGED <<org, email, projects, keys>>
  BY DEF EnsureMember
<1>5. CASE member[u] = None
  <2>1. CreatedMember(u, Admin, TRUE)
    BY <1>3, <1>5 DEF EnsureMember
  <2> QED  BY <1>1, <1>2, <1>4, <2>1, ControlAssumption, CreatedMemberTypes, AnswerAndTables
<1>6. CASE member[u] # None
  <2>1. CreatedMember(u, member[u].role, TRUE) /\ member[u].role \in Roles
    BY <1>1, <1>3, <1>6 DEF EnsureMember, TablesOK
  <2> QED  BY <1>1, <1>2, <1>4, <2>1, CreatedMemberTypes, AnswerAndTables
<1> QED  BY <1>5, <1>6

\* Sign-up, whose projects replace none.
LEMMA SignUpKeepsInv ==
  ASSUME ControlInv, NEW r \in Requests, NEW p \in Persons, SignUp(r, p)
  PROVE  ControlInv'
<1>1. TablesOK /\ req \in [Requests -> Request] /\ UNCHANGED req
  BY TypesSplit DEF ControlInv, SignUp
<1>2. CASE org \/ EmailTaken(Clerk(p), p)
  <2>1. UNCHANGED tables
    BY <1>2 DEF SignUp
  <2>2. TablesOK' /\ Grown /\ OrgFirst'
    BY <1>1, <2>1 DEF ControlInv, TablesOK, Grown, OrgFirst, tables
  <2> QED  BY <1>1, <2>2, TablesMove
<1>3. CASE ~(org \/ EmailTaken(Clerk(p), p))
  <2>1. PICK u \in Users : u = Clerk(p)
    BY DEF Users, Clerk
  <2>2. org' = TRUE /\ email' = [email EXCEPT ![u] = p]
        /\ CreatedMember(u, Admin, TRUE) /\ projects' = {Default} /\ UNCHANGED keys
    BY <1>3, <2>1 DEF SignUp, UpsertUser
  <2>3. \A v \in Users \ {u} : email[v] # p
    BY <1>3, <2>1 DEF EmailTaken
  <2>4. /\ Admin \in Roles /\ Default \in Projects
        /\ \A role \in Roles, accepted \in BOOLEAN :
             [role |-> role, accepted |-> accepted] # None
    BY ControlAssumption
  <2>5. TablesOK' /\ OrgFirst'
    BY <1>1, <2>2, <2>3, <2>4 DEF TablesOK, CreatedMember, OrgFirst
  <2>6. Grown
    BY <1>1, <1>3, <2>2, <2>4 DEF ControlInv, OrgFirst, Grown, CreatedMember, TablesOK
  <2> QED  BY <1>1, <2>5, <2>6, TablesMove
<1> QED  BY <1>2, <1>3

\* The organization is made.
LEMMA CreateOrganizationKeepsInv ==
  ASSUME ControlInv, NEW r \in Requests, CreateOrganization(r)
  PROVE  ControlInv'
<1>1. UNCHANGED req /\ TablesOK' /\ Grown /\ OrgFirst'
  BY TypesSplit DEF ControlInv, CreateOrganization, TablesOK, Grown, OrgFirst
<1> QED  BY <1>1, TablesMove

-----------------------------------------------------------------------------

\* A request of a signed-in person arrives.
LEMMA CallKeepsInv ==
  ASSUME ControlInv, NEW r \in Requests, NEW p \in Persons, NEW op \in Operations,
         NEW target \in Targets(op), NEW role \in RolesAsked(op),
         Call(r, p, op, target, role)
  PROVE  ControlInv'
<1>1. target \in Persons \cup Users \cup Projects \cup Keys \cup {None}
  BY DEF Targets, Operations
<1>2. role \in Roles \cup {None}
  BY DEF RolesAsked
<1> DEFINE q1 == [NoRequest EXCEPT !.pc = "findUser"]
           q2 == [q1 EXCEPT !.by = p]
           q3 == [q2 EXCEPT !.op = op]
           q4 == [q3 EXCEPT !.target = target]
           q == [q4 EXCEPT !.role = role]
<1>3. q.pc = "findUser" /\ q.by = p /\ q.op = op /\ q.target = target /\ q.role = role
      /\ q.revoked = FALSE /\ q.code = 0 /\ q.row = None
  BY DEF NoRequest
<1>4. UNCHANGED tables /\ req' = [req EXCEPT ![r] = q]
  BY DEF Call
<1>5. q1 \in Request
  BY NoRequestKnowsNothing, FieldUpdates DEF Steps
<1> HIDE DEF q1
<1>6. q2 \in Request
  BY <1>5, FieldUpdates
<1> HIDE DEF q2
<1>7. q3 \in Request
  BY <1>6, FieldUpdates
<1> HIDE DEF q3
<1>8. q4 \in Request
  BY <1>1, <1>7, FieldUpdates
<1> HIDE DEF q4
<1>9. q \in Request
  BY <1>2, <1>8, FieldUpdates
<1> HIDE DEF q
<1>10. Progress(q)
  <2>1. Asking(q) /\ Handled(q) /\ Caller(q)
    BY <1>3 DEF Asking, Handled, Caller
  <2>2. Told(q)
    BY <1>3 DEF Told, InvitationHolds, RowHolds
  <2> QED  BY <2>1, <2>2 DEF Progress
<1> QED  BY <1>3, <1>4, <1>9, <1>10, RequestGoesOn

\* A request with an API key arrives.
LEMMA CallWithKeyKeepsInv ==
  ASSUME ControlInv, NEW r \in Requests, NEW k \in Keys, NEW op \in Operations,
         NEW target \in Targets(op), NEW role \in RolesAsked(op),
         CallWithKey(r, k, op, target, role)
  PROVE  ControlInv'
<1>1. target \in Persons \cup Users \cup Projects \cup Keys \cup {None}
  BY DEF Targets, Operations
<1>2. role \in Roles \cup {None}
  BY DEF RolesAsked
<1> DEFINE revoked == keys[k] = "revoked"
           q1 == [NoRequest EXCEPT !.pc = "candidates"]
           q2 == [q1 EXCEPT !.by = k]
           q3 == [q2 EXCEPT !.op = op]
           q4 == [q3 EXCEPT !.target = target]
           q5 == [q4 EXCEPT !.role = role]
           q == [q5 EXCEPT !.revoked = revoked]
<1>3. q.pc = "candidates" /\ q.by = k /\ q.op = op /\ q.target = target /\ q.role = role
      /\ q.revoked = revoked /\ q.code = 0 /\ q.row = None /\ q.ctx = None
  BY DEF NoRequest
<1>4. UNCHANGED tables /\ req' = [req EXCEPT ![r] = q] /\ org
  BY DEF CallWithKey, ControlInv, OrgFirst
<1>5. q1 \in Request
  BY NoRequestKnowsNothing, FieldUpdates DEF Steps
<1> HIDE DEF q1
<1>6. q2 \in Request
  BY <1>5, FieldUpdates
<1> HIDE DEF q2
<1>7. q3 \in Request
  BY <1>6, FieldUpdates
<1> HIDE DEF q3
<1>8. q4 \in Request
  BY <1>1, <1>7, FieldUpdates
<1> HIDE DEF q4
<1>9. q5 \in Request
  BY <1>2, <1>8, FieldUpdates
<1> HIDE DEF q5
<1>10. q \in Request
  <2>1. revoked \in BOOLEAN
    OBVIOUS
  <2> HIDE DEF revoked
  <2> QED  BY <1>9, <2>1, FieldUpdates
<1> HIDE DEF q
<1>11. Progress(q)
  <2>1. Asking(q) /\ Handled(q) /\ Caller(q)
    BY <1>3 DEF Asking, Handled, Caller
  <2>2. Told(q)
    BY <1>3 DEF Told, InvitationHolds, RowHolds
  <2> QED  BY <2>1, <2>2 DEF Progress
<1> QED  BY <1>4, <1>10, <1>11, RequestGoesOn

\* The guard reads the user.
LEMMA FindUserKeepsInv ==
  ASSUME ControlInv, NEW r \in Requests, FindUser(r)
  PROVE  ControlInv'
<1>1. req[r] \in Request /\ req[r].pc = "findUser" /\ Progress(req[r]) /\ UNCHANGED tables
  BY TypesSplit DEF ControlInv, FindUser
<1>2. CASE email[Clerk(req[r].by)] = None
  BY <1>1, <1>2, AnswerKeepsInv DEF FindUser
<1>3. CASE email[Clerk(req[r].by)] # None
  <2>1. Clerk(req[r].by) \in Users
    BY <1>1 DEF Progress, Caller, Clerk, Users
  <2>2. org
    BY <1>3, <2>1 DEF ControlInv, OrgFirst
  <2> DEFINE q == [req[r] EXCEPT !.pc = "findMember"]
  <2>3. Asking(q) /\ Handled(q) /\ Caller(q)
    BY <1>1 DEF Request, Progress, Asking, Handled, Caller
  <2>4. Told(q)
    BY <1>1 DEF Request, Progress, Told, InvitationHolds, RowHolds
  <2>5. Goto(r, "findMember")
    BY <1>3 DEF FindUser
  <2> QED  BY <1>1, <2>2, <2>3, <2>4, <2>5, StepKeepsInv DEF Steps, Progress
<1> QED  BY <1>2, <1>3

\* The guard reads the membership.
LEMMA FindMemberKeepsInv ==
  ASSUME ControlInv, NEW r \in Requests, FindMember(r)
  PROVE  ControlInv'
<1> DEFINE m == member[Clerk(req[r].by)]
<1>1. req[r] \in Request /\ req[r].pc = "findMember" /\ Progress(req[r]) /\ UNCHANGED tables
      /\ org /\ TablesOK
  BY TypesSplit, OrgExists DEF ControlInv, FindMember
<1>2. CASE m = None \/ ~m.accepted
  BY <1>1, <1>2, AnswerKeepsInv DEF FindMember
<1>3. CASE ~(m = None \/ ~m.accepted)
  <2>1. Clerk(req[r].by) \in Users
    BY <1>1 DEF Progress, Caller, Clerk, Users
  <2>2. m.role \in Roles
    BY <1>1, <1>3, <2>1 DEF TablesOK
  <2> DEFINE role == m.role
             q1 == [req[r] EXCEPT !.pc = "guard"]
             q == [q1 EXCEPT !.ctx = role]
  <2>3. req' = [req EXCEPT ![r] = q]
    BY <1>3 DEF FindMember
  <2>4. q1 \in Request
    BY <1>1, FieldUpdates DEF Steps
  <2> HIDE DEF m
  <2>5. Asking(q) /\ Handled(q) /\ Caller(q)
    BY <1>1 DEF Request, Progress, Asking, Handled, Caller
  <2>6. Told(q)
    BY <1>1 DEF Request, Progress, Told, InvitationHolds, RowHolds
  <2> HIDE DEF q1
  <2>7. q \in Request
    BY <2>2, <2>4, FieldUpdates
  <2> HIDE DEF q
  <2> QED  BY <1>1, <2>3, <2>5, <2>6, <2>7, RequestGoesOn DEF Progress
<1> QED  BY <1>2, <1>3

\* The guard reads the keys with the prefix of the one sent.
LEMMA KeyCandidatesKeepsInv ==
  ASSUME ControlInv, NEW r \in Requests, KeyCandidates(r)
  PROVE  ControlInv'
<1>1. req[r] \in Request /\ req[r].pc = "candidates" /\ Progress(req[r]) /\ UNCHANGED tables
      /\ org
  BY TypesSplit, OrgExists DEF ControlInv, KeyCandidates
<1>2. CASE keys[req[r].by] # "live"
  BY <1>1, <1>2, AnswerKeepsInv DEF KeyCandidates
<1>3. CASE keys[req[r].by] = "live"
  <2> DEFINE q == [req[r] EXCEPT !.pc = "compare"]
  <2>1. Asking(q) /\ Handled(q) /\ Caller(q)
    BY <1>1, <1>3 DEF Request, Progress, Asking, Handled, Caller
  <2>2. Told(q)
    BY <1>1 DEF Request, Progress, Told, InvitationHolds, RowHolds
  <2>3. Goto(r, "compare")
    BY <1>3 DEF KeyCandidates
  <2> QED  BY <1>1, <2>1, <2>2, <2>3, StepKeepsInv DEF Steps, Progress
<1> QED  BY <1>2, <1>3

\* The guard compares the key with the ones it has read.
LEMMA KeyMatchesKeepsInv ==
  ASSUME ControlInv, NEW r \in Requests, KeyMatches(r)
  PROVE  ControlInv'
<1>1. req[r] \in Request /\ req[r].pc = "compare" /\ Progress(req[r]) /\ UNCHANGED tables
      /\ org
  BY TypesSplit, OrgExists DEF ControlInv, KeyMatches
<1> DEFINE q1 == [req[r] EXCEPT !.pc = "guard"]
           q == [q1 EXCEPT !.ctx = KeyContext]
<1>2. req' = [req EXCEPT ![r] = q]
  BY DEF KeyMatches
<1>3. q1 \in Request
  BY <1>1, FieldUpdates DEF Steps
<1>4. Asking(q) /\ Handled(q) /\ Caller(q)
  BY <1>1 DEF Request, Progress, Asking, Handled, Caller
<1>5. Told(q)
  BY <1>1 DEF Request, Progress, Told, InvitationHolds, RowHolds
<1> HIDE DEF q1
<1>6. q \in Request
  BY <1>3, FieldUpdates
<1> HIDE DEF q
<1> QED  BY <1>1, <1>2, <1>4, <1>5, <1>6, RequestGoesOn DEF Progress

\* The roles guard lets a request through to its handler, or refuses it.
LEMMA GuardKeepsInv ==
  ASSUME ControlInv, NEW r \in Requests, Guard(r)
  PROVE  ControlInv'
<1> DEFINE op == req[r].op
<1>1. req[r] \in Request /\ req[r].pc = "guard" /\ Progress(req[r]) /\ UNCHANGED tables
      /\ org
  BY TypesSplit, OrgExists DEF ControlInv, Guard
<1>2. CASE req[r].ctx \notin RolesOf(op) \cup {KeyContext}
  BY <1>1, <1>2, AnswerKeepsInv DEF Guard
<1>3. CASE req[r].ctx \in RolesOf(op) \cup {KeyContext}
  <2>1. op \in Operations /\ req[r].target \in Targets(op) /\ req[r].role \in RolesAsked(op)
    BY <1>1 DEF Progress, Asking
  <2> DEFINE step == FirstStep(op)
             q1 == [req[r] EXCEPT !.pc = step]
             q2 == [q1 EXCEPT !.by = None]
             q3 == [q2 EXCEPT !.ctx = None]
             q == [q3 EXCEPT !.revoked = FALSE]
  <2>2. req' = [req EXCEPT ![r] = q]
    BY <1>3 DEF Guard
  <2>3. q.pc = step /\ q.op = op /\ q.target = req[r].target /\ q.role = req[r].role
        /\ q.revoked = FALSE /\ q.code = 0 /\ q.row = None
    BY <1>1 DEF Request, Progress, Told
  <2>4. step \in Steps /\ step \in {"findInvited", "role", "accept", "project", "key", "revoke"}
        /\ (step = "findInvited" => op = "invite") /\ (step # "findInvited" => op = step)
    BY <2>1 DEF FirstStep, Operations, Steps
  <2> HIDE DEF step
  <2>5. q1 \in Request
    BY <1>1, <2>4, FieldUpdates
  <2> HIDE DEF q1
  <2>6. q2 \in Request
    BY <2>5, FieldUpdates
  <2> HIDE DEF q2
  <2>7. q3 \in Request
    BY <2>6, FieldUpdates
  <2> HIDE DEF q3
  <2>8. q \in Request
    BY <2>7, FieldUpdates
  <2> HIDE DEF q
  <2>9. Handled(q)
    BY <2>1, <2>3, <2>4 DEF Handled, Targets, RolesAsked
  <2>10. Asking(q) /\ Caller(q) /\ Told(q)
    BY <2>3, <2>4 DEF Asking, Caller, Told, InvitationHolds, RowHolds
  <2> QED  BY <1>1, <2>2, <2>8, <2>9, <2>10, RequestGoesOn DEF Progress
<1> QED  BY <1>2, <1>3

-----------------------------------------------------------------------------
\* A handler succeeds: what it has done stays true for the audit log to say.
LEMMA SuccessKeepsInv ==
  ASSUME ControlInv, NEW r \in Requests, NEW code \in Codes, Succeed(r, code),
         req[r].pc \in {"createMember", "role", "accept", "project", "key", "revoke"},
         NEW op \in Operations, op = req[r].op,
         NEW target \in Users \cup Projects \cup Keys, target = req[r].target,
         TablesOK', Grown, org', Done(op, target)'
  PROVE  ControlInv'
<1>1. req \in [Requests -> Request] /\ req[r] \in Request /\ Progress(req[r])
  BY TypesSplit DEF ControlInv
<1> DEFINE q1 == [req[r] EXCEPT !.pc = "audit"]
           q2 == [q1 EXCEPT !.code = code]
<1>2. req' = [req EXCEPT ![r] = q2]
  BY <1>1 DEF Succeed
<1>3. q1 \in Request
  BY <1>1, FieldUpdates DEF Steps
<1>4. req[r].row = None /\ req[r].revoked = FALSE
  BY <1>1 DEF Request, Progress, Caller, Told
<1>5. q2.pc = "audit" /\ q2.op = op /\ q2.target = target /\ q2.code = code /\ q2.row = None
       /\ q2.revoked = FALSE
  BY <1>1, <1>4 DEF Request
<1> HIDE DEF q1
<1>6. q2 \in Request
  BY <1>3, FieldUpdates
<1> HIDE DEF q2
<1>7. PICK q \in Request : q = q2
  BY <1>6
<1>8. Asking(q)' /\ Handled(q)' /\ Caller(q)'
  BY <1>5, <1>7 DEF Asking, Handled, Caller
<1>9. InvitationHolds(q)'
  BY <1>5, <1>7 DEF InvitationHolds, IsMember, Done
<1>10. Told(q)'
  BY <1>5, <1>7, <1>9 DEF Told, RowHolds
<1>11. OrgFirst'
  BY DEF OrgFirst
<1> QED  BY <1>2, <1>7, <1>8, <1>10, <1>11, RequestMoves DEF Progress

\* invite looks for the user.
LEMMA FindInvitedKeepsInv ==
  ASSUME ControlInv, NEW r \in Requests, FindInvited(r)
  PROVE  ControlInv'
<1>1. req[r] \in Request /\ req[r].pc = "findInvited" /\ Progress(req[r]) /\ UNCHANGED tables
      /\ org
  BY TypesSplit, OrgExists DEF ControlInv, FindInvited
<1>2. CASE Invited(r) = {}
  <2>1. Goto(r, "createInvited")
    BY <1>2 DEF FindInvited
  <2> DEFINE q == [req[r] EXCEPT !.pc = "createInvited"]
  <2>2. Asking(q) /\ Handled(q) /\ Caller(q)
    BY <1>1 DEF Request, Progress, Asking, Handled, Caller
  <2>3. Told(q)
    BY <1>1 DEF Request, Progress, Told, InvitationHolds, RowHolds
  <2> QED  BY <1>1, <2>1, <2>2, <2>3, StepKeepsInv DEF Steps, Progress
<1>3. CASE Invited(r) # {}
  <2>1. PICK u \in Users :
          req' = [req EXCEPT ![r].pc = "findInvitedMember", ![r].target = u]
    BY <1>3 DEF FindInvited, Invited
  <2> DEFINE q1 == [req[r] EXCEPT !.pc = "findInvitedMember"]
             q == [q1 EXCEPT !.target = u]
  <2>2. req' = [req EXCEPT ![r] = q]
    BY <2>1
  <2>3. q1 \in Request
    BY <1>1, FieldUpdates DEF Steps
  <2>4. q.pc = "findInvitedMember" /\ q.op = "invite" /\ q.target = u /\ q.role \in Roles
        /\ q.revoked = FALSE /\ q.code = 0 /\ q.row = None
    BY <1>1 DEF Request, Progress, Handled, Caller, Told
  <2> HIDE DEF q1
  <2>5. q \in Request
    BY <2>3, FieldUpdates
  <2> HIDE DEF q
  <2>6. Asking(q) /\ Handled(q) /\ Caller(q) /\ Told(q)
    BY <2>4 DEF Asking, Handled, Caller, Told, InvitationHolds, RowHolds
  <2> QED  BY <1>1, <2>2, <2>5, <2>6, RequestGoesOn DEF Progress
<1> QED  BY <1>2, <1>3

\* invite looks for a membership of the user.
LEMMA FindInvitedMemberKeepsInv ==
  ASSUME ControlInv, NEW r \in Requests, FindInvitedMember(r)
  PROVE  ControlInv'
<1>1. req[r] \in Request /\ req[r].pc = "findInvitedMember" /\ Progress(req[r])
      /\ UNCHANGED tables /\ org /\ req[r].target \in Users
  BY TypesSplit, OrgExists DEF ControlInv, FindInvitedMember, Progress, Handled
<1>2. CASE member[req[r].target] # None
  <2>1. IsMember(req[r].target)
    BY <1>1, <1>2 DEF IsMember
  <2> QED  BY <1>1, <1>2, <2>1, AnswerKeepsInv DEF FindInvitedMember, Refuse
<1>3. CASE member[req[r].target] = None
  <2>1. Goto(r, "createMember")
    BY <1>3 DEF FindInvitedMember
  <2> DEFINE q == [req[r] EXCEPT !.pc = "createMember"]
  <2>2. Asking(q) /\ Handled(q) /\ Caller(q)
    BY <1>1 DEF Request, Progress, Asking, Handled, Caller
  <2>3. Told(q)
    BY <1>1 DEF Request, Progress, Told, InvitationHolds, RowHolds
  <2> QED  BY <1>1, <2>1, <2>2, <2>3, StepKeepsInv DEF Steps, Progress
<1> QED  BY <1>2, <1>3

\* invite makes a user for the e-mail, unless it is taken.
LEMMA CreateInvitedKeepsInv ==
  ASSUME ControlInv, NEW r \in Requests, CreateInvited(r)
  PROVE  ControlInv'
<1> DEFINE p == req[r].target
<1>1. req[r] \in Request /\ req[r].pc = "createInvited" /\ Progress(req[r]) /\ TablesOK
      /\ org /\ p \in Persons
  BY TypesSplit, OrgExists DEF ControlInv, CreateInvited, Progress, Handled
<1>2. PICK u \in Users : u = Pending(p)
  BY <1>1 DEF Users, Pending
<1>3. UNCHANGED <<org, member, projects, keys>>
  BY DEF CreateInvited
<1>4. CASE email[u] # None \/ EmailTaken(u, p)
  BY <1>1, <1>2, <1>3, <1>4, AnswerKeepsInv DEF CreateInvited, tables
<1>5. CASE ~(email[u] # None \/ EmailTaken(u, p))
  <2>1. email' = [email EXCEPT ![u] = p]
        /\ req' = [req EXCEPT ![r].pc = "createMember", ![r].target = u]
    BY <1>2, <1>5 DEF CreateInvited
  <2>2. \A v \in Users \ {u} : email[v] # p
    BY <1>5 DEF EmailTaken
  <2>3. TablesOK' /\ Grown /\ OrgFirst'
    BY <1>1, <1>3, <2>1, <2>2 DEF TablesOK, Grown, OrgFirst
  <2> DEFINE q1 == [req[r] EXCEPT !.pc = "createMember"]
             q2 == [q1 EXCEPT !.target = u]
  <2>4. req' = [req EXCEPT ![r] = q2]
    BY <2>1
  <2>5. q1 \in Request
    BY <1>1, FieldUpdates DEF Steps
  <2>6. q2.pc = "createMember" /\ q2.op = "invite" /\ q2.target = u /\ q2.role \in Roles
        /\ q2.revoked = FALSE /\ q2.code = 0 /\ q2.row = None
    BY <1>1 DEF Request, Progress, Handled, Caller, Told
  <2> HIDE DEF q1
  <2>7. q2 \in Request
    BY <2>5, FieldUpdates
  <2> HIDE DEF q2
  <2>8. PICK q \in Request : q = q2
    BY <2>7
  <2>9. Progress(q)'
    BY <2>6, <2>8 DEF Progress, Asking, Handled, Caller, Told, InvitationHolds, RowHolds
  <2> QED  BY <2>3, <2>4, <2>8, <2>9, RequestMoves
<1> QED  BY <1>4, <1>5

\* A handler of memberships succeeds.
LEMMA MemberSucceeds ==
  ASSUME ControlInv, NEW r \in Requests, NEW u \in Users, NEW role \in Roles,
         NEW accepted \in BOOLEAN, NEW code \in Codes,
         req[r].pc \in {"createMember", "role", "accept"}, u = req[r].target,
         CreatedMember(u, role, accepted), Succeed(r, code),
         UNCHANGED <<org, email, projects, keys>>
  PROVE  ControlInv'
<1>1. TablesOK /\ org /\ Progress(req[r])
  BY TypesSplit, OrgExists DEF ControlInv
<1>2. TablesOK' /\ Grown /\ member'[u] # None
  BY <1>1, CreatedMemberTypes
<1>3. PICK op \in {"invite", "role", "accept"} : op = req[r].op
  BY <1>1 DEF Progress, Handled
<1>4. Done(op, u)'
  BY <1>2, <1>3 DEF Done, Operations
<1> QED  BY <1>1, <1>2, <1>3, <1>4, SuccessKeepsInv DEF Done, Operations

\* invite makes the membership.
LEMMA CreateMemberKeepsInv ==
  ASSUME ControlInv, NEW r \in Requests, CreateMember(r)
  PROVE  ControlInv'
<1>1. req[r].pc = "createMember" /\ req[r].target \in Users /\ req[r].role \in Roles
  BY DEF ControlInv, CreateMember, Progress, Handled
<1>2. CASE member[req[r].target] # None
  BY <1>2, AnswerKeepsInv DEF CreateMember, tables
<1>3. CASE member[req[r].target] = None
  <2>1. CreatedMember(req[r].target, req[r].role, FALSE) /\ Succeed(r, 201)
        /\ UNCHANGED <<org, email, projects, keys>>
    BY <1>3 DEF CreateMember
  <2>2. 201 \in Codes /\ FALSE \in BOOLEAN
    BY DEF Codes
  <2> QED  BY <1>1, <2>1, <2>2, MemberSucceeds
<1> QED  BY <1>2, <1>3

\* updateRole writes a membership that is there.
LEMMA UpdateRoleKeepsInv ==
  ASSUME ControlInv, NEW r \in Requests, UpdateRole(r)
  PROVE  ControlInv'
<1> DEFINE u == req[r].target
<1>1. req[r].pc = "role" /\ u \in Users /\ req[r].role \in Roles /\ TablesOK
  BY TypesSplit DEF ControlInv, UpdateRole, Progress, Handled
<1>2. CASE member[u] = None
  BY <1>2, AnswerKeepsInv DEF UpdateRole, Refuse, tables
<1>3. CASE member[u] # None
  <2>1. member[u].accepted \in BOOLEAN
    BY <1>1, <1>3 DEF TablesOK
  <2> QED  BY <1>1, <1>3, <2>1, MemberSucceeds DEF UpdateRole, Codes
<1> QED  BY <1>2, <1>3

\* acceptInvite writes a membership that is there.
LEMMA AcceptInviteKeepsInv ==
  ASSUME ControlInv, NEW r \in Requests, AcceptInvite(r)
  PROVE  ControlInv'
<1> DEFINE u == req[r].target
<1>1. req[r].pc = "accept" /\ u \in Users /\ TablesOK
  BY TypesSplit DEF ControlInv, AcceptInvite, Progress, Handled
<1>2. CASE member[u] = None
  BY <1>2, AnswerKeepsInv DEF AcceptInvite, Refuse, tables
<1>3. CASE member[u] # None
  <2>1. member[u].role \in Roles
    BY <1>1, <1>3 DEF TablesOK
  <2>2. CreatedMember(u, member[u].role, TRUE) /\ Succeed(r, 201)
        /\ UNCHANGED <<org, email, projects, keys>>
    BY <1>3 DEF AcceptInvite
  <2>3. 201 \in Codes /\ TRUE \in BOOLEAN
    BY DEF Codes
  <2> QED  BY <1>1, <2>1, <2>2, <2>3, MemberSucceeds
<1> QED  BY <1>2, <1>3

\* A project is made.
LEMMA CreateProjectKeepsInv ==
  ASSUME ControlInv, NEW r \in Requests, CreateProject(r)
  PROVE  ControlInv'
<1>1. req[r].pc = "project" /\ org /\ TablesOK /\ req[r].op = "project"
  BY TypesSplit, OrgExists DEF ControlInv, CreateProject, Progress, Handled
<1>2. PICK slug \in Projects : slug = req[r].target
  BY <1>1 DEF ControlInv, Progress, Handled
<1>3. UNCHANGED <<org, email, member, keys>>
  BY DEF CreateProject
<1>4. CASE slug \in projects
  BY <1>2, <1>3, <1>4, AnswerKeepsInv DEF CreateProject, tables
<1>5. CASE slug \notin projects
  <2>1. projects' = projects \cup {slug} /\ Succeed(r, 201)
    BY <1>2, <1>5 DEF CreateProject
  <2>2. TablesOK' /\ Grown
    BY <1>1, <1>3, <2>1 DEF TablesOK, Grown
  <2>3. Done("project", slug)'
    BY <2>1 DEF Done, Operations
  <2> QED  BY <1>1, <1>2, <1>3, <2>1, <2>2, <2>3, SuccessKeepsInv DEF Codes, Done, Operations
<1> QED  BY <1>4, <1>5

\* A key is made.
LEMMA CreateKeyKeepsInv ==
  ASSUME ControlInv, NEW r \in Requests, NEW project \in Projects, CreateKey(r, project)
  PROVE  ControlInv'
<1>1. req[r].pc = "key" /\ org /\ TablesOK /\ req[r].op = "key"
  BY TypesSplit, OrgExists DEF ControlInv, CreateKey, Progress, Handled
<1>2. PICK k \in Keys : k = req[r].target
  BY <1>1 DEF ControlInv, Progress, Handled
<1>3. UNCHANGED <<org, email, member, projects>>
  BY DEF CreateKey
<1>4. CASE project \notin projects
  BY <1>2, <1>3, <1>4, AnswerKeepsInv DEF CreateKey, Refuse, tables
<1>5. CASE project \in projects
  <2>1. keys' = [keys EXCEPT ![k] = "live"] /\ Succeed(r, 201) /\ keys[k] = "none"
    BY <1>2, <1>5 DEF CreateKey, Fresh
  <2>2. TablesOK' /\ Grown
    BY <1>1, <1>3, <2>1 DEF TablesOK, Grown
  <2>3. Done("key", k)'
    BY <1>1, <2>1 DEF Done, Operations, TablesOK
  <2> QED  BY <1>1, <1>2, <1>3, <2>1, <2>2, <2>3, SuccessKeepsInv DEF Codes, Done, Operations
<1> QED  BY <1>4, <1>5

\* A key is revoked.
LEMMA RevokeKeyKeepsInv ==
  ASSUME ControlInv, NEW r \in Requests, RevokeKey(r)
  PROVE  ControlInv'
<1>1. req[r].pc = "revoke" /\ org /\ TablesOK /\ req[r].op = "revoke"
  BY TypesSplit, OrgExists DEF ControlInv, RevokeKey, Progress, Handled
<1>2. PICK k \in Keys : k = req[r].target
  BY <1>1 DEF ControlInv, Progress, Handled
<1>3. UNCHANGED <<org, email, member, projects>>
  BY DEF RevokeKey
<1>4. CASE keys[k] = "none"
  BY <1>2, <1>3, <1>4, AnswerKeepsInv DEF RevokeKey, Refuse, tables
<1>5. CASE keys[k] # "none"
  <2>1. keys' = [keys EXCEPT ![k] = "revoked"] /\ Succeed(r, 200)
    BY <1>2, <1>5 DEF RevokeKey
  <2>2. TablesOK' /\ Grown
    BY <1>1, <1>3, <2>1 DEF TablesOK, Grown
  <2>3. Done("revoke", k)'
    BY <1>1, <2>1 DEF Done, Operations, TablesOK
  <2> QED  BY <1>1, <1>2, <1>3, <2>1, <2>2, <2>3, SuccessKeepsInv DEF Codes, Done, Operations
<1> QED  BY <1>4, <1>5

\* The row of the audit log names what the handler has done.
LEMMA RecordKeepsInv ==
  ASSUME ControlInv, NEW r \in Requests, Record(r)
  PROVE  ControlInv'
<1> DEFINE op == req[r].op
           target == req[r].target
<1>1. req[r] \in Request /\ req[r].pc = "audit" /\ Progress(req[r]) /\ UNCHANGED tables
      /\ TablesOK
  BY TypesSplit DEF ControlInv, Record
<1>2. Done(op, target) /\ org
  BY <1>1, OrgExists DEF Progress, Handled
<1> DEFINE row == [action |-> AuditedAs(op), resource |-> target]
<1>3. /\ target \in {u \in Users : member[u] # None} \cup projects
                      \cup {k \in Keys : keys[k] # "none"}
      /\ op = "revoke" => target \in Keys /\ keys[target] = "revoked"
  BY <1>2 DEF Done, Operations
<1>4. AuditedAs(op) \in {"member.role_changed", "api_key.revoked", "api_key.created"}
      /\ (AuditedAs(op) = "api_key.revoked" => op = "revoke")
  BY DEF AuditedAs
<1>5. row \in AuditRow
  BY <1>1, <1>3, <1>4 DEF AuditRow, TablesOK
<1>6. RowHolds(row)
  BY <1>3, <1>4 DEF RowHolds
<1> HIDE DEF row
<1> DEFINE q1 == [req[r] EXCEPT !.pc = "done"]
           q == [q1 EXCEPT !.row = row]
<1>7. req' = [req EXCEPT ![r] = q]
  BY DEF Record, row
<1>8. q1 \in Request
  BY <1>1, FieldUpdates DEF Steps
<1>9. q.pc = "done" /\ q.op = op /\ q.target = target /\ q.code = req[r].code /\ q.row = row
      /\ q.revoked = FALSE
  BY <1>1 DEF Request, Progress, Caller
<1> HIDE DEF q1
<1>10. q \in Request
  BY <1>5, <1>8, FieldUpdates
<1> HIDE DEF q
<1>11. InvitationHolds(q)
  BY <1>1, <1>9 DEF Progress, Told, InvitationHolds
<1>12. Asking(q) /\ Handled(q) /\ Caller(q) /\ Told(q)
  BY <1>6, <1>9, <1>11 DEF Asking, Handled, Caller, Told
<1> QED  BY <1>1, <1>2, <1>7, <1>10, <1>12, RequestGoesOn DEF Progress

\* A request that is over is forgotten.
LEMMA FinishKeepsInv ==
  ASSUME ControlInv, NEW r \in Requests, Finish(r)
  PROVE  ControlInv'
<1>1. NoRequest.pc = "idle"
  BY DEF NoRequest
<1> QED  BY <1>1, NoRequestKnowsNothing, RequestGoesOn DEF Finish

\* An unhandled rejection ends the process and the requests in it.
LEMMA ProcessExitsKeepsInv ==
  ASSUME ControlInv, ProcessExits
  PROVE  ControlInv'
<1>1. UNCHANGED tables /\ \A r \in Requests : req'[r] = NoRequest /\ NoRequest.pc = "idle"
  BY DEF ProcessExits, NoRequest
<1>2. TablesOK' /\ Grown
  BY <1>1, TypesSplit DEF ControlInv, TablesOK, Grown, tables
<1>3. req' \in [Requests -> Request]
  BY NoRequestKnowsNothing DEF ProcessExits
<1>4. ControlTypeOK'
  BY <1>2, <1>3 DEF ControlTypeOK, TablesOK
<1>5. OrgFirst'
  BY <1>1 DEF ControlInv, OrgFirst, tables
<1>6. PICK q \in Request : q = NoRequest /\ Progress(q)
  BY NoRequestKnowsNothing
<1>7. Progress(q)'
  BY <1>2, <1>6, ProgressIsKept DEF ControlInv, Progress, Asking
<1>8. \A r \in Requests : Progress(req[r])'
  BY <1>1, <1>6, <1>7
<1> QED  BY <1>4, <1>5, <1>8 DEF ControlInv

-----------------------------------------------------------------------------

\* Every step of the control plane keeps the invariant.
LEMMA NextKeepsInv == ControlInv /\ [ControlNext]_controlVars => ControlInv'
<1> SUFFICES ASSUME ControlInv, [ControlNext]_controlVars PROVE ControlInv'
  OBVIOUS
<1>1. ASSUME NEW r \in Requests, NEW p \in Persons, SignUp(r, p) \/ LinkSession(r, p)
      PROVE  ControlInv'
  BY <1>1, SignUpKeepsInv, LinkSessionKeepsInv
<1>2. ASSUME NEW r \in Requests,
             CreateOrganization(r) \/ EnsureUser(r) \/ EnsureMember(r)
      PROVE  ControlInv'
  BY <1>2, CreateOrganizationKeepsInv, EnsureUserKeepsInv, EnsureMemberKeepsInv
<1>3. ASSUME NEW r \in Requests, NEW op \in Operations, NEW t \in Targets(op),
             NEW role \in RolesAsked(op),
             \/ \E p \in Persons : Call(r, p, op, t, role)
             \/ \E k \in Keys : CallWithKey(r, k, op, t, role)
      PROVE  ControlInv'
  BY <1>3, CallKeepsInv, CallWithKeyKeepsInv
<1>4. ASSUME NEW r \in Requests,
             FindUser(r) \/ FindMember(r) \/ KeyCandidates(r) \/ KeyMatches(r) \/ Guard(r)
      PROVE  ControlInv'
  BY <1>4, FindUserKeepsInv, FindMemberKeepsInv, KeyCandidatesKeepsInv, KeyMatchesKeepsInv,
     GuardKeepsInv
<1>5. ASSUME NEW r \in Requests,
             FindInvited(r) \/ FindInvitedMember(r) \/ CreateInvited(r) \/ CreateMember(r)
      PROVE  ControlInv'
  BY <1>5, FindInvitedKeepsInv, FindInvitedMemberKeepsInv, CreateInvitedKeepsInv,
     CreateMemberKeepsInv
<1>6. ASSUME NEW r \in Requests,
             \/ UpdateRole(r) \/ AcceptInvite(r) \/ CreateProject(r) \/ RevokeKey(r)
             \/ \E project \in Projects : CreateKey(r, project)
      PROVE  ControlInv'
  BY <1>6, UpdateRoleKeepsInv, AcceptInviteKeepsInv, CreateProjectKeepsInv,
     RevokeKeyKeepsInv, CreateKeyKeepsInv
<1>7. ASSUME NEW r \in Requests, Record(r) \/ Finish(r)
      PROVE  ControlInv'
  BY <1>7, RecordKeepsInv, FinishKeepsInv
<1>8. CASE ProcessExits
  BY <1>8, ProcessExitsKeepsInv
<1>9. CASE UNCHANGED controlVars
  <2>1. UNCHANGED <<tables, req>>
    BY <1>9 DEF controlVars
  <2>2. TablesOK' /\ Grown /\ OrgFirst'
    BY <2>1, TypesSplit DEF ControlInv, TablesOK, Grown, OrgFirst, tables
  <2> QED  BY <2>1, <2>2, TablesMove
<1> QED  BY <1>1, <1>2, <1>3, <1>4, <1>5, <1>6, <1>7, <1>8, <1>9 DEF ControlNext

\* What each request has found out stays true, whoever else changes the tables, and so
\* does what it has answered and what the audit log says of it.
THEOREM ControlInvariant == ControlSpec => []ControlInv
BY ControlInitInv, NextKeepsInv, PTL DEF ControlSpec

\* Every variable has its type, and no two users have one e-mail.
THEOREM ControlTypes == ControlSpec => []ControlTypeOK
<1>1. ControlInv => ControlTypeOK
  BY DEF ControlInv
<1> QED  BY <1>1, ControlInvariant, PTL

\* Who is told that a person is invited or a member was told the truth, however
\* invitations, sign-ins and process exits interleave.
THEOREM InvitationsHold == ControlSpec => []InviteAnswersHold
<1>1. ControlInv => InviteAnswersHold
  <2> SUFFICES ASSUME ControlInv, NEW r \in Requests,
                      req[r].op = "invite", req[r].code \in {201, 409}
               PROVE  \E u \in Users : member[u] # None
                                       /\ (u = req[r].target \/ u[1] = req[r].target)
    BY DEF InviteAnswersHold
  <2> QED  BY DEF ControlInv, Progress, Told, InvitationHolds, IsMember
<1> QED  BY <1>1, ControlInvariant, PTL

\* A key that was revoked when the request came never authenticates it.
THEOREM RevokedKeysAreRefused == ControlSpec => []RevokedKeyIsRefused
<1>1. ControlInv => RevokedKeyIsRefused
  <2>1. KeyContext # None
    BY ControlAssumption DEF KeyContext
  <2> QED  BY <2>1 DEF RevokedKeyIsRefused, ControlInv, Progress, Caller
<1> QED  BY <1>1, ControlInvariant, PTL

\* The rows that the entries of the audit log are about exist, and a key that an entry
\* reports as revoked is.  It says nothing of the action an entry names.
THEOREM AuditedRowsAlwaysExist == ControlSpec => []AuditedRowsExist
<1>1. ControlInv => AuditedRowsExist
  <2>1. ASSUME ControlInv, NEW r \in Requests PROVE RowHolds(req[r].row)
    BY <2>1 DEF ControlInv, Progress, Told
  <2> QED  BY <2>1 DEF AuditedRowsExist, RowHolds
<1> QED  BY <1>1, ControlInvariant, PTL

-----------------------------------------------------------------------------
\* Admission.  Whose requests are past the quota check, and what usage has been.
AdmissionTypeOK ==
  /\ now \in Nat \ {0}
  /\ tokens \in [Addresses -> Nat]
  /\ lastRefill \in [Addresses -> Nat] /\ \A a \in Addresses : lastRefill[a] <= now
  /\ grants \in Seq([at : 1..now, address : Addresses])
  /\ pc \in [Slots -> {"idle", "auth", "quota", "ingest"}]
  /\ events \in [Slots -> IncomingEvents]
  /\ used \in Nat
  /\ banner \in {"clear", "warning", "blocked", "relieved"}

\* The requests an address got through from t1 on, until t2.
Passed(a, t1, t2) ==
  {i \in DOMAIN grants : grants[i].address = a /\ grants[i].at \in t1..t2}

\* What the address got through since t1, together with what its bucket holds now, is
\* paid for by a full bucket and the refill since then.
BucketPays ==
  \A a \in Addresses : \A t1 \in 1..now :
    Cardinality(Passed(a, t1, now)) * PartsPerToken + Refilled(a) <= Full + (now - t1)

\* Until usage falls, a console that has shown the block is right.
BannerIsTrue == banner = "blocked" => used >= MonthlyLimit

AdmissionInv ==
  /\ AdmissionTypeOK /\ BucketPays /\ RateBound /\ OvershootBounded /\ BannerIsTrue

\* A bucket holds between nothing and Full.
LEMMA BucketIsNat ==
  ASSUME AdmissionTypeOK, NEW a \in Addresses
  PROVE  /\ Refilled(a) \in Nat /\ Refilled(a) <= Full /\ Full \in Nat
         /\ tokens[a] \in Nat /\ lastRefill[a] \in Nat /\ lastRefill[a] <= now /\ now \in Nat
<1>1. Full \in Nat
  BY BucketAssumption DEF Full
<1>2. tokens[a] \in Nat /\ lastRefill[a] \in Nat /\ lastRefill[a] <= now /\ now \in Nat
  BY DEF AdmissionTypeOK
<1> QED
  BY <1>1, <1>2 DEF Refilled

\* The grants of a span are finitely many.
LEMMA PassedIsFinite ==
  ASSUME AdmissionTypeOK, NEW a, NEW t1, NEW t2
  PROVE  IsFiniteSet(Passed(a, t1, t2)) /\ Cardinality(Passed(a, t1, t2)) \in Nat
<1>1. DOMAIN grants = 1..Len(grants) /\ Len(grants) \in Nat
  BY DEF AdmissionTypeOK
<1>2. IsFiniteSet(1..Len(grants))
  BY <1>1, FS_Interval
<1>3. Passed(a, t1, t2) \subseteq 1..Len(grants)
  BY <1>1 DEF Passed
<1> QED
  BY <1>2, <1>3, FS_Subset, FS_CardinalityType

\* A slot's request is past the quota check, or it is not.
LEMMA AdmittedIsFinite ==
  /\ IsFiniteSet(Admitted) /\ Cardinality(Admitted) \in Nat /\ Cardinality(Slots) \in Nat
  /\ Cardinality(Admitted) <= Cardinality(Slots)
  BY SlotsAssumption, FS_Subset, FS_CardinalityType DEF Admitted

\* The bounds hold of a process that has just started with an empty period.
LEMMA AdmissionInvInit == AdmissionInit => AdmissionInv
<1> SUFFICES ASSUME AdmissionInit PROVE AdmissionInv
  OBVIOUS
<1>1. Full \in Nat /\ 0 \in IncomingEvents
  BY BucketAssumption, QuotaAssumption DEF Full, IncomingEvents
<1>2. AdmissionTypeOK
  BY <1>1 DEF AdmissionInit, AdmissionTypeOK
<1>3. \A a, t1, t2 : Passed(a, t1, t2) = {}
  BY DEF AdmissionInit, Passed
<1>4. \A a, t1, t2 : Cardinality(Passed(a, t1, t2)) = 0
  BY <1>3, FS_EmptySet
<1>5. \A t1 \in 1..now : now - t1 \in Nat
  BY DEF AdmissionInit
<1>6. BucketPays
  BY <1>2, <1>4, <1>5, BucketIsNat, BucketAssumption DEF BucketPays
<1>7. RateBound
  BY <1>1, <1>2, <1>4, BucketAssumption DEF RateBound, Passed, AdmissionInit
<1>8. Admitted = {}
  BY DEF AdmissionInit, Admitted
<1>9. Cardinality(Admitted) = 0 /\ Cardinality(Slots) \in Nat /\ Cardinality(Slots) # 0
  BY <1>8, SlotsAssumption, FS_EmptySet, FS_CardinalityType
<1>10. OvershootBounded
  <2>1. MaxEvents * Cardinality(Slots) \in Nat
    BY <1>9, QuotaAssumption
  <2> QED
    BY <1>9, <2>1, QuotaAssumption DEF OvershootBounded, AdmissionInit
<1> QED
  BY <1>2, <1>6, <1>7, <1>10 DEF AdmissionInv, BannerIsTrue, AdmissionInit

\* What a request or a tick makes of the types.
LEMMA AdmissionTypesStep ==
  ASSUME AdmissionTypeOK, AdmissionNext
  PROVE  AdmissionTypeOK'
<1> USE DEF AdmissionTypeOK
<1>1. ASSUME NEW s \in Slots, NEW a \in Addresses, NEW n \in IncomingEvents, Arrive(s, a, n)
      PROVE  AdmissionTypeOK'
  <2>1. Refilled(a) \in Nat /\ Refilled(a) <= Full /\ PartsPerToken \in Nat
    BY BucketIsNat, BucketAssumption
  <2>2. CASE Refilled(a) < PartsPerToken
    <3>1. /\ tokens' = [tokens EXCEPT ![a] = Refilled(a)]
          /\ lastRefill' = [lastRefill EXCEPT ![a] = now]
          /\ UNCHANGED <<now, grants, pc, events, used, banner>>
      BY <1>1, <2>2 DEF Arrive
    <3> HIDE DEF Refilled
    <3> QED
      BY <2>1, <3>1
  <2>3. CASE ~(Refilled(a) < PartsPerToken)
    <3>1. Refilled(a) - PartsPerToken \in Nat
      BY <2>1, <2>3
    <3>2. [at |-> now, address |-> a] \in [at : 1..now, address : Addresses]
      OBVIOUS
    <3>3. grants' \in Seq([at : 1..now, address : Addresses])
      <4> DEFINE Made == [at : 1..now, address : Addresses]
      <4>1. grants' = Append(grants, [at |-> now, address |-> a])
        BY <1>1, <2>3 DEF Arrive
      <4>2. grants \in Seq(Made) /\ [at |-> now, address |-> a] \in Made
        BY <3>2
      <4> HIDE DEF Made, AdmissionTypeOK
      <4>3. grants' \in Seq(Made)
        BY <4>1, <4>2
      <4> QED
        BY <4>3 DEF Made
    <3>4. now' = now /\ used' = used /\ banner' = banner
      BY <1>1 DEF Arrive
    <3>5. /\ tokens' \in [Addresses -> Nat]
          /\ pc' \in [Slots -> {"idle", "auth", "quota", "ingest"}]
          /\ events' \in [Slots -> IncomingEvents]
      BY <1>1, <2>3, <3>1 DEF Arrive
    <3>6. lastRefill' \in [Addresses -> Nat] /\ \A b \in Addresses : lastRefill'[b] <= now
      BY <1>1 DEF Arrive
    <3> HIDE DEF AdmissionTypeOK
    <3> QED
      BY <3>3, <3>4, <3>5, <3>6 DEF AdmissionTypeOK
  <2> QED
    BY <2>2, <2>3
<1>2. ASSUME Tick PROVE AdmissionTypeOK'
  <2>1. 1..now \subseteq 1..now' /\ now' \in Nat \ {0} /\ now <= now'
    BY <1>2 DEF Tick
  <2>2. grants' \in Seq([at : 1..now', address : Addresses])
    <3> DEFINE Made == [at : 1..now, address : Addresses]
               Later == [at : 1..now', address : Addresses]
    <3>1. Made \subseteq Later /\ grants \in Seq(Made) /\ grants' = grants
      BY <1>2, <2>1 DEF Tick, limitVars
    <3> HIDE DEF Made, Later, AdmissionTypeOK
    <3>2. grants \in Seq(Later)
      BY <3>1
    <3> QED
      BY <3>1, <3>2 DEF Later
  <2> QED
    BY <1>2, <2>1, <2>2 DEF Tick, limitVars, bucketVars
<1>3. ASSUME NEW s \in Slots,
             \/ Authenticate(s) \/ Unauthorized(s) \/ EnforceIngest(s)
             \/ NothingStored(s) \/ Stored(s)
      PROVE  AdmissionTypeOK'
  <2>1. events[s] \in Nat /\ 0 \in IncomingEvents
    BY QuotaAssumption DEF IncomingEvents
  <2>2. pc' \in [Slots -> {"idle", "auth", "quota", "ingest"}]
    BY <1>3
    DEF Authenticate, Unauthorized, EnforceIngest, NothingStored, Stored, Answered
  <2>4. events' = events \/ events' = [events EXCEPT ![s] = 0]
    BY <1>3
    DEF Authenticate, Unauthorized, EnforceIngest, NothingStored, Stored, Answered
  <2>5. used' = used \/ used' = used + events[s]
    BY <1>3
    DEF Authenticate, Unauthorized, EnforceIngest, NothingStored, Stored, Answered
  <2>3. UNCHANGED <<now, tokens, lastRefill, grants, banner>>
    BY <1>3
    DEF Authenticate, Unauthorized, EnforceIngest, NothingStored, Stored, limitVars, bucketVars
  <2> QED
    BY <2>1, <2>2, <2>3, <2>4, <2>5
<1>4. ASSUME NEW n \in 1..MaxEvents, EventsDeleted(n) PROVE AdmissionTypeOK'
  BY <1>4, QuotaAssumption DEF EventsDeleted, Relieved, limitVars, bucketVars
<1>5. ASSUME NewPeriod PROVE AdmissionTypeOK'
  BY <1>5 DEF NewPeriod, Relieved, limitVars, bucketVars
<1>6. ASSUME RefreshBanner PROVE AdmissionTypeOK'
  BY <1>6 DEF RefreshBanner, ShowUsage, UsageLevel, limitVars, bucketVars
<1>7. ASSUME Restart PROVE AdmissionTypeOK'
  <2>1. Full \in Nat /\ 0 \in IncomingEvents
    BY BucketAssumption, QuotaAssumption DEF Full, IncomingEvents
  <2>2. /\ tokens' \in [Addresses -> Nat]
        /\ lastRefill' \in [Addresses -> Nat] /\ \A a \in Addresses : lastRefill'[a] = now
        /\ pc' \in [Slots -> {"idle", "auth", "quota", "ingest"}]
        /\ events' \in [Slots -> IncomingEvents]
    BY <1>7, <2>1 DEF Restart
  <2>3. grants' = <<>> /\ now' = now /\ used' = used /\ banner' = banner
    BY <1>7 DEF Restart
  <2> QED
    BY <2>2, <2>3
<1> QED
  BY <1>1, <1>2, <1>3, <1>4, <1>5, <1>6, <1>7 DEF AdmissionNext

\* No grant is of the future.
LEMMA GrantsAreMade ==
  ASSUME AdmissionTypeOK
  PROVE  \A i \in DOMAIN grants : grants[i].at \in 1..now
<1> DEFINE Made == [at : 1..now, address : Addresses]
<1>1. grants \in Seq(Made)
  BY DEF AdmissionTypeOK
<1> HIDE DEF Made
<1>2. \A i \in DOMAIN grants : grants[i] \in Made
  BY <1>1
<1> QED
  BY <1>2 DEF Made

\* Time passes with a tick.
LEMMA TimePasses ==
  ASSUME AdmissionNext
  PROVE  now' = now \/ Tick
  BY DEF AdmissionNext, Arrive, Authenticate, Unauthorized, EnforceIngest, NothingStored,
         Stored, EventsDeleted, NewPeriod, RefreshBanner, Restart

\* A grant is made now: it is in no span that has ended, and the last in one that has not.
LEMMA PassedGrows ==
  ASSUME AdmissionTypeOK, NEW a \in Addresses, NEW b \in Addresses,
         grants' = Append(grants, [at |-> now, address |-> b]), NEW t1 \in 1..now, NEW t2 \in Nat
  PROVE  Cardinality(Passed(a, t1, t2)') =
           Cardinality(Passed(a, t1, t2)) + (IF a = b /\ t2 >= now THEN 1 ELSE 0)
<1>1. /\ DOMAIN grants = 1..Len(grants) /\ Len(grants) \in Nat /\ now \in Nat
      /\ DOMAIN grants' = 1..(Len(grants) + 1)
      /\ grants'[Len(grants) + 1] = [at |-> now, address |-> b]
      /\ \A i \in 1..Len(grants) : grants'[i] = grants[i]
  BY DEF AdmissionTypeOK
<1>2. IsFiniteSet(Passed(a, t1, t2)) /\ Cardinality(Passed(a, t1, t2)) \in Nat
  BY PassedIsFinite
<1>3. CASE a = b /\ t2 >= now
  <2>1. Passed(a, t1, t2)' = Passed(a, t1, t2) \cup {Len(grants) + 1}
    BY <1>1, <1>3 DEF Passed
  <2>2. Len(grants) + 1 \notin Passed(a, t1, t2)
    BY <1>1 DEF Passed
  <2> QED
    BY <1>2, <1>3, <2>1, <2>2, FS_AddElement
<1>4. CASE ~(a = b /\ t2 >= now)
  <2>1. Passed(a, t1, t2)' = Passed(a, t1, t2)
    BY <1>1, <1>4 DEF Passed
  <2> QED
    BY <1>2, <1>4, <2>1
<1> QED
  BY <1>3, <1>4

\* A tick refills each bucket by one part at most.
LEMMA TickRefills ==
  ASSUME AdmissionTypeOK, Tick, NEW a \in Addresses
  PROVE  Refilled(a)' \in Nat /\ Refilled(a)' <= Full /\ Refilled(a)' <= Refilled(a) + 1
<1>1. now' = now + 1 /\ tokens' = tokens /\ lastRefill' = lastRefill
  BY DEF Tick, limitVars, bucketVars
<1> QED
  BY <1>1, BucketIsNat DEF Refilled

\* What a bucket lets through stays paid for.
LEMMA BucketStep ==
  ASSUME AdmissionTypeOK, BucketPays, AdmissionNext, AdmissionTypeOK'
  PROVE  BucketPays'
<1> SUFFICES ASSUME NEW a \in Addresses, NEW t1 \in 1..now'
             PROVE  Cardinality(Passed(a, t1, now)') * PartsPerToken + Refilled(a)'
                      <= Full + (now' - t1)
  BY DEF BucketPays
<1> DEFINE N == Cardinality(Passed(a, t1, now))
<1>1. /\ PartsPerToken \in Nat /\ Full \in Nat /\ now \in Nat /\ t1 \in Nat /\ now' \in Nat
      /\ N \in Nat /\ Refilled(a) \in Nat /\ Refilled(a) <= Full
  BY BucketAssumption, BucketIsNat, PassedIsFinite DEF AdmissionTypeOK
<1>2. t1 <= now => N * PartsPerToken + Refilled(a) <= Full + (now - t1)
  BY <1>1 DEF BucketPays
<1>3. ASSUME UNCHANGED <<now, tokens, lastRefill, grants>>
      PROVE  Cardinality(Passed(a, t1, now)') * PartsPerToken + Refilled(a)' <= Full + (now' - t1)
  BY <1>1, <1>2, <1>3 DEF Passed, Refilled
<1>4. ASSUME Tick
      PROVE  Cardinality(Passed(a, t1, now)') * PartsPerToken + Refilled(a)' <= Full + (now' - t1)
  <2>1. now' = now + 1 /\ grants' = grants
    BY <1>4 DEF Tick, limitVars
  <2>2. \A i \in DOMAIN grants : grants[i].at \in 1..now
    BY GrantsAreMade
  <2>3. CASE t1 = now'
    <3>1. Passed(a, t1, now)' = {}
      BY <1>1, <2>1, <2>2, <2>3 DEF Passed
    <3>2. Cardinality(Passed(a, t1, now)') * PartsPerToken = 0
      BY <1>1, <3>1, FS_EmptySet
    <3> QED
      BY <1>1, <1>4, <2>3, <3>2, TickRefills
  <2>4. CASE t1 <= now
    <3>1. Passed(a, t1, now)' = Passed(a, t1, now)
      BY <1>1, <2>1, <2>2, <2>4 DEF Passed
    <3>2. N * PartsPerToken \in Nat
      BY <1>1
    <3> QED
      BY <1>1, <1>2, <1>4, <2>1, <2>4, <3>1, <3>2, TickRefills
  <2> QED
    BY <1>1, <2>1, <2>3, <2>4
<1>5. ASSUME NEW s \in Slots, NEW b \in Addresses, NEW n \in IncomingEvents, Arrive(s, b, n)
      PROVE  Cardinality(Passed(a, t1, now)') * PartsPerToken + Refilled(a)' <= Full + (now' - t1)
  <2>1. now' = now /\ t1 <= now /\ t1 \in 1..now
    BY <1>1, <1>5 DEF Arrive
  <2>2. Refilled(b) \in Nat /\ Refilled(b) <= Full
    BY BucketIsNat
  <2>3. CASE Refilled(b) < PartsPerToken
    <3>1. /\ tokens' = [tokens EXCEPT ![b] = Refilled(b)]
          /\ lastRefill' = [lastRefill EXCEPT ![b] = now] /\ grants' = grants
      BY <1>5, <2>3 DEF Arrive
    <3>2. Passed(a, t1, now)' = Passed(a, t1, now)
      BY <2>1, <3>1 DEF Passed
    <3>3. a # b => tokens'[a] = tokens[a] /\ lastRefill'[a] = lastRefill[a]
      BY <3>1 DEF AdmissionTypeOK
    <3>4. a = b => tokens'[a] = Refilled(a) /\ lastRefill'[a] = now
      BY <3>1 DEF AdmissionTypeOK
    <3>5. Refilled(a)' = Refilled(a)
      BY <1>1, <2>1, <2>2, <3>3, <3>4 DEF Refilled
    <3> QED
      BY <1>1, <1>2, <2>1, <3>2, <3>5
  <2>4. CASE ~(Refilled(b) < PartsPerToken)
    <3>1. /\ tokens' = [tokens EXCEPT ![b] = Refilled(b) - PartsPerToken]
          /\ lastRefill' = [lastRefill EXCEPT ![b] = now]
          /\ grants' = Append(grants, [at |-> now, address |-> b])
      BY <1>5, <2>4 DEF Arrive
    <3>2. Cardinality(Passed(a, t1, now)') = IF a = b THEN N + 1 ELSE N
      <4>1. PICK m \in Nat : m = now
        BY <1>1
      <4>2. Passed(a, t1, now) = Passed(a, t1, m) /\ Passed(a, t1, now)' = Passed(a, t1, m)'
        BY <2>1, <4>1 DEF Passed
      <4>3. Cardinality(Passed(a, t1, m)') =
              Cardinality(Passed(a, t1, m)) + (IF a = b /\ m >= now THEN 1 ELSE 0)
        BY <2>1, <3>1, PassedGrows
      <4> QED
        BY <1>1, <4>1, <4>2, <4>3
    <3>3. a # b => tokens'[a] = tokens[a] /\ lastRefill'[a] = lastRefill[a]
      BY <3>1 DEF AdmissionTypeOK
    <3>4. a = b => tokens'[a] = Refilled(a) - PartsPerToken /\ lastRefill'[a] = now
      BY <3>1 DEF AdmissionTypeOK
    <3>5. Refilled(a)' = IF a = b THEN Refilled(a) - PartsPerToken ELSE Refilled(a)
      BY <1>1, <2>1, <2>2, <2>4, <3>3, <3>4 DEF Refilled
    <3>6. (N + 1) * PartsPerToken = N * PartsPerToken + PartsPerToken /\ N * PartsPerToken \in Nat
      BY <1>1
    <3> HIDE DEF N
    <3> QED
      BY <1>1, <1>2, <2>1, <3>2, <3>5, <3>6
  <2> QED
    BY <2>3, <2>4
<1>6. ASSUME Restart
      PROVE  Cardinality(Passed(a, t1, now)') * PartsPerToken + Refilled(a)' <= Full + (now' - t1)
  <2>1. grants' = <<>> /\ tokens'[a] = Full /\ lastRefill'[a] = now /\ now' = now
    BY <1>6 DEF Restart
  <2>2. Passed(a, t1, now)' = {}
    BY <2>1 DEF Passed
  <2>3. Cardinality(Passed(a, t1, now)') * PartsPerToken = 0
    BY <1>1, <2>2, FS_EmptySet
  <2>4. Refilled(a)' = Full
    BY <1>1, <2>1 DEF Refilled
  <2> QED
    BY <1>1, <2>1, <2>3, <2>4
<1> QED
  BY <1>3, <1>4, <1>5, <1>6
  DEF AdmissionNext, Authenticate, Unauthorized, EnforceIngest, NothingStored, Stored,
      EventsDeleted, NewPeriod, RefreshBanner, limitVars, bucketVars

\* A span that has ended has had its grants; one that has not is the bucket's.
LEMMA RateStep ==
  ASSUME AdmissionTypeOK, RateBound, AdmissionNext, AdmissionTypeOK', BucketPays'
  PROVE  RateBound'
<1> SUFFICES ASSUME NEW a \in Addresses, NEW t1 \in 1..now', NEW t2 \in t1..now'
             PROVE  Cardinality(Passed(a, t1, t2)') * PartsPerToken <= Full + (t2 - t1)
  BY DEF RateBound, Passed
<1>1. /\ PartsPerToken \in Nat /\ Full \in Nat /\ now \in Nat /\ now' \in Nat
      /\ t1 \in Nat /\ t2 \in Nat /\ t1 <= t2 /\ t2 <= now'
  BY BucketAssumption DEF AdmissionTypeOK, Full
<1>2. CASE t2 = now'
  <2>1. Cardinality(Passed(a, t1, now)') * PartsPerToken + Refilled(a)' <= Full + (now' - t1)
    BY DEF BucketPays
  <2>2. Refilled(a)' \in Nat
    BY <1>1 DEF AdmissionTypeOK, Refilled
  <2>3. Cardinality(Passed(a, t1, now)') \in Nat
    <3>1. DOMAIN grants' = 1..Len(grants') /\ Len(grants') \in Nat
      BY DEF AdmissionTypeOK
    <3>2. Passed(a, t1, now)' \subseteq 1..Len(grants')
      BY <3>1 DEF Passed
    <3>3. IsFiniteSet(1..Len(grants'))
      BY <3>1, FS_Interval
    <3> QED
      BY <3>2, <3>3, FS_Subset, FS_CardinalityType
  <2>4. Cardinality(Passed(a, t1, now)') * PartsPerToken \in Nat
    BY <1>1, <2>3
  <2>5. Passed(a, t1, t2)' = Passed(a, t1, now)'
    BY <1>2 DEF Passed
  <2> QED
    BY <1>1, <1>2, <2>1, <2>2, <2>4, <2>5
<1>3. CASE t2 < now'
  <2>1. t1 \in 1..now /\ t2 \in t1..now
    BY <1>1, <1>3, TimePasses DEF Tick
  <2>2. Cardinality(Passed(a, t1, t2)) * PartsPerToken <= Full + (t2 - t1)
    BY <2>1 DEF RateBound, Passed
  <2>3. CASE grants' = grants
    BY <2>2, <2>3 DEF Passed
  <2>4. CASE grants' = <<>>
    <3>1. Passed(a, t1, t2)' = {}
      BY <2>4 DEF Passed
    <3>2. Cardinality(Passed(a, t1, t2)') * PartsPerToken = 0
      BY <1>1, <3>1, FS_EmptySet
    <3> QED
      BY <1>1, <3>2
  <2>5. ASSUME NEW s \in Slots, NEW b \in Addresses, NEW n \in IncomingEvents, Arrive(s, b, n),
               grants' # grants
        PROVE  Cardinality(Passed(a, t1, t2)') * PartsPerToken <= Full + (t2 - t1)
    <3>1. grants' = Append(grants, [at |-> now, address |-> b]) /\ now' = now
      BY <2>5 DEF Arrive
    <3>2. Cardinality(Passed(a, t1, t2)') =
            Cardinality(Passed(a, t1, t2)) + (IF a = b /\ t2 >= now THEN 1 ELSE 0)
      BY <1>1, <2>1, <3>1, PassedGrows
    <3>3. Cardinality(Passed(a, t1, t2)') = Cardinality(Passed(a, t1, t2))
      BY <1>1, <1>3, <3>1, <3>2, PassedIsFinite
    <3> QED
      BY <2>2, <3>3
  <2> QED
    BY <2>3, <2>4, <2>5
    DEF AdmissionNext, Tick, Authenticate, Unauthorized, EnforceIngest, NothingStored, Stored,
        EventsDeleted, NewPeriod, RefreshBanner, Restart, limitVars
<1> QED
  BY <1>1, <1>2, <1>3

\* Less is still below a bound.
LEMMA LessIsBelow ==
  ASSUME NEW u \in Nat, NEW v \in Nat, NEW x \in Nat, NEW y \in Nat, NEW b \in Nat,
         v <= u, y <= x, u + x < b
  PROVE  v + y < b
  OBVIOUS

\* A request is admitted under the limit, and what it stores it no longer may.
LEMMA OvershootStep ==
  ASSUME AdmissionTypeOK, OvershootBounded, AdmissionNext
  PROVE  OvershootBounded'
<1> DEFINE A == Cardinality(Admitted)
           B == Cardinality(Admitted')
           S == Cardinality(Slots)
<1>1. /\ MaxEvents \in Nat /\ MaxEvents > 0 /\ MonthlyLimit \in Nat /\ used \in Nat
      /\ A \in Nat /\ S \in Nat
  BY QuotaAssumption, AdmittedIsFinite DEF AdmissionTypeOK
<1>2. Admitted' \subseteq Slots
  BY DEF Admitted
<1>3. B \in Nat /\ B <= S
  BY <1>2, SlotsAssumption, FS_Subset, FS_CardinalityType
<1>4. used + MaxEvents * A < MonthlyLimit + MaxEvents * S
  BY DEF OvershootBounded
<1>5. SUFFICES used' + MaxEvents * B < MonthlyLimit + MaxEvents * S
  BY DEF OvershootBounded
<1>6. MaxEvents * A \in Nat /\ MaxEvents * B \in Nat /\ MaxEvents * S \in Nat
  BY <1>1, <1>3
<1>7. B <= A => MaxEvents * B <= MaxEvents * A
  BY <1>1, <1>3
<1>8. B <= S => MaxEvents * B <= MaxEvents * S
  BY <1>1, <1>3
<1>9. ASSUME Admitted' \subseteq Admitted PROVE B <= A
  BY <1>9, AdmittedIsFinite, FS_Subset
<1> HIDE DEF A, B, S
<1>10. ASSUME Admitted' \subseteq Admitted, used' \in Nat, used' <= used
       PROVE  used' + MaxEvents * B < MonthlyLimit + MaxEvents * S
  <2> DEFINE x == MaxEvents * A
             y == MaxEvents * B
             z == MaxEvents * S
  <2>1. y <= x
    <3>1. B <= A
      BY <1>9, <1>10
    <3> QED
      BY <1>7, <3>1
  <2>3. x \in Nat /\ y \in Nat /\ z \in Nat /\ used + x < MonthlyLimit + z
    BY <1>4, <1>6
  <2> HIDE DEF x, y, z
  <2>2. used' + y < MonthlyLimit + z
    <3>1. MonthlyLimit + z \in Nat /\ used \in Nat
      BY <1>1, <2>3
    <3> QED
      BY <1>10, <2>1, <2>3, <3>1, LessIsBelow
  <2> QED
    BY <2>2 DEF y, z
<1>11. ASSUME NEW s \in Slots, EnforceIngest(s)
       PROVE  used' + MaxEvents * B < MonthlyLimit + MaxEvents * S
  <2>1. used' = used
    BY <1>11 DEF EnforceIngest
  <2>2. CASE WithinQuota(events[s]) /\ events[s] > 0
    <3>1. events[s] \in Nat /\ used + events[s] <= MonthlyLimit
      BY <2>2 DEF WithinQuota, AdmissionTypeOK, IncomingEvents
    <3> QED
      BY <1>1, <1>3, <1>6, <1>8, <2>1, <2>2, <3>1
  <2>3. CASE ~(WithinQuota(events[s]) /\ events[s] > 0)
    <3>1. Admitted' \subseteq Admitted
      BY <1>11, <2>3 DEF EnforceIngest, Answered, Admitted, AdmissionTypeOK
    <3> QED
      BY <1>1, <1>10, <2>1, <3>1
  <2> QED
    BY <2>2, <2>3
<1>12. ASSUME NEW s \in Slots, Stored(s)
       PROVE  used' + MaxEvents * B < MonthlyLimit + MaxEvents * S
  <2>1. Admitted' = Admitted \ {s} /\ s \in Admitted
    BY <1>12 DEF Stored, Answered, Admitted, AdmissionTypeOK
  <2>2. B = A - 1
    BY <2>1, AdmittedIsFinite, FS_RemoveElement DEF A, B
  <2>3. used' = used + events[s] /\ events[s] \in Nat /\ events[s] <= MaxEvents
    BY <1>1, <1>12 DEF Stored, AdmissionTypeOK, IncomingEvents
  <2>4. MaxEvents * B = MaxEvents * A - MaxEvents
    BY <1>1, <1>3, <2>2
  <2> QED
    BY <1>1, <1>3, <1>4, <1>6, <2>3, <2>4
<1>13. ASSUME NEW s \in Slots, NEW a \in Addresses, NEW n \in IncomingEvents, Arrive(s, a, n)
       PROVE  Admitted' \subseteq Admitted /\ used' = used
  BY <1>13 DEF Arrive, Admitted, AdmissionTypeOK
<1>14. ASSUME NEW s \in Slots, Authenticate(s) \/ Unauthorized(s) \/ NothingStored(s)
       PROVE  Admitted' \subseteq Admitted /\ used' = used
  BY <1>14 DEF Authenticate, Unauthorized, NothingStored, Answered, Admitted, AdmissionTypeOK
<1>15. ASSUME NEW n \in 1..MaxEvents, EventsDeleted(n)
       PROVE  Admitted' = Admitted /\ used' \in Nat /\ used' <= used
  BY <1>1, <1>15 DEF EventsDeleted, Admitted
<1>16. ASSUME NewPeriod \/ RefreshBanner \/ Restart \/ Tick
       PROVE  Admitted' \subseteq Admitted /\ used' \in Nat /\ used' <= used
  BY <1>1, <1>16 DEF NewPeriod, RefreshBanner, Restart, Tick, Admitted
<1> QED
  BY <1>1, <1>10, <1>11, <1>12, <1>13, <1>14, <1>15, <1>16 DEF AdmissionNext

\* Only the shown count blocks, and whatever lowers usage relieves.
LEMMA BannerStep ==
  ASSUME AdmissionTypeOK, BannerIsTrue, AdmissionNext
  PROVE  BannerIsTrue'
<1>1. used \in Nat /\ MonthlyLimit \in Nat
  BY QuotaAssumption DEF AdmissionTypeOK
<1>2. ASSUME RefreshBanner PROVE BannerIsTrue'
  BY <1>1, <1>2 DEF RefreshBanner, ShowUsage, UsageLevel, BannerIsTrue
<1>3. ASSUME NEW s \in Slots, Stored(s) PROVE BannerIsTrue'
  <2>1. used' = used + events[s] /\ events[s] \in Nat /\ banner' = banner
    BY <1>3 DEF Stored, AdmissionTypeOK, IncomingEvents
  <2> QED
    BY <1>1, <2>1 DEF BannerIsTrue
<1>4. ASSUME NewPeriod \/ \E n \in 1..MaxEvents : EventsDeleted(n) PROVE BannerIsTrue'
  BY <1>4 DEF NewPeriod, EventsDeleted, Relieved, BannerIsTrue
<1>5. ASSUME used' = used, banner' = banner PROVE BannerIsTrue'
  BY <1>5 DEF BannerIsTrue
<1>6. \/ used' = used /\ banner' = banner
      \/ NewPeriod \/ RefreshBanner
      \/ \E n \in 1..MaxEvents : EventsDeleted(n)
      \/ \E s \in Slots : Stored(s)
  BY DEF AdmissionNext, Arrive, Authenticate, Unauthorized, EnforceIngest, NothingStored,
         Restart, Tick
<1> QED
  BY <1>2, <1>3, <1>4, <1>5, <1>6

\* Every step of a request and of the process keeps the bounds.
LEMMA AdmissionStep == AdmissionInv /\ [AdmissionNext]_admissionVars => AdmissionInv'
<1> SUFFICES ASSUME AdmissionInv, [AdmissionNext]_admissionVars PROVE AdmissionInv'
  OBVIOUS
<1>1. CASE AdmissionNext
  BY <1>1, AdmissionTypesStep, BucketStep, RateStep, OvershootStep, BannerStep DEF AdmissionInv
<1>2. CASE UNCHANGED admissionVars
  <2>1. UNCHANGED <<now, tokens, lastRefill, grants, pc, events, used, banner>>
    BY <1>2 DEF admissionVars, limitVars, bucketVars
  <2>2. AdmissionTypeOK' /\ BannerIsTrue'
    BY <2>1 DEF AdmissionInv, AdmissionTypeOK, BannerIsTrue
  <2>3. BucketPays' /\ RateBound'
    BY <2>1 DEF AdmissionInv, BucketPays, RateBound, Passed, Refilled
  <2>4. OvershootBounded'
    BY <2>1 DEF AdmissionInv, OvershootBounded, Admitted
  <2> QED
    BY <2>2, <2>3, <2>4 DEF AdmissionInv
<1> QED
  BY <1>1, <1>2

\* The inductive invariant of the rate limiter, the quota check and the banner.
THEOREM AdmissionInvariant == AdmissionSpec => []AdmissionInv
  BY AdmissionInvInit, AdmissionStep, PTL DEF AdmissionSpec

\* In no span of time does the token bucket let an address get more requests through
\* than a full bucket and the refill of that span pay for.
THEOREM RateLimit == AdmissionSpec => []RateBound
<1>1. AdmissionInv => RateBound
  BY DEF AdmissionInv
<1> QED
  BY <1>1, AdmissionInvariant, PTL

\* Requests that are checked together exceed the monthly limit by less than what the
\* process handles at a time.
THEOREM OvershootLimit == AdmissionSpec => []OvershootBounded
<1>1. AdmissionInv => OvershootBounded
  BY DEF AdmissionInv
<1> QED
  BY <1>1, AdmissionInvariant, PTL

\* Once the console has said that ingest is blocked, no request with events passes the
\* quota check until usage falls.
THEOREM BlockedIsBlocked == AdmissionSpec => BlockedMeansBlocked
<1> DEFINE Passes == \A s \in Slots :
             banner = "blocked" /\ pc[s] = "quota" /\ pc'[s] = "ingest" => events[s] = 0
<1>1. AdmissionInv /\ [AdmissionNext]_admissionVars => [Passes]_admissionVars
  <2> SUFFICES ASSUME AdmissionInv, AdmissionNext, NEW s \in Slots,
                      banner = "blocked", pc[s] = "quota", pc'[s] = "ingest"
               PROVE  events[s] = 0
    OBVIOUS
  <2>1. /\ pc \in [Slots -> {"idle", "auth", "quota", "ingest"}]
        /\ events[s] \in Nat /\ used \in Nat /\ MonthlyLimit \in Nat
        /\ used >= MonthlyLimit
    BY QuotaAssumption
    DEF AdmissionInv, AdmissionTypeOK, BannerIsTrue, IncomingEvents
  <2>2. EnforceIngest(s) /\ WithinQuota(events[s])
    BY <2>1
    DEF AdmissionNext, Arrive, Authenticate, Unauthorized, EnforceIngest, NothingStored, Stored,
        Answered, EventsDeleted, NewPeriod, RefreshBanner, Restart, Tick
  <2> QED
    BY <2>1, <2>2 DEF WithinQuota
<1> QED
  BY <1>1, AdmissionInvariant, PTL DEF AdmissionSpec, BlockedMeansBlocked

-----------------------------------------------------------------------------
\* LocalDev: the key in the credentials file.
RunSteps == {"idle", "upsert", "findKey", "readFile", "createKey", "truncate", "writeFile",
             "appendEnv", "appendWeb"}

LocalTypeOK ==
  /\ boot \in [Boots -> [pc : RunSteps, key : LocalKeys \cup {NoFile, RevokeIt}]]
  /\ localKeys \in [LocalKeys -> {"none", "live", "revoked"}]
  /\ creds \in LocalKeys \cup {NoFile, RevokeIt, Truncated}
  /\ keptKey \in {"none", "sound", "lost"}

Live == {k \in LocalKeys : localKeys[k] = "live"}

\* As long as nothing was lost, bootstraps have run one at a time,
OneAtATime == \A b, c \in Boots : boot[b].pc # "idle" /\ boot[c].pc # "idle" => b = c

\* what a run has found out about the keys still holds,
FoundHolds(b) ==
  /\ boot[b].pc = "createKey" => Live = {}
  /\ boot[b].pc = "readFile" => Live # {}
  /\ boot[b].pc \in {"truncate", "writeFile"} => Live = {boot[b].key}
  /\ boot[b].pc \in {"appendEnv", "appendWeb"} => Live = {creds}

\* and a live key is in the file, or about to be written by the run that made
\* it or rewrites the file.
LiveIsKept ==
  \/ Live \subseteq {creds}
  \/ \E b \in Boots : boot[b].pc \in {"truncate", "writeFile"}

LocalInv ==
  /\ LocalTypeOK
  /\ keptKey # "lost" => OneAtATime /\ LiveIsKept /\ \A b \in Boots : FoundHolds(b)
  /\ keptKey = "sound" => creds \in Live \/ \E b \in Boots : boot[b].pc = "writeFile"

\* On a new machine there is neither a key nor a run.
LEMMA LocalInvInit == LocalInit => LocalInv
<1> SUFFICES ASSUME LocalInit PROVE LocalInv
  OBVIOUS
<1>1. LocalTypeOK
  BY DEF LocalInit, LocalTypeOK, NoBoot, RunSteps
<1>2. Live = {}
  BY DEF LocalInit, Live
<1>3. \A b \in Boots : boot[b].pc = "idle"
  BY DEF LocalInit, NoBoot
<1> QED
  BY <1>1, <1>2, <1>3 DEF LocalInv, OneAtATime, LiveIsKept, FoundHolds, LocalInit

\* The steps of a run that leave the keys, the file and the history alone: only the run
\* itself is looked at.
LEMMA RunKeepsLocal ==
  ASSUME LocalInv, NEW b \in Boots, NEW to \in RunSteps,
         NEW key \in LocalKeys \cup {NoFile, RevokeIt},
         boot[b].pc \notin {"idle", "truncate", "writeFile"}, Goes(b, to, key),
         localKeys' = localKeys, creds' = creds, keptKey' = keptKey,
         keptKey # "lost" => FoundHolds(b)'
  PROVE  LocalInv'
<1> USE DEF LocalInv
<1>1. LocalTypeOK'
  BY DEF LocalTypeOK, Goes
<1>2. /\ boot'[b].pc = to /\ boot'[b].key = key
      /\ \A c \in Boots : c # b => boot'[c] = boot[c]
  BY DEF LocalTypeOK, Goes
<1>3. Live' = Live
  BY DEF Live
<1>4. ASSUME keptKey # "lost" PROVE OneAtATime' /\ LiveIsKept' /\ \A c \in Boots : FoundHolds(c)'
  <2>1. OneAtATime'
    BY <1>2, <1>4 DEF OneAtATime
  <2>2. \A c \in Boots : FoundHolds(c)'
    <3> SUFFICES ASSUME NEW c \in Boots, c # b PROVE FoundHolds(c)'
      BY <1>4
    <3> QED
      BY <1>2, <1>3, <1>4 DEF FoundHolds
  <2>3. LiveIsKept'
    BY <1>2, <1>3, <1>4 DEF LiveIsKept
  <2> QED
    BY <2>1, <2>2, <2>3
<1>5. keptKey = "sound" => creds \in Live \/ \E c \in Boots : boot'[c].pc = "writeFile"
  BY <1>2
<1> QED
  BY <1>1, <1>3, <1>4, <1>5

\* Every step of the scripts and of the developer keeps the invariant.
LEMMA LocalStep == LocalInv /\ [LocalNext]_localVars => LocalInv'
<1> SUFFICES ASSUME LocalInv, [LocalNext]_localVars PROVE LocalInv'
  OBVIOUS
<1> USE DEF LocalInv
<1>1. ASSUME UNCHANGED <<boot, localKeys, creds, keptKey>> PROVE LocalInv'
  BY <1>1 DEF LocalTypeOK, OneAtATime, LiveIsKept, FoundHolds, Live
<1>2. ASSUME NEW b \in Boots, StartBootstrap(b) PROVE LocalInv'
  <2>1. /\ boot[b].pc = "idle" /\ boot' = [boot EXCEPT ![b] = [pc |-> "upsert", key |-> NoFile]]
        /\ localKeys' = localKeys /\ creds' = creds
        /\ keptKey' = IF Running = {} THEN keptKey ELSE "lost"
    BY <1>2 DEF StartBootstrap, Goes, database, files
  <2>2. LocalTypeOK'
    BY <2>1 DEF LocalTypeOK, RunSteps
  <2>3. Live' = Live
    BY <2>1 DEF Live
  <2>4. CASE Running = {}
    <3>1. \A c \in Boots : boot[c].pc = "idle"
      BY <2>4 DEF Running
    <3>2. \A c \in Boots : boot'[c].pc \in {"idle", "upsert"} /\ (boot'[c].pc = "idle" \/ c = b)
      BY <2>1, <3>1 DEF LocalTypeOK
    <3>3. keptKey # "lost" => (OneAtATime /\ LiveIsKept /\ \A c \in Boots : FoundHolds(c))'
      BY <2>1, <2>3, <3>1, <3>2 DEF OneAtATime, LiveIsKept, FoundHolds
    <3> QED
      BY <2>1, <2>2, <2>3, <2>4, <3>3
  <2>5. CASE Running # {}
    BY <2>1, <2>2, <2>5
  <2> QED
    BY <2>4, <2>5
<1>3. ASSUME NEW b \in Boots, UpsertRows(b) PROVE LocalInv'
  <2>1. PICK to \in {"findKey", "idle"} : Goes(b, to, NoFile)
    BY <1>3 DEF UpsertRows
  <2>2. FoundHolds(b)'
    BY <2>1 DEF Goes, FoundHolds, LocalTypeOK
  <2> QED
    BY <1>3, <2>1, <2>2, RunKeepsLocal DEF UpsertRows, files, RunSteps
<1>4. ASSUME NEW b \in Boots, FindKey(b) PROVE LocalInv'
  <2>1. Goes(b, IF Live # {} THEN "readFile" ELSE "createKey", NoFile)
    BY <1>4 DEF FindKey, Live
  <2>2. Live' = Live /\ boot'[b].pc = IF Live # {} THEN "readFile" ELSE "createKey"
    BY <1>4, <2>1 DEF Goes, LocalTypeOK, Live, FindKey, database
  <2>3. FoundHolds(b)'
    BY <2>2 DEF FoundHolds
  <2> QED
    BY <1>4, <2>1, <2>3, RunKeepsLocal DEF FindKey, database, files, RunSteps
<1>5. ASSUME NEW b \in Boots, ReadFile(b) PROVE LocalInv'
  <2> DEFINE key == IF creds = NoFile THEN RevokeIt ELSE creds
  <2>1. boot[b].pc = "readFile" /\ UNCHANGED <<localKeys, creds, keptKey>>
    BY <1>5 DEF ReadFile, database, files
  <2>2. CASE creds = Truncated
    <3>1. Goes(b, "idle", NoFile)
      BY <1>5, <2>2 DEF ReadFile
    <3>2. FoundHolds(b)'
      BY <3>1 DEF Goes, FoundHolds, LocalTypeOK
    <3> QED
      BY <2>1, <3>1, <3>2, RunKeepsLocal DEF RunSteps
  <2>3. CASE creds # Truncated
    <3>1. Goes(b, "truncate", key)
      BY <1>5, <2>3 DEF ReadFile
    <3>2. key \in LocalKeys \cup {NoFile, RevokeIt}
      BY <2>3 DEF LocalTypeOK
    <3>3. Live' = Live /\ boot'[b] = [pc |-> "truncate", key |-> key]
      BY <2>1, <3>1 DEF Goes, LocalTypeOK, Live
    <3>4. ASSUME keptKey # "lost" PROVE FoundHolds(b)'
      <4>1. OneAtATime /\ LiveIsKept /\ Live # {}
        BY <2>1, <3>4 DEF FoundHolds
      <4>2. Live = {creds}
        BY <2>1, <4>1 DEF OneAtATime, LiveIsKept
      <4>3. creds \in LocalKeys
        BY <4>2 DEF Live
      <4>4. key = creds
        BY <4>3, LocalKeysAssumption
      <4> QED
        BY <3>3, <4>2, <4>4 DEF FoundHolds
    <3> HIDE DEF key
    <3> QED
      BY <2>1, <3>1, <3>2, <3>4, RunKeepsLocal DEF RunSteps
  <2> QED
    BY <2>2, <2>3
<1>6. ASSUME NEW b \in Boots, NEW k \in LocalKeys, CreateLocalKey(b, k) PROVE LocalInv'
  <2>1. /\ boot[b].pc = "createKey" /\ boot' = [boot EXCEPT ![b] = [pc |-> "truncate", key |-> k]]
        /\ localKeys' = [localKeys EXCEPT ![k] = "live"]
        /\ creds' = creds /\ keptKey' = keptKey
    BY <1>6 DEF CreateLocalKey, Goes, files
  <2>2. LocalTypeOK'
    BY <2>1 DEF LocalTypeOK, RunSteps
  <2>3. Live' = Live \cup {k}
    BY <2>1 DEF Live, LocalTypeOK
  <2>4. boot'[b] = [pc |-> "truncate", key |-> k] /\ \A c \in Boots : c # b => boot'[c] = boot[c]
    BY <2>1 DEF LocalTypeOK
  <2>5. ASSUME keptKey # "lost"
        PROVE  (OneAtATime /\ LiveIsKept /\ \A c \in Boots : FoundHolds(c))'
    <3>1. Live = {} /\ OneAtATime
      BY <2>1, <2>5 DEF FoundHolds
    <3>2. \A c \in Boots : c # b => boot'[c].pc = "idle"
      BY <2>1, <2>4, <3>1 DEF OneAtATime
    <3> QED
      BY <2>3, <2>4, <3>1, <3>2 DEF OneAtATime, LiveIsKept, FoundHolds
  <2>6. keptKey' = "sound" => (creds \in Live \/ \E c \in Boots : boot[c].pc = "writeFile")'
    BY <2>1, <2>3, <2>4
  <2> QED
    BY <2>1, <2>2, <2>5, <2>6
<1>7. ASSUME NEW b \in Boots, TruncateFile(b) PROVE LocalInv'
  <2>1. /\ boot[b].pc = "truncate" /\ creds' = Truncated
        /\ boot' = [boot EXCEPT ![b] = [pc |-> "writeFile", key |-> boot[b].key]]
        /\ localKeys' = localKeys /\ keptKey' = keptKey
    BY <1>7 DEF TruncateFile, Goes, database
  <2>2. LocalTypeOK'
    BY <2>1 DEF LocalTypeOK, RunSteps
  <2>3. Live' = Live
    BY <2>1 DEF Live
  <2>4. /\ boot'[b].pc = "writeFile" /\ boot'[b].key = boot[b].key
        /\ \A c \in Boots : c # b => boot'[c] = boot[c]
    BY <2>1 DEF LocalTypeOK
  <2>5. ASSUME keptKey # "lost"
        PROVE  (OneAtATime /\ LiveIsKept /\ \A c \in Boots : FoundHolds(c))'
    <3>1. Live = {boot[b].key} /\ OneAtATime
      BY <2>1, <2>5 DEF FoundHolds
    <3>2. \A c \in Boots : c # b => boot'[c].pc = "idle"
      BY <2>1, <2>4, <3>1 DEF OneAtATime
    <3> QED
      BY <2>3, <2>4, <3>1, <3>2 DEF OneAtATime, LiveIsKept, FoundHolds
  <2> QED
    BY <2>1, <2>2, <2>4, <2>5
<1>8. ASSUME NEW b \in Boots, WriteFile(b) PROVE LocalInv'
  <2>1. /\ boot[b].pc = "writeFile" /\ creds' = boot[b].key
        /\ boot' = [boot EXCEPT ![b] = [pc |-> "appendEnv", key |-> boot[b].key]]
        /\ localKeys' = localKeys /\ keptKey' = keptKey
    BY <1>8 DEF WriteFile, Goes, database
  <2>2. LocalTypeOK'
    BY <2>1 DEF LocalTypeOK, RunSteps
  <2>3. Live' = Live
    BY <2>1 DEF Live
  <2>4. boot'[b].pc = "appendEnv" /\ \A c \in Boots : c # b => boot'[c] = boot[c]
    BY <2>1 DEF LocalTypeOK
  <2>5. ASSUME keptKey # "lost"
        PROVE  /\ (OneAtATime /\ LiveIsKept /\ \A c \in Boots : FoundHolds(c))'
               /\ Live = {creds'}
    <3>1. Live = {creds'} /\ OneAtATime
      BY <2>1, <2>5 DEF FoundHolds
    <3>2. \A c \in Boots : c # b => boot'[c].pc = "idle"
      BY <2>1, <2>4, <3>1 DEF OneAtATime
    <3> QED
      BY <2>3, <2>4, <3>1, <3>2 DEF OneAtATime, LiveIsKept, FoundHolds
  <2> QED
    BY <2>1, <2>2, <2>3, <2>5
<1>9. ASSUME NEW b \in Boots, AppendEnv(b) PROVE LocalInv'
  <2>1. Goes(b, "appendWeb", NoFile) /\ boot[b].pc = "appendEnv"
        /\ UNCHANGED <<localKeys, creds, keptKey>>
    BY <1>9 DEF AppendEnv, database
  <2>2. Live' = Live /\ boot'[b].pc = "appendWeb"
    BY <2>1 DEF Live, Goes, LocalTypeOK
  <2>3. keptKey # "lost" => FoundHolds(b)'
    BY <2>1, <2>2 DEF FoundHolds
  <2> QED
    BY <2>1, <2>3, RunKeepsLocal DEF RunSteps
<1>10. ASSUME NEW b \in Boots, AppendWeb(b) \/ BootstrapEnds(b) PROVE LocalInv'
  <2>1. /\ boot[b].pc # "idle" /\ boot' = [boot EXCEPT ![b] = [pc |-> "idle", key |-> NoFile]]
        /\ localKeys' = localKeys /\ creds' = creds
        /\ \/ keptKey' \in {keptKey, "lost"}
           \/ boot[b].pc = "appendWeb" /\ keptKey = "none" /\ keptKey' = "sound"
        /\ keptKey' # "lost" => /\ boot[b].pc # "writeFile"
                                /\ boot[b].pc = "truncate" => boot[b].key = creds
    BY <1>10 DEF AppendWeb, BootstrapEnds, Goes, database, files
  <2>2. LocalTypeOK'
    BY <2>1 DEF LocalTypeOK, RunSteps
  <2>3. Live' = Live
    BY <2>1 DEF Live
  <2>4. boot'[b].pc = "idle" /\ \A c \in Boots : c # b => boot'[c] = boot[c]
    BY <2>1 DEF LocalTypeOK
  <2>5. ASSUME keptKey' # "lost"
        PROVE  /\ (OneAtATime /\ LiveIsKept /\ \A c \in Boots : FoundHolds(c))'
               /\ boot[b].pc = "appendWeb" => Live = {creds}
    <3>1. keptKey # "lost" /\ OneAtATime /\ FoundHolds(b) /\ LiveIsKept
      BY <2>1, <2>5
    <3>2. \A c \in Boots : boot'[c].pc = "idle"
      BY <2>1, <2>4, <3>1 DEF OneAtATime
    <3>3. Live \subseteq {creds} /\ (boot[b].pc = "appendWeb" => Live = {creds})
      BY <2>1, <2>5, <3>1 DEF OneAtATime, LiveIsKept, FoundHolds
    <3> QED
      BY <2>1, <2>3, <3>2, <3>3 DEF OneAtATime, LiveIsKept, FoundHolds
  <2> QED
    BY <2>1, <2>2, <2>3, <2>5
<1>11. ASSUME NEW k \in LocalKeys, RevokeLocalKey(k) PROVE LocalInv'
  <2>1. /\ localKeys' = [localKeys EXCEPT ![k] = "revoked"] /\ boot' = boot /\ creds' = creds
        /\ keptKey' = IF Running # {} \/ Live \ {k} # {} THEN "lost" ELSE "none"
    BY <1>11 DEF RevokeLocalKey, files, Live
  <2>2. LocalTypeOK'
    BY <2>1 DEF LocalTypeOK
  <2>3. ASSUME keptKey' # "lost"
        PROVE  (OneAtATime /\ LiveIsKept /\ \A b \in Boots : FoundHolds(b))'
    <3>1. \A b \in Boots : boot'[b].pc = "idle"
      BY <2>1, <2>3 DEF Running
    <3>2. Live' = {}
      BY <2>1, <2>3 DEF Live, LocalTypeOK
    <3> QED
      BY <3>1, <3>2 DEF OneAtATime, LiveIsKept, FoundHolds
  <2> QED
    BY <2>1, <2>2, <2>3
<1>12. ASSUME DeleteCredentials PROVE LocalInv'
  BY <1>12 DEF DeleteCredentials, LocalTypeOK, database
<1> HIDE DEF LocalInv
<1>13. ASSUME \/ EnsureEnv \/ DockerUp \/ Migrate \/ SetupFails \/ CopyWebExample
              \/ CheckHealth \/ LoadCredentials \/ IngestSmoke \/ QuerySmoke \/ VerifyEnds
              \/ \E s \in Services : Probe(s) \/ ServiceTurns(s)
              \/ UNCHANGED localVars
       PROVE  UNCHANGED <<boot, localKeys, creds, keptKey>>
  BY <1>13
  DEF EnsureEnv, DockerUp, Migrate, SetupFails, CopyWebExample, CheckHealth, LoadCredentials,
      IngestSmoke, QuerySmoke, VerifyEnds, Probe, ServiceTurns, localVars, files, database
<1> QED
  BY <1>1, <1>2, <1>3, <1>4, <1>5, <1>6, <1>7, <1>8, <1>9, <1>10, <1>11, <1>12, <1>13
  DEF LocalNext

\* The inductive invariant of the bootstrap and its files.
THEOREM LocalInvariant == LocalSpec => []LocalInv
  BY LocalInvInit, LocalStep, PTL DEF LocalSpec

\* Once a bootstrap has ended well, the credentials file holds a live key for as long as
\* nobody revokes it and nothing was lost, except while a run rewrites it.
THEOREM CredentialsAreKept == LocalSpec => []CredentialsWork
<1>1. LocalInv => CredentialsWork
  BY DEF LocalInv, Live, CredentialsWork
<1> QED
  BY <1>1, LocalInvariant, PTL

-----------------------------------------------------------------------------
\* Tenant: a behaviour of the whole is one of each part.
THEOREM TenantParts == TenantSpec => ControlSpec /\ AdmissionSpec /\ LocalSpec
<1>1. TenantInit => ControlInit /\ AdmissionInit /\ LocalInit
  BY DEF TenantInit
<1>2. [TenantNext]_tenantVars =>
        [ControlNext]_controlVars /\ [AdmissionNext]_admissionVars /\ [LocalNext]_localVars
  BY DEF TenantNext, tenantVars
<1> QED
  BY <1>1, <1>2, PTL DEF TenantSpec, ControlSpec, AdmissionSpec, LocalSpec

=============================================================================
