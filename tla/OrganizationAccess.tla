-------------------------- MODULE OrganizationAccess --------------------------
(***************************************************************************)
(* Who may use what in one organization of the management API.  Every      *)
(* permission is a row over one resource.  The access level of a user is a *)
(* role and the rows over the resources of the others: they are written    *)
(* when the level is set and, resource by resource, when one is created.   *)
(* A request is a sequence of statements; only some of them are one        *)
(* transaction, which at this isolation level reads what is committed when *)
(* each of its statements runs.                                            *)
(***************************************************************************)
EXTENDS Integers, FiniteSets, FiniteSetsExt

CONSTANTS
  Sessions,  \* requests that may overlap
  Users,     \* users of the organization, created or not
  Admin,     \* its administrator
  Resources, \* resources that may be created
  Kind,      \* Kind[r]: "dashboard", "alarm", "tenant" or "group"
  OwnLimit,  \* OwnLimit[u]: user_resource_limits for dashboards, or NoLimit
  OrgLimit,  \* organization_resource_limits for dashboards
  MaxChanges, \* bound on the levels set
  NoLimit, Nobody

AccessAssumption ==
  /\ Admin \in Users /\ Nobody \notin Users
  /\ MaxChanges \in Nat /\ IsFiniteSet(Resources)
  /\ OwnLimit \in [Users -> Nat \cup {NoLimit}]

VARIABLES
  status,   \* status[u]: "absent", "active" or "deleted"
  level,    \* level[u]: users.access_level
  limit,    \* limit[u]: the limit of the user
  asked,    \* resources whose creation has been asked for: identifiers are not reused
  row,      \* row[r]: the owner of the row of r, Nobody if there is none
  grants,   \* model_has_resource_permissions: <<user, permission, resource>>
  request,  \* request[s]: what session s is doing
  past      \* history: how requests have overlapped or failed, and the levels set

vars == <<status, level, limit, asked, row, grants, request, past>>

Permissions == {"read", "update"}
Levels == {"none", "read", "edit"}
Idle == [op |-> "none"]

TypeOK ==
  /\ status \in [Users -> {"absent", "active", "deleted"}]
  /\ level \in [Users -> Levels]
  /\ asked \subseteq Resources
  /\ row \in [Resources -> Users \cup {Nobody}]
  /\ grants \subseteq Users \X Permissions \X Resources
  /\ \A s \in Sessions : request[s].op \in {"none", "create", "apply", "delete"}
  /\ past \in [mixed : BOOLEAN, crowded : BOOLEAN, failed : BOOLEAN, changes : 0 .. MaxChanges]

Init ==
  /\ status = [u \in Users |-> IF u = Admin \/ OwnLimit[u] # NoLimit THEN "active" ELSE "absent"]
  /\ level = [u \in Users |-> "none"]
  /\ limit = OwnLimit
  /\ asked = {}
  /\ row = [r \in Resources |-> Nobody]
  /\ grants = {}
  /\ request = [s \in Sessions |-> Idle]
  /\ past = [mixed |-> FALSE, crowded |-> FALSE, failed |-> FALSE, changes |-> 0]

Active == {u \in Users : status[u] = "active"}
Members == {u \in Users : status[u] # "absent"}
Exists(r) == row[r] # Nobody
Doing(op) == {s \in Sessions : request[s].op = op}

-----------------------------------------------------------------------------
(* Policies.                                                               *)

\* orgViewerPermissions and orgEditorPermissions; the administrator has them all.
MayUpdate(u, kind) == u = Admin \/ (kind \in {"dashboard", "alarm"} /\ level[u] = "edit")

\* DashboardPolicy.update, AlarmPolicy.update and their delete.
MayDelete(u, r) == MayUpdate(u, Kind[r]) /\ <<u, "update", r>> \in grants

Count(owners) == Cardinality({r \in Resources : Kind[r] = "dashboard" /\ row[r] \in owners})
Limited == {u \in Members : limit[u] # NoLimit}

\* getCurrentReservedResources, for the organization.
Reserved == MapThenSumSet(LAMBDA u : limit[u], Limited)

\* canCreate and getEffectiveLimit: the limit of the user, or what the limits
\* of the others leave to the users that have none.
CanCreate(u) ==
  IF limit[u] # NoLimit THEN Count({u}) < limit[u]
  ELSE Count(Members \ Limited) < OrgLimit - Reserved

-----------------------------------------------------------------------------
(* The creation of a resource.                                             *)

\* resourcePermissionsFor
PermissionsFor(lvl) ==
  CASE lvl = "none" -> {} [] lvl = "read" -> {"read"} [] lvl = "edit" -> {"read", "update"}

\* What shareWithOrganization gives: of the kinds that are shared, to the
\* users with a level other than the owner, whatever their status.
Sharing(r, owner) ==
  IF Kind[r] = "group" THEN {}
  ELSE UNION {{m} \X PermissionsFor(level[m]) \X {r} : m \in Members \ {owner}}

\* The policy is checked; nothing is written yet.
CheckCreate(s, u, r, whole) ==
  /\ request[s] = Idle
  /\ u \in Active /\ MayUpdate(u, Kind[r]) /\ r \notin asked
  /\ asked' = asked \cup {r}
  /\ whole => Kind[r] = "dashboard"
  /\ Kind[r] = "dashboard" => CanCreate(u)
  /\ request' = [request EXCEPT ![s] =
       [op |-> "create", pc |-> IF whole THEN "whole" ELSE "insert", u |-> u, r |-> r, left |-> {}]]
  /\ past' = [past EXCEPT !.mixed = @ \/ Doing("apply") # {}, !.crowded = @ \/ Doing("create") # {}]
  /\ UNCHANGED <<status, level, limit, row, grants>>

\* The row, committed before anybody may read it.
Insert(s) ==
  LET q == request[s] IN
  /\ q.op = "create" /\ q.pc = "insert"
  /\ row' = [row EXCEPT ![q.r] = q.u]
  /\ request' = [request EXCEPT ![s].pc = "give"]
  /\ UNCHANGED <<status, level, limit, asked, grants, past>>

\* giveResourcePermissionsTo: to the administrator and to the owner ...
Give(s) ==
  LET q == request[s] IN
  /\ q.op = "create" /\ q.pc = "give"
  /\ grants' = grants \cup ({Admin, q.u} \X Permissions \X {q.r})
  /\ request' = [request EXCEPT ![s].pc = "select"]
  /\ UNCHANGED <<status, level, limit, asked, row, past>>

\* ... then the members are read ...
SelectMembers(s) ==
  LET q == request[s] IN
  /\ q.op = "create" /\ q.pc = "select"
  /\ request' = [request EXCEPT ![s].pc = "share", ![s].left = Sharing(q.r, q.u)]
  /\ UNCHANGED <<status, level, limit, asked, row, grants, past>>

\* ... and each gets the permissions of the level it was read with.
ShareWith(s, m) ==
  LET q == request[s]
      rows == {g \in q.left : g[1] = m} IN
  /\ q.op = "create" /\ q.pc = "share" /\ rows # {}
  /\ grants' = grants \cup rows
  /\ request' = [request EXCEPT ![s].left = @ \ rows]
  /\ UNCHANGED <<status, level, limit, asked, row, past>>

EndCreate(s) ==
  /\ request[s].op = "create" /\ request[s].pc = "share" /\ request[s].left = {}
  /\ request' = [request EXCEPT ![s] = Idle]
  /\ UNCHANGED <<status, level, limit, asked, row, grants, past>>

\* createFromJson: one transaction, whose read of the members comes first.
SelectWhole(s) ==
  LET q == request[s] IN
  /\ q.op = "create" /\ q.pc = "whole"
  /\ request' = [request EXCEPT ![s].pc = "commit", ![s].left = Sharing(q.r, q.u)]
  /\ UNCHANGED <<status, level, limit, asked, row, grants, past>>

CommitWhole(s) ==
  LET q == request[s] IN
  /\ q.op = "create" /\ q.pc = "commit"
  /\ row' = [row EXCEPT ![q.r] = q.u]
  /\ grants' = grants \cup ({Admin, q.u} \X Permissions \X {q.r}) \cup q.left
  /\ request' = [request EXCEPT ![s] = Idle]
  /\ UNCHANGED <<status, level, limit, asked, past>>

\* A statement fails: the row of an alarm is deleted again, other rows and
\* what was given stay; the transaction leaves nothing.
FailCreate(s) ==
  LET q == request[s] IN
  /\ q.op = "create"
  /\ row' = IF Kind[q.r] = "alarm" /\ q.pc # "insert" THEN [row EXCEPT ![q.r] = Nobody] ELSE row
  /\ past' = [past EXCEPT !.failed = @ \/ q.pc \in {"give", "select", "share"}]
  /\ request' = [request EXCEPT ![s] = Idle]
  /\ UNCHANGED <<status, level, limit, asked, grants>>

-----------------------------------------------------------------------------
(* The access level.                                                       *)

\* Mutant of SharedResources: those of the user are not left out.
SharedResourcesAll(u) == {r \in Resources : Exists(r) /\ Kind[r] # "group"}

\* sharedResources: the tenants, and the dashboards and alarms of the others.
SharedResources(u) ==
  {r \in Resources : Exists(r) /\ Kind[r] # "group" /\ (Kind[r] = "tenant" \/ row[r] # u)}

Applying(u, lvl) == [op |-> "apply", pc |-> "revoke", u |-> u, level |-> lvl, gone |-> {}, new |-> {}]
Overlaps(u) ==
  [past EXCEPT !.changes = @ + 1,
               !.mixed = @ \/ Doing("create") # {} \/ \E q \in Doing("apply") : request[q].u = u]

\* setAccess: not for the administrator.
SetAccess(s, u, lvl) ==
  /\ request[s] = Idle /\ past.changes < MaxChanges
  /\ u \in Members \ {Admin}
  /\ request' = [request EXCEPT ![s] = Applying(u, lvl)]
  /\ past' = Overlaps(u)
  /\ UNCHANGED <<status, level, limit, asked, row, grants>>

\* store: the account and the user come before the level.
AddUser(s, u, lvl) ==
  /\ request[s] = Idle /\ past.changes < MaxChanges
  /\ status[u] = "absent" /\ lvl # "none"
  /\ status' = [status EXCEPT ![u] = "active"]
  /\ request' = [request EXCEPT ![s] = Applying(u, lvl)]
  /\ past' = Overlaps(u)
  /\ UNCHANGED <<level, limit, asked, row, grants>>

\* revokeShared: the shared resources as they are now.
Revoke(s) ==
  LET q == request[s] IN
  /\ q.op = "apply" /\ q.pc = "revoke"
  /\ request' = [request EXCEPT ![s].pc = "give",
       ![s].gone = grants \cap ({q.u} \X Permissions \X SharedResources(q.u))]
  /\ UNCHANGED <<status, level, limit, asked, row, grants, past>>

\* They are read again for what is given.
GiveShared(s) ==
  LET q == request[s] IN
  /\ q.op = "apply" /\ q.pc = "give"
  /\ request' = [request EXCEPT ![s].pc = "commit",
       ![s].new = {q.u} \X PermissionsFor(q.level) \X SharedResources(q.u)]
  /\ UNCHANGED <<status, level, limit, asked, row, grants, past>>

CommitLevel(s) ==
  LET q == request[s] IN
  /\ q.op = "apply" /\ q.pc = "commit"
  /\ grants' = (grants \ q.gone) \cup q.new
  /\ level' = [level EXCEPT ![q.u] = q.level]
  /\ request' = [request EXCEPT ![s] = Idle]
  /\ UNCHANGED <<status, limit, asked, row, past>>

\* The transaction is rolled back: the user keeps the level it had.
FailLevel(s) ==
  /\ request[s].op = "apply"
  /\ request' = [request EXCEPT ![s] = Idle]
  /\ UNCHANGED <<status, level, limit, asked, row, grants, past>>

-----------------------------------------------------------------------------
(* Deletions.                                                              *)

\* AlarmController.destroy drops the permissions first, DashboardController.destroy
\* the row first; the other half is a step of its own.
Delete(s, u, r) ==
  /\ request[s] = Idle
  /\ u \in Active /\ Exists(r) /\ MayDelete(u, r) /\ Kind[r] \in {"dashboard", "alarm"}
  /\ IF Kind[r] = "alarm"
     THEN grants' = grants \ (Users \X Permissions \X {r}) /\ UNCHANGED row
     ELSE row' = [row EXCEPT ![r] = Nobody] /\ UNCHANGED grants
  /\ request' = [request EXCEPT ![s] = [op |-> "delete", r |-> r]]
  /\ UNCHANGED <<status, level, limit, asked, past>>

EndDelete(s) ==
  LET r == request[s].r IN
  /\ request[s].op = "delete"
  /\ grants' = grants \ (Users \X Permissions \X {r})
  /\ row' = [row EXCEPT ![r] = Nobody]
  /\ request' = [request EXCEPT ![s] = Idle]
  /\ UNCHANGED <<status, level, limit, asked, past>>

FailDelete(s) ==
  /\ request[s].op = "delete"
  /\ request' = [request EXCEPT ![s] = Idle]
  /\ past' = [past EXCEPT !.failed = TRUE]
  /\ UNCHANGED <<status, level, limit, asked, row, grants>>

\* UserDeletionService.deleteCompletely without a user to transfer to: one
\* transaction.  The level of the user is left as it was.
RemoveUser(s, u) ==
  /\ request[s] = Idle
  /\ u \in Members \ {Admin}
  /\ grants' = {g \in grants : g[1] # u}
  /\ row' = [r \in Resources |-> IF row[r] = u THEN Nobody ELSE row[r]]
  /\ limit' = [limit EXCEPT ![u] = NoLimit]
  /\ status' = [status EXCEPT ![u] = "deleted"]
  /\ past' = [past EXCEPT !.crowded = @ \/ Doing("create") # {}]
  /\ UNCHANGED <<level, asked, request>>

Next ==
  \E s \in Sessions :
    \/ \E u \in Users, r \in Resources : Delete(s, u, r) \/ \E whole \in BOOLEAN : CheckCreate(s, u, r, whole)
    \/ \E u \in Users, lvl \in Levels : SetAccess(s, u, lvl) \/ AddUser(s, u, lvl)
    \/ \E u \in Users : ShareWith(s, u) \/ RemoveUser(s, u)
    \/ Insert(s) \/ Give(s) \/ SelectMembers(s) \/ EndCreate(s) \/ SelectWhole(s) \/ CommitWhole(s)
    \/ FailCreate(s) \/ Revoke(s) \/ GiveShared(s) \/ CommitLevel(s) \/ FailLevel(s)
    \/ EndDelete(s) \/ FailDelete(s)

Spec == Init /\ [][Next]_vars

-----------------------------------------------------------------------------
(* Properties.                                                             *)

\* "An access level is therefore two things kept together", the role and the
\* permissions: outside the requests every user has over what the others share
\* exactly the permissions of its level, and owners and the administrator
\* both of them; unless a level was set while a resource was being created or
\* the same level was being set, or a request that is no transaction failed.
LevelKept ==
  (\A s \in Sessions : request[s] = Idle) /\ ~past.mixed /\ ~past.failed =>
    \A u \in Active, r \in Resources : Exists(r) =>
      {p \in Permissions : <<u, p, r>> \in grants} =
        IF u \in {Admin, row[r]} THEN Permissions
        ELSE IF Kind[r] = "group" THEN {} ELSE PermissionsFor(level[u])

\* Nobody has more dashboards than its own limit (canCreate), unless two checks
\* overlapped or a user was removed in the middle of one.
OwnLimitKept == ~past.crowded => \A u \in Limited : Count({u}) <= limit[u]

\* Limits hold for the organization as a whole, although each creation looks
\* only at its user: those without a limit share what the others leave, with
\* the same exceptions.
WithinLimits ==
  /\ OwnLimitKept
  /\ ~past.crowded => Count(Members \ Limited) <= OrgLimit - Reserved

\* Both hold together, although the same requests change grants and counts.
AccessSound == LevelKept /\ WithinLimits

=============================================================================
