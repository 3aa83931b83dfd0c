------------------------------- MODULE Members -------------------------------
(***************************************************************************)
(* Resources and their members: the operations that WorkspacesService      *)
(* (src/src/workspaces/workspaces.service.ts) and ProjectsService          *)
(* (src/src/projects/projects.service.ts) have in common.  A resource is a *)
(* workspace or a project; whoever creates it becomes its OWNER, and only  *)
(* an OWNER may change it, delete it, add members or remove them.          *)
(*                                                                         *)
(* A call runs over several awaits: the guard of a PATCH route, the read   *)
(* of checkPermission, for addMember the search for an existing member,    *)
(* and the write.  Other calls run between any two of them, so a write     *)
(* acts on a permission read earlier.  The resource that call c creates is *)
(* named c.                                                                *)
(*                                                                         *)
(* HasParent says that the resources live in workspaces: the creator must  *)
(* be a member of the workspace, and deleting the workspace deletes them.  *)
(***************************************************************************)
EXTENDS Naturals, FiniteSets

CONSTANTS
    Calls,       \* the HTTP calls
    Users,       \* the registered users
    NoRequest,   \* a call that has not arrived yet
    GrantRoles,  \* the roles that addMember calls ask for
    GuardRoles,  \* the argument of @ResourceRoles on the PATCH route
    HasParent    \* TRUE when the resources belong to workspaces

Roles == {"OWNER", "COLLABORATOR", "VIEWER"}
Ops == {"create", "update", "remove", "addMember", "removeMember"}

VARIABLES
    live,  \* the resources that exist
    role,  \* the membership rows: role[w][u] is "none" when there is no row
    req,   \* what each call asks for
    at     \* the next await of each call, or its answer

vars == <<live, role, req, at>>

(* "role" is dto.role, or VIEWER when the field is absent.  A create call   *)
(* asks for its caller to become OWNER of a new resource.                   *)
Request == [op : Ops, by : Users, on : Calls, who : Users, role : Roles]

(* The awaits after checkPermission passed, all awaits, and the answers.    *)
Permitted == {"find", "write"}
InFlight  == Permitted \cup {"parent", "create", "guard", "check"}
Answers   == {"ok", "forbidden", "error"}

TypeOK ==
    /\ live \subseteq Calls
    /\ role \in [Calls -> [Users -> Roles \cup {"none"}]]
    /\ req \in [Calls -> Request \cup {NoRequest}]
    /\ at \in [Calls -> {"idle"} \cup InFlight \cup Answers]
    /\ \A c \in Calls : at[c] # "idle" => req[c] \in Request

NoRows == [u \in Users |-> "none"]

Init ==
    /\ live = {}
    /\ role = [w \in Calls |-> NoRows]
    /\ req = [c \in Calls |-> NoRequest]
    /\ at = [c \in Calls |-> "idle"]

-----------------------------------------------------------------------------
Goto(c, label) == at' = [at EXCEPT ![c] = label]

(* A write that committed: its answer reaches the service or is lost.       *)
Commit(c) == Goto(c, "ok") \/ Goto(c, "error")

(* Clients learn the id of a resource from the answer to its creation, and  *)
(* may use it after the resource is gone.                                   *)
Known == {c \in Calls : at[c] = "ok" /\ req[c].op = "create"}

RequestsOf(c) ==
    {r \in Request :
        IF r.op = "create" THEN r.on = c /\ r.who = r.by /\ r.role = "OWNER"
        ELSE /\ r.on \in Known
             /\ r.op \in {"update", "remove"} => r.who = r.by
             /\ IF r.op = "addMember" THEN r.role \in GrantRoles
                                      ELSE r.role = "VIEWER"}

FirstAwait(op) ==
    CASE op = "create" -> IF HasParent THEN "parent" ELSE "create"
      [] op = "update" -> "guard"
      [] OTHER         -> "check"

ReceiveUnread(c) ==  \* seeded bug: the body and the parameters are dropped
    /\ at[c] = "idle"
    /\ \E r \in RequestsOf(c) : Goto(c, FirstAwait(r.op))
    /\ UNCHANGED <<live, role, req>>

Receive(c) ==
    /\ at[c] = "idle"
    /\ \E r \in RequestsOf(c) :
          /\ req' = [req EXCEPT ![c] = r]
          /\ Goto(c, FirstAwait(r.op))
    /\ UNCHANGED <<live, role>>

(* The row that findUnique on (requester, resource) returns.                *)
RequesterRole(c) == role[req[c].on][req[c].by]

(* ResourceRolesGuard.  The route parameter serves as the id of a workspace *)
(* and of a project; ids of the two kinds never coincide, so one of its two *)
(* lookups finds nothing.                                                   *)
Guard(c) ==
    /\ at[c] = "guard"
    /\ Goto(c, IF RequesterRole(c) \in GuardRoles THEN "check" ELSE "forbidden")
    /\ UNCHANGED <<live, role, req>>

(* checkPermission(..., Role.OWNER): no row and another role both throw.    *)
IsMember(c) == RequesterRole(c) # "none"  \* seeded bug: the role is not compared
IsOwner(c) == RequesterRole(c) = "OWNER"

CheckPermission(c) ==
    /\ at[c] = "check"
    /\ IF IsOwner(c)
       THEN Goto(c, IF req[c].op = "addMember" THEN "find" ELSE "write")
       ELSE Goto(c, "forbidden")
    /\ UNCHANGED <<live, role, req>>

TargetRole(c) == role[req[c].on][req[c].who]

FindExistingMember(c) ==
    /\ at[c] = "find"
    /\ Goto(c, IF TargetRole(c) = "none" THEN "write" ELSE "forbidden")
    /\ UNCHANGED <<live, role, req>>

-----------------------------------------------------------------------------
(* The writes.  Prisma throws when the row to change is gone, when the      *)
(* unique (user, resource) pair exists, and when the resource a membership  *)
(* refers to does not; nothing catches these.                               *)

Exists(c) == req[c].on \in live

(* The nested create: the resource and its OWNER row in one transaction.    *)
Create(c, allowed) ==
    /\ at[c] = "create"
    /\ \/ /\ allowed
          /\ live' = live \cup {c}
          /\ role' = [role EXCEPT ![c] = [NoRows EXCEPT ![req[c].by] = "OWNER"]]
          /\ Commit(c)
       \/ /\ ~allowed
          /\ Goto(c, "error")
          /\ UNCHANGED <<live, role>>
    /\ UNCHANGED req

(* Only the name and the description change.                                *)
Update(c) ==
    /\ at[c] = "write" /\ req[c].op = "update"
    /\ IF Exists(c) THEN Commit(c) ELSE Goto(c, "error")
    /\ UNCHANGED <<live, role, req>>

(* Membership rows go with the resource (onDelete: Cascade).                *)
Delete(S) ==
    /\ live' = live \ S
    /\ role' = [w \in Calls |-> IF w \in S THEN NoRows ELSE role[w]]

Remove(c) ==
    /\ at[c] = "write" /\ req[c].op = "remove"
    /\ IF Exists(c) THEN Delete({req[c].on}) /\ Commit(c)
       ELSE Goto(c, "error") /\ UNCHANGED <<live, role>>
    /\ UNCHANGED req

PutRow(c, r) == role' = [role EXCEPT ![req[c].on][req[c].who] = r]

InsertableTwice(c) == Exists(c)  \* seeded bug: no @@unique on the pair
InsertableAfter(c) == TargetRole(c) = "none"  \* seeded bug: no foreign key
Insertable(c) == Exists(c) /\ TargetRole(c) = "none"

AddMember(c) ==
    /\ at[c] = "write" /\ req[c].op = "addMember"
    /\ IF Insertable(c) THEN PutRow(c, req[c].role) /\ Commit(c)
       ELSE Goto(c, "error") /\ UNCHANGED role
    /\ UNCHANGED <<live, req>>

RemoveMember(c) ==
    /\ at[c] = "write" /\ req[c].op = "removeMember"
    /\ IF TargetRole(c) # "none" THEN PutRow(c, "none") /\ Commit(c)
       ELSE Goto(c, "error") /\ UNCHANGED role
    /\ UNCHANGED <<live, req>>

(* A query that fails without effect ends the call.                         *)
Fail(c) ==
    /\ at[c] \in InFlight
    /\ Goto(c, "error")
    /\ UNCHANGED <<live, role, req>>

-----------------------------------------------------------------------------
(* What reaches the resources from the workspace they live in.             *)

(* The first query of ProjectsService.create: is the creator a member?      *)
CheckParent(c, member) ==
    /\ at[c] = "parent"
    /\ Goto(c, IF member THEN "create" ELSE "forbidden")
    /\ UNCHANGED <<live, role, req>>

(* The workspace is deleted and takes the resources S along.                *)
Sweep(S) == Delete(S) /\ UNCHANGED <<req, at>>

CallStep(c) ==
    \/ Receive(c) \/ Guard(c) \/ CheckPermission(c) \/ FindExistingMember(c)
    \/ Update(c) \/ Remove(c) \/ AddMember(c) \/ RemoveMember(c) \/ Fail(c)

Next ==
    \/ \E c \in Calls : CallStep(c) \/ Create(c, TRUE)
    \/ /\ HasParent
       /\ \/ \E c \in Calls : Create(c, FALSE) \/ \E b \in BOOLEAN : CheckParent(c, b)
          \/ \E S \in SUBSET live : Sweep(S)

Spec == Init /\ [][Next]_vars

-----------------------------------------------------------------------------
(* Properties.                                                             *)

(* The calls that asked for a row of u on w, or for its removal, and got    *)
(* one of these answers.                                                    *)
Asked(ops, w, u, answers) ==
    {c \in Calls : at[c] \in answers /\ req[c].op \in ops
                     /\ req[c].on = w /\ req[c].who = u}

Added(w, u, answers)   == Cardinality(Asked({"create", "addMember"}, w, u, answers))
Removed(w, u, answers) == Cardinality(Asked({"removeMember"}, w, u, answers))
Rows(w, u) == IF role[w][u] = "none" THEN 0 ELSE 1

(* Answers account for rows: on an existing resource, additions minus       *)
(* removals is the number of rows a user has, each call that ended in an    *)
(* error counting either way because its write may have committed.  So two  *)
(* racing additions, or two racing removals, never both succeed.            *)
AnswersAccountForRows ==
    \A w \in live, u \in Users :
        /\ Added(w, u, {"ok"}) <= Rows(w, u) + Removed(w, u, {"ok", "error"})
        /\ Rows(w, u) + Removed(w, u, {"ok"}) <= Added(w, u, {"ok", "error"})

(* Nobody gets past the permission check of a resource, let alone succeeds, *)
(* who was not its creator or made OWNER of it by an earlier call.          *)
WasMadeOwner(w, u) ==
    \E d \in Calls :
        /\ at[d] \in {"ok", "error"}
        /\ req[d].op \in {"create", "addMember"}
        /\ req[d].on = w /\ req[d].who = u /\ req[d].role = "OWNER"

OnlyOwnersGetThrough ==
    \A c \in Calls :
        /\ at[c] \in Permitted \cup {"ok"}
        /\ req[c].op # "create"
        => WasMadeOwner(req[c].on, req[c].by)

(* A resource that lost its last OWNER, and has no call past its permission *)
(* check, is beyond anybody's reach: its members never change again, and    *)
(* only the deletion of its workspace removes it.                           *)
Frozen(w) ==
    /\ w \in live
    /\ \A u \in Users : role[w][u] # "OWNER"
    /\ \A c \in Calls : at[c] \in Permitted => req[c].on # w

OwnerlessIsFrozen ==
    [][\A w \in Calls :
        Frozen(w) => \/ Frozen(w)' /\ role'[w] = role[w]
                     \/ HasParent /\ w \notin live']_vars

(* No step changes the role of a member in place: a second addMember that   *)
(* raced with the first cannot promote or demote.                           *)
RolesAreFixed ==
    [][\A w \in Calls, u \in Users :
        role[w][u] # "none" /\ role'[w][u] # "none" => role'[w][u] = role[w][u]]_vars

(* No membership row outlives its resource, or is added to a deleted one.   *)
NoOrphanRows == \A w \in Calls \ live : role[w] = NoRows
=============================================================================
