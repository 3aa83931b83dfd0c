---------------------------- MODULE MembersProofs ----------------------------
(***************************************************************************)
(* Theorems about Members, for any number of calls and users, any guard    *)
(* and with or without a parent.                                           *)
(***************************************************************************)
EXTENDS Members, FiniteSetTheorems, TLAPS

-----------------------------------------------------------------------------
(* Types.                                                                  *)

LEMMA RequestsAreTyped ==
  ASSUME NEW c \in Calls, NEW r \in RequestsOf(c)
  PROVE  /\ r \in Request
         /\ r.op = "create" => r.on = c /\ r.who = r.by /\ r.role = "OWNER"
  BY DEF RequestsOf

LEMMA RequestFields ==
  ASSUME NEW r \in Request
  PROVE  /\ r.op \in Ops /\ r.by \in Users /\ r.on \in Calls
         /\ r.who \in Users /\ r.role \in Roles
  BY DEF Request

Labels == {"idle"} \cup InFlight \cup Answers

LEMMA TypeStep == ASSUME TypeOK, [Next]_vars PROVE TypeOK'
<1> USE DEF TypeOK
<1>1. CASE UNCHANGED vars
  BY <1>1 DEF vars
<1>2. ASSUME NEW c \in Calls, Receive(c) PROVE TypeOK'
  <2>1. PICK r \in RequestsOf(c) : /\ req' = [req EXCEPT ![c] = r]
                                   /\ Goto(c, FirstAwait(r.op))
    BY <1>2 DEF Receive
  <2>2. r \in Request
    BY <2>1, RequestsAreTyped
  <2>3. FirstAwait(r.op) \in InFlight
    BY DEF FirstAwait, InFlight, Permitted
  <2>4. at' \in [Calls -> Labels] /\ \A d \in Calls : d # c => at'[d] = at[d]
    BY <2>1, <2>3 DEF Goto, Labels
  <2>5. UNCHANGED <<live, role>>
    BY <1>2 DEF Receive
  <2> QED BY <2>1, <2>2, <2>4, <2>5 DEF Labels
<1>3. ASSUME NEW c \in Calls,
             \/ Guard(c) \/ CheckPermission(c) \/ FindExistingMember(c)
             \/ Update(c) \/ Fail(c) \/ \E b \in BOOLEAN : CheckParent(c, b)
      PROVE  TypeOK'
  <2>1. UNCHANGED <<live, role, req>> /\ at[c] # "idle"
    BY <1>3 DEF Guard, CheckPermission, FindExistingMember, Update, Fail, CheckParent,
         InFlight, Permitted
  <2>2. \E l \in InFlight \cup Answers : at' = [at EXCEPT ![c] = l]
    BY <1>3 DEF Guard, CheckPermission, FindExistingMember, Update, Fail, CheckParent,
         Goto, Commit, InFlight, Permitted, Answers
  <2> QED BY <2>1, <2>2
<1>4. ASSUME NEW c \in Calls,
             \/ Create(c, TRUE) \/ Create(c, FALSE)
             \/ Remove(c) \/ AddMember(c) \/ RemoveMember(c)
      PROVE  TypeOK'
  <2>1. at[c] # "idle" /\ req[c] \in Request /\ req' = req
    BY <1>4 DEF Create, Remove, AddMember, RemoveMember
  <2>2. \E l \in Answers : at' = [at EXCEPT ![c] = l]
    BY <1>4 DEF Create, Remove, AddMember, RemoveMember, Goto, Commit, Answers
  <2>3. /\ req[c].on \in Calls /\ req[c].by \in Users /\ req[c].who \in Users
        /\ req[c].role \in Roles
    BY <2>1, RequestFields
  <2>4. live' \subseteq Calls
    BY <1>4, <2>3 DEF Create, Remove, Delete, AddMember, RemoveMember
  <2>5. role' \in [Calls -> [Users -> Roles \cup {"none"}]]
    <3>1. NoRows \in [Users -> Roles \cup {"none"}]
      BY DEF NoRows
    <3>2. CASE Create(c, TRUE) \/ Create(c, FALSE)
      BY <2>3, <3>1, <3>2 DEF Create, Roles
    <3>3. CASE Remove(c)
      BY <3>1, <3>3 DEF Remove, Delete
    <3>4. CASE AddMember(c) \/ RemoveMember(c)
      BY <2>3, <3>4 DEF AddMember, RemoveMember, PutRow
    <3> QED BY <1>4, <3>2, <3>3, <3>4
  <2> QED BY <2>1, <2>2, <2>4, <2>5
<1>5. ASSUME NEW S \in SUBSET live, Sweep(S) PROVE TypeOK'
  BY <1>5 DEF Sweep, Delete, NoRows
<1> QED BY <1>1, <1>2, <1>3, <1>4, <1>5 DEF Next, CallStep

(* The tables and the calls keep their types.                               *)
THEOREM TypeCorrect == Spec => []TypeOK
<1>1. Init => TypeOK
  BY DEF Init, TypeOK, NoRows
<1>2. TypeOK /\ [Next]_vars => TypeOK'
  BY TypeStep
<1> QED BY <1>1, <1>2, PTL DEF Spec

-----------------------------------------------------------------------------
(* Rows and resources.                                                     *)

LEMMA NoOrphanStep == ASSUME TypeOK, NoOrphanRows, [Next]_vars PROVE NoOrphanRows'
<1> USE DEF TypeOK, NoOrphanRows
<1>1. CASE UNCHANGED <<live, role>>
  BY <1>1 DEF NoRows
<1>2. ASSUME NEW c \in Calls, Create(c, TRUE) \/ Create(c, FALSE) PROVE NoOrphanRows'
  BY <1>2 DEF Create, NoRows
<1>3. ASSUME NEW S \in SUBSET Calls, Delete(S) PROVE NoOrphanRows'
  BY <1>3 DEF Delete, NoRows
<1>4. ASSUME NEW c \in Calls, Remove(c) PROVE NoOrphanRows'
  <2>1. req[c].on \in Calls
    BY <1>4, RequestFields DEF Remove
  <2> QED BY <1>1, <1>3, <1>4, <2>1 DEF Remove
<1>5. ASSUME NEW c \in Calls, AddMember(c) PROVE NoOrphanRows'
  BY <1>5 DEF AddMember, PutRow, Insertable, Exists, NoRows
<1>6. ASSUME NEW c \in Calls, RemoveMember(c) PROVE NoOrphanRows'
  <2>1. req[c].on \in Calls /\ req[c].who \in Users
    BY <1>6, RequestFields DEF RemoveMember
  <2>2. CASE TargetRole(c) # "none"
    <3>1. req[c].on \in live
      BY <2>1, <2>2 DEF TargetRole, NoRows
    <3> QED BY <1>6, <2>2, <3>1 DEF RemoveMember, PutRow, NoRows
  <2> QED BY <1>1, <1>6, <2>2 DEF RemoveMember
<1>7. CASE \E S \in SUBSET live : Sweep(S)
  BY <1>3, <1>7 DEF Sweep
<1>8. ASSUME NEW c \in Calls,
             \/ Receive(c) \/ Guard(c) \/ CheckPermission(c) \/ FindExistingMember(c)
             \/ Update(c) \/ Fail(c) \/ \E b \in BOOLEAN : CheckParent(c, b)
      PROVE  NoOrphanRows'
  BY <1>1, <1>8 DEF Receive, Guard, CheckPermission, FindExistingMember, Update,
       Fail, CheckParent
<1>9. CASE UNCHANGED vars
  BY <1>1, <1>9 DEF vars
<1> QED BY <1>2, <1>4, <1>5, <1>6, <1>7, <1>8, <1>9 DEF Next, CallStep

(* Whatever races with a deletion, no membership row survives its resource  *)
(* or appears after it: NoOrphanRows for all constants.                    *)
THEOREM RowsGoWithTheirResource == Spec => []NoOrphanRows
<1>1. Init => NoOrphanRows
  BY DEF Init, NoOrphanRows
<1>2. TypeOK /\ NoOrphanRows /\ [Next]_vars => NoOrphanRows'
  BY NoOrphanStep
<1> QED BY <1>1, <1>2, TypeCorrect, PTL DEF Spec

-----------------------------------------------------------------------------
(* Calls.                                                                  *)

Over(c) == at[c] \in {"ok", "error"}

(* One call moves at a time, never after its answer, and keeps its request. *)
LEMMA CallsEnd ==
  ASSUME TypeOK, [Next]_vars, NEW c \in Calls
  PROVE  /\ at[c] # "idle" => req'[c] = req[c]
         /\ Over(c) => at'[c] = at[c]
<1> USE DEF TypeOK, Over
<1>1. CASE UNCHANGED <<req, at>>
  BY <1>1
<1>2. ASSUME NEW d \in Calls, Receive(d)
      PROVE  /\ at[c] # "idle" => req'[c] = req[c]
             /\ Over(c) => at'[c] = at[c]
  BY <1>2 DEF Receive, Goto
<1>3. ASSUME NEW d \in Calls,
             \/ Guard(d) \/ CheckPermission(d) \/ FindExistingMember(d)
             \/ Update(d) \/ Remove(d) \/ AddMember(d) \/ RemoveMember(d)
             \/ Fail(d) \/ Create(d, TRUE) \/ Create(d, FALSE)
             \/ \E b \in BOOLEAN : CheckParent(d, b)
      PROVE  req' = req /\ (Over(c) => at'[c] = at[c])
  <2>1. req' = req /\ ~Over(d)
    BY <1>3 DEF Guard, CheckPermission, FindExistingMember, Update, Remove,
         AddMember, RemoveMember, Fail, Create, CheckParent, InFlight, Permitted
  <2>2. \E l : at' = [at EXCEPT ![d] = l]
    BY <1>3 DEF Guard, CheckPermission, FindExistingMember, Update, Remove,
         AddMember, RemoveMember, Fail, Create, CheckParent, Goto, Commit
  <2> QED BY <2>1, <2>2
<1>4. CASE (\E S \in SUBSET live : Sweep(S)) \/ UNCHANGED vars
  BY <1>1, <1>4 DEF Sweep, vars
<1> QED BY <1>2, <1>3, <1>4 DEF Next, CallStep

(* A resource exists only after the call that creates it was answered.      *)
Born == \A c \in live : Over(c)

LEMMA BornStep == ASSUME TypeOK, Born, [Next]_vars PROVE Born'
<1>1. \A c \in Calls : Over(c) => Over(c)'
  BY CallsEnd DEF Over
<1>2. CASE live' \subseteq live
  BY <1>1, <1>2 DEF Born, TypeOK
<1>3. ASSUME NEW c \in Calls, Create(c, TRUE) \/ Create(c, FALSE) PROVE Born'
  BY <1>1, <1>3 DEF Create, Commit, Goto, Born, Over, TypeOK
<1>4. CASE \E c \in Calls :
             \/ Receive(c) \/ Guard(c) \/ CheckPermission(c) \/ FindExistingMember(c)
             \/ Update(c) \/ Remove(c) \/ AddMember(c) \/ RemoveMember(c) \/ Fail(c)
             \/ \E b \in BOOLEAN : CheckParent(c, b)
  BY <1>2, <1>4 DEF Receive, Guard, CheckPermission, FindExistingMember, Update,
       Remove, Delete, AddMember, RemoveMember, Fail, CheckParent
<1>5. CASE (\E S \in SUBSET live : Sweep(S)) \/ UNCHANGED vars
  BY <1>2, <1>5 DEF Sweep, Delete, vars
<1> QED BY <1>3, <1>4, <1>5 DEF Next, CallStep

-----------------------------------------------------------------------------
(* Roles.                                                                  *)

LEMMA RolesStep ==
  ASSUME TypeOK, NoOrphanRows, Born, [Next]_vars, NEW w \in Calls, NEW u \in Users,
         role[w][u] # "none", role'[w][u] # "none"
  PROVE  role'[w][u] = role[w][u]
<1> USE DEF TypeOK
<1>1. CASE UNCHANGED role
  BY <1>1
<1>2. ASSUME NEW c \in Calls, Remove(c) \/ \E S \in SUBSET live : Sweep(S)
      PROVE  role'[w][u] = role[w][u]
  BY <1>2 DEF Remove, Sweep, Delete, NoRows
<1>3. ASSUME NEW c \in Calls, AddMember(c) \/ RemoveMember(c)
      PROVE  role'[w][u] = role[w][u]
  <2>1. req[c].on \in Calls /\ req[c].who \in Users
    BY <1>3, RequestFields DEF AddMember, RemoveMember
  <2>2. \/ role' = role
        \/ /\ role[req[c].on][req[c].who] = "none"
           /\ role' = [role EXCEPT ![req[c].on][req[c].who] = req[c].role]
        \/ role' = [role EXCEPT ![req[c].on][req[c].who] = "none"]
    BY <1>3 DEF AddMember, RemoveMember, PutRow, Insertable, TargetRole
  <2>3. CASE w = req[c].on /\ u = req[c].who
    BY <2>1, <2>2, <2>3
  <2>4. CASE ~(w = req[c].on /\ u = req[c].who)
    BY <2>1, <2>2, <2>4
  <2> QED BY <2>3, <2>4
<1>4. ASSUME NEW c \in Calls, Create(c, TRUE) \/ Create(c, FALSE)
      PROVE  role'[w][u] = role[w][u]
  <2>1. c \notin live
    BY <1>4 DEF Create, Born, Over
  <2>2. role[c][u] = "none"
    BY <2>1 DEF NoOrphanRows, NoRows
  <2> QED BY <1>4, <2>2 DEF Create
<1>5. CASE \E c \in Calls :
             \/ Receive(c) \/ Guard(c) \/ CheckPermission(c) \/ FindExistingMember(c)
             \/ Update(c) \/ Fail(c) \/ \E b \in BOOLEAN : CheckParent(c, b)
  BY <1>1, <1>5 DEF Receive, Guard, CheckPermission, FindExistingMember, Update,
       Fail, CheckParent
<1>6. CASE UNCHANGED vars
  BY <1>1, <1>6 DEF vars
<1> QED BY <1>2, <1>3, <1>4, <1>5, <1>6 DEF Next, CallStep

LEMMA BornInvariant == Spec => [](TypeOK /\ NoOrphanRows /\ Born)
<1>1. Init => Born
  BY DEF Init, Born
<1>2. TypeOK /\ Born /\ [Next]_vars => Born'
  BY BornStep
<1> QED BY <1>1, <1>2, TypeCorrect, RowsGoWithTheirResource, PTL DEF Spec

(* No interleaving of calls promotes or demotes a member in place:          *)
(* RolesAreFixed for all constants.                                        *)
THEOREM RolesStayFixed == Spec => RolesAreFixed
<1>1. TypeOK /\ NoOrphanRows /\ Born /\ [Next]_vars =>
        [\A w \in Calls, u \in Users :
            role[w][u] # "none" /\ role'[w][u] # "none" => role'[w][u] = role[w][u]]_vars
  BY RolesStep
<1> QED BY <1>1, BornInvariant, PTL DEF Spec, RolesAreFixed

-----------------------------------------------------------------------------
(* Owners.                                                                 *)

(* Every OWNER row comes from an answered call that asked for it.           *)
OwnersWereMade ==
    \A w \in Calls, u \in Users : role[w][u] = "OWNER" => WasMadeOwner(w, u)

(* What a label says of the request, and who creates what.                  *)
LabelsFit ==
    \A c \in Calls :
        /\ at[c] \in {"parent", "create"} => req[c].op = "create"
        /\ at[c] # "idle" /\ req[c].op = "create" =>
              req[c].on = c /\ req[c].who = req[c].by /\ req[c].role = "OWNER"

LEMMA LabelsStep == ASSUME TypeOK, LabelsFit, [Next]_vars PROVE LabelsFit'
<1> USE DEF TypeOK, LabelsFit
<1>1. CASE UNCHANGED <<req, at>>
  BY <1>1
<1>2. ASSUME NEW c \in Calls, Receive(c) PROVE LabelsFit'
  <2>1. PICK r \in RequestsOf(c) : /\ req' = [req EXCEPT ![c] = r]
                                   /\ at' = [at EXCEPT ![c] = FirstAwait(r.op)]
    BY <1>2 DEF Receive, Goto
  <2>2. r.op = "create" => r.on = c /\ r.who = r.by /\ r.role = "OWNER"
    BY RequestsAreTyped
  <2>3. r.op # "create" => FirstAwait(r.op) \notin {"parent", "create"}
    BY DEF FirstAwait
  <2> QED BY <2>1, <2>2, <2>3
<1>3. ASSUME NEW d \in Calls,
             \/ Guard(d) \/ CheckPermission(d) \/ FindExistingMember(d)
             \/ Update(d) \/ Remove(d) \/ AddMember(d) \/ RemoveMember(d)
             \/ Fail(d) \/ Create(d, TRUE) \/ Create(d, FALSE)
             \/ \E b \in BOOLEAN : CheckParent(d, b)
      PROVE  LabelsFit'
  <2>1. req' = req /\ at[d] # "idle"
    BY <1>3 DEF Guard, CheckPermission, FindExistingMember, Update, Remove,
         AddMember, RemoveMember, Fail, Create, CheckParent, InFlight, Permitted
  <2>2. \E l \in Permitted \cup Answers \cup {"check", "create"} :
            at' = [at EXCEPT ![d] = l] /\ (l = "create" => at[d] = "parent")
    BY <1>3 DEF Guard, CheckPermission, FindExistingMember, Update, Remove,
         AddMember, RemoveMember, Fail, Create, CheckParent, Goto, Commit,
         Permitted, Answers
  <2> QED BY <2>1, <2>2 DEF Permitted, Answers
<1>4. CASE (\E S \in SUBSET live : Sweep(S)) \/ UNCHANGED vars
  BY <1>1, <1>4 DEF Sweep, vars
<1> QED BY <1>2, <1>3, <1>4 DEF Next, CallStep

LEMMA MadeOwnersStay ==
  ASSUME TypeOK, [Next]_vars, NEW w, NEW u, WasMadeOwner(w, u)
  PROVE  WasMadeOwner(w, u)'
  BY CallsEnd DEF WasMadeOwner, Over

LEMMA OwnersStep ==
  ASSUME TypeOK, LabelsFit, OwnersWereMade, [Next]_vars PROVE OwnersWereMade'
<1> USE DEF TypeOK
<1> SUFFICES ASSUME NEW w \in Calls, NEW u \in Users, role'[w][u] = "OWNER",
                    role[w][u] # "OWNER"
             PROVE  WasMadeOwner(w, u)'
  BY MadeOwnersStay DEF OwnersWereMade
<1>1. role' # role
  OBVIOUS
<1>2. ASSUME NEW c \in Calls, Create(c, TRUE) \/ Create(c, FALSE)
      PROVE  WasMadeOwner(w, u)'
  <2>1. /\ req' = req /\ req[c].op = "create" /\ req[c].on = c
        /\ req[c].who = req[c].by /\ req[c].role = "OWNER"
    BY <1>2 DEF Create, LabelsFit
  <2>2. w = c /\ u = req[c].by /\ at'[c] \in {"ok", "error"}
    BY <1>2 DEF Create, NoRows, Commit, Goto
  <2> QED BY <2>1, <2>2 DEF WasMadeOwner
<1>3. ASSUME NEW c \in Calls, AddMember(c) PROVE WasMadeOwner(w, u)'
  <2>1. /\ req' = req /\ req[c].op = "addMember"
        /\ at'[c] \in {"ok", "error"} /\ PutRow(c, req[c].role)
    BY <1>1, <1>3 DEF AddMember, Commit, Goto
  <2>2. w = req[c].on /\ u = req[c].who /\ req[c].role = "OWNER"
    BY <2>1 DEF PutRow
  <2> QED BY <2>1, <2>2 DEF WasMadeOwner
<1>4. ASSUME NEW c \in Calls, RemoveMember(c) PROVE FALSE
  BY <1>1, <1>4 DEF RemoveMember, PutRow
<1>5. ASSUME NEW c \in Calls, Remove(c) \/ \E S \in SUBSET live : Sweep(S) PROVE FALSE
  BY <1>1, <1>5 DEF Remove, Sweep, Delete, NoRows
<1>6. CASE \/ UNCHANGED vars
           \/ \E c \in Calls :
                \/ Receive(c) \/ Guard(c) \/ CheckPermission(c) \/ FindExistingMember(c)
                \/ Update(c) \/ Fail(c) \/ \E b \in BOOLEAN : CheckParent(c, b)
  BY <1>1, <1>6 DEF vars, Receive, Guard, CheckPermission, FindExistingMember,
       Update, Fail, CheckParent
<1> QED BY <1>2, <1>3, <1>4, <1>5, <1>6 DEF Next, CallStep

(* The permission check lets nobody but an OWNER through.                  *)
LEMMA PassedTheCheck ==
  ASSUME TypeOK, LabelsFit, [Next]_vars, NEW c \in Calls,
         at[c] \notin Permitted \cup {"ok"},
         at'[c] \in Permitted \/ (at'[c] = "ok" /\ req'[c].op # "create")
  PROVE  CheckPermission(c) /\ IsOwner(c)
<1> USE DEF TypeOK
<1>1. at'[c] # at[c]
  OBVIOUS
<1>2. ASSUME NEW d \in Calls, Receive(d) PROVE FALSE
  BY <1>1, <1>2 DEF Receive, Goto, FirstAwait, Permitted
<1>3. ASSUME NEW d \in Calls, Create(d, TRUE) \/ Create(d, FALSE) PROVE FALSE
  BY <1>1, <1>3 DEF Create, Commit, Goto, LabelsFit, Permitted
<1>4. ASSUME NEW d \in Calls,
             \/ FindExistingMember(d) \/ Update(d) \/ Remove(d)
             \/ AddMember(d) \/ RemoveMember(d)
      PROVE  FALSE
  BY <1>1, <1>4 DEF FindExistingMember, Update, Remove, AddMember,
       RemoveMember, Commit, Goto, Permitted
<1>5. ASSUME NEW d \in Calls,
             Guard(d) \/ Fail(d) \/ \E b \in BOOLEAN : CheckParent(d, b)
      PROVE  FALSE
  BY <1>1, <1>5 DEF Guard, Fail, CheckParent, Goto, Permitted
<1>6. ASSUME NEW d \in Calls, CheckPermission(d) PROVE CheckPermission(c) /\ IsOwner(c)
  <2>0. PICK l : at' = [at EXCEPT ![d] = l] /\ (~IsOwner(d) => l = "forbidden")
    BY <1>6 DEF CheckPermission, Goto
  <2>1. d = c
    BY <1>1, <2>0
  <2>2. IsOwner(c)
    <3> SUFFICES ASSUME ~IsOwner(c) PROVE FALSE
      OBVIOUS
    <3>1. at'[c] = "forbidden"
      BY <2>0, <2>1
    <3> QED BY <3>1 DEF Permitted
  <2> QED BY <1>6, <2>1, <2>2
<1>7. CASE (\E S \in SUBSET live : Sweep(S)) \/ UNCHANGED vars
  BY <1>1, <1>7 DEF Sweep, vars
<1> QED BY <1>2, <1>3, <1>4, <1>5, <1>6, <1>7 DEF Next, CallStep

LEMMA ThroughStep ==
  ASSUME TypeOK, LabelsFit, OwnersWereMade, OnlyOwnersGetThrough, [Next]_vars
  PROVE  OnlyOwnersGetThrough'
<1> USE DEF TypeOK
<1> SUFFICES ASSUME NEW c \in Calls, at'[c] \in Permitted \cup {"ok"},
                    req'[c].op # "create"
             PROVE  WasMadeOwner(req[c].on, req[c].by)'
  BY DEF OnlyOwnersGetThrough, Permitted
<1> PICK w, u : w = req'[c].on /\ u = req'[c].by
  OBVIOUS
<1>1. ASSUME at[c] \in Permitted \cup {"ok"} PROVE WasMadeOwner(w, u)'
  <2>1. req'[c] = req[c]
    BY <1>1, CallsEnd DEF Permitted
  <2>2. WasMadeOwner(w, u)
    BY <1>1, <2>1 DEF OnlyOwnersGetThrough
  <2> QED BY <2>1, <2>2, MadeOwnersStay
<1>2. ASSUME at[c] \notin Permitted \cup {"ok"} PROVE CheckPermission(c) /\ IsOwner(c)
  BY <1>2, PassedTheCheck
<1>3. ASSUME CheckPermission(c), IsOwner(c) PROVE WasMadeOwner(w, u)'
  <2>1. req'[c] = req[c] /\ req[c].on \in Calls /\ req[c].by \in Users
    BY <1>3, RequestFields DEF CheckPermission
  <2>2. WasMadeOwner(w, u)
    BY <1>3, <2>1 DEF IsOwner, RequesterRole, OwnersWereMade
  <2> QED BY <2>1, <2>2, MadeOwnersStay
<1>4. WasMadeOwner(w, u)'
  BY <1>1, <1>2, <1>3
<1> QED BY ONLY <1>4, w = req'[c].on, u = req'[c].by DEF WasMadeOwner

(* Nobody passes a permission check who was not made OWNER of the resource  *)
(* by an earlier call, with any number of racing additions, removals and    *)
(* deletions: OnlyOwnersGetThrough for all constants.                      *)
THEOREM OnlyMadeOwnersGetThrough == Spec => []OnlyOwnersGetThrough
<1> DEFINE Inv == LabelsFit /\ OwnersWereMade /\ OnlyOwnersGetThrough
<1>1. Init => Inv
  BY DEF Init, NoRows, LabelsFit, OwnersWereMade, OnlyOwnersGetThrough, Permitted
<1>2. TypeOK /\ Inv /\ [Next]_vars => Inv'
  BY LabelsStep, OwnersStep, ThroughStep
<1> QED BY <1>1, <1>2, TypeCorrect, PTL DEF Spec

-----------------------------------------------------------------------------
(* Resources without an OWNER.                                             *)

LEMMA FrozenStep ==
  ASSUME TypeOK, NoOrphanRows, Born, LabelsFit, [Next]_vars,
         NEW w \in Calls, Frozen(w)
  PROVE  \/ Frozen(w)' /\ role'[w] = role[w]
         \/ HasParent /\ w \notin live'
<1> USE DEF TypeOK
<1> SUFFICES ASSUME ~(HasParent /\ w \notin live')
             PROVE  Frozen(w)' /\ role'[w] = role[w]
  OBVIOUS
<1>1. ASSUME NEW d \in Calls,
             \/ FindExistingMember(d) \/ Update(d) \/ Remove(d)
             \/ AddMember(d) \/ RemoveMember(d)
      PROVE  req[d].on # w /\ req[d].on \in Calls
  BY <1>1, RequestFields DEF Frozen, Permitted, FindExistingMember, Update, Remove,
       AddMember, RemoveMember
<1>2. w \in live' /\ role'[w] = role[w]
  <2>1. CASE UNCHANGED <<live, role>>
    BY <2>1 DEF Frozen
  <2>2. ASSUME NEW d \in Calls, Create(d, TRUE) \/ Create(d, FALSE)
        PROVE  w \in live' /\ role'[w] = role[w]
    <3>1. w # d
      BY <2>2 DEF Create, Born, Over, Frozen
    <3> QED BY <2>2, <3>1 DEF Create, Frozen
  <2>3. ASSUME NEW d \in Calls, Remove(d) \/ AddMember(d) \/ RemoveMember(d)
        PROVE  w \in live' /\ role'[w] = role[w]
    BY <1>1, <2>3 DEF Remove, Delete, AddMember, RemoveMember, PutRow, Frozen
  <2>4. CASE HasParent /\ \E S \in SUBSET live : Sweep(S)
    BY <2>4 DEF Sweep, Delete, Frozen
  <2>5. ASSUME NEW d \in Calls,
               \/ Receive(d) \/ Guard(d) \/ CheckPermission(d) \/ FindExistingMember(d)
               \/ Update(d) \/ Fail(d) \/ \E b \in BOOLEAN : CheckParent(d, b)
        PROVE  w \in live' /\ role'[w] = role[w]
    BY <2>1, <2>5 DEF Receive, Guard, CheckPermission, FindExistingMember, Update,
         Fail, CheckParent
  <2>6. CASE UNCHANGED vars
    BY <2>1, <2>6 DEF vars
  <2> QED BY <2>2, <2>3, <2>4, <2>5, <2>6 DEF Next, CallStep
<1>3. ASSUME NEW c \in Calls, at'[c] \in Permitted PROVE req'[c].on # w
  <2>1. CASE at[c] \in Permitted
    BY <2>1, CallsEnd DEF Frozen, Permitted
  <2>2. CASE at[c] \notin Permitted
    <3>0. at[c] \notin Permitted \cup {"ok"}
      BY <1>3, <2>2, CallsEnd DEF Over, Permitted
    <3>1. CheckPermission(c) /\ IsOwner(c)
      BY <1>3, <3>0, PassedTheCheck
    <3>2. req'[c] = req[c] /\ req[c].by \in Users
      BY <3>1, RequestFields DEF CheckPermission
    <3>3. role[req[c].on][req[c].by] = "OWNER"
      BY <3>1 DEF IsOwner, RequesterRole
    <3>4. role[w][req[c].by] # "OWNER"
      BY <3>2 DEF Frozen
    <3> QED BY <3>2, <3>3, <3>4
  <2> QED BY <2>1, <2>2
<1> QED BY <1>2, <1>3 DEF Frozen

LEMMA LabelsInvariant == Spec => []LabelsFit
<1>1. Init => LabelsFit
  BY DEF Init, LabelsFit
<1>2. TypeOK /\ LabelsFit /\ [Next]_vars => LabelsFit'
  BY LabelsStep
<1> QED BY <1>1, <1>2, TypeCorrect, PTL DEF Spec

(* Once a resource has no OWNER and no call past its permission check, its  *)
(* members never change again and nobody can delete it:                     *)
(* OwnerlessIsFrozen for all constants.                                    *)
THEOREM OwnerlessStaysFrozen == Spec => OwnerlessIsFrozen
<1>1. TypeOK /\ NoOrphanRows /\ Born /\ LabelsFit /\ [Next]_vars =>
        [\A w \in Calls :
            Frozen(w) => \/ Frozen(w)' /\ role'[w] = role[w]
                         \/ HasParent /\ w \notin live']_vars
  BY FrozenStep
<1> QED BY <1>1, BornInvariant, LabelsInvariant, PTL DEF Spec, OwnerlessIsFrozen

-----------------------------------------------------------------------------
(* Members of any role.                                                    *)

(* The calls that may have inserted the row of u on w.                      *)
Invited(w, u) == Asked({"create", "addMember"}, w, u, {"ok", "error"})

MembersWereInvited ==
    \A w \in Calls, u \in Users : role[w][u] # "none" => Invited(w, u) # {}

LEMMA InvitationsStay ==
  ASSUME TypeOK, [Next]_vars, NEW w, NEW u
  PROVE  Invited(w, u) \subseteq Invited(w, u)'
<1> SUFFICES ASSUME NEW c \in Invited(w, u) PROVE c \in Invited(w, u)'
  OBVIOUS
<1>1. c \in Calls /\ Over(c)
  BY DEF Invited, Asked, Over
<1>2. at'[c] = at[c] /\ req'[c] = req[c]
  BY <1>1, CallsEnd DEF Over
<1> QED BY <1>1, <1>2 DEF Invited, Asked

LEMMA InvitedStep ==
  ASSUME TypeOK, LabelsFit, MembersWereInvited, [Next]_vars
  PROVE  MembersWereInvited'
<1> USE DEF TypeOK
<1> SUFFICES ASSUME NEW w \in Calls, NEW u \in Users, role'[w][u] # "none"
             PROVE  Invited(w, u)' # {}
  BY DEF MembersWereInvited
<1>1. CASE role[w][u] # "none"
  BY <1>1, InvitationsStay DEF MembersWereInvited
<1>2. ASSUME role[w][u] = "none", NEW c \in Calls, Create(c, TRUE) \/ Create(c, FALSE)
      PROVE  Invited(w, u)' # {}
  <2>1. /\ req' = req /\ req[c].op = "create" /\ req[c].on = c
        /\ req[c].who = req[c].by
    BY <1>2 DEF Create, LabelsFit
  <2>2. w = c /\ u = req[c].by /\ at'[c] \in {"ok", "error"}
    BY <1>2 DEF Create, NoRows, Commit, Goto
  <2>3. c \in Invited(w, u)'
    BY <2>1, <2>2 DEF Invited, Asked
  <2> QED BY <2>3
<1>3. ASSUME role[w][u] = "none", NEW c \in Calls, AddMember(c)
      PROVE  Invited(w, u)' # {}
  <2>1. /\ req' = req /\ req[c].op = "addMember"
        /\ at'[c] \in {"ok", "error"} /\ PutRow(c, req[c].role)
    BY <1>3 DEF AddMember, Commit, Goto
  <2>2. w = req[c].on /\ u = req[c].who
    BY <1>3, <2>1 DEF PutRow
  <2>3. c \in Invited(w, u)'
    BY <2>1, <2>2 DEF Invited, Asked
  <2> QED BY <2>3
<1>4. ASSUME role[w][u] = "none", NEW c \in Calls, RemoveMember(c) PROVE FALSE
  BY <1>4 DEF RemoveMember, PutRow
<1>5. ASSUME role[w][u] = "none", NEW c \in Calls,
             Remove(c) \/ \E S \in SUBSET live : Sweep(S)
      PROVE  FALSE
  BY <1>5 DEF Remove, Sweep, Delete, NoRows
<1>6. CASE UNCHANGED role
  BY <1>1, <1>6
<1>7. CASE \/ UNCHANGED vars
           \/ \E c \in Calls :
                \/ Receive(c) \/ Guard(c) \/ CheckPermission(c) \/ FindExistingMember(c)
                \/ Update(c) \/ Fail(c) \/ \E b \in BOOLEAN : CheckParent(c, b)
  BY <1>6, <1>7 DEF Receive, Guard, CheckPermission, FindExistingMember, Update,
       Fail, CheckParent, vars
<1> QED BY <1>1, <1>2, <1>3, <1>4, <1>5, <1>7 DEF Next, CallStep

LEMMA InvitedInvariant == Spec => []MembersWereInvited
<1>1. Init => MembersWereInvited
  BY DEF Init, NoRows, MembersWereInvited
<1>2. TypeOK /\ LabelsFit /\ MembersWereInvited /\ [Next]_vars => MembersWereInvited'
  BY InvitedStep
<1> QED BY <1>1, <1>2, TypeCorrect, LabelsInvariant, PTL DEF Spec

-----------------------------------------------------------------------------
(* Answers and rows, a counting argument: a call is counted once, in the    *)
(* step that answers it, and that step is the one that changes the row.     *)

Arrived == {c \in Calls : at[c] # "idle"}

(* Only finitely many calls have arrived, about resources whose creation    *)
(* was answered.                                                           *)
Arrivals ==
    /\ IsFiniteSet(Arrived)
    /\ \A c \in Arrived : req[c].op # "create" => req[c].on \in Known

(* What a step does to the calls: one arrives, one moves on, or none.       *)
MovesOn(c, l) ==
    /\ at[c] # "idle" /\ ~Over(c)
    /\ l \in Permitted \cup Answers \cup {"check", "create"}
    /\ at' = [at EXCEPT ![c] = l]
    /\ req' = req

LEMMA OneCallMoves ==
  ASSUME TypeOK, [Next]_vars
  PROVE  \/ UNCHANGED <<at, req>>
         \/ \E c \in Calls : Receive(c)
         \/ \E c \in Calls : \E l : MovesOn(c, l)
<1>1. ASSUME NEW d \in Calls,
             \/ Guard(d) \/ CheckPermission(d) \/ FindExistingMember(d)
             \/ Update(d) \/ Remove(d) \/ AddMember(d) \/ RemoveMember(d)
             \/ Fail(d) \/ Create(d, TRUE) \/ Create(d, FALSE)
             \/ \E b \in BOOLEAN : CheckParent(d, b)
      PROVE  \E l : MovesOn(d, l)
  <2>1. req' = req /\ at[d] # "idle" /\ ~Over(d)
    BY <1>1 DEF Guard, CheckPermission, FindExistingMember, Update, Remove, Over,
         AddMember, RemoveMember, Fail, Create, CheckParent, InFlight, Permitted
  <2>2. \E l \in Permitted \cup Answers \cup {"check", "create"} :
            at' = [at EXCEPT ![d] = l]
    BY <1>1 DEF Guard, CheckPermission, FindExistingMember, Update, Remove,
         AddMember, RemoveMember, Fail, Create, CheckParent, Goto, Commit,
         Permitted, Answers
  <2> QED BY <2>1, <2>2 DEF MovesOn
<1>2. CASE (\E S \in SUBSET live : Sweep(S)) \/ UNCHANGED vars
  BY <1>2 DEF Sweep, vars
<1> QED BY <1>1, <1>2 DEF Next, CallStep

LEMMA ArrivalsStep == ASSUME TypeOK, Arrivals, [Next]_vars PROVE Arrivals'
<1> USE DEF TypeOK, Arrivals
<1>1. Known \subseteq Known'
  BY CallsEnd DEF Known, Over
<1>2. CASE UNCHANGED <<at, req>>
  BY <1>1, <1>2 DEF Arrived
<1>3. ASSUME NEW c \in Calls, Receive(c) PROVE Arrivals'
  <2>1. PICK r \in RequestsOf(c) : /\ req' = [req EXCEPT ![c] = r]
                                   /\ at' = [at EXCEPT ![c] = FirstAwait(r.op)]
    BY <1>3 DEF Receive, Goto
  <2>2. Arrived' \subseteq Arrived \cup {c}
    BY <2>1 DEF Arrived
  <2>3. IsFiniteSet(Arrived \cup {c})
    BY FS_AddElement
  <2>4. IsFiniteSet(Arrived')
    BY <2>2, <2>3, FS_Subset
  <2>5. r.op # "create" => r.on \in Known
    BY DEF RequestsOf
  <2>6. \A d \in Arrived' : req'[d].op # "create" => req'[d].on \in Known
    BY <1>3, <2>1, <2>2, <2>5 DEF Arrived, Receive
  <2> QED BY <1>1, <2>4, <2>6
<1>4. ASSUME NEW c \in Calls, NEW l, MovesOn(c, l) PROVE Arrivals'
  <2>1. Arrived' = Arrived
    BY <1>4 DEF MovesOn, Arrived, Permitted, Answers
  <2> QED BY <1>1, <1>4, <2>1 DEF MovesOn
<1> QED BY <1>2, <1>3, <1>4, OneCallMoves

(* Whether an answer l to call c counts.                                    *)
Counts(c, l, ops, w, u, answers) ==
    l \in answers /\ req[c].op \in ops /\ req[c].on = w /\ req[c].who = u

LEMMA AskedFinite ==
  ASSUME Arrivals, NEW ops, NEW w, NEW u, NEW answers \in SUBSET {"ok", "error"}
  PROVE  /\ IsFiniteSet(Asked(ops, w, u, answers))
         /\ Cardinality(Asked(ops, w, u, answers)) \in Nat
<1>1. Asked(ops, w, u, answers) \subseteq Arrived
  BY DEF Asked, Arrived
<1> QED BY <1>1, FS_Subset, FS_CardinalityType DEF Arrivals

LEMMA AskedGrows ==
  ASSUME TypeOK, Arrivals, NEW c \in Calls, NEW l, MovesOn(c, l),
         NEW ops, NEW w, NEW u, NEW answers \in SUBSET {"ok", "error"}
  PROVE  Cardinality(Asked(ops, w, u, answers)') =
           Cardinality(Asked(ops, w, u, answers))
             + IF Counts(c, l, ops, w, u, answers) THEN 1 ELSE 0
<1> DEFINE S == Asked(ops, w, u, answers)
<1>1. c \notin S
  BY DEF MovesOn, Over, Asked
<1>2. S' = IF Counts(c, l, ops, w, u, answers) THEN S \cup {c} ELSE S
  BY <1>1 DEF MovesOn, Counts, Asked, TypeOK
<1>3. IsFiniteSet(S) /\ Cardinality(S) \in Nat
  BY AskedFinite
<1>4. Cardinality(S \cup {c}) = Cardinality(S) + 1
  BY <1>1, <1>3, FS_AddElement
<1> HIDE DEF S
<1> QED BY <1>2, <1>3, <1>4 DEF S

LEMMA AskedStays ==
  ASSUME TypeOK, NEW c \in Calls, Receive(c) \/ UNCHANGED <<at, req>>,
         NEW ops, NEW w, NEW u, NEW answers \in SUBSET {"ok", "error"}
  PROVE  Asked(ops, w, u, answers)' = Asked(ops, w, u, answers)
<1>1. CASE UNCHANGED <<at, req>>
  BY <1>1 DEF Asked
<1>2. CASE Receive(c)
  <2>1. PICK r \in RequestsOf(c) : /\ req' = [req EXCEPT ![c] = r]
                                   /\ at' = [at EXCEPT ![c] = FirstAwait(r.op)]
    BY <1>2 DEF Receive, Goto
  <2>2. FirstAwait(r.op) \notin {"ok", "error"} /\ at[c] = "idle"
    BY <1>2 DEF FirstAwait, Receive
  <2> QED BY <2>1, <2>2 DEF Asked, TypeOK
<1> QED BY <1>1, <1>2

Account(w, u) ==
    /\ Added(w, u, {"ok"}) <= Rows(w, u) + Removed(w, u, {"ok", "error"})
    /\ Rows(w, u) + Removed(w, u, {"ok"}) <= Added(w, u, {"ok", "error"})

Concerns(c, ops, w, u) == req[c].op \in ops /\ req[c].on = w /\ req[c].who = u
Adds(c, w, u) == Concerns(c, {"create", "addMember"}, w, u)
Removes(c, w, u) == Concerns(c, {"removeMember"}, w, u)

LEMMA AccountTypes ==
  ASSUME Arrivals, NEW w, NEW u
  PROVE  /\ Rows(w, u) \in Nat
         /\ \A A \in SUBSET {"ok", "error"} :
                Added(w, u, A) \in Nat /\ Removed(w, u, A) \in Nat
  BY AskedFinite DEF Rows, Added, Removed

(* The account of a row survives the three ways a call can move on.         *)
LEMMA AccountMoves ==
  ASSUME TypeOK, Arrivals, Arrivals', NEW c \in Calls, NEW l, MovesOn(c, l),
         NEW w, NEW u, Account(w, u),
         \/ /\ Rows(w, u)' = Rows(w, u)
            /\ l # "ok" \/ ~(Adds(c, w, u) \/ Removes(c, w, u))
         \/ /\ Rows(w, u)' = Rows(w, u) + 1
            /\ l \in {"ok", "error"} /\ Adds(c, w, u)
         \/ /\ Rows(w, u) = Rows(w, u)' + 1
            /\ l \in {"ok", "error"} /\ Removes(c, w, u)
  PROVE  Account(w, u)'
<1> DEFINE Ok == {"ok"}  Any == {"ok", "error"}
<1>1. /\ Rows(w, u) \in Nat /\ Rows(w, u)' \in Nat
      /\ Added(w, u, Ok) \in Nat /\ Added(w, u, Any) \in Nat
      /\ Removed(w, u, Ok) \in Nat /\ Removed(w, u, Any) \in Nat
  <2>1. Rows(w, u)' \in Nat
    BY DEF Rows
  <2> QED BY <2>1, AccountTypes
<1>2. /\ Added(w, u, Ok)' = Added(w, u, Ok)
                           + IF l \in Ok /\ Adds(c, w, u) THEN 1 ELSE 0
      /\ Added(w, u, Any)' = Added(w, u, Any)
                            + IF l \in Any /\ Adds(c, w, u) THEN 1 ELSE 0
      /\ Removed(w, u, Ok)' = Removed(w, u, Ok)
                             + IF l \in Ok /\ Removes(c, w, u) THEN 1 ELSE 0
      /\ Removed(w, u, Any)' = Removed(w, u, Any)
                              + IF l \in Any /\ Removes(c, w, u) THEN 1 ELSE 0
  <2>1. ASSUME NEW A \in SUBSET {"ok", "error"}
        PROVE  /\ Added(w, u, A)' = Added(w, u, A)
                                   + IF l \in A /\ Adds(c, w, u) THEN 1 ELSE 0
               /\ Removed(w, u, A)' = Removed(w, u, A)
                                     + IF l \in A /\ Removes(c, w, u) THEN 1 ELSE 0
    <3>1. Cardinality(Asked({"create", "addMember"}, w, u, A)') =
            Cardinality(Asked({"create", "addMember"}, w, u, A))
              + IF Counts(c, l, {"create", "addMember"}, w, u, A) THEN 1 ELSE 0
      BY AskedGrows
    <3>2. Cardinality(Asked({"removeMember"}, w, u, A)') =
            Cardinality(Asked({"removeMember"}, w, u, A))
              + IF Counts(c, l, {"removeMember"}, w, u, A) THEN 1 ELSE 0
      BY AskedGrows
    <3> QED BY <3>1, <3>2 DEF Added, Removed, Counts, Adds, Removes, Concerns
  <2> QED BY <2>1
<1>3. ~(Adds(c, w, u) /\ Removes(c, w, u))
  BY DEF Adds, Removes, Concerns
<1> QED BY <1>1, <1>2, <1>3 DEF Account

(* A resource that is just created is known to nobody else.                 *)
LEMMA AccountOpens ==
  ASSUME TypeOK, Arrivals, Arrivals', LabelsFit, NoOrphanRows, Born,
         NEW w \in Calls, Create(w, TRUE) \/ Create(w, FALSE), w \in live',
         NEW u \in Users
  PROVE  Account(w, u)'
<1>1. /\ at[w] = "create" /\ req' = req /\ req[w].op = "create"
      /\ req[w].on = w /\ req[w].who = req[w].by
  BY DEF Create, LabelsFit
<1>2. PICK l \in {"ok", "error"} : at' = [at EXCEPT ![w] = l]
  BY DEF Create, Commit, Goto
<1>3. MovesOn(w, l)
  BY <1>1, <1>2 DEF MovesOn, Over, Permitted, Answers
<1>4. ASSUME NEW ops, NEW A \in SUBSET {"ok", "error"}
      PROVE  Cardinality(Asked(ops, w, u, A)) = 0
  <2>1. ASSUME NEW c \in Asked(ops, w, u, A) PROVE FALSE
    <3>1. c \in Arrived /\ req[c].on = w /\ c # w
      BY <1>1, <2>1 DEF Asked, Arrived
    <3>2. req[c].op # "create"
      BY <3>1 DEF LabelsFit, Arrived
    <3> QED BY <1>1, <3>1, <3>2 DEF Arrivals, Known
  <2>2. Asked(ops, w, u, A) = {}
    BY <2>1
  <2> QED BY <2>2, FS_EmptySet
<1>5. ASSUME NEW A \in SUBSET {"ok", "error"}
      PROVE  /\ Added(w, u, A)' = IF l \in A /\ u = req[w].by THEN 1 ELSE 0
             /\ Removed(w, u, A)' = 0
  <2>1. Cardinality(Asked({"create", "addMember"}, w, u, A)') =
          0 + IF Counts(w, l, {"create", "addMember"}, w, u, A) THEN 1 ELSE 0
    BY <1>3, <1>4, AskedGrows
  <2>2. Cardinality(Asked({"removeMember"}, w, u, A)') =
          0 + IF Counts(w, l, {"removeMember"}, w, u, A) THEN 1 ELSE 0
    BY <1>3, <1>4, AskedGrows
  <2> QED BY <1>1, <2>1, <2>2 DEF Added, Removed, Counts
<1>6. Rows(w, u)' = IF u = req[w].by THEN 1 ELSE 0
  <2>1. w \notin live
    BY <1>1 DEF Born, Over
  <2>2. role' = [role EXCEPT ![w] = [NoRows EXCEPT ![req[w].by] = "OWNER"]]
    BY <2>1 DEF Create
  <2>3. role'[w][u] = IF u = req[w].by THEN "OWNER" ELSE "none"
    BY <2>2 DEF TypeOK, NoRows
  <2> QED BY <2>3 DEF Rows
<1> QED BY <1>5, <1>6 DEF Account

LEMMA AccountStep ==
  ASSUME TypeOK, Arrivals, Arrivals', LabelsFit, NoOrphanRows, Born,
         AnswersAccountForRows, [Next]_vars
  PROVE  AnswersAccountForRows'
<1> USE DEF TypeOK
<1> SUFFICES ASSUME NEW w \in live', NEW u \in Users PROVE Account(w, u)'
  BY DEF AnswersAccountForRows, Account
<1>0. w \in live => Account(w, u)
  BY DEF AnswersAccountForRows, Account
<1>1. ASSUME NEW c \in Calls, Create(c, TRUE) \/ Create(c, FALSE)
      PROVE  Account(w, u)'
  <2>1. CASE w = c
    BY <1>1, <2>1, AccountOpens
  <2>2. CASE w # c
    <3>1. w \in live /\ role'[w] = role[w]
      BY <1>1, <2>2 DEF Create
    <3>2. PICK l \in {"ok", "error"} : at' = [at EXCEPT ![c] = l]
      BY <1>1 DEF Create, Commit, Goto
    <3>3. MovesOn(c, l)
      BY <1>1, <3>2 DEF MovesOn, Create, Over, Permitted, Answers
    <3>4. ~Adds(c, w, u) /\ ~Removes(c, w, u)
      BY <1>1, <2>2 DEF Create, LabelsFit, Adds, Removes, Concerns
    <3> QED BY <1>0, <3>1, <3>3, <3>4, AccountMoves DEF Rows
  <2> QED BY <2>1, <2>2
<1>2. ASSUME NEW c \in Calls,
             \/ Guard(c) \/ CheckPermission(c) \/ FindExistingMember(c) \/ Fail(c)
             \/ \E b \in BOOLEAN : CheckParent(c, b)
      PROVE  Account(w, u)'
  <2>1. w \in live /\ role' = role
    BY <1>2 DEF Guard, CheckPermission, FindExistingMember, Fail, CheckParent
  <2>2. \E l \in {"check", "create", "find", "write", "forbidden", "error"} :
            at' = [at EXCEPT ![c] = l]
    BY <1>2 DEF Guard, CheckPermission, FindExistingMember, Fail, CheckParent, Goto
  <2>3. \E l : l # "ok" /\ MovesOn(c, l)
    BY <1>2, <2>2 DEF MovesOn, Guard, CheckPermission, FindExistingMember, Fail,
         CheckParent, Over, InFlight, Permitted, Answers
  <2> QED BY <1>0, <2>1, <2>3, AccountMoves DEF Rows
<1>3. ASSUME NEW c \in Calls,
             Update(c) \/ Remove(c) \/ AddMember(c) \/ RemoveMember(c)
      PROVE  Account(w, u)'
  <2>1. /\ at[c] = "write" /\ req' = req /\ req[c].on \in Calls
        /\ req[c].who \in Users /\ req[c].role \in Roles
    BY <1>3, RequestFields DEF Update, Remove, AddMember, RemoveMember
  <2>2. PICK l \in {"ok", "error"} : at' = [at EXCEPT ![c] = l]
    BY <1>3 DEF Update, Remove, AddMember, RemoveMember, Commit, Goto
  <2>3. MovesOn(c, l)
    BY <2>1, <2>2 DEF MovesOn, Over, Permitted, Answers
  <2>4. CASE Update(c) \/ Remove(c)
    <3>1. ~Adds(c, w, u) /\ ~Removes(c, w, u)
      BY <2>4 DEF Update, Remove, Adds, Removes, Concerns
    <3>2. w \in live /\ role'[w] = role[w]
      BY <2>1, <2>4 DEF Update, Remove, Delete
    <3> QED BY <1>0, <2>3, <3>1, <3>2, AccountMoves DEF Rows
  <2>5. CASE AddMember(c)
    <3>1. w \in live /\ req[c].op = "addMember"
      BY <2>5 DEF AddMember
    <3>2. CASE Insertable(c) /\ w = req[c].on /\ u = req[c].who
      <4>1. role[w][u] = "none" /\ role'[w][u] = req[c].role
        BY <2>1, <2>5, <3>1, <3>2 DEF AddMember, PutRow, Insertable, TargetRole
      <4>2. Rows(w, u)' = Rows(w, u) + 1
        BY <2>1, <4>1 DEF Rows, Roles
      <4> QED BY <1>0, <2>3, <3>1, <3>2, <4>2, AccountMoves DEF Adds, Concerns
    <3>3. CASE Insertable(c) /\ ~(w = req[c].on /\ u = req[c].who)
      <4>1. role'[w][u] = role[w][u]
        BY <2>1, <2>5, <3>1, <3>3 DEF AddMember, PutRow
      <4> QED BY <1>0, <2>3, <3>1, <3>3, <4>1, AccountMoves
              DEF Rows, Adds, Removes, Concerns
    <3>4. CASE ~Insertable(c)
      <4>1. role' = role /\ at' = [at EXCEPT ![c] = "error"]
        BY <2>5, <3>4 DEF AddMember, Goto
      <4>2. MovesOn(c, "error")
        BY <2>1, <4>1 DEF MovesOn, Over, Permitted, Answers
      <4> QED BY <1>0, <3>1, <4>1, <4>2, AccountMoves DEF Rows
    <3> QED BY <3>2, <3>3, <3>4
  <2>6. CASE RemoveMember(c)
    <3>1. w \in live /\ req[c].op = "removeMember"
      BY <2>6 DEF RemoveMember
    <3>2. CASE TargetRole(c) # "none" /\ w = req[c].on /\ u = req[c].who
      <4>1. role[w][u] # "none" /\ role'[w][u] = "none"
        BY <2>1, <2>6, <3>1, <3>2 DEF RemoveMember, PutRow, TargetRole
      <4>2. Rows(w, u) = Rows(w, u)' + 1
        BY <4>1 DEF Rows
      <4> QED BY <1>0, <2>3, <3>1, <3>2, <4>2, AccountMoves DEF Removes, Concerns
    <3>3. CASE TargetRole(c) # "none" /\ ~(w = req[c].on /\ u = req[c].who)
      <4>1. role'[w][u] = role[w][u]
        BY <2>1, <2>6, <3>1, <3>3 DEF RemoveMember, PutRow
      <4> QED BY <1>0, <2>3, <3>1, <3>3, <4>1, AccountMoves
              DEF Rows, Adds, Removes, Concerns
    <3>4. CASE TargetRole(c) = "none"
      <4>1. role' = role /\ at' = [at EXCEPT ![c] = "error"]
        BY <2>6, <3>4 DEF RemoveMember, Goto
      <4>2. MovesOn(c, "error")
        BY <2>1, <4>1 DEF MovesOn, Over, Permitted, Answers
      <4> QED BY <1>0, <3>1, <4>1, <4>2, AccountMoves DEF Rows
    <3> QED BY <3>2, <3>3, <3>4
  <2> QED BY <1>3, <2>4, <2>5, <2>6
<1>4. CASE \/ UNCHANGED vars \/ \E c \in Calls : Receive(c)
           \/ \E S \in SUBSET live : Sweep(S)
  <2>1. w \in live /\ role'[w] = role[w]
    BY <1>4 DEF vars, Sweep, Delete, Receive
  <2>2. ASSUME NEW ops, NEW A \in SUBSET {"ok", "error"}
        PROVE  Asked(ops, w, u, A)' = Asked(ops, w, u, A)
    <3>1. w \in Calls
      BY <2>1
    <3>2. \E c \in Calls : Receive(c) \/ UNCHANGED <<at, req>>
      BY <1>4, <3>1 DEF vars, Sweep
    <3> QED BY <3>2, AskedStays
  <2>3. ASSUME NEW A \in SUBSET {"ok", "error"}
        PROVE  /\ Added(w, u, A)' = Added(w, u, A)
               /\ Removed(w, u, A)' = Removed(w, u, A)
    BY <2>2 DEF Added, Removed
  <2> QED BY <1>0, <2>1, <2>3 DEF Account, Rows
<1> QED BY <1>1, <1>2, <1>3, <1>4 DEF Next, CallStep

(* On a resource that exists, answers account for rows whatever calls race  *)
(* and however many there are: AnswersAccountForRows for all constants.    *)
THEOREM AnswersAddUp == Spec => []AnswersAccountForRows
<1>1. Init => Arrivals /\ AnswersAccountForRows
  <2>1. Init => Arrived = {}
    BY DEF Init, Arrived
  <2> QED BY <2>1, FS_EmptySet DEF Init, Arrivals, AnswersAccountForRows
<1>2. TypeOK /\ Arrivals /\ [Next]_vars => Arrivals'
  BY ArrivalsStep
<1>3. /\ TypeOK /\ Arrivals /\ LabelsFit /\ NoOrphanRows /\ Born
      /\ AnswersAccountForRows /\ Arrivals' /\ [Next]_vars
      => AnswersAccountForRows'
  BY AccountStep
<1> QED BY <1>1, <1>2, <1>3, BornInvariant, LabelsInvariant, PTL DEF Spec
=============================================================================
