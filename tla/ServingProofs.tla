--------------------------- MODULE ServingProofs ---------------------------
(***************************************************************************)
(* Theorems about Serving, for any number of requests, users and URLs.     *)
(***************************************************************************)
EXTENDS Serving, FiniteSetTheorems, TLAPS

USE DEF instance, counters

-----------------------------------------------------------------------------
(* Types, and who serves: a request knows its application because only      *)
(* ready ones are handed out.                                              *)

Labels == Running \cup {"idle", "ok", "error", "refused", "failed"}
InAppLabels == {"guard", "lookup", "query", "reply"}

Typed ==
    /\ TypeOK /\ OnlyReadyAppsServe
    /\ \A r \in Requests : at[r] = "lookup" => req[r].url \in ListUrls

(* What a request that is being served carries.                             *)
LEMMA Served ==
  ASSUME Typed, NEW r \in Requests, at[r] \in InAppLabels
  PROVE  /\ app[r] \in Requests /\ app[r] \in ready /\ app[r] # Nothing
         /\ req[r] \in Request
         /\ req[r].user \in Users /\ req[r].url \in ListUrls \cup OtherUrls
  BY ServingAssumption DEF Typed, TypeOK, OnlyReadyAppsServe, InAppLabels, Request

(* The part of Typed that Goto disturbs.                                    *)
LEMMA Labelled ==
  ASSUME TypeOK, NEW r \in Requests, NEW label \in Labels, Goto(r, label)
  PROVE  /\ at' \in [Requests -> Labels] /\ at'[r] = label
         /\ \A q \in Requests \ {r} : at'[q] = at[q]
  BY DEF TypeOK, Goto, Labels

LEMMA TypedStep == ASSUME Typed, [Next]_vars PROVE Typed'
<1> USE ServingAssumption DEF Labels
<1>1. CASE UNCHANGED vars
  BY <1>1 DEF Typed, TypeOK, OnlyReadyAppsServe, vars
<1>2. ASSUME NEW r \in Requests, Receive(r) PROVE Typed'
  <2>1. /\ at' \in [Requests -> Labels] /\ at'[r] \in {"create", "guard"}
        /\ cachedApp = Nothing => at'[r] = "create"
        /\ \A q \in Requests \ {r} : at'[q] = at[q]
    BY <1>2, Labelled DEF Typed, Receive, Running
  <2>2. /\ req' \in [Requests -> Request \cup {Nothing}] /\ req'[r] \in Request
        /\ \A q \in Requests \ {r} : req'[q] = req[q]
    BY <1>2 DEF Typed, TypeOK, Receive
  <2>3. /\ app' \in [Requests -> Requests \cup {Nothing}] /\ app'[r] = cachedApp
        /\ \A q \in Requests \ {r} : app'[q] = app[q]
    BY <1>2 DEF Typed, TypeOK, Receive
  <2>4. req'[r] # Nothing
    BY <2>2
  <2>5. UNCHANGED <<got, instance, counters, rows>>
    BY <1>2 DEF Receive
  <2>6. TypeOK'
    BY <2>1, <2>2, <2>3, <2>4, <2>5 DEF Typed, TypeOK, Counted
  <2> QED
    BY <2>1, <2>2, <2>3, <2>5, <2>6 DEF Typed, OnlyReadyAppsServe
<1>3. ASSUME NEW r \in Requests, CreateApp(r) PROVE Typed'
  <2>1. /\ at' \in [Requests -> Labels] /\ at'[r] = "init"
        /\ \A q \in Requests \ {r} : at'[q] = at[q]
    BY <1>3, Labelled DEF Typed, CreateApp, Running
  <2> QED
    BY <1>3, <2>1 DEF Typed, TypeOK, OnlyReadyAppsServe, CreateApp, Counted
<1>11. ASSUME NEW r \in Requests, InitApp(r) PROVE Typed'
  <2>1. /\ at' \in [Requests -> Labels] /\ at'[r] \in {"guard", "failed"}
        /\ \A q \in Requests \ {r} : at'[q] = at[q]
    BY <1>11, Labelled DEF Typed, InitApp, Running
  <2>2. /\ ready \subseteq ready' /\ ready' \subseteq Requests
        /\ cachedApp' \in ready' \cup {Nothing}
    BY <1>11 DEF Typed, TypeOK, OnlyReadyAppsServe, InitApp
  <2>3. /\ app' \in [Requests -> Requests \cup {Nothing}]
        /\ at'[r] = "guard" => app'[r] \in ready' /\ app'[r] # Nothing
        /\ \A q \in Requests \ {r} : app'[q] = app[q]
    BY <1>11, <2>1 DEF Typed, TypeOK, InitApp, Goto
  <2>4. at[r] # "idle" /\ UNCHANGED <<req, got, cache, counters, rows>>
    BY <1>11 DEF InitApp
  <2>5. OnlyReadyAppsServe'
    BY <2>1, <2>2, <2>3 DEF Typed, OnlyReadyAppsServe
  <2>6. TypeOK'
    BY <2>1, <2>2, <2>3, <2>4 DEF Typed, TypeOK, Counted
  <2> QED
    BY <2>1, <2>4, <2>5, <2>6 DEF Typed
<1>4. ASSUME NEW r \in Requests, Abort(r) PROVE Typed'
  <2>1. at' \in [Requests -> Labels]
    BY <1>4 DEF Typed, TypeOK, Abort
  <2>2. \A q \in Requests : at'[q] \in {at[q], "failed"} /\ at'[q] \notin Running
    BY <1>4 DEF Typed, TypeOK, Abort, Running
  <2>3. cache' \in [Requests -> [ListUrls -> List \cup {Nothing}]]
    BY <1>4 DEF Abort, NoEntries
  <2> QED
    BY <1>4, <2>1, <2>2, <2>3
    DEF Typed, TypeOK, OnlyReadyAppsServe, Abort, Running, Counted
<1>5. ASSUME NEW r \in Requests, Guard(r) PROVE Typed'
  <2>1. /\ at' \in [Requests -> Labels] /\ at'[r] \in {"refused", "lookup", "query"}
        /\ at'[r] = "lookup" => req[r].url \in ListUrls
        /\ \A q \in Requests \ {r} : at'[q] = at[q]
    BY <1>5, Labelled DEF Typed, Guard, Running
  <2>2. app[r] \in ready /\ app[r] \in Requests /\ app[r] # Nothing /\ at[r] # "idle"
    BY <1>5, Served DEF Guard, InAppLabels
  <2>3. requestCounter' \in [Requests -> Nat]
    BY <1>5, <2>2 DEF Typed, TypeOK, Guard, Bump
  <2> QED
    BY <1>5, <2>1, <2>2, <2>3 DEF Typed, TypeOK, OnlyReadyAppsServe, Guard, Counted
<1>6. ASSUME NEW r \in Requests, LookUp(r) PROVE Typed'
  <2>1. /\ at' \in [Requests -> Labels] /\ at'[r] \in {"ok", "query"}
        /\ \A q \in Requests \ {r} : at'[q] = at[q]
    BY <1>6, Labelled DEF Typed, LookUp, Answer, Running
  <2>2. app[r] \in ready /\ app[r] \in Requests /\ app[r] # Nothing /\ at[r] # "idle"
    BY <1>6, Served DEF LookUp, InAppLabels
  <2>3. Entry(r) \in List \cup {Nothing}
    BY <1>6, <2>2 DEF Typed, TypeOK, LookUp, Entry
  <2>4. /\ got' \in [Requests -> List \cup {Nothing}]
        /\ timesRecorded' \in [Requests -> Nat]
        /\ UNCHANGED <<requestCounter, errorCounter>>
    <3>1. CASE Entry(r) # Nothing
      <4>1. got' = [got EXCEPT ![r] = Entry(r)] /\ timesRecorded' = Bump(timesRecorded, r)
            /\ UNCHANGED <<requestCounter, errorCounter>>
        BY <1>6, <3>1 DEF LookUp, Answer
      <4> QED
        BY <2>2, <2>3, <4>1 DEF Typed, TypeOK, Bump
    <3>2. CASE Entry(r) = Nothing
      BY <1>6, <3>2 DEF Typed, TypeOK, LookUp
    <3> QED
      BY <3>1, <3>2
  <2> QED
    BY <1>6, <2>1, <2>2, <2>4 DEF Typed, TypeOK, OnlyReadyAppsServe, LookUp, Counted
<1>7. ASSUME NEW r \in Requests, Query(r) PROVE Typed'
  <2>1. /\ app[r] \in ready /\ req[r].user \in Users
        /\ rows[req[r].user] \in Nat
    BY <1>7, Served DEF Typed, TypeOK, Query, InAppLabels
  <2>2. [of |-> req[r].user, version |-> rows[req[r].user]] \in List
    BY <2>1 DEF List
  <2>3. got' \in [Requests -> List \cup {Nothing}]
    BY <1>7, <2>2 DEF Typed, TypeOK, Query
  <2>4. rows' \in [Users -> Nat]
    BY <1>7 DEF Typed, TypeOK, Query
  <2>5. /\ at' \in [Requests -> Labels] /\ at'[r] = "reply"
        /\ \A q \in Requests \ {r} : at'[q] = at[q]
    BY <1>7, Labelled DEF Typed, Query, Running
  <2> QED
    BY <1>7, <2>1, <2>3, <2>4, <2>5 DEF Typed, TypeOK, OnlyReadyAppsServe, Query, Counted
<1>8. ASSUME NEW r \in Requests, Fail(r) PROVE Typed'
  <2>1. /\ at' \in [Requests -> Labels] /\ at'[r] = "error"
        /\ \A q \in Requests \ {r} : at'[q] = at[q]
    BY <1>8, Labelled DEF Typed, Fail, Running
  <2>2. app[r] \in Requests /\ app[r] # Nothing /\ at[r] # "idle"
    BY <1>8, Served DEF Fail, InAppLabels
  <2>3. errorCounter' \in [Requests -> Nat] /\ timesRecorded' \in [Requests -> Nat]
    BY <1>8, <2>2 DEF Typed, TypeOK, Fail, Bump
  <2>4. UNCHANGED <<req, app, got, instance, requestCounter, rows>>
    BY <1>8 DEF Fail
  <2>5. OnlyReadyAppsServe'
    BY <2>1, <2>4 DEF Typed, OnlyReadyAppsServe
  <2>6. TypeOK'
    BY <2>1, <2>2, <2>3, <2>4 DEF Typed, TypeOK, Counted
  <2> QED
    BY <2>1, <2>4, <2>5, <2>6 DEF Typed
<1>9. ASSUME NEW r \in Requests, Reply(r) PROVE Typed'
  <2>1. app[r] \in ready /\ app[r] \in Requests
    BY <1>9, Served DEF Reply, InAppLabels
  <2>5. app[r] # Nothing /\ at[r] # "idle"
    BY <1>9, Served DEF Reply, InAppLabels
  <2>3. /\ at' \in [Requests -> Labels] /\ at'[r] = "ok"
        /\ \A q \in Requests \ {r} : at'[q] = at[q]
    BY <1>9, Labelled DEF Typed, Reply, Answer, Running
  <2>2. cache' \in [Requests -> [ListUrls -> List \cup {Nothing}]]
    BY <1>9, <2>1 DEF Typed, TypeOK, Reply
  <2>4. timesRecorded' \in [Requests -> Nat]
    BY <1>9, <2>1 DEF Typed, TypeOK, Reply, Answer, Bump
  <2>6. UNCHANGED <<req, app, got, cachedApp, ready, requestCounter, errorCounter, rows>>
    BY <1>9 DEF Reply, Answer
  <2>7. OnlyReadyAppsServe'
    BY <2>3, <2>6 DEF Typed, OnlyReadyAppsServe
  <2>8. TypeOK'
    BY <2>2, <2>3, <2>4, <2>5, <2>6 DEF Typed, TypeOK, Counted
  <2> QED
    BY <2>3, <2>6, <2>7, <2>8 DEF Typed
<1>10. ASSUME NEW a \in Requests, NEW l \in ListUrls, Expire(a, l) PROVE Typed'
  BY <1>10 DEF Typed, TypeOK, OnlyReadyAppsServe, Expire
<1> QED
  BY <1>1, <1>2, <1>3, <1>4, <1>5, <1>6, <1>7, <1>8, <1>9, <1>10,
     <1>11 DEF Next, Proceed

LEMMA TypedInvariant == Spec => []Typed
<1>1. Init => Typed
  BY ServingAssumption DEF Init, Typed, TypeOK, OnlyReadyAppsServe, NoEntries, Zeros, Counted
<1> QED
  BY <1>1, TypedStep, PTL DEF Spec

(* The types of the model hold for any number of requests.                  *)
THEOREM TypeCorrect == Spec => []TypeOK
  BY TypedInvariant, PTL DEF Typed

(* serverless.ts hands no request to an application whose init has not      *)
(* succeeded, however many are being built, fail or abort.                 *)
THEOREM ServedByReadyApps == Spec => []OnlyReadyAppsServe
  BY TypedInvariant, PTL DEF Typed

-----------------------------------------------------------------------------
(* Counters.  Until its init is done, an application has served nobody and  *)
(* counted nothing.                                                        *)

Unborn ==
    \A a \in Requests :
        at[a] \in {"idle", "create", "init"} =>
            /\ a \notin ready
            /\ requestCounter[a] = 0 /\ errorCounter[a] = 0 /\ timesRecorded[a] = 0
            /\ \A r \in Requests : app[r] # a

LEMMA UnbornStep == ASSUME Typed, Unborn, [Next]_vars PROVE Unborn'
<1> USE ServingAssumption DEF Goto
<1>1. CASE UNCHANGED vars
  BY <1>1 DEF Unborn, vars
<1>2. ASSUME NEW r \in Requests, Receive(r) PROVE Unborn'
  BY <1>2 DEF Unborn, Typed, TypeOK, OnlyReadyAppsServe, Receive
<1>3. ASSUME NEW r \in Requests, CreateApp(r) \/ InitApp(r) \/ Abort(r) PROVE Unborn'
  BY <1>3 DEF Unborn, Typed, TypeOK, CreateApp, InitApp, Abort, Running
<1>4. ASSUME NEW r \in Requests, Guard(r) \/ LookUp(r) \/ Query(r) \/ Fail(r) \/ Reply(r)
      PROVE  Unborn'
  <2>1. app[r] \in Requests /\ app[r] \in ready /\ at[r] \in InAppLabels
    BY <1>4, Served DEF InAppLabels, Guard, LookUp, Query, Fail, Reply
  <2>2. /\ at'[r] \notin {"idle", "create", "init"}
        /\ \A q \in Requests \ {r} : at'[q] = at[q]
        /\ app' = app /\ ready' = ready
    BY <1>4 DEF Typed, TypeOK, Guard, LookUp, Query, Fail, Reply, Answer
  <2>3. \A a \in Requests \ {app[r]} : /\ requestCounter'[a] = requestCounter[a]
                                      /\ errorCounter'[a] = errorCounter[a]
                                      /\ timesRecorded'[a] = timesRecorded[a]
    BY <1>4, <2>1 DEF Typed, TypeOK, Guard, LookUp, Query, Fail, Reply, Answer, Bump
  <2> QED
    BY <2>1, <2>2, <2>3 DEF Unborn
<1>5. ASSUME NEW a \in Requests, NEW l \in ListUrls, Expire(a, l) PROVE Unborn'
  BY <1>5 DEF Unborn, Expire
<1> QED
  BY <1>1, <1>2, <1>3, <1>4, <1>5 DEF Next, Proceed

(* How the requests of an application change when request r moves.          *)
LEMMA ServedByMoves ==
  ASSUME NEW r \in Requests, NEW a, NEW L,
         \A q \in Requests \ {r} : at'[q] = at[q] /\ app'[q] = app[q]
  PROVE  /\ (r \in ServedBy(a, L) <=> r \in ServedBy(a, L)')
              => ServedBy(a, L)' = ServedBy(a, L)
         /\ r \notin ServedBy(a, L) /\ r \in ServedBy(a, L)'
              => Cardinality(ServedBy(a, L)') = Cardinality(ServedBy(a, L)) + 1
         /\ Cardinality(ServedBy(a, L)) \in Nat
<1>1. IsFiniteSet(ServedBy(a, L))
  BY FS_Subset, ServingAssumption DEF ServedBy
<1>2. ASSUME r \notin ServedBy(a, L), r \in ServedBy(a, L)'
      PROVE  ServedBy(a, L)' = ServedBy(a, L) \cup {r}
  BY <1>2 DEF ServedBy
<1>3. (r \in ServedBy(a, L) <=> r \in ServedBy(a, L)') => ServedBy(a, L)' = ServedBy(a, L)
  BY DEF ServedBy
<1> QED
  BY <1>1, <1>2, <1>3, FS_AddElement, FS_CardinalityType

LEMMA CountersStep ==
  ASSUME Typed, Unborn, CountersAccount, [Next]_vars PROVE CountersAccount'
<1> USE ServingAssumption DEF Goto
<1>1. CASE UNCHANGED vars
  BY <1>1 DEF CountersAccount, ServedBy, vars
<1>2. ASSUME NEW r \in Requests, Receive(r) \/ CreateApp(r) PROVE CountersAccount'
  <2>1. /\ \A q \in Requests \ {r} : at'[q] = at[q] /\ app'[q] = app[q]
        /\ at[r] \notin Counted /\ at'[r] \notin Counted
        /\ UNCHANGED <<ready, counters>>
    BY <1>2 DEF Typed, TypeOK, Receive, CreateApp, Counted
  <2>2. \A a, L : L \subseteq Counted => ServedBy(a, L)' = ServedBy(a, L)
    BY <2>1 DEF ServedBy
  <2> QED
    BY <2>1, <2>2 DEF CountersAccount, Counted
<1>3. ASSUME NEW r \in Requests, Abort(r) PROVE CountersAccount'
  BY <1>3 DEF Abort, CountersAccount
<1>4. ASSUME NEW r \in Requests, InitApp(r) PROVE CountersAccount'
  <2>1. /\ \A q \in Requests \ {r} : at'[q] = at[q] /\ app'[q] = app[q]
        /\ at[r] \notin Counted /\ at'[r] \notin Counted
        /\ UNCHANGED counters /\ ready' \subseteq ready \cup {r}
    BY <1>4 DEF Typed, TypeOK, InitApp, Counted
  <2>2. \A a, L : L \subseteq Counted => ServedBy(a, L)' = ServedBy(a, L)
    BY <2>1 DEF ServedBy
  <2>3. /\ requestCounter[r] = 0 /\ errorCounter[r] = 0 /\ timesRecorded[r] = 0
        /\ \A L : ServedBy(r, L) = {}
    BY <1>4 DEF Unborn, InitApp, ServedBy
  <2>4. \A a, L : L \subseteq Counted
            => Cardinality(ServedBy(a, L)') = Cardinality(ServedBy(a, L))
    BY <2>2
  <2>5. \A L : Cardinality(ServedBy(r, L)) = 0
    BY <2>3, FS_EmptySet
  <2>6. {"error"} \subseteq Counted /\ {"ok", "error"} \subseteq Counted
    BY DEF Counted
  <2> SUFFICES ASSUME NEW a \in ready'
               PROVE  /\ requestCounter'[a] = Cardinality(ServedBy(a, Counted)')
                      /\ errorCounter'[a] = Cardinality(ServedBy(a, {"error"})')
                      /\ timesRecorded'[a] = Cardinality(ServedBy(a, {"ok", "error"})')
    BY DEF CountersAccount, ServedBy
  <2>7. CASE a = r
    BY <2>1, <2>3, <2>4, <2>5, <2>6, <2>7
  <2>8. CASE a \in ready
    BY <2>1, <2>4, <2>6, <2>8 DEF CountersAccount
  <2> QED
    BY <2>1, <2>7, <2>8
<1>5. ASSUME NEW r \in Requests, Guard(r) \/ LookUp(r) \/ Query(r) \/ Fail(r) \/ Reply(r)
      PROVE  CountersAccount'
  <2>1. /\ app[r] \in Requests /\ at[r] \in InAppLabels
        /\ \A q \in Requests \ {r} : at'[q] = at[q] /\ app'[q] = app[q]
        /\ app'[r] = app[r] /\ ready' = ready
    BY <1>5, Served DEF Typed, TypeOK, InAppLabels, Guard, LookUp, Query, Fail, Reply, Answer
  <2> SUFFICES ASSUME NEW a \in ready
               PROVE  /\ requestCounter'[a] = Cardinality(ServedBy(a, Counted)')
                      /\ errorCounter'[a] = Cardinality(ServedBy(a, {"error"})')
                      /\ timesRecorded'[a] = Cardinality(ServedBy(a, {"ok", "error"})')
    BY <2>1 DEF CountersAccount, ServedBy
  <2> DEFINE Grows(L) == a = app[r] /\ at[r] \notin L /\ at'[r] \in L
             Gain(L) == IF Grows(L) THEN 1 ELSE 0
  <2>2. ASSUME NEW L, at[r] \in L => at'[r] \in L
        PROVE  Cardinality(ServedBy(a, L)') = Cardinality(ServedBy(a, L)) + Gain(L)
    <3>1. CASE Grows(L)
      <4>1. r \notin ServedBy(a, L) /\ r \in ServedBy(a, L)'
        BY <2>1, <3>1 DEF ServedBy
      <4> QED
        BY <2>1, <3>1, <4>1, ServedByMoves
    <3>2. CASE ~Grows(L)
      <4>1. r \in ServedBy(a, L) <=> r \in ServedBy(a, L)'
        BY <2>1, <2>2, <3>2 DEF ServedBy
      <4> QED
        BY <2>1, <3>2, <4>1, ServedByMoves
    <3> QED
      BY <3>1, <3>2
  <2>3. /\ requestCounter'[a] = requestCounter[a] + Gain(Counted)
        /\ errorCounter'[a] = errorCounter[a] + Gain({"error"})
        /\ timesRecorded'[a] = timesRecorded[a] + Gain({"ok", "error"})
        /\ at[r] \in Counted => at'[r] \in Counted
        /\ at[r] \notin {"ok", "error"}
    <3> USE <2>1 DEF Typed, TypeOK, Counted
    <3>1. CASE Guard(r)
      BY <3>1 DEF Guard, Bump
    <3>2. CASE LookUp(r)
      BY <3>2 DEF LookUp, Answer, Bump
    <3>3. CASE Query(r)
      BY <3>3 DEF Query
    <3>4. CASE Fail(r)
      BY <3>4 DEF Fail, Bump
    <3>5. CASE Reply(r)
      BY <3>5 DEF Reply, Answer, Bump
    <3> QED
      BY <1>5, <3>1, <3>2, <3>3, <3>4, <3>5
  <2> HIDE DEF Gain
  <2> QED
    BY <2>2, <2>3 DEF CountersAccount
<1>6. ASSUME NEW a \in Requests, NEW l \in ListUrls, Expire(a, l) PROVE CountersAccount'
  BY <1>6 DEF CountersAccount, ServedBy, Expire
<1> QED
  BY <1>1, <1>2, <1>3, <1>4, <1>5, <1>6 DEF Next, Proceed

(* LoggingInterceptor and MetricsService: whatever starts, answers, errors  *)
(* and cache hits race, no request of an application is left out of its     *)
(* counters or counted twice.                                              *)
THEOREM CountersAreRight == Spec => []CountersAccount
<1>1. Init => Unborn /\ CountersAccount
  BY ServingAssumption DEF Init, Unborn, CountersAccount, Zeros
<1> QED
  BY <1>1, TypedInvariant, UnbornStep, CountersStep, PTL DEF Spec

-----------------------------------------------------------------------------
(* How requests end.  RequestsEnd itself, which needs fairness, is checked  *)
(* by TLC; what is proved is that no step can ever be taken back.           *)

(* The most steps that a request still takes.                               *)
ToGo(r) ==
    CASE at[r] = "idle"   -> 7
      [] at[r] = "create" -> 6
      [] at[r] = "init"   -> 5
      [] at[r] = "guard"  -> 4
      [] at[r] = "lookup" -> 3
      [] at[r] = "query"  -> 2
      [] at[r] = "reply"  -> 1
      [] OTHER            -> 0

RequestAdvances(r) ==
    /\ ToGo(r)' <= ToGo(r)
    /\ Receive(r) \/ Proceed(r) => ToGo(r)' < ToGo(r)

LEMMA MoveAdvances ==
  ASSUME Typed, NEW r \in Requests, Receive(r) \/ Proceed(r)
  PROVE  /\ ToGo(r)' < ToGo(r)
         /\ \A q \in Requests \ {r} : ToGo(q)' <= ToGo(q)
<1> USE DEF ToGo, Running
<1>1. CASE Abort(r)
  <2>1. \A q \in Requests : at'[q] = IF at[q] \in Running THEN "failed" ELSE at[q]
    BY <1>1 DEF Abort
  <2>2. at[r] = "create"
    BY <1>1 DEF Abort
  <2> QED
    BY <2>1, <2>2
<1>2. CASE ~Abort(r)
  <2>1. \A q \in Requests \ {r} : at'[q] = at[q]
    BY <1>2 DEF Typed, TypeOK, Goto, Proceed, Receive, CreateApp, InitApp, Guard,
                LookUp, Query, Fail, Reply, Answer
  <2>2. ToGo(r)' < ToGo(r)
    <3> USE DEF Typed, TypeOK, Goto
    <3>1. CASE Receive(r)
      BY <3>1 DEF Receive
    <3>2. CASE CreateApp(r) \/ InitApp(r)
      BY <3>2 DEF CreateApp, InitApp
    <3>3. CASE Guard(r)
      BY <3>3 DEF Guard
    <3>4. CASE LookUp(r)
      BY <3>4 DEF LookUp, Answer
    <3>5. CASE Query(r)
      BY <3>5 DEF Query
    <3>6. CASE Fail(r) \/ Reply(r)
      BY <3>6 DEF Fail, Reply, Answer
    <3> QED
      BY <1>2, <3>1, <3>2, <3>3, <3>4, <3>5, <3>6 DEF Proceed
  <2> QED
    BY <2>1, <2>2
<1> QED
  BY <1>1, <1>2

(* No failed start, abort, cache hit or error sends a request back: whatever *)
(* the others do, it ends after at most seven steps of its own.            *)
THEOREM RequestsAdvance == Spec => [][\A r \in Requests : RequestAdvances(r)]_vars
<1>1. ASSUME Typed, [Next]_vars PROVE [\A r \in Requests : RequestAdvances(r)]_vars
  <2>1. ASSUME NEW q \in Requests, Receive(q) \/ Proceed(q)
        PROVE  \A r \in Requests : ToGo(r)' <= ToGo(r)
    <3>1. \A r \in Requests : ToGo(r) \in 0..7 /\ ToGo(r)' \in 0..7
      BY DEF ToGo
    <3> QED
      BY <1>1, <2>1, <3>1, MoveAdvances
  <2>2. ASSUME NEW a \in Requests, NEW l \in ListUrls, Expire(a, l)
        PROVE  \A r \in Requests : ToGo(r)' <= ToGo(r)
    BY <2>2 DEF Expire, ToGo
  <2>3. ASSUME NEW r \in Requests, Receive(r) \/ Proceed(r) PROVE ToGo(r)' < ToGo(r)
    BY <1>1, <2>3, MoveAdvances
  <2> QED
    BY <1>1, <2>1, <2>2, <2>3 DEF Next, RequestAdvances
<1> QED
  BY <1>1, TypedInvariant, PTL DEF Spec

-----------------------------------------------------------------------------
(* Staleness, which ListsSettle waits to see the end of.                    *)

DrainsInStep ==
    /\ StaleReplies' \subseteq StaleReplies
    /\ StaleEntries' \ StaleEntries
           \subseteq {<<app[r], req[r].url>> : r \in StaleReplies \ StaleReplies'}

(* A step that leaves rows, the lists on their way and the caches alone.    *)
LEMMA NothingMoves ==
  ASSUME UNCHANGED <<cache, rows>>,
         \A q \in Requests : at'[q] = "reply" =>
             /\ at[q] = "reply"
             /\ got'[q] = got[q] /\ req'[q] = req[q]
  PROVE  DrainsInStep
  BY DEF DrainsInStep, StaleReplies, StaleEntries, Stale

LEMMA DrainsStep ==
  ASSUME Typed, [Next]_vars, rows' = rows
  PROVE  DrainsInStep
<1>1. CASE UNCHANGED vars
  BY <1>1 DEF vars, DrainsInStep, StaleReplies, StaleEntries, Stale
<1>2. ASSUME NEW r \in Requests,
             Receive(r) \/ CreateApp(r) \/ InitApp(r) \/ Guard(r) \/ LookUp(r) \/ Fail(r)
      PROVE  DrainsInStep
  <2>1. UNCHANGED cache
    BY <1>2 DEF Receive, CreateApp, InitApp, Guard, LookUp, Fail
  <2>2. \A q \in Requests : at'[q] = "reply" =>
            at[q] = "reply" /\ got'[q] = got[q] /\ req'[q] = req[q]
    BY <1>2 DEF Typed, TypeOK, Receive, CreateApp, InitApp, Guard, LookUp, Answer,
                Fail, Goto
  <2> QED
    BY <2>1, <2>2, NothingMoves
<1>3. ASSUME NEW r \in Requests, Abort(r) PROVE DrainsInStep
  <2>1. StaleReplies' = {}
    BY <1>3 DEF Abort, StaleReplies, Running
  <2>2. StaleEntries' = {}
    BY <1>3 DEF Abort, NoEntries, StaleEntries, Stale
  <2> QED
    BY <2>1, <2>2 DEF DrainsInStep
<1>4. ASSUME NEW r \in Requests, Query(r) PROVE DrainsInStep
  <2>1. ~Stale(got[r])' \/ req[r].url \notin ListUrls
    BY <1>4 DEF Typed, TypeOK, Query, Stale
  <2>2. /\ UNCHANGED <<req, cache>>
        /\ \A q \in Requests \ {r} : at'[q] = at[q] /\ got'[q] = got[q]
    BY <1>4 DEF Typed, TypeOK, Query, Goto
  <2> QED
    BY <2>1, <2>2 DEF DrainsInStep, StaleReplies, StaleEntries, Stale
<1>5. ASSUME NEW r \in Requests, Reply(r) PROVE DrainsInStep
  <2>1. /\ UNCHANGED <<req, app, got>>
        /\ at[r] = "reply" /\ at'[r] = "ok"
        /\ \A q \in Requests \ {r} : at'[q] = at[q]
    BY <1>5 DEF Typed, TypeOK, Reply, Answer, Goto
  <2>2. StaleReplies' = StaleReplies \ {r}
    BY <2>1 DEF StaleReplies, Stale
  <2>3. ASSUME NEW e \in StaleEntries' \ StaleEntries
        PROVE  e = <<app[r], req[r].url>> /\ r \in StaleReplies
    <3>1. PICK a \in Requests, l \in ListUrls : e = <<a, l>>
      BY DEF StaleEntries
    <3>2. Stale(cache[a][l])' /\ ~Stale(cache[a][l])
      BY <3>1 DEF StaleEntries
    <3>3. cache'[a][l] # cache[a][l]
      BY <3>2 DEF Stale
    <3>4. a = app[r] /\ l = req[r].url /\ cache'[a][l] = got[r]
      BY <1>5, <3>3 DEF Typed, TypeOK, Reply
    <3>5. Stale(got[r])
      BY <3>2, <3>4 DEF Stale
    <3> QED
      BY <2>1, <3>1, <3>4, <3>5 DEF StaleReplies
  <2> QED
    BY <2>2, <2>3 DEF DrainsInStep
<1>6. ASSUME NEW a \in Requests, NEW l \in ListUrls, Expire(a, l) PROVE DrainsInStep
  <2>1. UNCHANGED <<at, req, got>>
    BY <1>6 DEF Expire
  <2>2. \A b \in Requests, m \in ListUrls : cache'[b][m] \in {cache[b][m], Nothing}
    BY <1>6 DEF Typed, TypeOK, Expire
  <2> QED
    BY <2>1, <2>2 DEF DrainsInStep, StaleReplies, StaleEntries, Stale
<1> QED
  BY <1>1, <1>2, <1>3, <1>4, <1>5, <1>6 DEF Next, Proceed

(* The list cache: a list goes stale in it only by a change of rows, or by  *)
(* a request that read before one; with each such answer they get fewer.   *)
THEOREM StalenessOnlyDrains == Spec => StalenessDrains
<1>1. Typed /\ [Next]_vars => [rows' = rows => DrainsInStep]_vars
  BY DrainsStep
<1> QED
  BY <1>1, TypedInvariant, PTL DEF Spec, StalenessDrains, DrainsInStep

-----------------------------------------------------------------------------
(* Whose list a request may be given.  The cache's key is the URL, so it    *)
(* may be another user's; but that user has asked the same application for  *)
(* the same URL, and the rows have been as the list says.                  *)

HasAsked(u, a, l) ==
    \E q \in Requests :
        /\ app[q] = a /\ req[q] = [user |-> u, url |-> l]
        /\ at[q] \in {"reply", "ok", "error", "failed"}

Sourced(list, a, l) ==
    /\ list \in List /\ list.of \in Users /\ list.version <= rows[list.of]
    /\ HasAsked(list.of, a, l)

GivenLists ==
    \A r \in Requests :
        at[r] \in {"reply", "ok"} /\ req[r].url \in ListUrls
            => Sourced(got[r], app[r], req[r].url)

CachedLists ==
    \A a \in Requests, l \in ListUrls :
        cache[a][l] # Nothing => Sourced(cache[a][l], a, l)

ListsWereAskedFor ==
    \A r \in Requests :
        at[r] = "ok" /\ req[r].url \in ListUrls => Sourced(got[r], app[r], req[r].url)

(* Who has asked stays one who has, and rows only go on.                    *)
LEMMA StaysSourced ==
  ASSUME Typed, Typed', [Next]_vars, NEW list, NEW a, NEW l, Sourced(list, a, l)
  PROVE  Sourced(list, a, l)'
<1> USE DEF Typed, TypeOK
<1>1. \A u \in Users : rows'[u] >= rows[u]
  <2>1. CASE UNCHANGED rows
    BY <2>1
  <2>2. ASSUME NEW r \in Requests, Query(r) PROVE \A u \in Users : rows'[u] >= rows[u]
    BY <2>2 DEF Query
  <2> QED
    BY <2>1, <2>2 DEF Next, Proceed, vars, Receive, CreateApp, Abort, InitApp, Guard,
                      LookUp, Fail, Reply, Expire
<1>2. PICK q \in Requests : /\ app[q] = a /\ req[q] = [user |-> list.of, url |-> l]
                            /\ at[q] \in {"reply", "ok", "error", "failed"}
  BY DEF Sourced, HasAsked
<1>3. app'[q] = app[q] /\ req'[q] = req[q] /\ at'[q] \in {"reply", "ok", "error", "failed"}
  <2>1. CASE UNCHANGED <<at, req, app>>
    BY <1>2, <2>1
  <2>2. ASSUME NEW r \in Requests, Receive(r) \/ CreateApp(r) \/ InitApp(r)
        PROVE  UNCHANGED <<app[q], req[q], at[q]>>
    BY <1>2, <2>2 DEF Receive, CreateApp, InitApp, Goto
  <2>3. ASSUME NEW r \in Requests, Abort(r)
        PROVE  /\ UNCHANGED <<app[q], req[q]>>
               /\ at'[q] \in {"reply", "ok", "error", "failed"}
    BY <1>2, <2>3 DEF Abort
  <2>4. ASSUME NEW r \in Requests,
               Guard(r) \/ LookUp(r) \/ Query(r) \/ Fail(r) \/ Reply(r)
        PROVE  /\ UNCHANGED <<app[q], req[q]>>
               /\ at'[q] \in {"reply", "ok", "error", "failed"}
    BY <1>2, <2>4 DEF Guard, LookUp, Query, Fail, Reply, Answer, Goto
  <2> QED
    BY <1>2, <2>1, <2>2, <2>3, <2>4 DEF Next, Proceed, vars, Expire
<1>4. HasAsked(list.of, a, l)'
  BY <1>2, <1>3 DEF HasAsked
<1>5. list.version \in Nat /\ rows[list.of] \in Nat /\ rows'[list.of] \in Nat
  BY DEF Sourced, List
<1>6. list.version <= rows'[list.of]
  BY <1>1, <1>5 DEF Sourced
<1> QED
  BY <1>4, <1>6 DEF Sourced

LEMMA SourcedStep ==
  ASSUME Typed, Typed', GivenLists, CachedLists, [Next]_vars
  PROVE  GivenLists' /\ CachedLists'
<1> USE DEF Typed, TypeOK
<1> DEFINE Old == \A r \in Requests :
                     at'[r] \in {"reply", "ok"} =>
                       /\ at[r] \in {"reply", "ok"}
                       /\ got'[r] = got[r] /\ req'[r] = req[r] /\ app'[r] = app[r]
           Kept == \A a \in Requests, l \in ListUrls :
                     cache'[a][l] # Nothing => cache'[a][l] = cache[a][l]
<1>1. ASSUME Old PROVE GivenLists'
  BY <1>1, StaysSourced DEF GivenLists
<1>2. ASSUME Kept PROVE CachedLists'
  BY <1>2, StaysSourced DEF CachedLists
<1>3. CASE UNCHANGED vars
  BY <1>1, <1>2, <1>3 DEF vars
<1>4. ASSUME NEW r \in Requests,
             Receive(r) \/ CreateApp(r) \/ InitApp(r) \/ Guard(r) \/ Fail(r)
      PROVE  Old /\ Kept
  <2>1. Old
    BY <1>4 DEF Receive, CreateApp, InitApp, Guard, Fail, Goto
  <2>2. Kept
    BY <1>4 DEF Receive, CreateApp, InitApp, Guard, Fail
  <2> QED
    BY <2>1, <2>2
<1>5. ASSUME NEW r \in Requests, Abort(r) PROVE Old /\ Kept
  BY <1>5 DEF Abort, NoEntries, Running
<1>6. ASSUME NEW a \in Requests, NEW l \in ListUrls, Expire(a, l) PROVE Old /\ Kept
  BY <1>6 DEF Expire
<1>7. ASSUME NEW r \in Requests, LookUp(r) PROVE GivenLists' /\ Kept
  <2>1. UNCHANGED <<req, app, cache, rows>>
    BY <1>7 DEF LookUp
  <2>2. CASE Entry(r) = Nothing
    <3>1. Old
      BY <1>7, <2>2 DEF LookUp, Goto
    <3> QED
      BY <1>1, <2>1, <3>1
  <2>3. CASE Entry(r) # Nothing
    <3>1. app[r] \in Requests /\ req[r].url \in ListUrls /\ got'[r] = Entry(r)
          /\ \A q \in Requests \ {r} : at'[q] = at[q] /\ got'[q] = got[q]
      BY <1>7, <2>3, Served DEF LookUp, Answer, Goto, InAppLabels
    <3>2. Sourced(got'[r], app[r], req[r].url)
      BY <3>1, <2>3 DEF CachedLists, Entry
    <3>3. Sourced(Entry(r), app[r], req[r].url)'
      <4>1. Entry(r)' = Entry(r)
        BY <2>1 DEF Entry
      <4> QED
        BY <2>1, <3>1, <3>2, <4>1, StaysSourced
    <3>4. Sourced(got[r], app[r], req[r].url)'
      BY <2>1, <3>1, <3>3 DEF Entry
    <3>5. \A q \in Requests \ {r} :
             at'[q] \in {"reply", "ok"} /\ req'[q].url \in ListUrls
                 => Sourced(got[q], app[q], req[q].url)'
      BY <2>1, <3>1, StaysSourced DEF GivenLists
    <3> QED
      BY <2>1, <3>4, <3>5 DEF GivenLists
  <2> QED
    BY <2>1, <2>2, <2>3
<1>8. ASSUME NEW r \in Requests, Query(r) PROVE GivenLists' /\ Kept
  <2>1. /\ UNCHANGED <<req, app, cache>> /\ at'[r] = "reply"
        /\ \A q \in Requests \ {r} : at'[q] = at[q] /\ got'[q] = got[q]
    BY <1>8 DEF Query, Goto
  <2>2. ASSUME req[r].url \in ListUrls
        PROVE  Sourced(got[r], app[r], req[r].url)'
    <3>1. req[r] \in Request
      BY <1>8, Served DEF Query, InAppLabels
    <3>2. /\ got'[r] = [of |-> req[r].user, version |-> rows[req[r].user]]
          /\ rows' = rows /\ req[r].user \in Users
      BY <1>8, <2>2, <3>1 DEF Query, Request
    <3>3. /\ got'[r] \in List /\ got'[r].of = req[r].user
          /\ got'[r].version <= rows'[got'[r].of]
      BY <3>2 DEF List
    <3>4. req'[r] = [user |-> got'[r].of, url |-> req'[r].url]
      BY <2>1, <3>1, <3>2 DEF Request
    <3>5. HasAsked(got[r].of, app[r], req[r].url)'
      BY <2>1, <3>4 DEF HasAsked
    <3> QED
      BY <3>2, <3>3, <3>5 DEF Sourced
  <2>3. \A q \in Requests \ {r} :
           at'[q] \in {"reply", "ok"} /\ req'[q].url \in ListUrls
               => Sourced(got[q], app[q], req[q].url)'
    BY <2>1, StaysSourced DEF GivenLists
  <2> QED
    BY <2>1, <2>2, <2>3 DEF GivenLists
<1>9. ASSUME NEW r \in Requests, Reply(r) PROVE Old /\ CachedLists'
  <2>1. Old
    BY <1>9 DEF Reply, Answer, Goto
  <2>2. UNCHANGED <<req, app, got>> /\ at[r] = "reply"
    BY <1>9 DEF Reply
  <2>3. ASSUME NEW a \in Requests, NEW l \in ListUrls, cache'[a][l] # Nothing
        PROVE  Sourced(cache[a][l], a, l)'
    <3>1. CASE cache'[a][l] = cache[a][l]
      BY <2>3, <3>1, StaysSourced DEF CachedLists
    <3>2. CASE cache'[a][l] # cache[a][l]
      <4>1. a = app[r] /\ l = req[r].url /\ cache'[a][l] = got[r]
        BY <1>9, <3>2 DEF Reply
      <4>2. Sourced(got[r], a, l)
        BY <2>2, <4>1 DEF GivenLists
      <4>3. Sourced(got[r], a, l)'
        BY <2>2, <4>2, StaysSourced
      <4> QED
        BY <2>2, <4>1, <4>3
    <3> QED
      BY <3>1, <3>2
  <2> QED
    BY <2>1, <2>3 DEF CachedLists
<1> HIDE DEF Old, Kept
<1> QED
  BY <1>1, <1>2, <1>3, <1>4, <1>5, <1>6, <1>7, <1>8, <1>9 DEF Next, Proceed

(* How far the shared cache key reaches: a caller may be given another      *)
(* user's list, but only one that this user asked the same application for  *)
(* under the same URL, and never one that was not true once.               *)
THEOREM ListsComeFromAsking == Spec => []ListsWereAskedFor
<1>1. Init => GivenLists /\ CachedLists
  BY DEF Init, GivenLists, CachedLists, NoEntries
<1>2. GivenLists => ListsWereAskedFor
  BY DEF GivenLists, ListsWereAskedFor
<1>3. Typed /\ Typed' /\ GivenLists /\ CachedLists /\ [Next]_vars
          => GivenLists' /\ CachedLists'
  BY SourcedStep
<1> QED
  BY <1>1, <1>2, <1>3, TypedInvariant, PTL DEF Spec
=============================================================================
