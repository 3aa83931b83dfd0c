------------------------------ MODULE Serving ------------------------------
(***************************************************************************)
(* A request from its arrival at a serverless instance to its answer: the  *)
(* cold start (src/src/serverless.ts), the guards, LoggingInterceptor with *)
(* MetricsService, CacheInterceptor on the two list routes, and the query. *)
(*                                                                         *)
(* The application that request r builds is named r.  A list is a version: *)
(* how often the rows that one user's list is made of have changed.        *)
(***************************************************************************)
EXTENDS Naturals, FiniteSets

CONSTANTS
    Requests, Users,
    ListUrls,   \* the URLs of GET /workspaces and GET /projects
    OtherUrls,  \* those of the calls that change rows
    Nothing     \* no application, no entry, no request

VARIABLES
    at,              \* what each request awaits, or how it ended
    req,             \* the user and the URL
    app,             \* the application that serves it
    got,             \* the list it was given
    cachedApp,       \* the variable of serverless.ts
    ready,           \* history: the applications whose init is done
    cache,           \* of each application, by URL
    requestCounter, errorCounter,
    timesRecorded,   \* how many times totalProcessingTime was added to
    rows             \* the current version of each user's list

instance == <<cachedApp, ready, cache>>
counters == <<requestCounter, errorCounter, timesRecorded>>
vars == <<at, req, app, got, instance, counters, rows>>

Request == [user : Users, url : ListUrls \cup OtherUrls]
List == [of : Users, version : Nat]

ASSUME ServingAssumption ==
    /\ IsFiniteSet(Requests) /\ ListUrls \cap OtherUrls = {}
    /\ Nothing \notin Requests \cup Request

Running == {"create", "init", "guard", "lookup", "query", "reply"}
Counted == {"lookup", "query", "reply", "ok", "error"}

TypeOK ==
    /\ at \in [Requests -> Running \cup {"idle", "ok", "error", "refused", "failed"}]
    /\ req \in [Requests -> Request \cup {Nothing}]
    /\ app \in [Requests -> Requests \cup {Nothing}]
    /\ got \in [Requests -> List \cup {Nothing}]
    /\ cachedApp \in Requests \cup {Nothing}
    /\ ready \subseteq Requests
    /\ cache \in [Requests -> [ListUrls -> List \cup {Nothing}]]
    /\ requestCounter \in [Requests -> Nat]
    /\ errorCounter \in [Requests -> Nat]
    /\ timesRecorded \in [Requests -> Nat]
    /\ rows \in [Users -> Nat]
    /\ \A r \in Requests : at[r] # "idle" => req[r] # Nothing
    /\ \A r \in Requests : at[r] \in Counted => app[r] # Nothing

NoEntries == [a \in Requests |-> [l \in ListUrls |-> Nothing]]
Zeros == [a \in Requests |-> 0]

Init ==
    /\ at = [r \in Requests |-> "idle"]
    /\ req = [r \in Requests |-> Nothing]
    /\ app = [r \in Requests |-> Nothing]
    /\ got = [r \in Requests |-> Nothing]
    /\ cachedApp = Nothing /\ ready = {} /\ cache = NoEntries
    /\ requestCounter = Zeros /\ errorCounter = Zeros /\ timesRecorded = Zeros
    /\ rows = [u \in Users |-> 0]

-----------------------------------------------------------------------------
Goto(r, label) == at' = [at EXCEPT ![r] = label]

(* bootstrap() as far as its first await.                                   *)
Receive(r) ==
    /\ at[r] = "idle"
    /\ \E q \in Request : req' = [req EXCEPT ![r] = q]
    /\ app' = [app EXCEPT ![r] = cachedApp]
    /\ Goto(r, IF cachedApp = Nothing THEN "create" ELSE "guard")
    /\ UNCHANGED <<got, instance, counters, rows>>

CreateAppEarly(r) ==  \* seeded bug: cachedApp is set before app.init()
    /\ at[r] = "create"
    /\ cachedApp' = r
    /\ Goto(r, "init")
    /\ UNCHANGED <<req, app, got, ready, cache, counters, rows>>

(* NestFactory.create.                                                      *)
CreateApp(r) ==
    /\ at[r] = "create"
    /\ Goto(r, "init")
    /\ UNCHANGED <<req, app, got, instance, counters, rows>>

(* NestFactory.create fails, say because Redis is away, and ends the        *)
(* process: all that it serves or builds is lost.                          *)
Abort(r) ==
    /\ at[r] = "create"
    /\ at' = [q \in Requests |-> IF at[q] \in Running THEN "failed" ELSE at[q]]
    /\ cachedApp' = Nothing /\ ready' = {} /\ cache' = NoEntries
    /\ UNCHANGED <<req, app, got, counters, rows>>

InitAppAgain(r) ==  \* seeded bug: the handler tries again until it succeeds
    /\ at[r] = "init"
    /\ \/ /\ Goto(r, "guard")
          /\ cachedApp' = r /\ ready' = ready \cup {r}
          /\ app' = [app EXCEPT ![r] = r]
       \/ Goto(r, "create") /\ UNCHANGED <<app, cachedApp, ready>>
    /\ UNCHANGED <<req, got, cache, counters, rows>>

InitAppSwapped(r) ==  \* seeded bug: cachedApp is returned before it is set
    /\ at[r] = "init"
    /\ \/ /\ Goto(r, "guard")
          /\ cachedApp' = r /\ ready' = ready \cup {r}
          /\ app' = [app EXCEPT ![r] = cachedApp]
       \/ Goto(r, "failed") /\ UNCHANGED <<app, cachedApp, ready>>
    /\ UNCHANGED <<req, got, cache, counters, rows>>

(* app.init(), which may reject; then the assignment and the return.        *)
InitApp(r) ==
    /\ at[r] = "init"
    /\ \/ /\ Goto(r, "guard")
          /\ cachedApp' = r /\ ready' = ready \cup {r}
          /\ app' = [app EXCEPT ![r] = r]
       \/ Goto(r, "failed") /\ UNCHANGED <<app, cachedApp, ready>>
    /\ UNCHANGED <<req, got, cache, counters, rows>>

-----------------------------------------------------------------------------
(* Inside an application.                                                   *)

Bump(counter, r) == [counter EXCEPT ![app[r]] = @ + 1]

(* Throttling or the JWT guard refuses, which no interceptor hears of, or   *)
(* LoggingInterceptor counts the request and hands it on.                  *)
Guard(r) ==
    /\ at[r] = "guard"
    /\ \/ Goto(r, "refused") /\ UNCHANGED requestCounter
       \/ /\ Goto(r, IF req[r].url \in ListUrls THEN "lookup" ELSE "query")
          /\ requestCounter' = Bump(requestCounter, r)
    /\ UNCHANGED <<req, app, got, instance, errorCounter, timesRecorded, rows>>

AnswerUntimed(r) ==  \* seeded bug: only answers of the service are timed
    /\ Goto(r, "ok")
    /\ timesRecorded' = IF at[r] = "lookup" THEN timesRecorded
                        ELSE Bump(timesRecorded, r)
    /\ UNCHANGED <<requestCounter, errorCounter>>

(* LoggingInterceptor's tap: next.                                          *)
Answer(r) ==
    /\ Goto(r, "ok")
    /\ timesRecorded' = Bump(timesRecorded, r)
    /\ UNCHANGED <<requestCounter, errorCounter>>

(* CacheInterceptor: the key is the URL, whoever asks.                      *)
Entry(r) == cache[app[r]][req[r].url]

LookUpSliding(r) ==  \* seeded bug: a hit is stored again, to live longer
    /\ at[r] = "lookup"
    /\ IF Entry(r) # Nothing
       THEN Goto(r, "reply") /\ got' = [got EXCEPT ![r] = Entry(r)]
       ELSE Goto(r, "query") /\ UNCHANGED got
    /\ UNCHANGED <<req, app, instance, counters, rows>>

LookUp(r) ==
    /\ at[r] = "lookup"
    /\ IF Entry(r) # Nothing
       THEN Answer(r) /\ got' = [got EXCEPT ![r] = Entry(r)]
       ELSE Goto(r, "query") /\ UNCHANGED <<got, counters>>
    /\ UNCHANGED <<req, app, instance, rows>>

(* findAll(req.user.userId), or a call that changes the lists of some users. *)
Query(r) ==
    /\ at[r] = "query"
    /\ Goto(r, "reply")
    /\ IF req[r].url \in ListUrls
       THEN /\ got' = [got EXCEPT ![r] =
                   [of |-> req[r].user, version |-> rows[req[r].user]]]
            /\ UNCHANGED rows
       ELSE /\ \E S \in SUBSET Users :
                   rows' = [u \in Users |-> IF u \in S THEN rows[u] + 1 ELSE rows[u]]
            /\ UNCHANGED got
    /\ UNCHANGED <<req, app, instance, counters>>

(* The query or the service throws, with or without effect.                 *)
Fail(r) ==
    /\ at[r] \in {"query", "reply"}
    /\ Goto(r, "error")
    /\ errorCounter' = Bump(errorCounter, r)
    /\ timesRecorded' = Bump(timesRecorded, r)
    /\ UNCHANGED <<req, app, got, instance, requestCounter, rows>>

(* The rows arrive; what is cached is what this request read, however long  *)
(* ago, over whatever others have cached since.                            *)
Reply(r) ==
    /\ at[r] = "reply"
    /\ Answer(r)
    /\ cache' = IF req[r].url \in ListUrls
                THEN [cache EXCEPT ![app[r]][req[r].url] = got[r]] ELSE cache
    /\ UNCHANGED <<req, app, got, cachedApp, ready, rows>>

ExpireNever(a, l) == FALSE  \* seeded bug: no @CacheTTL

(* @CacheTTL(30): 30 ms after it was stored, an entry is gone.              *)
Expire(a, l) ==
    /\ cache[a][l] # Nothing
    /\ cache' = [cache EXCEPT ![a][l] = Nothing]
    /\ UNCHANGED <<at, req, app, got, cachedApp, ready, counters, rows>>

Proceed(r) ==
    \/ CreateApp(r) \/ Abort(r) \/ InitApp(r)
    \/ Guard(r) \/ LookUp(r) \/ Query(r) \/ Fail(r) \/ Reply(r)

Next ==
    \/ \E r \in Requests : Receive(r) \/ Proceed(r)
    \/ \E a \in Requests, l \in ListUrls : Expire(a, l)

Spec == Init /\ [][Next]_vars

(* Node runs every continuation and every timer; nobody has to call.        *)
FairSpec ==
    /\ Spec
    /\ \A r \in Requests : WF_vars(Proceed(r))
    /\ \A a \in Requests, l \in ListUrls : WF_vars(Expire(a, l))

-----------------------------------------------------------------------------
(* Properties.                                                             *)

(* However many requests of a cold start build applications and fail, a     *)
(* request is only ever handed to an application whose init is done.       *)
OnlyReadyAppsServe ==
    /\ cachedApp \in ready \cup {Nothing}
    /\ \A r \in Requests :
          at[r] \in {"guard", "lookup", "query", "reply"} => app[r] \in ready

ServedBy(a, labels) == {r \in Requests : app[r] = a /\ at[r] \in labels}

(* The counters of each application account for its requests one by one,    *)
(* so that the average of MetricsService falls short of the true one by     *)
(* exactly those still running.                                            *)
CountersAccount ==
    \A a \in ready :
        /\ requestCounter[a] = Cardinality(ServedBy(a, Counted))
        /\ errorCounter[a] = Cardinality(ServedBy(a, {"error"}))
        /\ timesRecorded[a] = Cardinality(ServedBy(a, {"ok", "error"}))

(* Every request ends, through failed starts and aborts.                    *)
RequestsEnd == \A r \in Requests : at[r] # "idle" ~> at[r] \notin Running

Stale(list) == list # Nothing /\ list.version # rows[list.of]
StaleReplies ==
    {r \in Requests : at[r] = "reply" /\ req[r].url \in ListUrls /\ Stale(got[r])}
StaleEntries == {e \in Requests \X ListUrls : Stale(cache[e[1]][e[2]])}

(* While no rows change, nothing becomes stale but an entry that a slow     *)
(* request stores, and each such request can do it once: a list read from   *)
(* the database is current, and one found in a cache is not stored again.   *)
StalenessDrains ==
    [][rows' = rows =>
          /\ StaleReplies' \subseteq StaleReplies
          /\ StaleEntries' \ StaleEntries
                 \subseteq {<<app[r], req[r].url>> : r \in StaleReplies \ StaleReplies'}
      ]_vars

(* Stale lists do not last: once nobody changes anything, what the caches   *)
(* still hold is current, though slow requests store what they read long    *)
(* ago over newer entries.                                                 *)
ListsSettle ==
    <>[](\A a \in Requests, l \in ListUrls :
            cache[a][l] # Nothing => cache[a][l].version = rows[cache[a][l].of])

(* workspaces.controller.ts: "Get all workspaces for current user".         *)
ListsAreTheCallersOwn ==
    \A r \in Requests :
        at[r] = "ok" /\ req[r].url \in ListUrls => got[r].of = req[r].user
=============================================================================
