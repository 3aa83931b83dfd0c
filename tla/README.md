# Collaborative workspace backend: TLA+ specifications

Specifications of the NestJS backend under `src/`: what its services do between one
`await` and the next, model-checked with TLC on small instances and, where marked,
proved with TLAPS for every value of the constants.

Paths are relative to the directory that holds `src/` and `tla/`; so
`src/src/jobs/jobs.service.ts` is the TypeScript source and `src/prisma/schema.prisma`
the database schema.

## 1. The system

Clients talk HTTP to controllers, which call services, which query PostgreSQL through
Prisma. Node runs one continuation at a time, but every `await` gives other requests,
and other processes, a turn. There are no explicit transactions: only a nested create
(`workspace.create` with its first member) is atomic, and consistency between two
queries rests on unique indexes, foreign keys and `onDelete: Cascade`. A Bull queue in
Redis carries jobs to processors in the same or other processes, and a socket.io gateway
relays editing events.

| Component | State it keeps | Operations | Talks to |
|---|---|---|---|
| Accounts and tokens (`auth/`) | `User` rows, one refresh-token hash each | register, login, refresh, logout | database; its JWT guard protects all other routes |
| Workspaces (`workspaces/`) | `Workspace`, `WorkspaceMember` rows | create, update, remove, addMember, removeMember, two reads | database; projects read its rows, its deletion cascades to them |
| Projects (`projects/`) | `Project`, `ProjectMember` rows | the same | database, `WorkspaceMember` rows |
| `ResourceRolesGuard` | none | one or two lookups before a PATCH route | membership rows of both kinds |
| Jobs (`jobs/`) | `Job` rows; the queue's entries, locks and counters | createJob, handleJob, reads | database and Redis, with no common transaction |
| Collaboration gateway | `connectedUsers`, socket.io rooms | join, leave, three relays, connect, disconnect | sockets; other processes through `RedisIoAdapter` |
| `RedisIoAdapter` (`main.ts` installs it if it can) | messages on their way between processes | publish, deliver | the gateways of other processes |
| List cache | answers of the two list routes, in each application's memory | look up, fill, expire | workspace and project reads |
| Metrics | three counters per application | count, add, report | every HTTP request |
| Serverless entry | the cached application | bootstrap | everything: its application holds a cache and counters of its own |
| Health, database connection, feature flags, entry points | none, or constants | connect, ping, wiring | |

What is hard in each, and what makes it correct:

* **Jobs.** One request spans two stores; one job is handled by workers that may crash,
  overlap after a stall, and see any of their queries fail before or after it commits.
  Two parties count attempts independently: the `attempts` column, and Bull. Correct
  means: one queue entry and one answer per idempotency key; a row is FAILED only when
  its attempts are used up; attempts are bounded; a settled row stays as it is, with the
  columns its status calls for; every queued job settles.
* **Workspaces and projects.** Each write acts on a permission read earlier, and
  anything may happen in between: the caller is removed, the resource deleted, the
  workspace of a project deleted with everything in it. Correct means: only OWNERs
  change anything; answers account for rows; no row outlives what it belongs to; roles
  never change in place; what becomes of a resource without OWNER is known.
* **Accounts.** Registrations of one address race; several devices overwrite one stored
  hash. Correct means: one account per address; every token goes back, refresh by
  refresh, to somebody who showed the password; logout works.
* **Gateway.** Events of one room come from several processes; each process tells its
  own sockets at once and the others later, or never, while sockets join, leave,
  disconnect and processes restart. Correct means: the map follows the connections; what
  a socket has heard of another since it came in agrees, but for what is on the way,
  with where that one is; no update overtakes the join before it; whoever joins gets
  known to those who are there.
* **Cache, metrics, serverless entry.** Requests of a cold start each build an
  application, and each of these starts may fail; a list is cached long after it was
  read; the average divides by requests that are still running. Correct means: only
  initialised applications serve; every request ends; the counters account for the
  requests; stale lists do not last.

The hazards, each at its line of code with the properties that would catch it, are
listed in `PROJECT.json`.

## 2. Modules

| Module | What it is |
|---|---|
| `Jobs` | createJob, handleJob and Bull, one action per await, with faults |
| `JobLifecycle` | what the jobs API promises: the abstract specification |
| `Members` | resources, their members and their permission checks; stands for workspaces and, with `HasParent`, for projects |
| `Access` | two instances of `Members` over one database, tied by the membership check, the foreign key and the cascade |
| `Auth` | register, login, refresh, logout |
| `Collaboration` | the gateway on several processes, with or without the Redis adapter |
| `Serving` | a request's way through cold start, guards, counters, list cache and query |
| `MCJobs`, `MCMembers`, `MCAccess`, `MCAuth`, `MCCollaboration`, `MCServing` | values of the constants for TLC |
| `JobsProofs`, `JobsProgress`, `JobsRefinement`, `MembersProofs`, `AccessProofs`, `AuthProofs`, `CollaborationProofs`, `ServingProofs` | theorems |

Definitions that end in a comment "seeded bug" are wrong variants of the definition that
follows them. Nothing in a specification uses them; each shows that some property
notices that mistake (`PROJECT.json`, "mutants").

Throughout, the row that call `c` inserts is named `c`: ids are UUIDs made by the
database, so they never collide, and a bound on the calls bounds the rows. A program
counter per call (`callAt`, `at`) names the next await; the answers are its final
values. A query that fails without effect ends a call (`Fail`, or a branch of the
action), and a write may commit although its caller sees an error (`Commit`, `Write`).

### Jobs

| Code | Action |
|---|---|
| `createJob`: findUnique, create, `JSON.parse` and `jobQueue.add` | `FindExisting`, `InsertRow`, `Enqueue` |
| `handleJob`, try: PROCESSING, incrementAttempts, simulate, COMPLETED | `MarkProcessing`, `CountAttempt`, `Simulate`, `Complete` |
| `handleJob`, catch: read back, FAILED, rethrow | `ReadAttempts`, `MarkFailed` |
| Bull: take, settle, back off, recover stalled entries | `Take`, `AckCompleted`, `AckFailed`, `Promote`, `StalledCheck` |
| worker dies; lock renewal missed | `Crash`, `LoseLock` |

The state is the `Job` row (`status`, `attempts`, `outcome`: which of the result and
error columns are set), Bull's entry (`entry`, `made`, `stalls`, `lock`) and where each
call and each worker is. The idempotency key may be absent (NULL, never unique) or empty
(falsy, so not looked up, but stored and unique). A payload is one of four classes: not
JSON, JSON `null` (a typed simulation then throws on a property access), an object whose
`code` is no string (`substring` throws), anything else. Types outside the three known
ones go to the generic simulation. The catch block's `getJobStatus` is called with the
`userId` of the queue's data, which is never put there: Prisma ignores undefined, and
the row is found by id alone.

Bull (4.16.5 in the lock file) is external. It is modelled at its documented contract: a
worker that does not hold the lock can neither settle an entry nor count a failed
attempt; an active entry without a live lock is stalled and goes back to waiting, or
fails past `maxStalledCount` (1, the default, which the code does not change). The
catch-up after a stall runs while the first handler may still be going.

`faults` bounds how often each kind of fault happens: a query fails (`db`), an answer is
lost (`lost`), Redis rejects the add (`queue`), a worker dies (`crash`), a lock expires
under a live worker (`stall`). A run gives `MaxFaults` small values; in the theorems of
`JobsProofs` and `JobsProgress` it is any function into the naturals.

### Members and Access

| Code | Action |
|---|---|
| the request arrives | `Receive` (`ReceiveProjectCall` in `Access`) |
| `ResourceRolesGuard` on the PATCH routes | `Guard` |
| `checkPermission(..., Role.OWNER)` | `CheckPermission` |
| `addMember`: look for the member | `FindExistingMember` |
| `create`, `update`, `remove`, `addMember`, `removeMember`: the write | `Create`, `Update`, `Remove`, `AddMember`, `RemoveMember` |
| `ProjectsService.create`: is the creator in the workspace? | `CheckParent`, in `Access` `CheckWorkspaceMember` |
| cascade from a deleted workspace | `Sweep`, in `Access` part of `WorkspaceCall` |

The two services have the same operations, with the same checks in the same order, so
`Members` is written once; `Access` instantiates it twice and adds what connects them.
In `Members` alone, with `HasParent`, the workspace is the environment: a project may be
swept away, and a creation be refused, at any time. `ProjectsSpec` shows in `Access`
that the real workspaces do nothing that this environment does not, so what holds of
`Members` holds of projects.

A request names only resources whose creation was answered (`Known`); those may be gone
by then. Users exist beforehand and are never deleted: no code deletes one. `dto.userId`
of addMember may be any user; a user that does not exist hits the foreign key, which is
the same error answer as `Fail`. The guard asks for a workspace and then for a project
under the same route parameter; as ids of the two kinds never coincide, one lookup finds
nothing. Only names and descriptions change in an update, so it changes nothing here.

### Auth

`LookupRegister`, `InsertUser`, `LookupLogin`, `LookupRefresh`, `Store` (generateTokens
and updateRefreshToken) and `Logout` are the awaits that touch rows. `stored` is the
token whose hash an account keeps. Expiry is a choice of `Receive`: the guard refuses,
or lets pass. The tokens of a call are named after it and stay in clients' hands.

`Matches` is `bcrypt.compare` of a refresh token with a stored hash. bcrypt reads 72
bytes. A JWT signed with HS256 begins with a header of 36 characters and a point, the
same for all; the 35 characters left encode `{"sub":"` and the first half of the
account's UUID. So all refresh tokens of one account compare equal, and the single
stored hash accepts all of them. So several devices stay signed in, and a refresh does
not retire the token it was made with, although the code compares with the latest hash.
The repository says nowhere which tokens besides the latest should be accepted, except
after a logout (`LogoutInvalidates`); so no property does.

### Collaboration

| Code | Action |
|---|---|
| `handleConnection`: token checked, or the connection ended | `HandleConnection` |
| `handleUserJoin`, `handleUserLeave` | `HandleUserJoin`, `HandleUserLeave` |
| `handleFileChange`, `handleCursorUpdate`, `handleActivityUpdate` | the same names, all `Relay` |
| `handleDisconnect`, and socket.io taking the socket out of its rooms | `HandleDisconnect` |
| `this.server.to(room).emit`, `client.to(room).emit` | `Emit` |
| `bootstrap` of `main.ts`, after a crash too | `Bootstrap` |
| the Redis adapter (external) | `Deliver`, `Lose` |

Only `handleConnection` awaits, and what it awaits needs no I/O: the secret is a string,
so `verifyAsync` settles in microtasks, before Node reads the next packet. So each
handler is one action; what it emits reaches its own process's members in that action,
and is appended to `channel[p][q]` for every other process `q` when both have the Redis
adapter. `main.ts` falls back to memory when Redis does not answer, and so each start
chooses. Redis pub/sub keeps the order of one publisher, delivers at most once (`Lose`),
and gives a message to the sockets that are in the room when it arrives, not when it was
sent.

`connectedUsers` is the set of sockets with an entry. Names and contents are left out:
which name an event should carry is written nowhere, and a socket that joins under two
names simply overwrites one. The three relays differ only in their contents. A socket is
one connection; a client that comes back is another. `heard`, `lossy` and the
distinction of "stray" updates (a sender outside the room may send into it, the code
does not check) are history, kept by `Hearing` and `WatchRooms`: no action's guard reads
them.

`heard[v][r][u]` is what `v` last heard of user `u` in room `r` since it came in. It
starts from "nothing", because `handleUserJoin` lists no members to a newcomer and
nobody answers a join: a client learns of a silent member only when that one joins again
or leaves, and may get its updates before (a hazard without property). So the properties
speak of what has happened since: `moved[v][r]`, history too, are the sockets that came
into room `r` or left it while `v` was there. `LastWord` looks past the messages on the
way. `PresenceIsTrue` says that a last word is never wrong, and never missing about
those in `moved`; `NoStrangers` that who is in `moved` sends no update that arrives
before the news of its join (unless its leave is right behind), and nobody one that
arrives after the news of its leave; `MembersGetKnown` that who joins while `v` is there
is heard of. Events name users, so when one of a user's two sockets leaves, the others
in the room take the user for gone; nothing in the repository says what a client should
make of that, and `PresenceIsTrue` and `NoStrangers` speak of users with one socket.
`NoGhosts` speaks of all users, in the other direction: nobody is taken for present
without a reason. All of these leave out sockets that disconnected, because nobody is
told of those (another hazard without property). `NoGhosts` therefore promises nothing
about a user one of whose sockets is gone.

### Serving

| Code | Action |
|---|---|
| `serverless.ts` `bootstrap`: `if (cachedApp)`, `NestFactory.create`, `app.init()` | `Receive`, `CreateApp` or `Abort`, `InitApp` |
| throttling and JWT guards, then `LoggingInterceptor` up to `next.handle()` | `Guard` |
| `CacheInterceptor`: look the URL up | `LookUp` |
| the controller's query | `Query` |
| the tap's `next` and `error` | `Answer`, `Fail` |
| `CacheInterceptor`: store the answer | in `Reply` |
| the time to live | `Expire` |

Each application has its own cache and counters, and is named after the request that
built it. `app.module.ts` gives the cache a `store` option which cache-manager 7 does
not read, so entries are in memory even with `REDIS_URL`; and its times to live are in
milliseconds, so that `@CacheTTL(30)` means 30 ms. Both are why an entry may vanish
between any two steps. The server of `main.ts` is an instance whose `cachedApp` is
present from the start.

A list is a version: `rows[u]` counts the changes of the rows that user `u`'s list is
made of, and a call on another URL raises it for any users. Of `totalProcessingTime` the
model keeps how often it was added to, which is what the average is divided by when
nothing runs. A rejected `NestFactory.create` ends the process (`abortOnError` is on by
default), a rejected `init` only the request.

## 3. Runs

| Run | Instance | Checks |
|---|---|---|
| `jobs_faults` | 1 job, 2 workers, 2 faults of each kind, fairness | `TypeOK`, `FailedMeansExhausted`, `AttemptsBounded`, `CompletedEntryHasCompletedRow`, `RowSettledWithEntry`, `EntryAdvances`, `EntrySettles`, `QueuedRowSettles` |
| `jobs_reliable` | 2 calls, 2 workers, up to 3 clean failures of each store, 4 payload classes, equal, absent and empty keys | `OneEntryPerKey`, `IdempotentAnswers`, `OutcomeMatchesStatus`, `TerminalIsFinal`, `LifecycleSpec` |
| `members_races` | 4 calls, 2 users, resources that may be swept away | `TypeOK`, `AnswersAccountForRows`, `OnlyOwnersGetThrough`, `NoOrphanRows`, `OwnerlessIsFrozen`, `RolesAreFixed` |
| `access_races` | 3 workspace calls, 2 project calls, 2 users | `TypeOK`, `ProjectsLiveInWorkspaces`, `CreatorsJoinedWorkspace`, `ProjectsSpec` |
| `auth_races` | 5 calls, 2 addresses | `TypeOK`, `OneAccountPerEmail`, `TokensGoBackToPasswords` |
| `collaboration_presence` | 2 processes, 2 tabs of one user on one and a socket of another user on the other, 2 rooms, 2 messages one way and 1 the other, fairness | `TypeOK`, `EntriesMatchSockets`, `PresenceIsTrue`, `NoGhosts`, `NoStrangers`, `MembersGetKnown` |
| `serving_coldstart` | 3 requests, 1 user, 1 list, fairness | `TypeOK`, `OnlyReadyAppsServe`, `CountersAccount`, `RequestsEnd`, `StalenessDrains`, `ListsSettle` |

Five more runs show where the code departs from what the repository says; each ends in a
counterexample:

| Run | What happens |
|---|---|
| `jobs_failed_unmarked` | README, "Jobs marked as FAILED after max attempts". The count of attempts is inside the try block; an attempt whose first queries fail is counted by Bull alone. Bull gives up after three, the row says two, and stays PROCESSING. |
| `jobs_never_queued` | README, "Jobs are processed asynchronously". The payload is parsed after the row is committed; one that is not JSON leaves a PENDING row, and the next call with that key is answered with it, though no worker will ever see it. |
| `access_collaborator` | `projects.controller.ts`, "Update project (Owner or Collaborator only)". The guard admits a COLLABORATOR, the service then refuses. |
| `auth_logout` | README, "Logout and invalidate refresh token". The handler passes `req.user.sub`, but the access-token strategy calls the id `userId`; the update throws and the hash stays. |
| `serving_shared_list` | `workspaces.controller.ts`, "Get all workspaces for current user". The cache's key is the URL, the same for all users; the next user is answered with the first one's list until it expires. |

### Why the bounds are enough

* One job suffices for what concerns a job alone: handlers of different jobs share no
  row, no entry and no lock. Bull recovers one stall, so at most two handlers overlap,
  and two workers are enough; two faults of each kind allow a second stall, after which
  Bull gives up, and two uncounted attempts out of three. Attempts are the code's 3 and
  3.
* Two calls are the smallest race for a key; a third only repeats the roles. Four
  payload classes make every branch of `createJob` and of the simulations happen.
  `jobs_reliable` does not allow lost answers, crashes or stalls: `TerminalIsFinal` and
  `OutcomeMatchesStatus` do not hold with them (a handler re-run over a COMPLETED row
  puts it back to PROCESSING, and no update clears a column), and the code makes no
  attempt at it. Safety with all faults is `jobs_faults`.
* Four calls on members are a creation and a race of three: two additions and a removal,
  two OWNERs removing each other, or a check, a removal and a write. In `access_races`
  three workspace calls are creation, addition and deletion, two project calls creation
  and use. Two users are the acting and the affected one; more would only be bystanders.
  Two roles, OWNER and one other, are enough because no check tells the other two apart;
  `access_collaborator` grants COLLABORATOR, the one the guard admits.
* Five calls on accounts are two registrations racing for an address and then two
  sign-ins racing with a refresh, on two accounts.
* Presence takes a watcher and a socket watched. The first process has two tabs of one
  user, the second a single socket of another user, and a message takes either way.
  `PresenceIsTrue`, `NoStrangers` and `MembersGetKnown` are about what the tabs hear of
  the single socket, from the other process and with up to two messages behind each
  other, so that a leave, or an update, can be behind a join; sockets of one process
  hear each other at once. `NoGhosts` is also about what the single socket hears of the
  user with two tabs, one of which may leave, disconnect or not be there while the other
  stays. `Visits` names the rooms a socket's client may ask for: the first tab both, for
  an entry serves all rooms of a socket and `NoGhosts` must see one left before the
  other; the others one. `MaxPending` makes a handler wait, so it restricts how long a
  queue gets and not the order of events. The run has 241,757 distinct states; the
  theorems hold without a bound on any of these, and for sockets of one process too.
* Three requests in a cold start: one that is served while a second builds an
  application and a third aborts the process; or a slow reader, a writer and a faster
  reader of one list. One user is enough where no property tells users apart;
  `serving_shared_list` has two.

Symmetry is used in runs without liveness only; calls, users and addresses are
interchangeable there. `CHECK_DEADLOCK FALSE` is set because the systems stop when every
call is answered, every job settled and every socket gone.

### Fairness

`Jobs`, `Collaboration` and `Serving` state a `FairSpec`, used by `jobs_faults`,
`jobs_never_queued`, `collaboration_presence` and `serving_coldstart`. Node runs every
pending continuation, so calls and handlers are weakly fair; Bull polls for waiting and
delayed entries and runs its stalled check on a timer, so `Take`, `Promote` and
`StalledCheck` are weakly fair per entry. No fault is fair, and Bull's stalled check
needs a live worker, which a crashed worker becomes again. Liveness is conditional where
the code makes it so: `QueuedRowSettles` promises nothing once the database has failed
(`jobs_failed_unmarked` shows why) or crashes and missed renewals are `TooManyStalls`:
more than Bull recovers, or both kinds at once. The second matters only for a
`MaxStalled` above the default 1. There a handler that missed its renewal may be
overtaken, mark the row PROCESSING after the entry was settled, and then die; the row
stays as it is for ever. `RowSettledWithEntry` has the same conditions. `EntrySettles`
holds whatever fails.

In `Collaboration` only `Deliver` between different processes is fair: Redis forwards
what was published. No client has to do anything, and a lost message excuses what
follows from it (`lossy`). In `Serving`, `Proceed` (the next continuation of a request,
whichever way it turns out) and `Expire` (a timer) are weakly fair; nobody has to call.
`ListsSettle` therefore rests on the time to live alone.

## 4. Theorems

All hold for any number of calls, workers, users, keys, addresses, faults, processes,
sockets, rooms, messages on their way and requests.

* `JobsProofs`. `TypeCorrect`. `NoDuplicateEntry` and `AnswersAgree` from the inductive
  `KeyInv`: at most one stored row per key that is not NULL (`UniqueKeys`, which the
  unique index gives), entries only for stored rows (`Queued`), workers busy only with
  entries (`Busy`), answers naming stored rows of the same key (`Answered`). Neither
  property is inductive alone, because an entry is added two awaits after its row's
  index check. `NeverFailedEarly` from `FailInv`: a handler about to mark FAILED read
  attempts that were used up, and attempts only grow. `BoundedAttempts` is a counting
  argument: every counted attempt belongs to a failure Bull counted, a stall it
  recovered, or a handler still to report; `Accounted` states the sum, `Limits` bounds
  Bull's counters, and `Locks` says which handlers may still report.
  `CompletedMeansCompleted` holds while no lock has expired under a live worker: until
  then a handler holds the lock of what it handles (`Holding`), so nobody else writes
  the row between its COMPLETED and its report to Bull (`Finished`).
* `JobsProgress`. What the liveness of jobs rests on, whatever the faults.
  `EachStepAdvances`: `Distance` counts the stages left in a run of the handler, and ten
  for each run that `made` and `stalls` still allow; every step that touches the entry,
  a crash included, lowers it, so there are at most 10 * (QueueAttempts + MaxStalled) +
  9 of them. The proof needs `Locks` and `Limits`, that an unsettled entry is never at
  its limits (`UnsettledAway`), and of Bull that the holder of a lock is a worker on
  that entry (the lemma `LocksAreHeld`): an active entry has either a handler to settle
  it or no lock, and then the stalled check sees it. `SettledStaysSettled`: Bull's
  verdict is final, and so is the row when the last handler has left. `RowsSettle` says
  that then the row is COMPLETED or FAILED. Its invariant, `ProgressInv`, relates the
  three things that count apart: while the database answers, a failure that Bull counts
  was thrown by the simulation and counted in the row (`Thrown`, `CountedInRow`), so
  that the handler that uses up Bull's attempts finds the row's used up as well and
  marks it FAILED; a stall costs a fault each, so Bull never gives a job up for stalls
  (`StallsPaidStep`); and a handler without its lock still finishes the row it has put
  back to PROCESSING (`RowDue`). It assumes QueueAttempts at least MaxAttempts, the
  code's 3 and 3: otherwise Bull would stop before the row's attempts are used up.
* `JobsRefinement`. Under `Clean` (no lost answer, crash or stall, and QueueAttempts at
  most MaxAttempts, which the code's 3 and 3 satisfy): `SettledRowsAreFinal`,
  `OutcomesAgree`, and `ImplementsLifecycle`, the refinement of `JobLifecycle`. The
  invariant `CleanInv` adds that one worker at most handles an entry and holds its lock
  (`Owned`), and what each of its awaits implies for the row (`Phases`). The proof uses
  that attempts counted in the row never exceed those Bull counted plus the running one.
* `MembersProofs`. `TypeCorrect`, `RowsGoWithTheirResource`, `RolesStayFixed`,
  `OnlyMadeOwnersGetThrough`, `OwnerlessStaysFrozen`. The invariants added: resources
  were created by calls that are over (`Born`), every OWNER row was asked for by a call
  that is over (`OwnersWereMade`), and a call past its check is no creation
  (`LabelsFit`). `AnswersAddUp` is another counting argument: the step that answers a
  call is the step that changes its row, so each call is counted once (`AskedGrows`); a
  resource is known to nobody before its creation is answered (`Arrivals`), so that its
  account opens at zero (`AccountOpens`).
* `AccessProofs`. `ProjectsAreMembers` is the refinement of `Members` by projects;
  `OnlyProjectOwnersGetThrough` and the membership half of `ProjectsStayInWorkspaces`
  carry theorems about `Members` over through it. The other half needs `HomesExist`,
  since a creation may commit after another call deleted the workspace. Workspaces are
  the second instance of the same theorems (`WorkspacesAreMembers`): so the promises of
  `Members` hold in both services while each goes on in the middle of the other's calls
  (`OnlyWorkspaceOwnersGetThrough`, `AnswersAddUpInBoth`, `RolesStayFixedInBoth`,
  `OwnerlessStaysFrozenInBoth`). That gives `TypeCorrect` too and, with
  `MembersWereInvited` (every row of any role was asked for by an answered call),
  `CreatorsHadJoined`: the creator's row may be gone by the time the project is
  inserted, but the call that made it is not.
* `AuthProofs`. `TypeCorrect`, together with what each request carries (`Typed`): a
  token's account is known only because tokens come from answered calls. `OneAccount`
  from `Accounts`: a call inserts one row under its own name, and an answered
  registration stands for the row of its address. `TokensAreEarned` says that the tokens
  in clients' hands are the least set that has those given for a password and, with a
  token, those refreshed with it. Its invariant is that set property for all closed sets
  at once: a token being issued was earned by a password or by a token issued before
  (`AllBacked`), and what a call has shown stays shown, so that a set closed after a
  step was closed before it.
* `CollaborationProofs`. `TypeCorrect` and `EntriesFollowSockets` from `Matched`.
  `PresenceIsRight` from five more invariants, because what a pending message says is
  only true if it is the last one: `Origin` (a message's sender is of the process that
  published it), `LastTells` (for a socket that is not gone, the last pending message
  about it in a room says where it is), `Present` (nobody has heard or seen anything in
  a room it is not in), `Newcomers` (nobody has heard of a socket before it connects)
  and `HeardTells` (without a pending message, what was heard is right, and whoever was
  seen to come or go has been heard of). `NobodyIsStrange` adds the order of messages:
  between a pending leave and a later update there is a join (`Ordered`), who is outside
  has its leave behind its updates (`Departing`), and whoever was told that the sender
  left, or saw it come, gets the join before an update, or the leave right after it
  (`Introduced`). The last message about a socket is found with the library's
  well-founded induction (`Greatest`). `NobodyHaunts` follows, for users with any number
  of sockets, the reason why somebody is taken to be there (`Accounts`): whoever leaves
  is announced, and the announcement is heard, on its way, lost or cut off.
  `NobodyIsForgotten` and `AnnouncementsArrive` are what `MembersGetKnown` rests on: who
  joined and is not known yet to somebody who was there has an announcement on its way,
  each delivery brings it one message closer, and the last one is heard.
* `ServingProofs`. `TypeCorrect`; `ServedByReadyApps`, whose invariant says that
  applications in use stay ready until an abort, which fails all their requests;
  `CountersAreRight`, which follows the sets `ServedBy` through each step with the facts
  about cardinality of the library. `RequestsAdvance`: a request takes at most seven
  steps, and nobody sends it back. `StalenessOnlyDrains`: between changes of rows only a
  request that read its list before the last one can make an entry stale, and once; so
  once these have answered and their entries have expired, no list is stale again.
  `ListsComeFromAsking`: the list a caller is given may be another user's, but that user
  asked the same application for the same URL, and the rows have been as the list says.

Assumptions on the constants are named in the modules (`ConstantsAssumption`,
`BoundsAssumption`, `NoWorkspaceAssumption`, `NothingAssumption`, `SocketsAssumption`,
`ServingAssumption`): special values are not members of the sets they extend, workers
and requests are finite, bounds are natural numbers, each socket has a process, a user
and rooms to visit, list routes are not routes that change rows.

Every safety property the passing runs check is also proved, those of `jobs_reliable`
under `Clean` where that is said. Only model-checked are the liveness properties, since
fairness and `ENABLED` are beyond the provers used here. For each of them what does not
need fairness is proved, namely that progress cannot be undone and comes to an end:

| Liveness | Proved of it |
|---|---|
| `EntrySettles` | `EachStepAdvances`, `SettledStaysSettled` |
| `QueuedRowSettles` | the same, and `RowsSettle` |
| `MembersGetKnown` | `NobodyIsForgotten`, `AnnouncementsArrive` |
| `RequestsEnd` | `RequestsAdvance` |
| `ListsSettle` | `StalenessOnlyDrains` |

What is left to TLC is that a step is always possible and that, under the fairness of
section 3, it is taken.

## 5. What is not modelled

Reads that change nothing (`findAll`, `findOne`, `getJobStatus`, `getUserJobs`);
validation of request bodies, which only rejects calls; throttling, logging, Swagger,
health, feature flags; `RolesGuard`, which no route uses; the `Invitation` table, which
no code touches. Prisma and PostgreSQL are the outcomes of a query; one query is atomic.
Bull and socket.io are external. A job row whose API process died is covered by the
`queue` fault. Of `main.ts` and `app.module.ts` only the choice of the adapter, the
cache and the interceptor are modelled: prefix, CORS, Swagger and validation configure
framework parts and keep no state of this program. The names in presence events, the
processing times themselves and what a client makes of an event are left out.

## 6. Plan

Done: all components that keep state (`Jobs` with `JobLifecycle`, `Members`, `Access`,
`Auth`, `Collaboration`, `Serving`), their runs, and theorems for all safety properties
of the runs.

Left:

1. `QueuedRowSettles` for a database that fails: which faults leave a row unsettled is
   shown by `jobs_failed_unmarked`; how far the row can then be from its entry is not
   stated.
2. `TerminalIsFinal` and `OutcomeMatchesStatus` hold under `Clean` only. What remains of
   them with crashes and lost answers would be worth stating.
3. Users with several sockets: `NoGhosts` says who may be taken for present. What
   `user:left` means for such a user has to be settled by clients before the other
   direction can be stated.
