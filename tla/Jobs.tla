-------------------------------- MODULE Jobs --------------------------------
(***************************************************************************)
(* Background jobs: JobsService (src/src/jobs/jobs.service.ts), the        *)
(* JobProcessor (src/src/jobs/jobs.processor.ts) and the Bull queue between *)
(* them.                                                                   *)
(*                                                                         *)
(* A POST /jobs call runs createJob: look the idempotency key up, insert   *)
(* the row, add the queue entry.  A worker process takes a waiting entry   *)
(* and runs handleJob: mark the row PROCESSING, count the attempt, do the  *)
(* work, mark the row COMPLETED; what any of these throws is caught, the   *)
(* row is read back and marked FAILED when its attempts are used up, and   *)
(* the error goes on to Bull, which schedules the retry.                   *)
(*                                                                         *)
(* Every await of that code is a step of its own, so calls and handlers    *)
(* interleave as the event loops and processes of a deployment do.  The    *)
(* job that call r inserts is named r.  The database and the queue are two *)
(* stores with no common transaction.                                      *)
(***************************************************************************)
EXTENDS Naturals, FiniteSets

CONSTANTS
    Requests,       \* the POST /jobs calls
    Keys,           \* the non-empty idempotency keys clients use
    NoKey,          \* the field is absent: NULL in the column, never unique
    EmptyKey,       \* the empty string: not looked up, yet stored and unique
    Dtos,           \* the (type, payload) pairs clients send
    Workers,        \* the worker processes, one handler at a time each
    Nobody,         \* no worker holds the lock
    NoJob,          \* no job: an unanswered call, an idle worker
    MaxAttempts,    \* Job.maxAttempts, the default of the schema
    QueueAttempts,  \* the "attempts" option of the queue entry
    MaxStalled,     \* Bull's maxStalledCount
    MaxFaults       \* bound on the number of faults of each kind

JobTypes == {"CODE_EXECUTION", "DATA_PROCESSING", "FILE_GENERATION", "OTHER"}
(* What distinguishes payload strings: not JSON at all, JSON null, an       *)
(* object whose "code" is truthy and not a string, any other object.        *)
Payloads == {"malformed", "null", "badCode", "object"}

(* The kinds of fault.                                                      *)
(*   db:    a query fails and commits nothing                               *)
(*   lost:  a write commits but its caller sees an error                    *)
(*   queue: Redis rejects the add, or the API process dies just before it   *)
(*   crash: a worker process dies and its lock expires                      *)
(*   stall: a live worker fails to renew its lock in time                   *)
FaultKinds == {"db", "lost", "queue", "crash", "stall"}

ASSUME ConstantsAssumption ==
    /\ Dtos \subseteq [type : JobTypes, payload : Payloads]
    /\ NoKey \notin Keys /\ EmptyKey \notin Keys /\ NoKey # EmptyKey
    /\ Nobody \notin Workers
    /\ NoJob \notin Requests
    /\ IsFiniteSet(Workers)

ASSUME BoundsAssumption ==
    /\ MaxAttempts \in Nat \ {0}
    /\ QueueAttempts \in Nat \ {0}
    /\ MaxStalled \in Nat
    /\ MaxFaults \in [FaultKinds -> Nat]

VARIABLES
    callAt,   \* the next await of each call
    key,      \* its dto.idempotencyKey
    dto,      \* its dto.type and dto.payload
    answer,   \* the job it returned
    status,   \* Job.status, "absent" while there is no row
    attempts, \* Job.attempts
    outcome,  \* which of the columns Job.result and Job.error are set
    entry,    \* Bull's state of the job's queue entry
    made,     \* the entry's attemptsMade
    stalls,   \* the entry's stalledCounter
    lock,     \* the worker whose lock on the entry is alive
    at,       \* the next await of each worker's handler
    on,       \* the job it handles
    faults    \* faults so far, by kind

callVars   == <<callAt, key, dto, answer>>
rowVars    == <<status, attempts, outcome>>
queueVars  == <<entry, made, stalls, lock>>
workerVars == <<at, on>>
vars == <<callVars, rowVars, queueVars, workerVars, faults>>

Terminal == {"COMPLETED", "FAILED"}

TypeOK ==
    /\ callAt \in [Requests -> {"lookup", "insert", "enqueue", "done", "error"}]
    /\ key \in [Requests -> Keys \cup {NoKey, EmptyKey}]
    /\ dto \in [Requests -> Dtos]
    /\ answer \in [Requests -> Requests \cup {NoJob}]
    /\ status \in [Requests -> {"absent", "PENDING", "PROCESSING"} \cup Terminal]
    /\ attempts \in [Requests -> Nat]
    /\ outcome \in [Requests -> SUBSET {"result", "error"}]
    /\ entry \in [Requests -> {"none", "waiting", "delayed", "active",
                               "completed", "failed"}]
    /\ made \in [Requests -> Nat]
    /\ stalls \in [Requests -> Nat]
    /\ lock \in [Requests -> Workers \cup {Nobody}]
    /\ at \in [Workers -> {"idle", "mark", "count", "simulate", "complete",
                           "catch", "fail", "ackDone", "ackFail"}]
    /\ on \in [Workers -> Requests \cup {NoJob}]
    /\ faults \in [FaultKinds -> Nat]

Init ==
    /\ callAt = [r \in Requests |-> "lookup"]
    /\ key \in [Requests -> Keys \cup {NoKey, EmptyKey}]
    /\ dto \in [Requests -> Dtos]
    /\ answer = [r \in Requests |-> NoJob]
    /\ status = [r \in Requests |-> "absent"]
    /\ attempts = [r \in Requests |-> 0]
    /\ outcome = [r \in Requests |-> {}]
    /\ entry = [r \in Requests |-> "none"]
    /\ made = [r \in Requests |-> 0]
    /\ stalls = [r \in Requests |-> 0]
    /\ lock = [r \in Requests |-> Nobody]
    /\ at = [w \in Workers |-> "idle"]
    /\ on = [w \in Workers |-> NoJob]
    /\ faults = [k \in FaultKinds |-> 0]

-----------------------------------------------------------------------------
(* Faults and the outcomes of a call to a store.                           *)

Fault(k) ==
    /\ faults[k] < MaxFaults[k]
    /\ faults' = [faults EXCEPT ![k] = @ + 1]

(* A write: committed and answered, committed with the answer lost, or not  *)
(* committed.  "proceed" and "throw" say where the caller goes.             *)
Write(change, same, proceed, throw, kind) ==
    \/ change /\ proceed /\ UNCHANGED faults
    \/ change /\ throw /\ Fault("lost")
    \/ same /\ throw /\ Fault(kind)

-----------------------------------------------------------------------------
(* createJob                                                               *)

Stored(j) == status[j] # "absent"

(* The rows findUnique can return, and that the unique index compares with. *)
RowsWithKey(k) == {j \in Requests : Stored(j) /\ key[j] = k}

CallGoto(r, label) == callAt' = [callAt EXCEPT ![r] = label]

ReturnKey(r, j) ==  \* seeded bug: answers the key instead of the row
    CallGoto(r, "done") /\ answer' = [answer EXCEPT ![r] = key[r]]
Return(r, j) == CallGoto(r, "done") /\ answer' = [answer EXCEPT ![r] = j]

(* if (dto.idempotencyKey) is false for the empty string as well as for     *)
(* undefined.                                                               *)
HasKey(r) == key[r] \notin {NoKey, EmptyKey}

FindExisting(r) ==
    /\ callAt[r] = "lookup"
    /\ \/ /\ HasKey(r)
          /\ \E j \in RowsWithKey(key[r]) : Return(r, j)
          /\ UNCHANGED faults
       \/ /\ HasKey(r) => RowsWithKey(key[r]) = {}
          /\ CallGoto(r, "insert")
          /\ UNCHANGED <<answer, faults>>
       \/ /\ HasKey(r)
          /\ CallGoto(r, "error")
          /\ Fault("db")
          /\ UNCHANGED answer
    /\ UNCHANGED <<key, dto, rowVars, queueVars, workerVars>>

(* The unique index refuses a second row with the same key: the create      *)
(* throws and nothing in createJob catches it.  NULLs are all distinct.     *)
KeyFreeUnindexed(r) == TRUE  \* seeded bug: no @unique on idempotencyKey
KeyFree(r) == key[r] = NoKey \/ RowsWithKey(key[r]) = {}

InsertRow(r) ==
    /\ callAt[r] = "insert"
    /\ \/ /\ KeyFree(r)
          /\ Write(status' = [status EXCEPT ![r] = "PENDING"],
                   UNCHANGED status,
                   CallGoto(r, "enqueue"), CallGoto(r, "error"), "db")
       \/ /\ ~KeyFree(r)
          /\ CallGoto(r, "error")
          /\ UNCHANGED <<status, faults>>
    /\ UNCHANGED <<key, dto, answer, attempts, outcome, queueVars, workerVars>>

(* JSON.parse runs before the add and after the row is committed.           *)
Parses(r) == dto[r].payload # "malformed"

Enqueue(r) ==
    /\ callAt[r] = "enqueue"
    /\ \/ /\ Parses(r)
          /\ Write(entry' = [entry EXCEPT ![r] = "waiting"],
                   UNCHANGED entry,
                   Return(r, r),
                   CallGoto(r, "error") /\ UNCHANGED answer, "queue")
       \/ /\ ~Parses(r)
          /\ CallGoto(r, "error")
          /\ UNCHANGED <<answer, entry, faults>>
    /\ UNCHANGED <<key, dto, rowVars, made, stalls, lock, workerVars>>

-----------------------------------------------------------------------------
(* handleJob                                                               *)

WorkerGoto(w, label) == at' = [at EXCEPT ![w] = label]

(* updateJobStatus: an undefined result or error leaves its column alone.   *)
UpdateJobStatus(r, s, columns) ==
    /\ status' = [status EXCEPT ![r] = s]
    /\ outcome' = [outcome EXCEPT ![r] = @ \cup columns]

IncrementAttempts(r) == attempts' = [attempts EXCEPT ![r] = @ + 1]

MarkProcessing(w) ==
    /\ at[w] = "mark"
    /\ Write(UpdateJobStatus(on[w], "PROCESSING", {}),
             UNCHANGED <<status, outcome>>,
             WorkerGoto(w, "count"), WorkerGoto(w, "catch"), "db")
    /\ UNCHANGED <<callVars, attempts, queueVars, on>>

CountAttempt(w) ==
    /\ at[w] = "count"
    /\ Write(IncrementAttempts(on[w]),
             UNCHANGED attempts,
             WorkerGoto(w, "simulate"), WorkerGoto(w, "catch"), "db")
    /\ UNCHANGED <<callVars, status, outcome, queueVars, on>>

(* The typed simulations read a property of the payload, which throws on    *)
(* null; code execution also calls substring on a truthy code; the generic  *)
(* one only echoes the payload.                                             *)
Throws(d) ==
    \/ d.payload = "null" /\ d.type # "OTHER"
    \/ d.payload = "badCode" /\ d.type = "CODE_EXECUTION"

SimulateHanging(w) ==  \* seeded bug: the promise is never rejected
    /\ at[w] = "simulate"
    /\ ~Throws(dto[on[w]]) /\ WorkerGoto(w, "complete")
    /\ UNCHANGED <<callVars, rowVars, queueVars, on, faults>>

Simulate(w) ==
    /\ at[w] = "simulate"
    /\ WorkerGoto(w, IF Throws(dto[on[w]]) THEN "catch" ELSE "complete")
    /\ UNCHANGED <<callVars, rowVars, queueVars, on, faults>>

CompleteSwallowed(w) ==  \* seeded bug: the failed write is not noticed
    /\ at[w] = "complete"
    /\ Write(UpdateJobStatus(on[w], "COMPLETED", {"result"}),
             UNCHANGED <<status, outcome>>,
             WorkerGoto(w, "ackDone"), WorkerGoto(w, "ackDone"), "db")
    /\ UNCHANGED <<callVars, attempts, queueVars, on>>

Complete(w) ==
    /\ at[w] = "complete"
    /\ Write(UpdateJobStatus(on[w], "COMPLETED", {"result"}),
             UNCHANGED <<status, outcome>>,
             WorkerGoto(w, "ackDone"), WorkerGoto(w, "catch"), "db")
    /\ UNCHANGED <<callVars, attempts, queueVars, on>>

(* The catch block reads the row back; if the read itself throws, that      *)
(* error leaves the handler instead of the first one.                       *)
ExhaustedEarly(r) == attempts[r] + 1 >= MaxAttempts  \* seeded bug: off by one
ExhaustedLate(r) == attempts[r] > MaxAttempts  \* seeded bug: off by one
Exhausted(r) == attempts[r] >= MaxAttempts

ReadAttempts(w) ==
    /\ at[w] = "catch"
    /\ \/ /\ WorkerGoto(w, IF Exhausted(on[w]) THEN "fail" ELSE "ackFail")
          /\ UNCHANGED faults
       \/ WorkerGoto(w, "ackFail") /\ Fault("db")
    /\ UNCHANGED <<callVars, rowVars, queueVars, on>>

MarkFailed(w) ==
    /\ at[w] = "fail"
    /\ Write(UpdateJobStatus(on[w], "FAILED", {"error"}),
             UNCHANGED <<status, outcome>>,
             WorkerGoto(w, "ackFail"), WorkerGoto(w, "ackFail"), "db")
    /\ UNCHANGED <<callVars, attempts, queueVars, on>>

-----------------------------------------------------------------------------
(* Bull, from the options and decorators the code gives it.                *)

Idle(w) ==
    /\ at' = [at EXCEPT ![w] = "idle"]
    /\ on' = [on EXCEPT ![w] = NoJob]

(* A worker moves a waiting entry to active, locks it and starts the        *)
(* handler.                                                                 *)
Take(w, r) ==
    /\ at[w] = "idle"
    /\ entry[r] = "waiting"
    /\ entry' = [entry EXCEPT ![r] = "active"]
    /\ lock' = [lock EXCEPT ![r] = w]
    /\ at' = [at EXCEPT ![w] = "mark"]
    /\ on' = [on EXCEPT ![w] = r]
    /\ UNCHANGED <<callVars, rowVars, made, stalls, faults>>

HoldsLock(w) == lock[on[w]] = w

(* The handler returned: only the holder of the lock settles the entry.     *)
AckCompleted(w) ==
    /\ at[w] = "ackDone"
    /\ IF HoldsLock(w)
       THEN /\ entry' = [entry EXCEPT ![on[w]] = "completed"]
            /\ lock' = [lock EXCEPT ![on[w]] = Nobody]
       ELSE UNCHANGED <<entry, lock>>
    /\ Idle(w)
    /\ UNCHANGED <<callVars, rowVars, made, stalls, faults>>

(* The handler threw: back off while there are attempts left.               *)
AttemptsLeftLate(r) == made[r] < QueueAttempts  \* seeded bug: one attempt more
AttemptsLeftEarly(r) == made[r] + 2 < QueueAttempts  \* seeded bug: one less
AttemptsLeft(r) == made[r] + 1 < QueueAttempts

AckFailed(w) ==
    /\ at[w] = "ackFail"
    /\ IF HoldsLock(w)
       THEN /\ made' = [made EXCEPT ![on[w]] = @ + 1]
            /\ entry' = [entry EXCEPT ![on[w]] =
                            IF AttemptsLeft(on[w]) THEN "delayed" ELSE "failed"]
            /\ lock' = [lock EXCEPT ![on[w]] = Nobody]
       ELSE UNCHANGED <<made, entry, lock>>
    /\ Idle(w)
    /\ UNCHANGED <<callVars, rowVars, stalls, faults>>

(* The backoff of a failed attempt is over.                                 *)
Promote(r) ==
    /\ entry[r] = "delayed"
    /\ entry' = [entry EXCEPT ![r] = "waiting"]
    /\ UNCHANGED <<callVars, rowVars, made, stalls, lock, workerVars, faults>>

(* The stalled check finds an active entry without a live lock.  Past the   *)
(* limit the entry fails and no handler runs for it.                        *)
Stalled(r) == entry[r] = "active" /\ lock[r] = Nobody

StalledCheckUncounted(r) ==  \* seeded bug: stalledCounter is not kept
    /\ Stalled(r)
    /\ entry' = [entry EXCEPT ![r] = "waiting"]
    /\ UNCHANGED <<callVars, rowVars, made, stalls, lock, workerVars, faults>>

StalledCheck(r) ==
    /\ Stalled(r)
    /\ stalls' = [stalls EXCEPT ![r] = @ + 1]
    /\ entry' = [entry EXCEPT ![r] =
                    IF stalls[r] + 1 > MaxStalled THEN "failed" ELSE "waiting"]
    /\ UNCHANGED <<callVars, rowVars, made, lock, workerVars, faults>>

ReleaseLock(w) ==
    lock' = [r \in Requests |-> IF lock[r] = w THEN Nobody ELSE lock[r]]

(* A worker process dies, at any await, and comes back idle.  The same      *)
(* change stands for an acknowledgement that Redis never received.          *)
Crash(w) ==
    /\ at[w] # "idle"
    /\ Fault("crash")
    /\ ReleaseLock(w)
    /\ Idle(w)
    /\ UNCHANGED <<callVars, rowVars, entry, made, stalls>>

(* A busy event loop or a partition from Redis: the lock expires while the  *)
(* handler goes on.                                                         *)
LoseLock(w) ==
    /\ at[w] # "idle"
    /\ HoldsLock(w)
    /\ Fault("stall")
    /\ ReleaseLock(w)
    /\ UNCHANGED <<callVars, rowVars, entry, made, stalls, workerVars>>

-----------------------------------------------------------------------------
Call(r) == FindExisting(r) \/ InsertRow(r) \/ Enqueue(r)

Handler(w) ==
    \/ MarkProcessing(w) \/ CountAttempt(w) \/ Simulate(w) \/ Complete(w)
    \/ ReadAttempts(w) \/ MarkFailed(w) \/ AckCompleted(w) \/ AckFailed(w)

Next ==
    \/ \E r \in Requests : Call(r) \/ Promote(r) \/ StalledCheck(r)
    \/ \E w \in Workers : Handler(w) \/ Crash(w) \/ LoseLock(w)
    \/ \E w \in Workers, r \in Requests : Take(w, r)

Spec == Init /\ [][Next]_vars

(* Node runs every pending continuation, Bull polls for waiting and delayed *)
(* entries and runs its stalled check on a timer.  No fault is fair.        *)
Fairness ==
    /\ \A r \in Requests :
        /\ WF_vars(Call(r))
        /\ WF_vars(Promote(r))
        /\ WF_vars(StalledCheck(r))
        /\ WF_vars(\E w \in Workers : Take(w, r))
    /\ \A w \in Workers : WF_vars(Handler(w))

FairSpec == Spec /\ Fairness

-----------------------------------------------------------------------------
(* Safety, whatever fails.                                                 *)

(* A request is processed under one queue entry however often the client   *)
(* resends it: no two entries carry the same idempotency key (README,      *)
(* "prevent duplicate processing of the same request").                    *)
OneEntryPerKey ==
    \A r, s \in Requests :
        entry[r] # "none" /\ entry[s] # "none" /\ key[r] = key[s]
            /\ key[r] # NoKey => r = s

(* All calls that were answered for one key were answered with one job,    *)
(* and that job is a row of the database.                                  *)
IdempotentAnswers ==
    \A r, s \in Requests :
        /\ answer[r] # NoJob => Stored(answer[r])
        /\ answer[r] # NoJob /\ answer[s] # NoJob /\ key[r] = key[s]
            /\ key[r] # NoKey => answer[r] = answer[s]

(* No row says FAILED before its attempts are used up, although the handler *)
(* decides from a row it read earlier and other handlers may run meanwhile. *)
FailedMeansExhausted ==
    \A r \in Requests : status[r] = "FAILED" => attempts[r] >= MaxAttempts

(* However handlers crash, stall and overlap, a job is tried at most        *)
(* QueueAttempts + MaxStalled times.                                       *)
AttemptsBounded ==
    \A r \in Requests : attempts[r] <= QueueAttempts + MaxStalled

(* Bull calls an entry completed only when the row is COMPLETED: lost       *)
(* answers and crashes are repaired by the next run of the handler.  A      *)
(* worker that outlives its lock may undo it.                              *)
CompletedEntryHasCompletedRow ==
    faults["stall"] = 0 =>
        \A r \in Requests : entry[r] = "completed" => status[r] = "COMPLETED"

(* How many more steps the entry can take at most.  A run of the handler    *)
(* goes through the stages below; made and stalls bound the number of runs. *)
Steps ==
    [delayed |-> 10, waiting |-> 9, mark |-> 8, count |-> 7, simulate |-> 6,
     complete |-> 5, catch |-> 4, fail |-> 3, ackDone |-> 2, ackFail |-> 2,
     stalled |-> 1]

Stage(r) ==
    IF entry[r] # "active" THEN entry[r]
    ELSE IF lock[r] = Nobody THEN "stalled" ELSE at[lock[r]]

Settled(r) == entry[r] \in {"completed", "failed"}

Distance(r) ==
    IF Settled(r) THEN 0
    ELSE 10 * (QueueAttempts - made[r] + MaxStalled - stalls[r]) + Steps[Stage(r)]

Advances(r) ==
    \/ 0 <= Distance(r)' /\ Distance(r)' < Distance(r)
    \/ UNCHANGED <<entry[r], made[r], stalls[r], lock[r], Stage(r)>>

(* Whatever fails, and however often, a queued entry only ever comes nearer *)
(* to being settled: every step that touches it, a fault included, brings   *)
(* it nearer.  The distance is a natural number, so these steps come to an  *)
(* end.                                                                    *)
EntryAdvances ==
    [][\A r \in Requests : entry[r] # "none" => Advances(r)]_vars

(* Unless the database fails, a job that Bull is done with has a settled    *)
(* row once no handler is left on it, although row and entry count their    *)
(* attempts apart and a handler without its lock may write the row last.    *)
(* Workers may crash, or outlive their locks, maxStalledCount times, but    *)
(* not both: a handler without its lock may mark the row PROCESSING after   *)
(* the entry was settled, and then die.                                    *)
DatabaseFailed == faults["db"] + faults["lost"] > 0
TooManyStalls  ==
    \/ faults["crash"] + faults["stall"] > MaxStalled
    \/ faults["crash"] > 0 /\ faults["stall"] > 0

RowSettledWithEntry ==
    ~DatabaseFailed /\ ~TooManyStalls =>
        \A r \in Requests :
            Settled(r) /\ (\A w \in Workers : on[w] # r) => status[r] \in Terminal

(* Safety when queries fail cleanly but no answer, worker or lock is lost.  *)

(* The row of a settled job never changes again: no retry follows the       *)
(* attempt that marked it.                                                 *)
TerminalIsFinal ==
    [][\A r \in Requests :
        status[r] \in Terminal =>
            /\ status'[r] = status[r]
            /\ attempts'[r] = attempts[r]
            /\ outcome'[r] = outcome[r]]_vars

(* A COMPLETED row has a result and no error, a FAILED row an error and no  *)
(* result, any other row neither, although no update ever clears a column.  *)
OutcomeMatchesStatus ==
    \A r \in Requests :
        outcome[r] = CASE status[r] = "COMPLETED" -> {"result"}
                       [] status[r] = "FAILED"    -> {"error"}
                       [] OTHER                   -> {}

(* The whole of it: each call and each job goes through the abstract life   *)
(* cycle, with the database row as its state.                              *)
Lifecycle == INSTANCE JobLifecycle
                WITH AllKeys  <- Keys \cup {NoKey, EmptyKey},
                     MaxTries <- QueueAttempts
LifecycleSpec == Lifecycle!Spec

(* Liveness.                                                               *)

(* Whatever fails, Bull settles every entry and never reopens it.          *)
EntrySettles ==
    \A r \in Requests :
        entry[r] # "none" ~> [](entry[r] \in {"completed", "failed"})

(* The row of every queued job ends COMPLETED or FAILED and stays so, under *)
(* the conditions of RowSettledWithEntry.                                  *)
QueuedRowSettles ==
    \A r \in Requests :
        entry[r] # "none" ~>
            [](status[r] \in Terminal \/ DatabaseFailed \/ TooManyStalls)

-----------------------------------------------------------------------------
(* What the repository says and the code does not do.                      *)

(* README, Retry Logic: "Jobs marked as FAILED after max attempts".        *)
ExhaustedJobIsMarkedFailed ==
    \A r \in Requests : entry[r] = "failed" => status[r] = "FAILED"

(* README, Background Jobs: "Jobs are processed asynchronously using BullMQ *)
(* with Redis": the job a call was answered with is processed.             *)
AnsweredJobIsProcessed ==
    \A r, j \in Requests : answer[r] = j ~> status[j] \in Terminal
=============================================================================
