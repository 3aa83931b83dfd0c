--------------------------- MODULE JobsRefinement ---------------------------
(***************************************************************************)
(* Jobs implements JobLifecycle as long as no answer of the database, no   *)
(* worker and no lock is lost and Bull makes no more attempts than the row *)
(* allows.  Queries and adds may still fail cleanly, any number of times.  *)
(***************************************************************************)
EXTENDS JobsProofs

Clean ==
    /\ MaxFaults["lost"] = 0 /\ MaxFaults["crash"] = 0 /\ MaxFaults["stall"] = 0
    /\ QueueAttempts <= MaxAttempts

LEMMA NoLoss ==
  ASSUME TypeOK, Clean PROVE ~Fault("lost") /\ ~Fault("crash") /\ ~Fault("stall")
  BY DEF TypeOK, Clean, Fault, FaultKinds

-----------------------------------------------------------------------------
(* Who handles what.                                                       *)

(* A handler owns the entry it handles, and no active entry is orphaned.    *)
Owned ==
    /\ \A w \in Workers : at[w] # "idle" =>
          on[w] \in Requests /\ lock[on[w]] = w /\ entry[on[w]] = "active"
    /\ \A r \in Requests :
          /\ entry[r] = "active" => lock[r] # Nobody
          /\ stalls[r] = 0

LEMMA OwnedStep == ASSUME TypeOK, Clean, Locks, Owned, [Next]_vars PROVE Owned'
<1> USE DEF Owned, TypeOK
<1>1. CASE UNCHANGED <<queueVars, workerVars>>
  BY <1>1 DEF queueVars, workerVars
<1>2. ASSUME NEW r \in Requests, Enqueue(r) PROVE Owned'
  BY <1>2 DEF Enqueue, Write, Locks, workerVars
<1>3. ASSUME NEW w \in Workers,
             \/ MarkProcessing(w) \/ CountAttempt(w) \/ Simulate(w)
             \/ Complete(w) \/ ReadAttempts(w) \/ MarkFailed(w)
      PROVE  Owned'
  <2>1. /\ UNCHANGED <<entry, lock, stalls, on>>
        /\ \A v \in Workers : at'[v] # "idle" => at[v] # "idle"
    BY <1>3 DEF MarkProcessing, CountAttempt, Simulate, Complete, ReadAttempts,
         MarkFailed, Write, WorkerGoto, queueVars
  <2> QED BY <2>1
<1>4. ASSUME NEW w \in Workers, AckCompleted(w) \/ AckFailed(w) PROVE Owned'
  <2>1. at[w] # "idle" /\ on[w] \in Requests /\ lock[on[w]] = w
    BY <1>4 DEF AckCompleted, AckFailed
  <2>2. /\ \E e \in {"completed", "delayed", "failed"} :
             entry' = [entry EXCEPT ![on[w]] = e]
        /\ lock' = [lock EXCEPT ![on[w]] = Nobody]
        /\ at' = [at EXCEPT ![w] = "idle"] /\ on' = [on EXCEPT ![w] = NoJob]
        /\ stalls' = stalls
    BY <1>4, <2>1 DEF AckCompleted, AckFailed, HoldsLock, Idle
  <2>3. ASSUME NEW v \in Workers, at'[v] # "idle"
        PROVE  on'[v] \in Requests /\ lock'[on'[v]] = v /\ entry'[on'[v]] = "active"
    <3>1. v # w /\ at[v] # "idle" /\ on'[v] = on[v]
      BY <2>2, <2>3
    <3>2. on[v] \in Requests /\ lock[on[v]] = v /\ entry[on[v]] = "active"
      BY <3>1
    <3>3. on[v] # on[w]
      BY <2>1, <3>1, <3>2
    <3> QED BY <2>1, <2>2, <3>1, <3>2, <3>3
  <2>4. ASSUME NEW r \in Requests
        PROVE  (entry'[r] = "active" => lock'[r] # Nobody) /\ stalls'[r] = 0
    BY <2>1, <2>2
  <2> QED BY <2>3, <2>4
<1>6. ASSUME NEW w \in Workers, NEW r \in Requests, Take(w, r) PROVE Owned'
  BY <1>6, ConstantsAssumption DEF Take
<1>7. ASSUME NEW r \in Requests, Promote(r) PROVE Owned'
  BY <1>7 DEF Promote, workerVars
<1>8. ASSUME NEW r \in Requests PROVE ~StalledCheck(r)
  BY DEF StalledCheck, Stalled
<1>9. ASSUME NEW w \in Workers PROVE ~Crash(w) /\ ~LoseLock(w)
  BY NoLoss DEF Crash, LoseLock
<1>10. CASE \E r \in Requests : FindExisting(r) \/ InsertRow(r)
  BY <1>1, <1>10 DEF FindExisting, InsertRow
<1>11. CASE UNCHANGED vars
  BY <1>1, <1>11 DEF vars
<1> QED
  BY <1>2, <1>3, <1>4, <1>6, <1>7, <1>8, <1>9, <1>10, <1>11
     DEF Next, Call, Handler

-----------------------------------------------------------------------------
(* How far a row is, from its entry and its handler.                       *)

Unsettled == {"PENDING", "PROCESSING"}

Phases ==
    /\ \A r \in Requests :
        /\ callAt[r] \in {"lookup", "insert"} => status[r] = "absent"
        /\ callAt[r] # "done" => answer[r] = NoJob
        /\ entry[r] = "none" => status[r] \in {"absent", "PENDING"}
        /\ entry[r] \in {"waiting", "delayed"} => status[r] \in Unsettled
        /\ status[r] \in {"absent", "PENDING"} => attempts[r] = 0
    /\ \A w \in Workers :
        /\ at[w] \in {"mark", "catch"} => status[on[w]] \in Unsettled
        /\ at[w] \in {"count", "simulate", "complete", "fail"} =>
              status[on[w]] = "PROCESSING"
        /\ at[w] \in {"simulate", "complete"} => attempts[on[w]] > 0
        /\ at[w] = "ackDone" => status[on[w]] = "COMPLETED"
        /\ at[w] = "ackFail" => status[on[w]] \in Unsettled \cup {"FAILED"}

CleanInv ==
    TypeOK /\ Locks /\ Limits /\ Accounted /\ KeyInv /\ FailInv
    /\ Owned /\ Phases /\ OutcomeMatchesStatus

(* Attempts against the queue's own count, in the two places it matters.    *)
LEMMA CountedAttempts ==
  ASSUME CleanInv, Clean, NEW w \in Workers, at[w] # "idle"
  PROVE  /\ on[w] \in Requests
         /\ attempts[on[w]] <= made[on[w]] + 1
         /\ at[w] = "count" => attempts[on[w]] < QueueAttempts
         /\ at[w] = "ackFail" /\ status[on[w]] = "FAILED" => ~AttemptsLeft(on[w])
<1> DEFINE r == on[w]
<1>1. /\ r \in Requests /\ entry[r] = "active" /\ stalls[r] = 0
      /\ attempts[r] \in Nat /\ made[r] \in Nat
    BY DEF CleanInv, Owned, TypeOK
<1>2. attempts[r] + Cardinality(Uncounted(r)) <= made[r] + 1
  BY <1>1 DEF CleanInv, Accounted, Running
<1>3. Cardinality(Uncounted(r)) \in Nat /\ IsFiniteSet(Uncounted(r))
  BY UncountedFinite
<1>4. attempts[r] <= made[r] + 1
  BY <1>1, <1>2, <1>3
<1>5. at[w] = "count" => attempts[r] < QueueAttempts
  <2> HAVE at[w] = "count"
  <2>1. Uncounted(r) # {}
    BY DEF Uncounted
  <2>2. Cardinality(Uncounted(r)) # 0
    BY <2>1, <1>3, FS_EmptySet
  <2>3. made[r] < QueueAttempts
    BY <1>1 DEF CleanInv, Limits
  <2> QED BY <1>1, <1>2, <1>3, <2>2, <2>3, BoundsAssumption
<1>6. at[w] = "ackFail" /\ status[r] = "FAILED" => ~AttemptsLeft(r)
  <2> HAVE at[w] = "ackFail" /\ status[r] = "FAILED"
  <2>1. attempts[r] >= MaxAttempts
    BY <1>1 DEF CleanInv, FailInv, FailedMeansExhausted
  <2> QED BY <1>1, <1>4, <2>1, BoundsAssumption DEF Clean, AttemptsLeft
<1> QED BY <1>1, <1>4, <1>5, <1>6

(* Two handlers never share a row.                                          *)
LEMMA Exclusive ==
  ASSUME Owned, NEW v \in Workers, NEW w \in Workers,
         at[v] # "idle", at[w] # "idle", on[v] = on[w]
  PROVE  v = w
  BY DEF Owned

LEMMA PhasesStep == ASSUME CleanInv, Clean, [Next]_vars PROVE Phases'
<1> USE DEF Phases, TypeOK, Unsettled
<1>t. TypeOK /\ Owned /\ Locks /\ Phases
  BY DEF CleanInv
<1>1. CASE UNCHANGED <<callVars, rowVars, queueVars, workerVars>>
  BY <1>t, <1>1 DEF callVars, rowVars, queueVars, workerVars
<1>2. ASSUME NEW r \in Requests, FindExisting(r) PROVE Phases'
  BY <1>t, <1>2 DEF FindExisting, Return, CallGoto, rowVars, queueVars, workerVars
<1>3. ASSUME NEW r \in Requests, InsertRow(r) PROVE Phases'
  <2>1. /\ entry[r] = "none" /\ status[r] = "absent" /\ callAt[r] = "insert"
        /\ \A w \in Workers : at[w] # "idle" => on[w] # r
    BY <1>t, <1>3 DEF InsertRow, Locks, Owned
  <2>2. /\ UNCHANGED <<answer, attempts, entry, at, on>>
        /\ callAt' = [callAt EXCEPT ![r] = "enqueue"] \/ callAt' = [callAt EXCEPT ![r] = "error"]
        /\ status' = status \/ status' = [status EXCEPT ![r] = "PENDING"]
    BY <1>3 DEF InsertRow, Write, CallGoto, queueVars, workerVars
  <2> QED BY <1>t, <2>1, <2>2 DEF Owned
<1>4. ASSUME NEW r \in Requests, Enqueue(r) PROVE Phases'
  <2>1. Stored(r) /\ entry[r] = "none" /\ callAt[r] = "enqueue"
    BY <1>t, <1>4 DEF Enqueue, CleanInv, KeyInv, Queued, Locks
  <2>2. UNCHANGED <<status, attempts, at, on>>
    BY <1>4 DEF Enqueue, rowVars, workerVars
  <2>3. \/ /\ callAt' = [callAt EXCEPT ![r] = "done"]
           /\ entry' = [entry EXCEPT ![r] = "waiting"]
           /\ answer' = [answer EXCEPT ![r] = r]
        \/ /\ callAt' = [callAt EXCEPT ![r] = "error"]
           /\ UNCHANGED <<answer, entry>>
    BY <1>t, <1>4, NoLoss DEF Enqueue, Write, Return, CallGoto
  <2> QED BY <1>t, <2>1, <2>2, <2>3 DEF Stored
<1>5. ASSUME NEW w \in Workers,
             \/ MarkProcessing(w) \/ Complete(w) \/ MarkFailed(w)
             \/ CountAttempt(w) \/ Simulate(w) \/ ReadAttempts(w)
      PROVE  Phases'
  <2> DEFINE r == on[w]
  <2>1. /\ at[w] # "idle" /\ r \in Requests /\ entry[r] = "active"
        /\ \A v \in Workers : v # w /\ at[v] # "idle" => on[v] # r
        /\ \A v \in Workers : at[v] # "idle" => on[v] \in Requests
    <3>1. at[w] # "idle"
      BY <1>5 DEF MarkProcessing, Complete, MarkFailed, CountAttempt, Simulate, ReadAttempts
    <3> QED BY <1>t, <3>1, Exclusive DEF Owned
  <2>2. UNCHANGED <<callVars, entry, on>>
    BY <1>5 DEF MarkProcessing, Complete, MarkFailed, CountAttempt, Simulate,
         ReadAttempts, callVars, queueVars
  <2>3. CASE MarkProcessing(w) \/ Complete(w) \/ MarkFailed(w)
    <3>1. attempts' = attempts
      BY <2>3 DEF MarkProcessing, Complete, MarkFailed
    <3>2. \/ /\ status' = status
             /\ \/ at' = [at EXCEPT ![w] = "catch"] /\ at[w] \in {"mark", "complete"}
                \/ at' = [at EXCEPT ![w] = "ackFail"] /\ at[w] = "fail"
          \/ /\ status' = [status EXCEPT ![r] = "PROCESSING"]
             /\ at[w] = "mark" /\ at' = [at EXCEPT ![w] = "count"]
          \/ /\ status' = [status EXCEPT ![r] = "COMPLETED"]
             /\ at[w] = "complete" /\ at' = [at EXCEPT ![w] = "ackDone"]
          \/ /\ status' = [status EXCEPT ![r] = "FAILED"]
             /\ at[w] = "fail" /\ at' = [at EXCEPT ![w] = "ackFail"]
      BY <1>t, <2>3, NoLoss DEF MarkProcessing, Complete, MarkFailed, Write,
           UpdateJobStatus, WorkerGoto
    <3> QED BY <1>t, <2>1, <2>2, <3>1, <3>2 DEF callVars
  <2>4. CASE CountAttempt(w)
    <3>1. status' = status
      BY <2>4 DEF CountAttempt
    <3>2. \/ /\ attempts' = attempts
             /\ at[w] = "count" /\ at' = [at EXCEPT ![w] = "catch"]
          \/ /\ attempts' = [attempts EXCEPT ![r] = @ + 1]
             /\ at[w] = "count" /\ at' = [at EXCEPT ![w] = "simulate"]
      BY <1>t, <2>4, NoLoss DEF CountAttempt, Write, IncrementAttempts, WorkerGoto
    <3> QED BY <1>t, <2>1, <2>2, <3>1, <3>2 DEF callVars
  <2>5. CASE Simulate(w) \/ ReadAttempts(w)
    <3>1. UNCHANGED <<status, attempts>>
      BY <2>5 DEF Simulate, ReadAttempts, rowVars
    <3>2. \/ /\ at[w] = "simulate"
             /\ \E l \in {"catch", "complete"} : at' = [at EXCEPT ![w] = l]
          \/ /\ at[w] = "catch" /\ attempts[r] >= MaxAttempts
             /\ at' = [at EXCEPT ![w] = "fail"]
          \/ /\ at[w] = "catch" /\ at' = [at EXCEPT ![w] = "ackFail"]
      BY <2>5 DEF Simulate, ReadAttempts, Exhausted, WorkerGoto
    <3> QED BY <1>t, <2>1, <2>2, <3>1, <3>2, BoundsAssumption DEF callVars
  <2> QED BY <1>5, <2>3, <2>4, <2>5
<1>6. ASSUME NEW w \in Workers, AckCompleted(w) \/ AckFailed(w) PROVE Phases'
  <2>1. /\ at[w] # "idle" /\ on[w] \in Requests /\ HoldsLock(w)
        /\ at' = [at EXCEPT ![w] = "idle"] /\ on' = [on EXCEPT ![w] = NoJob]
        /\ UNCHANGED <<callVars, status, attempts>>
    BY <1>t, <1>6 DEF Owned, AckCompleted, AckFailed, Idle, HoldsLock, rowVars
  <2>2. \/ entry' = [entry EXCEPT ![on[w]] = "completed"]
        \/ entry' = [entry EXCEPT ![on[w]] = "failed"]
        \/ /\ entry' = [entry EXCEPT ![on[w]] = "delayed"]
           /\ status[on[w]] \in Unsettled
    BY <1>t, <1>6, <2>1, CountedAttempts DEF AckCompleted, AckFailed
  <2> QED BY <1>t, <2>1, <2>2 DEF callVars
<1>7. ASSUME NEW w \in Workers, NEW r \in Requests, Take(w, r) PROVE Phases'
  BY <1>t, <1>7 DEF Take, callVars, rowVars
<1>8. ASSUME NEW r \in Requests, Promote(r) PROVE Phases'
  BY <1>t, <1>8 DEF Promote, callVars, rowVars, workerVars
<1>9. ASSUME NEW r \in Requests PROVE ~StalledCheck(r)
  BY <1>t DEF StalledCheck, Stalled, Owned
<1>10. ASSUME NEW w \in Workers PROVE ~Crash(w) /\ ~LoseLock(w)
  BY <1>t, NoLoss DEF Crash, LoseLock
<1>11. CASE UNCHANGED vars
  BY <1>1, <1>11 DEF vars
<1> QED
  BY <1>2, <1>3, <1>4, <1>5, <1>6, <1>7, <1>8, <1>9, <1>10, <1>11
     DEF Next, Call, Handler

LEMMA OutcomeStep ==
  ASSUME CleanInv, Clean, [Next]_vars
  PROVE  /\ OutcomeMatchesStatus'
         /\ \A r \in Requests : status[r] \in Terminal =>
                /\ status'[r] = status[r]
                /\ attempts'[r] = attempts[r]
                /\ outcome'[r] = outcome[r]
<1> DEFINE Final == \A r \in Requests : status[r] \in Terminal =>
                        /\ status'[r] = status[r]
                        /\ attempts'[r] = attempts[r]
                        /\ outcome'[r] = outcome[r]
<1> USE DEF OutcomeMatchesStatus, TypeOK, Terminal
<1>t. TypeOK /\ Owned /\ Phases /\ OutcomeMatchesStatus
  BY DEF CleanInv
<1>1. CASE UNCHANGED rowVars
  BY <1>t, <1>1 DEF rowVars
<1>2. ASSUME NEW r \in Requests, InsertRow(r) PROVE OutcomeMatchesStatus' /\ Final
  <2>1. /\ status[r] = "absent" /\ UNCHANGED <<attempts, outcome>>
        /\ status' = status \/ status' = [status EXCEPT ![r] = "PENDING"]
    BY <1>t, <1>2 DEF Phases, InsertRow, Write
  <2> QED BY <1>t, <2>1
<1>3. ASSUME NEW w \in Workers,
             \/ MarkProcessing(w) \/ Complete(w) \/ MarkFailed(w) \/ CountAttempt(w)
      PROVE  OutcomeMatchesStatus' /\ Final
  <2>1. on[w] \in Requests /\ status[on[w]] \in {"PENDING", "PROCESSING"}
    BY <1>t, <1>3 DEF Owned, Phases, Unsettled, MarkProcessing, Complete,
         MarkFailed, CountAttempt
  <2>2. CASE CountAttempt(w)
    <3>1. /\ UNCHANGED <<status, outcome>>
          /\ attempts' = attempts \/ attempts' = [attempts EXCEPT ![on[w]] = @ + 1]
      BY <2>2 DEF CountAttempt, Write, IncrementAttempts
    <3> QED BY <1>t, <2>1, <3>1
  <2>3. CASE MarkProcessing(w) \/ Complete(w) \/ MarkFailed(w)
    <3>1. /\ attempts' = attempts
          /\ \/ UNCHANGED <<status, outcome>>
             \/ UpdateJobStatus(on[w], "PROCESSING", {})
             \/ UpdateJobStatus(on[w], "COMPLETED", {"result"})
             \/ UpdateJobStatus(on[w], "FAILED", {"error"})
      BY <2>3 DEF MarkProcessing, Complete, MarkFailed, Write
    <3>2. outcome[on[w]] = {}
      BY <1>t, <2>1
    <3>3. \/ UNCHANGED <<status, outcome>>
          \/ /\ status' = [status EXCEPT ![on[w]] = "PROCESSING"]
             /\ outcome' = [outcome EXCEPT ![on[w]] = {}]
          \/ /\ status' = [status EXCEPT ![on[w]] = "COMPLETED"]
             /\ outcome' = [outcome EXCEPT ![on[w]] = {"result"}]
          \/ /\ status' = [status EXCEPT ![on[w]] = "FAILED"]
             /\ outcome' = [outcome EXCEPT ![on[w]] = {"error"}]
      BY <3>1, <3>2 DEF UpdateJobStatus
    <3>4. \A r \in Requests : r # on[w] =>
            status'[r] = status[r] /\ outcome'[r] = outcome[r]
      BY <1>t, <2>1, <3>3
    <3>5. \/ status'[on[w]] = status[on[w]] /\ outcome'[on[w]] = outcome[on[w]]
          \/ status'[on[w]] = "PROCESSING" /\ outcome'[on[w]] = {}
          \/ status'[on[w]] = "COMPLETED" /\ outcome'[on[w]] = {"result"}
          \/ status'[on[w]] = "FAILED" /\ outcome'[on[w]] = {"error"}
      BY <1>t, <2>1, <3>3
    <3> QED BY <1>t, <2>1, <3>1, <3>4, <3>5
  <2> QED BY <1>3, <2>2, <2>3
<1>4. CASE \/ \E r \in Requests :
                FindExisting(r) \/ Enqueue(r) \/ Promote(r) \/ StalledCheck(r)
           \/ \E w \in Workers :
                \/ Simulate(w) \/ ReadAttempts(w) \/ AckCompleted(w)
                \/ AckFailed(w) \/ Crash(w) \/ LoseLock(w)
                \/ \E r \in Requests : Take(w, r)
           \/ UNCHANGED vars
  BY <1>1, <1>4 DEF FindExisting, Enqueue, Promote, StalledCheck, Simulate,
       ReadAttempts, AckCompleted, AckFailed, Crash, LoseLock, Take, vars
<1> QED BY <1>2, <1>3, <1>4 DEF Next, Call, Handler

LEMMA CleanInvariant == ASSUME Clean PROVE Spec => []CleanInv
<1> DEFINE Rest == Locks /\ Limits /\ Accounted /\ FailInv /\ Owned /\ Phases
                     /\ OutcomeMatchesStatus
<1>1. Init => CleanInv
  <2> SUFFICES ASSUME Init PROVE CleanInv
    OBVIOUS
  <2>1. TypeOK
    BY ConstantsAssumption DEF Init, TypeOK, FaultKinds
  <2>2. KeyInv
    BY <2>1 DEF Init, KeyInv, Busy, Queued, UniqueKeys, Answered, Stored
  <2>3. Locks /\ Limits /\ FailInv
    BY BoundsAssumption DEF Init, Locks, Limits, FailInv, FailedMeansExhausted
  <2>4. Accounted
    <3> SUFFICES ASSUME NEW r \in Requests
                 PROVE  attempts[r] + Cardinality(Uncounted(r))
                          <= made[r] + stalls[r] + Running(r)
      BY DEF Accounted
    <3>1. Uncounted(r) = {}
      BY DEF Init, Uncounted
    <3> QED BY <3>1, FS_EmptySet DEF Init, Running
  <2>5. Owned /\ Phases /\ OutcomeMatchesStatus
    BY DEF Init, Owned, Phases, OutcomeMatchesStatus, Unsettled
  <2> QED BY <2>1, <2>2, <2>3, <2>4, <2>5 DEF CleanInv
<1>2. CleanInv /\ [Next]_vars => CleanInv'
  <2> SUFFICES ASSUME CleanInv, [Next]_vars PROVE CleanInv'
    OBVIOUS
  <2>1. TypeOK' /\ KeyInv'
    BY TypeStep, BusyStep, QueuedStep, UniqueKeysStep, AnsweredStep DEF CleanInv, KeyInv
  <2>2. Locks' /\ Limits' /\ Accounted'
    BY LocksStep, LimitsStep, AccountedStep DEF CleanInv, KeyInv
  <2>3. FailInv'
    BY <2>1, FailStep DEF CleanInv, KeyInv
  <2>4. Owned' /\ Phases' /\ OutcomeMatchesStatus'
    BY OwnedStep, PhasesStep, OutcomeStep DEF CleanInv
  <2> QED BY <2>1, <2>2, <2>3, <2>4 DEF CleanInv
<1> QED BY <1>1, <1>2, PTL DEF Spec

-----------------------------------------------------------------------------
(* A settled row never changes again: TerminalIsFinal for all constants,    *)
(* under Clean.                                                            *)
THEOREM SettledRowsAreFinal == ASSUME Clean PROVE Spec => TerminalIsFinal
<1>1. CleanInv /\ [Next]_vars =>
        [\A r \in Requests :
            status[r] \in Terminal =>
                /\ status'[r] = status[r]
                /\ attempts'[r] = attempts[r]
                /\ outcome'[r] = outcome[r]]_vars
  BY OutcomeStep
<1> QED BY <1>1, CleanInvariant, PTL DEF Spec, TerminalIsFinal

(* Result and error columns agree with the status although no update clears *)
(* them: OutcomeMatchesStatus for all constants, under Clean.              *)
THEOREM OutcomesAgree == ASSUME Clean PROVE Spec => []OutcomeMatchesStatus
<1>1. CleanInv => OutcomeMatchesStatus
  BY DEF CleanInv
<1> QED BY <1>1, CleanInvariant, PTL

-----------------------------------------------------------------------------
(* Refinement.                                                             *)

LEMMA LifecycleStep ==
  ASSUME CleanInv, Clean, [Next]_vars PROVE [Lifecycle!Next]_(Lifecycle!vars)
<1> USE DEF TypeOK
<1>t. TypeOK /\ Owned /\ Phases /\ Locks
  BY DEF CleanInv
<1>1. CASE UNCHANGED <<key, answer, status, attempts>>
  BY <1>1 DEF Lifecycle!vars
<1>2. ASSUME NEW r \in Requests, FindExisting(r) PROVE [Lifecycle!Next]_(Lifecycle!vars)
  <2>1. UNCHANGED <<key, status, attempts>>
    BY <1>2 DEF FindExisting, rowVars
  <2>2. CASE answer' = answer
    BY <1>1, <2>1, <2>2
  <2>3. ASSUME NEW j \in RowsWithKey(key[r]), HasKey(r),
               answer' = [answer EXCEPT ![r] = j]
        PROVE  Lifecycle!Answer(r, j) /\ j \in Requests
    BY <1>t, <1>2, <2>1, <2>3 DEF Lifecycle!Answer, Lifecycle!Accepted,
         Lifecycle!SameKey, RowsWithKey, Stored, HasKey, FindExisting, Phases
  <2> QED BY <1>2, <2>2, <2>3 DEF FindExisting, Return, Lifecycle!Next
<1>3. ASSUME NEW r \in Requests, InsertRow(r) PROVE [Lifecycle!Next]_(Lifecycle!vars)
  <2>1. /\ UNCHANGED <<key, answer, attempts>>
        /\ status[r] = "absent"
        /\ \/ status' = status
           \/ KeyFree(r) /\ status' = [status EXCEPT ![r] = "PENDING"]
    BY <1>t, <1>3 DEF InsertRow, Write, Phases
  <2>2. CASE status' = status
    BY <1>1, <2>1, <2>2
  <2>3. CASE KeyFree(r) /\ status' = [status EXCEPT ![r] = "PENDING"]
    <3>1. \A s \in Requests : Lifecycle!Accepted(s) => ~Lifecycle!SameKey(r, s)
      BY <2>3 DEF KeyFree, RowsWithKey, Stored, Lifecycle!Accepted, Lifecycle!SameKey
    <3>2. Lifecycle!Accept(r)
      BY <2>1, <2>3, <3>1 DEF Lifecycle!Accept, Lifecycle!Accepted
    <3> QED BY <3>2 DEF Lifecycle!Next
  <2> QED BY <2>1, <2>2, <2>3
<1>4. ASSUME NEW r \in Requests, Enqueue(r) PROVE [Lifecycle!Next]_(Lifecycle!vars)
  <2>1. UNCHANGED <<key, status, attempts>> /\ Stored(r) /\ answer[r] = NoJob
    BY <1>t, <1>4 DEF Enqueue, rowVars, Phases, CleanInv, KeyInv, Queued
  <2>2. answer' = answer \/ answer' = [answer EXCEPT ![r] = r]
    BY <1>4, NoLoss, <1>t DEF Enqueue, Write, Return
  <2>3. CASE answer' = answer
    BY <1>1, <2>1, <2>3
  <2>4. CASE answer' = [answer EXCEPT ![r] = r]
    <3>1. Lifecycle!Answer(r, r)
      BY <2>1, <2>4 DEF Lifecycle!Answer, Lifecycle!Accepted, Stored
    <3> QED BY <3>1 DEF Lifecycle!Next
  <2> QED BY <2>2, <2>3, <2>4
<1>5. ASSUME NEW w \in Workers, MarkProcessing(w) PROVE [Lifecycle!Next]_(Lifecycle!vars)
  <2>1. /\ UNCHANGED <<key, answer, attempts>>
        /\ on[w] \in Requests /\ status[on[w]] \in Unsettled
        /\ status' = status \/ status' = [status EXCEPT ![on[w]] = "PROCESSING"]
    BY <1>t, <1>5 DEF MarkProcessing, Write, UpdateJobStatus, callVars, Owned, Phases
  <2>2. CASE status' = status
    BY <1>1, <2>1, <2>2
  <2>3. CASE status' # status
    <3>1. Lifecycle!Start(on[w])
      BY <1>t, <2>1, <2>3 DEF Lifecycle!Start, Unsettled
    <3> QED BY <2>1, <3>1 DEF Lifecycle!Next
  <2> QED BY <2>2, <2>3
<1>6. ASSUME NEW w \in Workers, CountAttempt(w) PROVE [Lifecycle!Next]_(Lifecycle!vars)
  <2>1. /\ UNCHANGED <<key, answer, status>>
        /\ on[w] \in Requests /\ status[on[w]] = "PROCESSING"
        /\ at[w] = "count"
        /\ attempts' = attempts \/ attempts' = [attempts EXCEPT ![on[w]] = @ + 1]
    BY <1>t, <1>6 DEF CountAttempt, Write, IncrementAttempts, callVars, Owned, Phases
  <2>2. CASE attempts' = attempts
    BY <1>1, <2>1, <2>2
  <2>3. CASE attempts' = [attempts EXCEPT ![on[w]] = @ + 1]
    <3>1. attempts[on[w]] < QueueAttempts
      BY <2>1, CountedAttempts
    <3>2. Lifecycle!Try(on[w])
      BY <2>1, <2>3, <3>1 DEF Lifecycle!Try
    <3> QED BY <2>1, <3>2 DEF Lifecycle!Next
  <2> QED BY <2>1, <2>2, <2>3
<1>7. ASSUME NEW w \in Workers, Complete(w) PROVE [Lifecycle!Next]_(Lifecycle!vars)
  <2>1. /\ UNCHANGED <<key, answer, attempts>>
        /\ on[w] \in Requests /\ status[on[w]] = "PROCESSING" /\ attempts[on[w]] > 0
        /\ status' = status \/ status' = [status EXCEPT ![on[w]] = "COMPLETED"]
    BY <1>t, <1>7 DEF Complete, Write, UpdateJobStatus, callVars, Owned, Phases
  <2>2. CASE status' = status
    BY <1>1, <2>1, <2>2
  <2>3. CASE status' = [status EXCEPT ![on[w]] = "COMPLETED"]
    <3>1. Lifecycle!Finish(on[w])
      BY <2>1, <2>3 DEF Lifecycle!Finish
    <3> QED BY <2>1, <3>1 DEF Lifecycle!Next
  <2> QED BY <2>1, <2>2, <2>3
<1>8. ASSUME NEW w \in Workers, MarkFailed(w) PROVE [Lifecycle!Next]_(Lifecycle!vars)
  <2>1. /\ UNCHANGED <<key, answer, attempts>>
        /\ on[w] \in Requests /\ status[on[w]] = "PROCESSING"
        /\ attempts[on[w]] >= MaxAttempts
        /\ status' = status \/ status' = [status EXCEPT ![on[w]] = "FAILED"]
    BY <1>t, <1>8 DEF MarkFailed, Write, UpdateJobStatus, callVars, Owned, Phases,
         CleanInv, FailInv
  <2>2. CASE status' = status
    BY <1>1, <2>1, <2>2
  <2>3. CASE status' = [status EXCEPT ![on[w]] = "FAILED"]
    <3>1. Lifecycle!GiveUp(on[w])
      BY <2>1, <2>3 DEF Lifecycle!GiveUp
    <3> QED BY <2>1, <3>1 DEF Lifecycle!Next
  <2> QED BY <2>1, <2>2, <2>3
<1>9. CASE \/ \E r \in Requests : Promote(r) \/ StalledCheck(r)
           \/ \E w \in Workers :
                \/ Simulate(w) \/ ReadAttempts(w) \/ AckCompleted(w)
                \/ AckFailed(w) \/ Crash(w) \/ LoseLock(w)
                \/ \E r \in Requests : Take(w, r)
           \/ UNCHANGED vars
  BY <1>1, <1>9 DEF Promote, StalledCheck, Simulate, ReadAttempts, AckCompleted,
       AckFailed, Crash, LoseLock, Take, vars, callVars, rowVars
<1> QED
  BY <1>2, <1>3, <1>4, <1>5, <1>6, <1>7, <1>8, <1>9 DEF Next, Call, Handler

(* The queue, its workers and its retries implement the life cycle the API  *)
(* promises: LifecycleSpec for all constants, under Clean.                 *)
THEOREM ImplementsLifecycle == ASSUME Clean PROVE Spec => LifecycleSpec
<1>1. Init => Lifecycle!Init
  BY DEF Init, Lifecycle!Init
<1>2. CleanInv /\ [Next]_vars => [Lifecycle!Next]_(Lifecycle!vars)
  BY LifecycleStep
<1> QED BY <1>1, <1>2, CleanInvariant, PTL DEF Spec, LifecycleSpec, Lifecycle!Spec
=============================================================================
