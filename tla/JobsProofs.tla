----------------------------- MODULE JobsProofs -----------------------------
(***************************************************************************)
(* Theorems about Jobs, for every number of calls and workers, every       *)
(* choice of the retry constants and any number of faults.                 *)
(***************************************************************************)
EXTENDS Jobs, FiniteSetTheorems, TLAPS

-----------------------------------------------------------------------------
(* Type correctness.                                                       *)

(* Every step of a call, a handler or Bull, and every fault, keeps each     *)
(* variable in its type.                                                   *)
LEMMA TypeStep == ASSUME TypeOK, [Next]_vars PROVE TypeOK'
<1> USE DEF TypeOK, FaultKinds, Fault, Terminal
<1>1. CASE UNCHANGED vars
  BY <1>1 DEF vars, callVars, rowVars, queueVars, workerVars
<1>2. ASSUME NEW r \in Requests, FindExisting(r) PROVE TypeOK'
  BY <1>2 DEF FindExisting, RowsWithKey, CallGoto, Return, rowVars, queueVars, workerVars
<1>3. ASSUME NEW r \in Requests, InsertRow(r) PROVE TypeOK'
  BY <1>3 DEF InsertRow, Write, CallGoto, queueVars, workerVars
<1>4. ASSUME NEW r \in Requests, Enqueue(r) PROVE TypeOK'
  BY <1>4 DEF Enqueue, Write, CallGoto, Return, rowVars, workerVars
<1>5. ASSUME NEW w \in Workers, MarkProcessing(w) PROVE TypeOK'
  BY <1>5 DEF MarkProcessing, Write, UpdateJobStatus, WorkerGoto, callVars, queueVars
<1>6. ASSUME NEW w \in Workers, CountAttempt(w) PROVE TypeOK'
  BY <1>6 DEF CountAttempt, Write, IncrementAttempts, WorkerGoto, callVars, queueVars
<1>7. ASSUME NEW w \in Workers, Simulate(w) PROVE TypeOK'
  BY <1>7 DEF Simulate, WorkerGoto, callVars, rowVars, queueVars
<1>8. ASSUME NEW w \in Workers, Complete(w) PROVE TypeOK'
  BY <1>8 DEF Complete, Write, UpdateJobStatus, WorkerGoto, callVars, queueVars
<1>9. ASSUME NEW w \in Workers, ReadAttempts(w) PROVE TypeOK'
  BY <1>9 DEF ReadAttempts, WorkerGoto, callVars, rowVars, queueVars
<1>10. ASSUME NEW w \in Workers, MarkFailed(w) PROVE TypeOK'
  BY <1>10 DEF MarkFailed, Write, UpdateJobStatus, WorkerGoto, callVars, queueVars
<1>11. ASSUME NEW w \in Workers, AckCompleted(w) PROVE TypeOK'
  BY <1>11 DEF AckCompleted, Idle, callVars, rowVars
<1>12. ASSUME NEW w \in Workers, AckFailed(w) PROVE TypeOK'
  BY <1>12 DEF AckFailed, Idle, callVars, rowVars
<1>13. ASSUME NEW w \in Workers, NEW r \in Requests, Take(w, r) PROVE TypeOK'
  BY <1>13 DEF Take, callVars, rowVars
<1>14. ASSUME NEW r \in Requests, Promote(r) PROVE TypeOK'
  BY <1>14 DEF Promote, callVars, rowVars, workerVars
<1>15. ASSUME NEW r \in Requests, StalledCheck(r) PROVE TypeOK'
  BY <1>15 DEF StalledCheck, callVars, rowVars, workerVars
<1>16. ASSUME NEW w \in Workers, Crash(w) PROVE TypeOK'
  BY <1>16 DEF Crash, ReleaseLock, Idle, callVars, rowVars
<1>17. ASSUME NEW w \in Workers, LoseLock(w) PROVE TypeOK'
  BY <1>17 DEF LoseLock, ReleaseLock, callVars, rowVars, workerVars
<1> QED
  BY <1>1, <1>2, <1>3, <1>4, <1>5, <1>6, <1>7, <1>8, <1>9, <1>10, <1>11,
     <1>12, <1>13, <1>14, <1>15, <1>16, <1>17 DEF Next, Call, Handler

(* The variables of a deployment keep their types whatever fails.           *)
THEOREM TypeCorrect == Spec => []TypeOK
<1>1. Init => TypeOK
  BY ConstantsAssumption DEF Init, TypeOK, FaultKinds
<1>2. TypeOK /\ [Next]_vars => TypeOK'
  BY TypeStep
<1> QED BY <1>1, <1>2, PTL DEF Spec

-----------------------------------------------------------------------------
(* Idempotency keys.                                                       *)

(* A worker is idle or handles a job that has a row.                        *)
Busy == \A w \in Workers :
            at[w] # "idle" => on[w] \in Requests /\ Stored(on[w])

(* A job is queued, or about to be, only after its row was committed.       *)
Queued == \A r \in Requests :
            entry[r] # "none" \/ callAt[r] = "enqueue" => Stored(r)

(* What the unique index enforces.                                          *)
UniqueKeys == \A r, s \in Requests :
                Stored(r) /\ Stored(s) /\ key[r] = key[s] /\ key[r] # NoKey => r = s

(* An answer names a row with the caller's key.                             *)
Answered == \A r \in Requests :
                answer[r] # NoJob =>
                    Stored(answer[r]) /\ key[answer[r]] = key[r]

KeyInv == TypeOK /\ Busy /\ Queued /\ UniqueKeys /\ Answered

(* A step adds at most one row, removes none, and the row it adds has a     *)
(* free key.  Keys never change.                                            *)
RowsGrow ==
    /\ key' = key
    /\ \/ \A s \in Requests : Stored(s)' <=> Stored(s)
       \/ \E r \in Requests :
            /\ KeyFree(r)
            /\ \A s \in Requests : Stored(s)' <=> s = r \/ Stored(s)

LEMMA RowsGrowStep == ASSUME TypeOK, Busy, [Next]_vars PROVE RowsGrow
<1> USE DEF RowsGrow, Stored
<1>1. CASE UNCHANGED <<key, status>>
  BY <1>1
<1>2. ASSUME NEW r \in Requests, InsertRow(r) PROVE RowsGrow
  BY <1>2 DEF InsertRow, Write, TypeOK
<1>3. ASSUME NEW w \in Workers,
             MarkProcessing(w) \/ Complete(w) \/ MarkFailed(w)
      PROVE  RowsGrow
  <2>1. on[w] \in Requests /\ Stored(on[w])
    BY <1>3 DEF Busy, MarkProcessing, Complete, MarkFailed, TypeOK
  <2>2. \/ UNCHANGED status
        \/ \E s \in {"PROCESSING", "COMPLETED", "FAILED"} :
              status' = [status EXCEPT ![on[w]] = s]
    BY <1>3 DEF MarkProcessing, Complete, MarkFailed, Write, UpdateJobStatus
  <2>3. key' = key
    BY <1>3 DEF MarkProcessing, Complete, MarkFailed, callVars
  <2> QED BY <2>1, <2>2, <2>3 DEF TypeOK
<1>4. CASE \E r \in Requests : FindExisting(r) \/ Enqueue(r)
  BY <1>1, <1>4 DEF FindExisting, Enqueue, rowVars
<1>5. CASE \E w \in Workers : CountAttempt(w) \/ Simulate(w) \/ ReadAttempts(w)
  BY <1>1, <1>5 DEF CountAttempt, Simulate, ReadAttempts, rowVars, callVars
<1>6. CASE \E w \in Workers : AckCompleted(w) \/ AckFailed(w) \/ Crash(w) \/ LoseLock(w)
  BY <1>1, <1>6 DEF AckCompleted, AckFailed, Crash, LoseLock, rowVars, callVars
<1>7. CASE \E r \in Requests : Promote(r) \/ StalledCheck(r)
  BY <1>1, <1>7 DEF Promote, StalledCheck, rowVars, callVars
<1>8. CASE \E w \in Workers, r \in Requests : Take(w, r)
  BY <1>1, <1>8 DEF Take, rowVars, callVars
<1>9. CASE UNCHANGED vars
  BY <1>1, <1>9 DEF vars, rowVars, callVars
<1> QED
  BY <1>2, <1>3, <1>4, <1>5, <1>6, <1>7, <1>8, <1>9 DEF Next, Call, Handler

LEMMA BusyStep == ASSUME TypeOK, Busy, Queued, [Next]_vars PROVE Busy'
<1>1. \A r \in Requests : Stored(r) => Stored(r)'
  BY RowsGrowStep DEF RowsGrow
<1>2. SUFFICES ASSUME NEW w \in Workers, at'[w] # "idle"
               PROVE  on'[w] \in Requests /\ (at[w] # "idle" => on'[w] = on[w])
                        /\ (at[w] = "idle" => Stored(on'[w]))
  BY <1>1 DEF Busy, Stored
<1>3. ASSUME NEW v \in Workers,
             \/ MarkProcessing(v) \/ CountAttempt(v) \/ Simulate(v)
             \/ Complete(v) \/ ReadAttempts(v) \/ MarkFailed(v)
      PROVE  on' = on /\ at[w] # "idle"
  BY <1>2, <1>3 DEF MarkProcessing, CountAttempt, Simulate, Complete, TypeOK,
       ReadAttempts, MarkFailed, Write, WorkerGoto
<1>4. ASSUME NEW v \in Workers, AckCompleted(v) \/ AckFailed(v) \/ Crash(v)
      PROVE  on'[w] = on[w] /\ at[w] # "idle"
  BY <1>2, <1>4 DEF AckCompleted, AckFailed, Crash, Idle, TypeOK
<1>5. ASSUME NEW v \in Workers, NEW r \in Requests, Take(v, r)
      PROVE  \/ on'[w] = on[w] /\ at[w] # "idle"
             \/ on'[w] = r /\ Stored(r) /\ at[w] = "idle"
  BY <1>2, <1>5 DEF Take, TypeOK, Queued
<1>6. CASE UNCHANGED workerVars
  BY <1>2, <1>6 DEF workerVars, Busy
<1>7. CASE \E r \in Requests : Call(r) \/ Promote(r) \/ StalledCheck(r)
  BY <1>6, <1>7 DEF Call, FindExisting, InsertRow, Enqueue, Promote, StalledCheck
<1>8. CASE (\E v \in Workers : LoseLock(v)) \/ UNCHANGED vars
  BY <1>6, <1>8 DEF LoseLock, vars
<1> QED
  BY <1>2, <1>3, <1>4, <1>5, <1>7, <1>8 DEF Next, Handler, Busy

LEMMA QueuedStep == ASSUME TypeOK, Busy, Queued, [Next]_vars PROVE Queued'
<1>1. \A r \in Requests : Stored(r) => Stored(r)'
  BY RowsGrowStep DEF RowsGrow
<1>2. SUFFICES ASSUME NEW s \in Requests, ~Stored(s),
                      entry'[s] # "none" \/ callAt'[s] = "enqueue"
               PROVE  Stored(s)'
  BY <1>1 DEF Queued, Stored
<1>3. entry[s] = "none" /\ callAt[s] # "enqueue"
  BY <1>2 DEF Queued
<1>4. CASE UNCHANGED <<entry, callAt>>
  BY <1>2, <1>3, <1>4
<1>5. ASSUME NEW r \in Requests, FindExisting(r) PROVE Stored(s)'
  BY <1>2, <1>3, <1>5 DEF FindExisting, Return, CallGoto, TypeOK, queueVars
<1>6. ASSUME NEW r \in Requests, InsertRow(r) PROVE Stored(s)'
  BY <1>2, <1>3, <1>6 DEF InsertRow, Write, CallGoto, TypeOK, queueVars, Stored
<1>7. ASSUME NEW r \in Requests, Enqueue(r) PROVE Stored(s)'
  BY <1>2, <1>3, <1>7 DEF Enqueue, Write, CallGoto, Return, TypeOK
<1>8. ASSUME NEW w \in Workers, AckCompleted(w) PROVE Stored(s)'
  BY <1>1, <1>2, <1>3, <1>8 DEF AckCompleted, Busy, TypeOK, callVars
<1>9. ASSUME NEW w \in Workers, AckFailed(w) PROVE Stored(s)'
  BY <1>1, <1>2, <1>3, <1>9 DEF AckFailed, Busy, TypeOK, callVars
<1>10. ASSUME NEW w \in Workers, NEW r \in Requests, Take(w, r) PROVE Stored(s)'
  BY <1>2, <1>3, <1>10 DEF Take, TypeOK, callVars
<1>11. ASSUME NEW r \in Requests, Promote(r) \/ StalledCheck(r) PROVE Stored(s)'
  BY <1>2, <1>3, <1>11 DEF Promote, StalledCheck, Stalled, TypeOK, callVars
<1>12. CASE \E w \in Workers : Crash(w) \/ LoseLock(w)
  BY <1>4, <1>12 DEF Crash, LoseLock, callVars
<1>13. ASSUME NEW w \in Workers,
              \/ MarkProcessing(w) \/ CountAttempt(w) \/ Simulate(w)
              \/ Complete(w) \/ ReadAttempts(w) \/ MarkFailed(w)
       PROVE  Stored(s)'
  BY <1>4, <1>13 DEF MarkProcessing, CountAttempt, Simulate, Complete,
       ReadAttempts, MarkFailed, callVars, queueVars
<1>14. CASE UNCHANGED vars
  BY <1>4, <1>14 DEF vars, callVars, queueVars
<1> QED
  BY <1>5, <1>6, <1>7, <1>8, <1>9, <1>10, <1>11, <1>12, <1>13, <1>14
     DEF Next, Call, Handler

LEMMA UniqueKeysStep ==
  ASSUME TypeOK, Busy, UniqueKeys, [Next]_vars PROVE UniqueKeys'
<1>1. RowsGrow
  BY RowsGrowStep
<1>2. CASE \A s \in Requests : Stored(s)' <=> Stored(s)
  BY <1>1, <1>2 DEF RowsGrow, UniqueKeys, Stored
<1>3. ASSUME NEW r \in Requests, KeyFree(r),
             \A s \in Requests : Stored(s)' <=> s = r \/ Stored(s)
      PROVE  UniqueKeys'
  <2>1. \A s \in Requests : Stored(s) /\ key[r] = key[s] => key[r] = NoKey
    BY <1>3 DEF KeyFree, RowsWithKey
  <2> QED BY <1>1, <1>3, <2>1 DEF RowsGrow, UniqueKeys, Stored
<1> QED BY <1>1, <1>2, <1>3 DEF RowsGrow

LEMMA AnsweredStep ==
  ASSUME TypeOK, Busy, Queued, Answered, [Next]_vars PROVE Answered'
<1>1. key' = key /\ \A r \in Requests : Stored(r) => Stored(r)'
  BY RowsGrowStep DEF RowsGrow
<1>2. \A r \in Requests : answer[r] # NoJob => answer[r] \in Requests
  BY DEF TypeOK
<1>3. SUFFICES ASSUME NEW s \in Requests, answer'[s] # answer[s]
               PROVE  /\ answer'[s] \in Requests
                      /\ Stored(answer'[s])
                      /\ key[answer'[s]] = key[s]
  BY <1>1, <1>2 DEF Answered, Stored
<1>4. ASSUME NEW r \in Requests, FindExisting(r) PROVE
        \E j \in RowsWithKey(key[s]) : answer'[s] = j
  BY <1>3, <1>4 DEF FindExisting, Return, TypeOK
<1>5. ASSUME NEW r \in Requests, Enqueue(r) PROVE answer'[s] = s /\ Stored(s)
  BY <1>3, <1>5 DEF Enqueue, Write, Return, TypeOK, Queued
<1>6. CASE \E r \in Requests : InsertRow(r) \/ Promote(r) \/ StalledCheck(r)
  BY <1>3, <1>6 DEF InsertRow, Promote, StalledCheck, callVars
<1>7. CASE \E w \in Workers :
             Handler(w) \/ Crash(w) \/ LoseLock(w) \/ \E r \in Requests : Take(w, r)
  BY <1>3, <1>7 DEF Handler, MarkProcessing, CountAttempt, Simulate, Complete,
       ReadAttempts, MarkFailed, AckCompleted, AckFailed, Crash, LoseLock, Take,
       callVars
<1>8. CASE UNCHANGED vars
  BY <1>3, <1>8 DEF vars, callVars
<1> QED
  BY <1>4, <1>5, <1>6, <1>7, <1>8 DEF Next, Call, RowsWithKey

LEMMA KeyInvariant == Spec => []KeyInv
<1>1. Init => KeyInv
  BY ConstantsAssumption
     DEF Init, KeyInv, TypeOK, FaultKinds, Busy, Queued, UniqueKeys, Answered, Stored
<1>2. KeyInv /\ [Next]_vars => KeyInv'
  BY TypeStep, BusyStep, QueuedStep, UniqueKeysStep, AnsweredStep DEF KeyInv
<1> QED BY <1>1, <1>2, PTL DEF Spec

(* Resending a request never queues its work twice, in any interleaving of  *)
(* any number of calls: OneEntryPerKey for all constants.                   *)
THEOREM NoDuplicateEntry == Spec => []OneEntryPerKey
<1>1. KeyInv => OneEntryPerKey
  BY DEF KeyInv, Queued, UniqueKeys, OneEntryPerKey
<1> QED BY <1>1, KeyInvariant, PTL

(* All the answers for one key name one stored job, whichever of the racing *)
(* calls inserted it: IdempotentAnswers for all constants.                  *)
THEOREM AnswersAgree == Spec => []IdempotentAnswers
<1>1. KeyInv => IdempotentAnswers
  BY DEF KeyInv, TypeOK, UniqueKeys, Answered, IdempotentAnswers
<1> QED BY <1>1, KeyInvariant, PTL

-----------------------------------------------------------------------------
(* Attempts.                                                               *)

(* A handler that decided to mark the row FAILED saw its attempts used up,  *)
(* and attempts never go down.                                             *)
FailInv ==
    /\ FailedMeansExhausted
    /\ \A w \in Workers : at[w] = "fail" => attempts[on[w]] >= MaxAttempts

LEMMA FailStep ==
  ASSUME TypeOK, Busy, Busy', FailInv, [Next]_vars PROVE FailInv'
<1> USE BoundsAssumption DEF FailInv, FailedMeansExhausted, TypeOK
<1>1. CASE UNCHANGED <<status, attempts, workerVars>>
  BY <1>1 DEF workerVars
<1>2. ASSUME NEW r \in Requests, InsertRow(r) PROVE FailInv'
  BY <1>2 DEF InsertRow, Write, workerVars
<1>3. ASSUME NEW w \in Workers, CountAttempt(w) PROVE FailInv'
  <2>1. on[w] \in Requests
    BY <1>3 DEF CountAttempt, Busy
  <2>2. \A r \in Requests : attempts'[r] \in Nat /\ attempts'[r] >= attempts[r]
    BY <1>3, <2>1 DEF CountAttempt, Write, IncrementAttempts
  <2>3. \A v \in Workers : at'[v] = "fail" => at[v] = "fail" /\ on'[v] = on[v]
    BY <1>3 DEF CountAttempt, Write, WorkerGoto
  <2>4. \A v \in Workers : at[v] = "fail" => on[v] \in Requests
    BY DEF Busy
  <2> QED BY <1>3, <2>2, <2>3, <2>4 DEF CountAttempt
<1>4. ASSUME NEW w \in Workers, MarkProcessing(w) \/ Complete(w) PROVE FailInv'
  BY <1>4 DEF MarkProcessing, Complete, Write, UpdateJobStatus, WorkerGoto
<1>5. ASSUME NEW w \in Workers, MarkFailed(w) PROVE FailInv'
  BY <1>5 DEF MarkFailed, Write, UpdateJobStatus, WorkerGoto
<1>6. ASSUME NEW w \in Workers, Simulate(w) \/ ReadAttempts(w) PROVE FailInv'
  BY <1>6 DEF Simulate, ReadAttempts, Exhausted, WorkerGoto, rowVars
<1>7. ASSUME NEW w \in Workers, AckCompleted(w) \/ AckFailed(w) \/ Crash(w)
      PROVE  FailInv'
  BY <1>7 DEF AckCompleted, AckFailed, Crash, Idle, rowVars
<1>8. ASSUME NEW w \in Workers, NEW r \in Requests, Take(w, r) PROVE FailInv'
  BY <1>8 DEF Take, rowVars
<1>9. CASE \/ \E r \in Requests : FindExisting(r) \/ Enqueue(r) \/ Promote(r) \/ StalledCheck(r)
           \/ \E w \in Workers : LoseLock(w)
           \/ UNCHANGED vars
  BY <1>1, <1>9 DEF FindExisting, Enqueue, Promote, StalledCheck, LoseLock, vars, rowVars
<1> QED
  BY <1>2, <1>3, <1>4, <1>5, <1>6, <1>7, <1>8, <1>9 DEF Next, Call, Handler

(* No row is marked FAILED early, however handlers of the same job overlap: *)
(* FailedMeansExhausted for all constants.                                 *)
THEOREM NeverFailedEarly == Spec => []FailedMeansExhausted
<1>1. Init => FailInv
  BY DEF Init, FailInv, FailedMeansExhausted
<1>2. KeyInv /\ KeyInv' /\ FailInv /\ [Next]_vars => FailInv'
  BY FailStep DEF KeyInv
<1>3. FailInv => FailedMeansExhausted
  BY DEF FailInv
<1> QED BY <1>1, <1>2, <1>3, KeyInvariant, PTL DEF Spec

-----------------------------------------------------------------------------
(* Number of attempts.                                                     *)

(* The handlers of job r that have not counted their attempt yet.           *)
Uncounted(r) == {w \in Workers : on[w] = r /\ at[w] \in {"mark", "count"}}

(* The run of the handler that neither attemptsMade nor stalledCounter      *)
(* accounts for yet.                                                       *)
Running(r) == IF entry[r] \in {"active", "completed"} THEN 1 ELSE 0

(* Each attempt counted or still to be counted belongs to a run of the      *)
(* handler, and Bull has accounted for all runs but the present one.        *)
Accounted == \A r \in Requests :
    attempts[r] + Cardinality(Uncounted(r)) <= made[r] + stalls[r] + Running(r)

(* Bull's counters stay below their limits until the entry fails, and only  *)
(* one of them ever reaches its limit.                                     *)
Limits == \A r \in Requests :
    IF entry[r] = "failed"
    THEN made[r] + stalls[r] <= QueueAttempts + MaxStalled
    ELSE made[r] < QueueAttempts /\ stalls[r] <= MaxStalled

(* Only active entries are locked, and there is no entry before the add.    *)
Locks == \A r \in Requests :
    /\ lock[r] # Nobody => entry[r] = "active"
    /\ callAt[r] \in {"lookup", "insert", "enqueue"} => entry[r] = "none"

LEMMA UncountedFinite ==
  ASSUME NEW r PROVE /\ IsFiniteSet(Uncounted(r))
                     /\ Cardinality(Uncounted(r)) \in Nat
<1>1. Uncounted(r) \subseteq Workers
  BY DEF Uncounted
<1> QED BY <1>1, ConstantsAssumption, FS_Subset, FS_CardinalityType

LEMMA OneMore ==
  ASSUME NEW S, NEW T, NEW x, IsFiniteSet(S), x \notin S, T = S \cup {x}
  PROVE  Cardinality(T) = Cardinality(S) + 1
<1>1. Cardinality(S \cup {x}) = Cardinality(S) + 1
  BY FS_AddElement
<1> QED BY <1>1

(* A handler that only moves on leaves the count of the others alone.       *)
LEMMA UncountedShrinks ==
  ASSUME NEW r, Uncounted(r)' \subseteq Uncounted(r)
  PROVE  /\ Cardinality(Uncounted(r)') \in Nat
         /\ Cardinality(Uncounted(r)') <= Cardinality(Uncounted(r))
  BY UncountedFinite, FS_Subset, FS_CardinalityType

LEMMA LocksStep == ASSUME TypeOK, Locks, [Next]_vars PROVE Locks'
<1> USE DEF Locks, TypeOK
<1>1. CASE UNCHANGED <<lock, entry, callAt>>
  BY <1>1
<1>2. ASSUME NEW r \in Requests, FindExisting(r) \/ InsertRow(r) PROVE Locks'
  BY <1>2 DEF FindExisting, InsertRow, Write, Return, CallGoto, queueVars
<1>3. ASSUME NEW r \in Requests, Enqueue(r) PROVE Locks'
  BY <1>3 DEF Enqueue, Write, Return, CallGoto
<1>4. ASSUME NEW w \in Workers, AckCompleted(w) PROVE Locks'
  BY <1>4, ConstantsAssumption DEF AckCompleted, HoldsLock, callVars
<1>5. ASSUME NEW w \in Workers, AckFailed(w) PROVE Locks'
  BY <1>5, ConstantsAssumption DEF AckFailed, HoldsLock, callVars
<1>6. ASSUME NEW w \in Workers, NEW r \in Requests, Take(w, r) PROVE Locks'
  BY <1>6 DEF Take, callVars
<1>7. ASSUME NEW r \in Requests, Promote(r) \/ StalledCheck(r) PROVE Locks'
  BY <1>7 DEF Promote, StalledCheck, Stalled, callVars
<1>8. ASSUME NEW w \in Workers, Crash(w) \/ LoseLock(w) PROVE Locks'
  BY <1>8 DEF Crash, LoseLock, ReleaseLock, callVars
<1>9. CASE \E w \in Workers :
             \/ MarkProcessing(w) \/ CountAttempt(w) \/ Simulate(w)
             \/ Complete(w) \/ ReadAttempts(w) \/ MarkFailed(w)
  BY <1>1, <1>9 DEF MarkProcessing, CountAttempt, Simulate, Complete,
       ReadAttempts, MarkFailed, callVars, queueVars
<1>10. CASE UNCHANGED vars
  BY <1>1, <1>10 DEF vars, callVars, queueVars
<1> QED
  BY <1>2, <1>3, <1>4, <1>5, <1>6, <1>7, <1>8, <1>9, <1>10 DEF Next, Call, Handler

LEMMA LimitsStep ==
  ASSUME TypeOK, Busy, Locks, Limits, [Next]_vars PROVE Limits'
<1> USE BoundsAssumption DEF Limits, TypeOK
<1>1. CASE UNCHANGED <<entry, made, stalls>>
  BY <1>1
<1>2. ASSUME NEW r \in Requests, Enqueue(r) PROVE Limits'
  BY <1>2 DEF Enqueue, Write, Locks
<1>3. ASSUME NEW w \in Workers, AckCompleted(w) PROVE Limits'
  <2>1. CASE HoldsLock(w)
    <3>1. on[w] \in Requests /\ entry[on[w]] = "active"
      BY <1>3, <2>1, ConstantsAssumption DEF AckCompleted, HoldsLock, Locks, Busy
    <3> QED BY <1>3, <2>1, <3>1 DEF AckCompleted
  <2>2. CASE ~HoldsLock(w)
    BY <1>3, <2>2 DEF AckCompleted
  <2> QED BY <2>1, <2>2
<1>4. ASSUME NEW w \in Workers, AckFailed(w) PROVE Limits'
  <2>1. CASE HoldsLock(w)
    <3>1. on[w] \in Requests /\ entry[on[w]] = "active"
      BY <1>4, <2>1, ConstantsAssumption DEF AckFailed, HoldsLock, Locks, Busy
    <3>2. /\ made' = [made EXCEPT ![on[w]] = @ + 1]
          /\ entry' = [entry EXCEPT ![on[w]] =
                          IF AttemptsLeft(on[w]) THEN "delayed" ELSE "failed"]
          /\ stalls' = stalls
      BY <1>4, <2>1 DEF AckFailed
    <3> QED BY <3>1, <3>2 DEF AttemptsLeft
  <2>2. CASE ~HoldsLock(w)
    BY <1>4, <2>2 DEF AckFailed
  <2> QED BY <2>1, <2>2
<1>5. ASSUME NEW w \in Workers, NEW r \in Requests, Take(w, r) PROVE Limits'
  BY <1>5 DEF Take
<1>6. ASSUME NEW r \in Requests, Promote(r) PROVE Limits'
  BY <1>6 DEF Promote
<1>7. ASSUME NEW r \in Requests, StalledCheck(r) PROVE Limits'
  BY <1>7 DEF StalledCheck, Stalled
<1>8. CASE \/ \E r \in Requests : FindExisting(r) \/ InsertRow(r)
           \/ \E w \in Workers :
                 \/ MarkProcessing(w) \/ CountAttempt(w) \/ Simulate(w)
                 \/ Complete(w) \/ ReadAttempts(w) \/ MarkFailed(w)
                 \/ Crash(w) \/ LoseLock(w)
           \/ UNCHANGED vars
  BY <1>1, <1>8 DEF FindExisting, InsertRow, MarkProcessing, CountAttempt, Simulate,
       Complete, ReadAttempts, MarkFailed, Crash, LoseLock, vars, queueVars
<1> QED
  BY <1>2, <1>3, <1>4, <1>5, <1>6, <1>7, <1>8 DEF Next, Call, Handler

LEMMA AccountedStep ==
  ASSUME TypeOK, Busy, Locks, Accounted, [Next]_vars PROVE Accounted'
<1> USE DEF TypeOK
<1> SUFFICES ASSUME NEW s \in Requests
             PROVE  attempts'[s] + Cardinality(Uncounted(s)')
                      <= made'[s] + stalls'[s] + Running(s)'
  BY DEF Accounted
<1> DEFINE Goal == attempts'[s] + Cardinality(Uncounted(s)')
                     <= made'[s] + stalls'[s] + Running(s)'
<1>2. /\ attempts[s] + Cardinality(Uncounted(s)) <= made[s] + stalls[s] + Running(s)
      /\ Cardinality(Uncounted(s)) \in Nat
      /\ Running(s) \in {0, 1}
      /\ attempts[s] \in Nat /\ made[s] \in Nat /\ stalls[s] \in Nat
  BY UncountedFinite DEF Accounted, Running
<1>3. ASSUME Uncounted(s)' \subseteq Uncounted(s), attempts'[s] = attempts[s],
             made'[s] \in Nat, stalls'[s] \in Nat,
             made[s] + stalls[s] + Running(s) <= made'[s] + stalls'[s] + Running(s)'
      PROVE  Goal
  <2>1. /\ Cardinality(Uncounted(s)') \in Nat
        /\ Cardinality(Uncounted(s)') <= Cardinality(Uncounted(s))
    BY <1>3, UncountedShrinks
  <2>2. Running(s)' \in Nat
    BY DEF Running
  <2> QED BY <1>2, <1>3, <2>1, <2>2
<1>4. ASSUME NEW r \in Requests, Call(r)
      PROVE  Goal
  <2>1. UNCHANGED <<attempts, made, stalls, at, on>>
    BY <1>4 DEF Call, FindExisting, InsertRow, Enqueue, rowVars, queueVars, workerVars
  <2>2. Running(s)' = Running(s)
    <3>1. CASE UNCHANGED entry
      BY <3>1 DEF Running
    <3>2. CASE callAt[r] = "enqueue" /\ entry' = [entry EXCEPT ![r] = "waiting"]
      BY <3>2 DEF Running, Locks
    <3> QED BY <1>4, <3>1, <3>2 DEF Call, FindExisting, InsertRow, Enqueue, Write, queueVars
  <2>3. Uncounted(s)' = Uncounted(s)
    BY <2>1 DEF Uncounted
  <2> QED BY <1>2, <1>3, <2>1, <2>2, <2>3
<1>5. ASSUME NEW w \in Workers, CountAttempt(w)
      PROVE  Goal
  <2>1. /\ UNCHANGED <<made, stalls, entry, on>>
        /\ at[w] = "count"
        /\ at' = [at EXCEPT ![w] = "simulate"] \/ at' = [at EXCEPT ![w] = "catch"]
        /\ on[w] \in Requests
    BY <1>5 DEF CountAttempt, Write, WorkerGoto, queueVars, Busy
  <2>2. Running(s)' = Running(s)
    BY <2>1 DEF Running
  <2>3. attempts' = attempts \/ attempts' = [attempts EXCEPT ![on[w]] = @ + 1]
    BY <1>5 DEF CountAttempt, Write, IncrementAttempts
  <2>4. CASE on[w] = s
    <3>1. Uncounted(s)' = Uncounted(s) \ {w} /\ w \in Uncounted(s)
      BY <2>1, <2>4 DEF Uncounted
    <3>2. Cardinality(Uncounted(s)') = Cardinality(Uncounted(s)) - 1
      BY <3>1, UncountedFinite, FS_RemoveElement
    <3>3. attempts'[s] \in Nat /\ attempts'[s] <= attempts[s] + 1
      BY <2>3, <2>4
    <3> QED BY <1>2, <2>1, <2>2, <3>2, <3>3
  <2>5. CASE on[w] # s
    <3>1. Uncounted(s)' = Uncounted(s)
      BY <2>1, <2>5 DEF Uncounted
    <3>2. attempts'[s] = attempts[s]
      BY <2>1, <2>3, <2>5
    <3> QED BY <1>2, <2>1, <2>2, <3>1, <3>2
  <2> QED BY <2>4, <2>5
<1>6. ASSUME NEW w \in Workers,
             \/ MarkProcessing(w) \/ Simulate(w) \/ Complete(w)
             \/ ReadAttempts(w) \/ MarkFailed(w) \/ LoseLock(w)
      PROVE  Goal
  <2>1. UNCHANGED <<attempts, made, stalls, entry, on>>
    BY <1>6 DEF MarkProcessing, Simulate, Complete, ReadAttempts, MarkFailed,
         LoseLock, rowVars, queueVars, workerVars
  <2>2. \A v \in Workers : at'[v] \in {"mark", "count"} => at[v] \in {"mark", "count"}
    BY <1>6 DEF MarkProcessing, Simulate, Complete, ReadAttempts, MarkFailed,
         LoseLock, Write, WorkerGoto, workerVars
  <2>3. Uncounted(s)' \subseteq Uncounted(s) /\ Running(s)' = Running(s)
    BY <2>1, <2>2 DEF Uncounted, Running
  <2> QED BY <1>2, <1>3, <2>1, <2>3
<1>7. ASSUME NEW w \in Workers, AckCompleted(w) \/ AckFailed(w) \/ Crash(w)
      PROVE  Goal
  <2>1. /\ UNCHANGED <<attempts, stalls>>
        /\ at' = [at EXCEPT ![w] = "idle"] /\ on' = [on EXCEPT ![w] = NoJob]
        /\ at[w] # "idle"
    BY <1>7 DEF AckCompleted, AckFailed, Crash, Idle, rowVars
  <2>2. Uncounted(s)' \subseteq Uncounted(s)
    BY <2>1 DEF Uncounted
  <2>3. CASE UNCHANGED <<made, entry>>
    BY <1>2, <1>3, <2>1, <2>2, <2>3 DEF Running
  <2>4. CASE HoldsLock(w) /\ AckCompleted(w)
    <3>1. entry[on[w]] = "active" /\ on[w] \in Requests
      BY <2>1, <2>4, ConstantsAssumption DEF HoldsLock, Locks, Busy
    <3>2. made' = made /\ entry' = [entry EXCEPT ![on[w]] = "completed"]
      BY <2>4 DEF AckCompleted
    <3>3. Running(s)' = Running(s)
      BY <3>1, <3>2 DEF Running
    <3> QED BY <1>2, <1>3, <2>1, <2>2, <3>2, <3>3
  <2>5. CASE HoldsLock(w) /\ AckFailed(w)
    <3>1. entry[on[w]] = "active" /\ on[w] \in Requests
      BY <2>1, <2>5, ConstantsAssumption DEF HoldsLock, Locks, Busy
    <3>2. /\ made' = [made EXCEPT ![on[w]] = @ + 1]
          /\ \E e \in {"delayed", "failed"} : entry' = [entry EXCEPT ![on[w]] = e]
      BY <2>5 DEF AckFailed
    <3>3. made'[s] \in Nat /\ made[s] + Running(s) = made'[s] + Running(s)'
      BY <3>1, <3>2 DEF Running
    <3>4. Running(s)' \in Nat
      BY DEF Running
    <3> QED BY <1>2, <1>3, <2>1, <2>2, <3>3, <3>4
  <2> QED BY <1>7, <2>3, <2>4, <2>5 DEF AckCompleted, AckFailed, Crash
<1>8. ASSUME NEW w \in Workers, NEW r \in Requests, Take(w, r)
      PROVE  Goal
  <2>1. /\ UNCHANGED <<attempts, made, stalls>>
        /\ at[w] = "idle" /\ entry[r] = "waiting"
        /\ entry' = [entry EXCEPT ![r] = "active"]
        /\ at' = [at EXCEPT ![w] = "mark"] /\ on' = [on EXCEPT ![w] = r]
    BY <1>8 DEF Take, rowVars
  <2>2. CASE r = s
    <3>1. Uncounted(s)' = Uncounted(s) \cup {w} /\ w \notin Uncounted(s)
      BY <2>1, <2>2 DEF Uncounted
    <3>2. Cardinality(Uncounted(s)') = Cardinality(Uncounted(s)) + 1
      <4>1. IsFiniteSet(Uncounted(s))
        BY UncountedFinite
      <4> HIDE DEF Uncounted
      <4> QED BY ONLY <3>1, <4>1, OneMore
    <3>3. Running(s) = 0 /\ Running(s)' = 1
      BY <2>1, <2>2 DEF Running
    <3> QED BY <1>2, <2>1, <3>2, <3>3
  <2>3. CASE r # s
    <3>1. Uncounted(s)' = Uncounted(s) /\ Running(s)' = Running(s)
      BY <2>1, <2>3 DEF Uncounted, Running
    <3> QED BY <1>2, <1>3, <2>1, <3>1
  <2> QED BY <2>2, <2>3
<1>9. ASSUME NEW r \in Requests, Promote(r) \/ StalledCheck(r)
      PROVE  Goal
  <2>1. UNCHANGED <<attempts, made, at, on>>
    BY <1>9 DEF Promote, StalledCheck, rowVars, workerVars
  <2>2. Uncounted(s)' = Uncounted(s)
    BY <2>1 DEF Uncounted
  <2>3. stalls'[s] \in Nat /\ stalls[s] + Running(s) = stalls'[s] + Running(s)'
    BY <1>9 DEF Promote, StalledCheck, Stalled, Running
  <2>4. Running(s)' \in Nat
    BY DEF Running
  <2> QED BY <1>2, <1>3, <2>1, <2>2, <2>3, <2>4
<1>10. CASE UNCHANGED vars
  <2>1. /\ Uncounted(s)' = Uncounted(s) /\ Running(s)' = Running(s)
        /\ UNCHANGED <<attempts, made, stalls>>
    BY <1>10 DEF vars, rowVars, queueVars, workerVars, Uncounted, Running
  <2> QED BY <1>2, <2>1
<1> QED
  BY <1>4, <1>5, <1>6, <1>7, <1>8, <1>9, <1>10 DEF Next, Handler

(* Crashes, stalls and overlapping handlers can try a job at most           *)
(* QueueAttempts + MaxStalled times: AttemptsBounded for all constants.    *)
THEOREM BoundedAttempts == Spec => []AttemptsBounded
<1> DEFINE Inv == Locks /\ Limits /\ Accounted
<1>1. Init => Inv
  <2>1. Init => Locks /\ Limits
    BY BoundsAssumption DEF Init, Locks, Limits
  <2>2. ASSUME Init, NEW r \in Requests
        PROVE  attempts[r] + Cardinality(Uncounted(r))
                 <= made[r] + stalls[r] + Running(r)
    <3>1. Uncounted(r) = {}
      BY <2>2 DEF Init, Uncounted
    <3> QED BY <2>2, <3>1, FS_EmptySet DEF Init, Running
  <2> QED BY <2>1, <2>2 DEF Accounted
<1>2. KeyInv /\ Inv /\ [Next]_vars => Inv'
  BY LocksStep, LimitsStep, AccountedStep DEF KeyInv
<1>3. KeyInv /\ Inv => AttemptsBounded
  <2> SUFFICES ASSUME TypeOK, Limits, Accounted, NEW r \in Requests
               PROVE  attempts[r] <= QueueAttempts + MaxStalled
    BY DEF KeyInv, AttemptsBounded
  <2>1. attempts[r] + Cardinality(Uncounted(r)) <= made[r] + stalls[r] + Running(r)
    BY DEF Accounted
  <2>2. Cardinality(Uncounted(r)) \in Nat
    BY UncountedFinite
  <2>3. attempts[r] \in Nat /\ made[r] \in Nat /\ stalls[r] \in Nat
    BY DEF TypeOK
  <2> QED BY <2>1, <2>2, <2>3, BoundsAssumption DEF Limits, Running
<1> QED BY <1>1, <1>2, <1>3, KeyInvariant, PTL DEF Spec

-----------------------------------------------------------------------------
(* Completed entries.                                                      *)

(* A handler holds the lock of the entry it handles.                        *)
Holding == \A w \in Workers :
    at[w] # "idle" =>
        on[w] \in Requests /\ lock[on[w]] = w /\ entry[on[w]] = "active"

(* The row is COMPLETED from before Bull hears of it.                       *)
Finished ==
    /\ \A w \in Workers : at[w] = "ackDone" => status[on[w]] = "COMPLETED"
    /\ \A r \in Requests : entry[r] = "completed" => status[r] = "COMPLETED"

NoStall == faults["stall"] = 0

LEMMA NoStallBefore == ASSUME TypeOK, [Next]_vars, NoStall' PROVE NoStall
<1> USE DEF NoStall, TypeOK, FaultKinds
<1>1. CASE UNCHANGED faults
  BY <1>1
<1>2. ASSUME NEW k \in FaultKinds, Fault(k) PROVE NoStall
  BY <1>2 DEF Fault
<1>3. CASE \E r \in Requests : Call(r)
  BY <1>1, <1>2, <1>3 DEF Call, FindExisting, InsertRow, Enqueue, Write
<1>4. CASE \E w \in Workers : Handler(w)
  BY <1>1, <1>2, <1>4 DEF Handler, MarkProcessing, CountAttempt, Simulate, Complete,
       ReadAttempts, MarkFailed, AckCompleted, AckFailed, Write
<1>5. CASE \E w \in Workers : Crash(w) \/ LoseLock(w)
  BY <1>2, <1>5 DEF Crash, LoseLock
<1>6. CASE \/ \E r \in Requests : Promote(r) \/ StalledCheck(r)
           \/ \E w \in Workers, r \in Requests : Take(w, r)
           \/ UNCHANGED vars
  BY <1>1, <1>6 DEF Promote, StalledCheck, Take, vars
<1> QED BY <1>3, <1>4, <1>5, <1>6 DEF Next

LEMMA HoldingStep ==
  ASSUME TypeOK, Locks, Holding, NoStall', [Next]_vars PROVE Holding'
<1> USE DEF TypeOK, Holding
<1>1. CASE UNCHANGED <<queueVars, workerVars>>
  BY <1>1 DEF queueVars, workerVars
<1>2. ASSUME NEW r \in Requests, Enqueue(r) PROVE Holding'
  BY <1>2 DEF Enqueue, Write, Locks, workerVars
<1>3. ASSUME NEW w \in Workers,
             \/ MarkProcessing(w) \/ CountAttempt(w) \/ Simulate(w)
             \/ Complete(w) \/ ReadAttempts(w) \/ MarkFailed(w)
      PROVE  Holding'
  <2>1. /\ UNCHANGED <<entry, lock, on>>
        /\ \A v \in Workers : at'[v] # "idle" => at[v] # "idle"
    BY <1>3 DEF MarkProcessing, CountAttempt, Simulate, Complete, ReadAttempts,
         MarkFailed, Write, WorkerGoto, queueVars
  <2> QED BY <2>1
<1>4. ASSUME NEW w \in Workers, AckCompleted(w) \/ AckFailed(w) PROVE Holding'
  <2>1. at[w] # "idle" /\ on[w] \in Requests /\ lock[on[w]] = w
    BY <1>4 DEF AckCompleted, AckFailed
  <2>2. /\ \E e \in {"completed", "delayed", "failed"} :
             entry' = [entry EXCEPT ![on[w]] = e]
        /\ lock' = [lock EXCEPT ![on[w]] = Nobody]
        /\ at' = [at EXCEPT ![w] = "idle"] /\ on' = [on EXCEPT ![w] = NoJob]
    BY <1>4, <2>1 DEF AckCompleted, AckFailed, HoldsLock, Idle
  <2> SUFFICES ASSUME NEW v \in Workers, at'[v] # "idle"
               PROVE  /\ on'[v] \in Requests /\ lock'[on'[v]] = v
                      /\ entry'[on'[v]] = "active"
    OBVIOUS
  <2>3. v # w /\ at[v] # "idle" /\ on'[v] = on[v]
    BY <2>2
  <2>4. on[v] \in Requests /\ lock[on[v]] = v /\ entry[on[v]] = "active"
    BY <2>3
  <2>5. on[v] # on[w]
    BY <2>1, <2>3, <2>4
  <2> QED BY <2>1, <2>2, <2>3, <2>4, <2>5
<1>5. ASSUME NEW w \in Workers, NEW r \in Requests, Take(w, r) PROVE Holding'
  BY <1>5, ConstantsAssumption DEF Take
<1>6. ASSUME NEW r \in Requests, Promote(r) \/ StalledCheck(r) PROVE Holding'
  BY <1>6, ConstantsAssumption DEF Promote, StalledCheck, Stalled, workerVars
<1>7. ASSUME NEW w \in Workers, Crash(w) PROVE Holding'
  <2>1. /\ at' = [at EXCEPT ![w] = "idle"] /\ on' = [on EXCEPT ![w] = NoJob]
        /\ lock' = [r \in Requests |-> IF lock[r] = w THEN Nobody ELSE lock[r]]
        /\ entry' = entry
    BY <1>7 DEF Crash, Idle, ReleaseLock
  <2> QED BY <2>1
<1>8. ASSUME NEW w \in Workers, LoseLock(w) PROVE FALSE
  BY <1>8 DEF LoseLock, Fault, NoStall, FaultKinds
<1>9. CASE \E r \in Requests : FindExisting(r) \/ InsertRow(r)
  BY <1>1, <1>9 DEF FindExisting, InsertRow
<1>10. CASE UNCHANGED vars
  BY <1>1, <1>10 DEF vars
<1> QED
  BY <1>2, <1>3, <1>4, <1>5, <1>6, <1>7, <1>8, <1>9, <1>10 DEF Next, Call, Handler

LEMMA FinishedStep ==
  ASSUME TypeOK, Locks, Holding, Busy, Finished, [Next]_vars PROVE Finished'
<1> USE DEF TypeOK, Finished
<1>1. CASE UNCHANGED <<status, entry, workerVars>>
  BY <1>1 DEF workerVars
<1>2. ASSUME NEW r \in Requests, InsertRow(r) PROVE Finished'
  <2>1. /\ entry[r] = "none" /\ UNCHANGED <<entry, at, on>>
        /\ status' = status \/ status' = [status EXCEPT ![r] = "PENDING"]
    BY <1>2 DEF InsertRow, Write, Locks, queueVars, workerVars
  <2>2. \A w \in Workers : at[w] # "idle" => on[w] \in Requests /\ on[w] # r
    BY <2>1 DEF Holding
  <2> QED BY <2>1, <2>2
<1>3. ASSUME NEW r \in Requests, Enqueue(r) \/ Promote(r) \/ StalledCheck(r)
      PROVE  Finished'
  <2>1. UNCHANGED <<status, at, on>>
    BY <1>3 DEF Enqueue, Promote, StalledCheck, rowVars, workerVars
  <2>2. entry' = entry \/ \E e \in {"waiting", "failed"} : entry' = [entry EXCEPT ![r] = e]
    BY <1>3 DEF Enqueue, Write, Promote, StalledCheck
  <2> QED BY <2>1, <2>2
<1>4. ASSUME NEW w \in Workers, MarkProcessing(w) \/ Complete(w) \/ MarkFailed(w)
      PROVE  Finished'
  <2>1. /\ at[w] # "idle" /\ on[w] \in Requests /\ entry[on[w]] = "active"
        /\ \A v \in Workers : v # w /\ at[v] # "idle" =>
                on[v] \in Requests /\ on[v] # on[w]
    <3>1. at[w] # "idle"
      BY <1>4 DEF MarkProcessing, Complete, MarkFailed
    <3> QED BY <3>1 DEF Holding
  <2>2. UNCHANGED <<entry, on>>
    BY <1>4 DEF MarkProcessing, Complete, MarkFailed, queueVars
  <2>3. \E s, l : /\ at' = [at EXCEPT ![w] = l] /\ (l = "ackDone" => s = "COMPLETED")
                 /\ status' = [status EXCEPT ![on[w]] = s]
    <3>1. \/ status' = [status EXCEPT ![on[w]] = status[on[w]]]
          \/ status' = [status EXCEPT ![on[w]] = "PROCESSING"] /\ at[w] = "mark"
          \/ status' = [status EXCEPT ![on[w]] = "COMPLETED"]
          \/ status' = [status EXCEPT ![on[w]] = "FAILED"] /\ at[w] = "fail"
      BY <1>4, <2>1 DEF MarkProcessing, Complete, MarkFailed, Write, UpdateJobStatus
    <3>2. CASE MarkProcessing(w) \/ MarkFailed(w)
      <4>1. \E l \in {"count", "catch", "ackFail"} : at' = [at EXCEPT ![w] = l]
        BY <3>2 DEF MarkProcessing, MarkFailed, Write, WorkerGoto
      <4> QED BY <3>1, <4>1
    <3>3. CASE Complete(w)
      <4>1. \/ /\ at' = [at EXCEPT ![w] = "ackDone"]
               /\ status' = [status EXCEPT ![on[w]] = "COMPLETED"]
            \/ at' = [at EXCEPT ![w] = "catch"]
        BY <3>3 DEF Complete, Write, UpdateJobStatus, WorkerGoto
      <4> QED BY <3>1, <4>1
    <3> QED BY <1>4, <3>2, <3>3
  <2> QED BY <2>1, <2>2, <2>3
<1>5. ASSUME NEW w \in Workers, CountAttempt(w) \/ Simulate(w) \/ ReadAttempts(w)
      PROVE  Finished'
  <2>1. UNCHANGED <<status, entry, on>>
    BY <1>5 DEF CountAttempt, Simulate, ReadAttempts, rowVars, queueVars
  <2>2. \E l \in {"simulate", "catch", "complete", "fail", "ackFail"} :
            at' = [at EXCEPT ![w] = l]
    BY <1>5 DEF CountAttempt, Simulate, ReadAttempts, Write, WorkerGoto
  <2> QED BY <2>1, <2>2
<1>6. ASSUME NEW w \in Workers, AckCompleted(w) \/ AckFailed(w) \/ Crash(w)
      PROVE  Finished'
  <2>1. /\ status' = status
        /\ at' = [at EXCEPT ![w] = "idle"] /\ on' = [on EXCEPT ![w] = NoJob]
    BY <1>6 DEF AckCompleted, AckFailed, Crash, Idle, rowVars
  <2>2. \/ entry' = entry
        \/ at[w] = "ackDone" /\ entry' = [entry EXCEPT ![on[w]] = "completed"]
        \/ \E e \in {"delayed", "failed"} : entry' = [entry EXCEPT ![on[w]] = e]
    BY <1>6 DEF AckCompleted, AckFailed, Crash
  <2>3. \A r \in Requests : entry'[r] = "completed" =>
            entry[r] = "completed" \/ (at[w] = "ackDone" /\ on[w] = r)
    BY <2>2
  <2> QED BY <2>1, <2>3
<1>7. ASSUME NEW w \in Workers, NEW r \in Requests, Take(w, r) PROVE Finished'
  BY <1>7 DEF Take, rowVars
<1>8. CASE \E r \in Requests : FindExisting(r)
  BY <1>1, <1>8 DEF FindExisting, rowVars, queueVars
<1>9. CASE (\E w \in Workers : LoseLock(w)) \/ UNCHANGED vars
  BY <1>1, <1>9 DEF LoseLock, vars, rowVars, queueVars
<1> QED
  BY <1>2, <1>3, <1>4, <1>5, <1>6, <1>7, <1>8, <1>9 DEF Next, Call, Handler

(* As long as no lock expires under a live worker, Bull calls an entry      *)
(* completed only when its row is COMPLETED, through crashes and lost       *)
(* answers: CompletedEntryHasCompletedRow for all constants.               *)
THEOREM CompletedMeansCompleted == Spec => []CompletedEntryHasCompletedRow
<1> DEFINE Inv == Locks /\ (NoStall => Holding /\ Finished)
<1>1. Init => Inv
  BY DEF Init, Locks, Holding, Finished
<1>2. KeyInv /\ Inv /\ [Next]_vars => Inv'
  BY LocksStep, NoStallBefore, HoldingStep, FinishedStep DEF KeyInv
<1>3. Inv => CompletedEntryHasCompletedRow
  BY DEF CompletedEntryHasCompletedRow, NoStall, Finished
<1> QED BY <1>1, <1>2, <1>3, KeyInvariant, PTL DEF Spec
=============================================================================
