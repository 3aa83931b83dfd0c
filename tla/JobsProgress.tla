---------------------------- MODULE JobsProgress ----------------------------
(***************************************************************************)
(* What the liveness of Jobs rests on, for every number of calls and       *)
(* workers, every choice of the retry constants and any number of faults:  *)
(* a queued entry is never left with nothing to move it, everything that   *)
(* moves it brings it nearer to its end, which it reaches only once, and   *)
(* its row then is settled too.                                            *)
(***************************************************************************)
EXTENDS JobsProofs

-----------------------------------------------------------------------------
(* Locks and their holders.  This is a fact about Bull alone, which the    *)
(* ranking of EntryAdvances needs.                                         *)

(* A locked entry is in the hands of the worker that locked it.             *)
NothingOrphaned ==
    \A r \in Requests :
        lock[r] # Nobody => on[lock[r]] = r /\ at[lock[r]] # "idle"

LEMMA NothingOrphanedStep ==
  ASSUME TypeOK, NothingOrphaned, [Next]_vars PROVE NothingOrphaned'
<1> USE DEF NothingOrphaned, TypeOK
<1>1. CASE UNCHANGED <<lock, at, on>>
  BY <1>1
<1>2. ASSUME NEW w \in Workers,
             \/ MarkProcessing(w) \/ CountAttempt(w) \/ Simulate(w)
             \/ Complete(w) \/ ReadAttempts(w) \/ MarkFailed(w)
      PROVE  NothingOrphaned'
  <2>1. /\ UNCHANGED <<lock, on>>
        /\ \E l \in {"count", "simulate", "complete", "catch", "fail", "ackDone", "ackFail"} :
              at' = [at EXCEPT ![w] = l]
    BY <1>2 DEF MarkProcessing, CountAttempt, Simulate, Complete, ReadAttempts,
         MarkFailed, Write, WorkerGoto, queueVars
  <2> QED BY <2>1, ConstantsAssumption
<1>3. ASSUME NEW w \in Workers, AckCompleted(w) \/ AckFailed(w)
      PROVE  NothingOrphaned'
  <2>1. /\ at' = [at EXCEPT ![w] = "idle"] /\ on' = [on EXCEPT ![w] = NoJob]
        /\ lock' = IF lock[on[w]] = w THEN [lock EXCEPT ![on[w]] = Nobody] ELSE lock
    BY <1>3 DEF AckCompleted, AckFailed, HoldsLock, Idle
  <2>2. \A r \in Requests : lock'[r] # Nobody => lock'[r] = lock[r] /\ lock[r] # w
    BY <2>1, ConstantsAssumption
  <2> QED BY <2>1, <2>2
<1>4. ASSUME NEW w \in Workers, NEW r \in Requests, Take(w, r)
      PROVE  NothingOrphaned'
  BY <1>4, ConstantsAssumption DEF Take
<1>5. ASSUME NEW w \in Workers, Crash(w)
      PROVE  NothingOrphaned'
  BY <1>5, ConstantsAssumption DEF Crash, ReleaseLock, Idle
<1>6. ASSUME NEW w \in Workers, LoseLock(w)
      PROVE  NothingOrphaned'
  BY <1>6, ConstantsAssumption DEF LoseLock, ReleaseLock, workerVars
<1>7. CASE \/ \E r \in Requests : Call(r) \/ Promote(r) \/ StalledCheck(r)
           \/ UNCHANGED vars
  BY <1>1, <1>7 DEF Call, FindExisting, InsertRow, Enqueue, Promote, StalledCheck,
       vars, queueVars, workerVars
<1> QED
  BY <1>2, <1>3, <1>4, <1>5, <1>6, <1>7 DEF Next, Handler

(* Bull's locks and its workers agree in every reachable state.             *)
LEMMA LocksAreHeld == Spec => []NothingOrphaned
<1>1. Init => NothingOrphaned
  BY DEF Init, NothingOrphaned
<1>2. TypeOK /\ NothingOrphaned /\ [Next]_vars => NothingOrphaned'
  BY NothingOrphanedStep
<1> QED BY <1>1, <1>2, TypeCorrect, PTL DEF Spec

-----------------------------------------------------------------------------
(* The distance of an entry from its end.                                  *)

LEMMA StepsValues ==
    /\ Steps["delayed"] = 10 /\ Steps["waiting"] = 9 /\ Steps["mark"] = 8
    /\ Steps["count"] = 7 /\ Steps["simulate"] = 6 /\ Steps["complete"] = 5
    /\ Steps["catch"] = 4 /\ Steps["fail"] = 3 /\ Steps["ackDone"] = 2
    /\ Steps["ackFail"] = 2 /\ Steps["stalled"] = 1
  BY DEF Steps

Unsettled(r) == entry[r] \notin {"none", "completed", "failed"}

(* An entry that is not settled is at one of the stages, and still away     *)
(* from its end.                                                           *)
AwayFromEnd == \A r \in Requests : Unsettled(r) =>
    /\ Steps[Stage(r)] \in 1 .. 10
    /\ Distance(r) = 10 * (QueueAttempts - made[r] + MaxStalled - stalls[r])
                       + Steps[Stage(r)]
    /\ Distance(r) \in Nat \ {0}

LEMMA UnsettledAway == TypeOK /\ Limits /\ NothingOrphaned => AwayFromEnd
<1> SUFFICES ASSUME TypeOK, Limits, NothingOrphaned, NEW r \in Requests, Unsettled(r)
             PROVE  /\ Steps[Stage(r)] \in 1 .. 10
                    /\ Distance(r) = 10 * (QueueAttempts - made[r] + MaxStalled - stalls[r])
                                       + Steps[Stage(r)]
                    /\ Distance(r) \in Nat \ {0}
  BY DEF AwayFromEnd
<1>1. Stage(r) \in {"delayed", "waiting", "mark", "count", "simulate", "complete",
                    "catch", "fail", "ackDone", "ackFail", "stalled"}
  BY DEF Stage, Unsettled, TypeOK, NothingOrphaned
<1>2. Steps[Stage(r)] \in 1 .. 10
  BY <1>1, StepsValues
<1>3. /\ made[r] \in Nat /\ stalls[r] \in Nat
      /\ made[r] < QueueAttempts /\ stalls[r] <= MaxStalled
  BY DEF TypeOK, Limits, Unsettled
<1>4. Distance(r) = 10 * (QueueAttempts - made[r] + MaxStalled - stalls[r])
                      + Steps[Stage(r)]
  BY DEF Distance, Settled, Unsettled
<1> QED BY <1>2, <1>3, <1>4, BoundsAssumption

(* The three ways of coming nearer: to the end, to the next stage of a run, *)
(* or to the next run, which one of Bull's counters pays for.               *)
LEMMA Nearer ==
  ASSUME TypeOK, TypeOK', AwayFromEnd, AwayFromEnd', NEW r \in Requests, Unsettled(r),
         \/ Settled(r)'
         \/ /\ Unsettled(r)' /\ made'[r] = made[r] /\ stalls'[r] = stalls[r]
            /\ Steps[Stage(r)]' < Steps[Stage(r)]
         \/ /\ Unsettled(r)' /\ made'[r] + stalls'[r] = made[r] + stalls[r] + 1
            /\ Steps[Stage(r)]' < Steps[Stage(r)] + 10
  PROVE  0 <= Distance(r)' /\ Distance(r)' < Distance(r)
<1>1. /\ Steps[Stage(r)] \in 1 .. 10 /\ Distance(r) \in Nat \ {0}
      /\ Distance(r) = 10 * (QueueAttempts - made[r] + MaxStalled - stalls[r])
                          + Steps[Stage(r)]
  BY DEF AwayFromEnd
<1>2. CASE Settled(r)'
  <2>1. Distance(r)' = 0
    BY <1>2 DEF Distance
  <2> QED BY <1>1, <2>1
<1>3. CASE Unsettled(r)'
  <2>1. /\ Steps[Stage(r)]' \in 1 .. 10 /\ Distance(r)' \in Nat
        /\ Distance(r)' = 10 * (QueueAttempts - made'[r] + MaxStalled - stalls'[r])
                            + Steps[Stage(r)]'
    BY <1>3 DEF AwayFromEnd
  <2>2. ~Settled(r)'
    BY <1>3 DEF Settled, Unsettled
  <2>3. /\ made[r] \in Nat /\ stalls[r] \in Nat
        /\ made'[r] \in Nat /\ stalls'[r] \in Nat
    BY DEF TypeOK
  <2> QED BY <1>1, <2>1, <2>2, <2>3, BoundsAssumption
<1> QED BY <1>2, <1>3

(* One step of the system moves the entry of r on, or does not touch it.    *)
LEMMA AdvancesStep ==
  ASSUME TypeOK, TypeOK', Locks, NothingOrphaned, AwayFromEnd, AwayFromEnd',
         [Next]_vars, NEW r \in Requests, entry[r] # "none"
  PROVE  Advances(r)
<1> USE DEF TypeOK
<1> DEFINE Same == UNCHANGED <<entry[r], made[r], stalls[r], lock[r], Stage(r)>>
           Down == 0 <= Distance(r)' /\ Distance(r)' < Distance(r)
<1> SUFFICES Same \/ Down
  BY DEF Advances
<1>1. CASE UNCHANGED <<queueVars, workerVars>>
  BY <1>1 DEF queueVars, workerVars, Stage
<1>2. ASSUME NEW c \in Requests, Enqueue(c) PROVE Same
  <2>1. entry'[r] = entry[r] /\ UNCHANGED <<made, stalls, lock, at>>
    BY <1>2 DEF Enqueue, Write, Locks, workerVars
  <2> QED BY <2>1 DEF Stage
<1>3. ASSUME NEW w \in Workers,
             \/ MarkProcessing(w) \/ CountAttempt(w) \/ Simulate(w)
             \/ Complete(w) \/ ReadAttempts(w) \/ MarkFailed(w)
      PROVE  Same \/ Down
  <2>1. UNCHANGED <<entry, made, stalls, lock>>
    BY <1>3 DEF MarkProcessing, CountAttempt, Simulate, Complete, ReadAttempts,
         MarkFailed, queueVars
  <2>2. \E l \in {"count", "simulate", "complete", "catch", "fail", "ackDone", "ackFail"} :
            at' = [at EXCEPT ![w] = l] /\ Steps[l] < Steps[at[w]]
    <3>1. CASE MarkProcessing(w) \/ CountAttempt(w)
      BY <3>1, StepsValues DEF MarkProcessing, CountAttempt, Write, WorkerGoto
    <3>2. CASE Simulate(w) \/ Complete(w)
      BY <3>2, StepsValues DEF Simulate, Complete, Write, WorkerGoto
    <3>3. CASE ReadAttempts(w) \/ MarkFailed(w)
      BY <3>3, StepsValues DEF ReadAttempts, MarkFailed, Write, WorkerGoto
    <3> QED BY <1>3, <3>1, <3>2, <3>3
  <2>3. CASE entry[r] = "active" /\ lock[r] = w
    <3>1. Steps[Stage(r)]' < Steps[Stage(r)]
      <4>1. Stage(r) = at[w] /\ Stage(r)' = at'[w]
        BY <2>1, <2>3, ConstantsAssumption DEF Stage
      <4>2. Steps[at'[w]] < Steps[at[w]]
        BY <2>2
      <4> QED BY <4>1, <4>2 DEF Steps
    <3>2. Unsettled(r) /\ Unsettled(r)'
      BY <2>1, <2>3 DEF Unsettled
    <3> QED BY <2>1, <3>1, <3>2, Nearer
  <2>4. CASE ~(entry[r] = "active" /\ lock[r] = w)
    <3>1. Stage(r)' = Stage(r)
      BY <2>1, <2>2, <2>4 DEF Stage
    <3> QED BY <2>1, <3>1
  <2> QED BY <2>3, <2>4
<1>4. ASSUME NEW w \in Workers, AckCompleted(w) \/ AckFailed(w)
      PROVE  Same \/ Down
  <2>1. /\ at' = [at EXCEPT ![w] = "idle"] /\ stalls' = stalls
        /\ at[w] \in {"ackDone", "ackFail"}
    BY <1>4 DEF AckCompleted, AckFailed, Idle
  <2>2. CASE lock[r] = w
    <3>1. /\ on[w] = r /\ HoldsLock(w) /\ entry[r] = "active"
          /\ Stage(r) = at[w]
      BY <2>2, ConstantsAssumption DEF NothingOrphaned, HoldsLock, Locks, Stage
    <3>2. Unsettled(r)
      BY <3>1 DEF Unsettled
    <3>3. CASE AckCompleted(w)
      <4>1. Settled(r)'
        BY <3>1, <3>3 DEF AckCompleted, Settled
      <4> QED BY <3>2, <4>1, Nearer
    <3>4. CASE AckFailed(w)
      <4>1. /\ made'[r] = made[r] + 1
            /\ entry'[r] \in {"delayed", "failed"}
        BY <3>1, <3>4 DEF AckFailed
      <4>2. CASE entry'[r] = "failed"
        BY <3>2, <4>2, Nearer DEF Settled
      <4>3. CASE entry'[r] = "delayed"
        <5>1. Unsettled(r)' /\ Stage(r)' = "delayed"
          BY <4>3 DEF Unsettled, Stage
        <5>2. Steps[Stage(r)]' < Steps[Stage(r)] + 10
          BY <2>1, <3>1, <5>1, StepsValues DEF Steps
        <5>3. made'[r] + stalls'[r] = made[r] + stalls[r] + 1
          BY <2>1, <4>1
        <5> QED BY <3>2, <5>1, <5>2, <5>3, Nearer
      <4> QED BY <4>1, <4>2, <4>3
    <3> QED BY <1>4, <3>3, <3>4
  <2>3. CASE lock[r] # w
    <3>1. entry'[r] = entry[r] /\ made'[r] = made[r] /\ lock'[r] = lock[r]
      BY <1>4, <2>3 DEF AckCompleted, AckFailed, HoldsLock
    <3>2. Stage(r)' = Stage(r)
      BY <2>1, <2>3, <3>1 DEF Stage
    <3> QED BY <2>1, <3>1, <3>2
  <2> QED BY <2>2, <2>3
<1>5. ASSUME NEW w \in Workers, NEW s \in Requests, Take(w, s)
      PROVE  Same \/ Down
  <2>1. UNCHANGED <<made, stalls>> /\ at' = [at EXCEPT ![w] = "mark"] /\ at[w] = "idle"
    BY <1>5 DEF Take
  <2>2. CASE s = r
    <3>1. /\ Stage(r) = "waiting" /\ Stage(r)' = "mark"
          /\ Unsettled(r) /\ Unsettled(r)'
      BY <1>5, <2>1, <2>2, ConstantsAssumption DEF Take, Stage, Unsettled
    <3>2. Steps[Stage(r)]' < Steps[Stage(r)]
      BY <3>1, StepsValues DEF Steps
    <3> QED BY <2>1, <3>1, <3>2, Nearer
  <2>3. CASE s # r
    <3>1. entry'[r] = entry[r] /\ lock'[r] = lock[r] /\ lock[r] # w
      BY <1>5, <2>1, <2>3, ConstantsAssumption DEF Take, NothingOrphaned
    <3>2. Stage(r)' = Stage(r)
      BY <2>1, <3>1 DEF Stage
    <3> QED BY <2>1, <3>1, <3>2
  <2> QED BY <2>2, <2>3
<1>6. ASSUME NEW s \in Requests, Promote(s)
      PROVE  Same \/ Down
  <2>1. UNCHANGED <<made, stalls, lock, at>>
    BY <1>6 DEF Promote, workerVars
  <2>2. CASE s = r
    <3>1. /\ Stage(r) = "delayed" /\ Stage(r)' = "waiting"
          /\ Unsettled(r) /\ Unsettled(r)'
      BY <1>6, <2>2 DEF Promote, Stage, Unsettled
    <3>2. Steps[Stage(r)]' < Steps[Stage(r)]
      BY <3>1, StepsValues DEF Steps
    <3> QED BY <2>1, <3>1, <3>2, Nearer
  <2>3. CASE s # r
    BY <1>6, <2>1, <2>3 DEF Promote, Stage
  <2> QED BY <2>2, <2>3
<1>7. ASSUME NEW s \in Requests, StalledCheck(s)
      PROVE  Same \/ Down
  <2>1. UNCHANGED <<made, lock, at>>
    BY <1>7 DEF StalledCheck, workerVars
  <2>2. CASE s = r
    <3>1. Stage(r) = "stalled" /\ Unsettled(r)
      BY <1>7, <2>2 DEF StalledCheck, Stalled, Stage, Unsettled
    <3>2. stalls'[r] = stalls[r] + 1 /\ entry'[r] \in {"failed", "waiting"}
      BY <1>7, <2>2 DEF StalledCheck
    <3>3. CASE entry'[r] = "failed"
      BY <3>1, <3>3, Nearer DEF Settled
    <3>4. CASE entry'[r] = "waiting"
      <4>1. Unsettled(r)' /\ Stage(r)' = "waiting"
        BY <3>4 DEF Unsettled, Stage
      <4>2. Steps[Stage(r)]' < Steps[Stage(r)] + 10
        BY <3>1, <4>1, StepsValues DEF Steps
      <4>3. made'[r] + stalls'[r] = made[r] + stalls[r] + 1
        BY <2>1, <3>2
      <4> QED BY <3>1, <4>1, <4>2, <4>3, Nearer
    <3> QED BY <3>2, <3>3, <3>4
  <2>3. CASE s # r
    BY <1>7, <2>1, <2>3 DEF StalledCheck, Stage
  <2> QED BY <2>2, <2>3
<1>8. ASSUME NEW w \in Workers, Crash(w) \/ LoseLock(w)
      PROVE  Same \/ Down
  <2>1. /\ UNCHANGED <<entry, made, stalls>> /\ at[w] # "idle"
        /\ \A v \in Workers : v # w => at'[v] = at[v]
        /\ lock' = [s \in Requests |-> IF lock[s] = w THEN Nobody ELSE lock[s]]
    BY <1>8 DEF Crash, LoseLock, ReleaseLock, Idle, workerVars
  <2>2. CASE lock[r] = w
    <3>1. /\ entry[r] = "active" /\ Stage(r) = at[w] /\ Stage(r)' = "stalled"
      BY <2>1, <2>2, ConstantsAssumption DEF Locks, Stage
    <3>2. Unsettled(r) /\ Unsettled(r)'
      BY <2>1, <3>1 DEF Unsettled
    <3>3. Steps[Stage(r)]' < Steps[Stage(r)]
      BY <2>1, <3>1, StepsValues DEF Steps
    <3> QED BY <2>1, <3>2, <3>3, Nearer
  <2>3. CASE lock[r] # w
    <3>1. lock'[r] = lock[r] /\ Stage(r)' = Stage(r)
      BY <2>1, <2>3 DEF Stage
    <3> QED BY <2>1, <3>1
  <2> QED BY <2>2, <2>3
<1>9. CASE \E c \in Requests : FindExisting(c) \/ InsertRow(c)
  BY <1>1, <1>9 DEF FindExisting, InsertRow
<1>10. CASE UNCHANGED vars
  BY <1>1, <1>10 DEF vars
<1> QED
  BY <1>2, <1>3, <1>4, <1>5, <1>6, <1>7, <1>8, <1>9, <1>10 DEF Next, Call, Handler

LEMMA LimitsKept == Spec => [](KeyInv /\ Locks /\ Limits)
<1>1. Init => Locks /\ Limits
  BY BoundsAssumption DEF Init, Locks, Limits
<1>2. KeyInv /\ Locks /\ Limits /\ [Next]_vars => (Locks /\ Limits)'
  BY LocksStep, LimitsStep DEF KeyInv
<1> QED BY <1>1, <1>2, KeyInvariant, PTL DEF Spec

(* Every step that touches a queued entry, any fault included, brings it    *)
(* nearer to its end, so that Bull settles it after at most                 *)
(* 10 * (QueueAttempts + MaxStalled) + 9 of them however many faults there  *)
(* are: EntryAdvances for all constants.                                   *)
THEOREM EachStepAdvances == Spec => EntryAdvances
<1>1. ASSUME TypeOK, TypeOK', Locks, NothingOrphaned, AwayFromEnd, AwayFromEnd',
             [Next]_vars
      PROVE  \A r \in Requests : entry[r] # "none" => Advances(r)
  BY <1>1, AdvancesStep
<1>2. KeyInv /\ Locks /\ Limits /\ NothingOrphaned => TypeOK /\ AwayFromEnd
  BY UnsettledAway DEF KeyInv
<1> QED BY <1>1, <1>2, LimitsKept, LocksAreHeld, PTL DEF Spec, EntryAdvances

-----------------------------------------------------------------------------
(* Settled entries.                                                        *)

(* Once an entry is settled nothing reopens it, and once no handler is left *)
(* on it either nothing touches the job again, whatever fails.             *)
SettledForGood ==
    \A r \in Requests :
        Settled(r) =>
            /\ UNCHANGED <<entry[r], made[r], stalls[r], lock[r]>>
            /\ (\A w \in Workers : on[w] # r) =>
                    /\ UNCHANGED <<status[r], attempts[r], outcome[r]>>
                    /\ \A w \in Workers : on'[w] # r

(* Bull's verdict on a job is final, and so is its row when the last        *)
(* handler has left it.                                                    *)
THEOREM SettledStaysSettled == Spec => [][SettledForGood]_vars
<1>1. ASSUME TypeOK, Busy, Locks, [Next]_vars, NEW r \in Requests, Settled(r)
      PROVE  /\ UNCHANGED <<entry[r], made[r], stalls[r], lock[r]>>
             /\ (\A w \in Workers : on[w] # r) =>
                    /\ UNCHANGED <<status[r], attempts[r], outcome[r]>>
                    /\ \A w \in Workers : on'[w] # r
  <2> USE DEF TypeOK
  <2> DEFINE EntrySame == UNCHANGED <<entry[r], made[r], stalls[r], lock[r]>>
             RowSame == UNCHANGED <<status[r], attempts[r], outcome[r]>>
             Left == \A w \in Workers : on[w] # r
             Kept == EntrySame /\ (Left => RowSame /\ \A w \in Workers : on'[w] # r)
  <2> SUFFICES Kept
    OBVIOUS
  <2>1. /\ entry[r] \in {"completed", "failed"} /\ lock[r] = Nobody
        /\ callAt[r] \notin {"lookup", "insert", "enqueue"}
    BY <1>1 DEF Settled, Locks
  <2>2. CASE \E c \in Requests : FindExisting(c)
    BY <1>1, <2>2 DEF FindExisting, rowVars, queueVars, workerVars
  <2>3. ASSUME NEW c \in Requests, InsertRow(c) \/ Enqueue(c)
        PROVE  Kept
    BY <1>1, <2>1, <2>3 DEF InsertRow, Enqueue, Write, rowVars, queueVars, workerVars
  <2>4. ASSUME NEW w \in Workers, at[w] # "idle",
               \/ MarkProcessing(w) \/ CountAttempt(w) \/ Simulate(w)
               \/ Complete(w) \/ ReadAttempts(w) \/ MarkFailed(w)
        PROVE  Kept
    <3>1. UNCHANGED <<entry, made, stalls, lock, on>> /\ on[w] \in Requests
      BY <1>1, <2>4 DEF MarkProcessing, CountAttempt, Simulate, Complete,
           ReadAttempts, MarkFailed, queueVars, Busy
    <3>2. on[w] # r => RowSame
      BY <1>1, <2>4, <3>1 DEF MarkProcessing, CountAttempt, Simulate, Complete,
           ReadAttempts, MarkFailed, Write, UpdateJobStatus, IncrementAttempts, rowVars
    <3> QED BY <3>1, <3>2
  <2>5. ASSUME NEW w \in Workers, AckCompleted(w) \/ AckFailed(w)
        PROVE  Kept
    <3>1. lock[r] # w
      BY <2>1, ConstantsAssumption
    <3>2. on' = [on EXCEPT ![w] = NoJob] /\ UNCHANGED rowVars /\ stalls' = stalls
      BY <2>5 DEF AckCompleted, AckFailed, Idle
    <3>3. EntrySame
      BY <1>1, <2>5, <3>1, <3>2 DEF AckCompleted, AckFailed, HoldsLock
    <3> QED BY <1>1, <3>2, <3>3, ConstantsAssumption DEF rowVars
  <2>6. ASSUME NEW w \in Workers, NEW c \in Requests, Take(w, c)
        PROVE  Kept
    BY <1>1, <2>1, <2>6 DEF Take, rowVars
  <2>7. ASSUME NEW c \in Requests, Promote(c) \/ StalledCheck(c)
        PROVE  Kept
    BY <1>1, <2>1, <2>7 DEF Promote, StalledCheck, Stalled, rowVars, workerVars
  <2>8. ASSUME NEW w \in Workers, Crash(w) \/ LoseLock(w)
        PROVE  Kept
    <3>1. /\ UNCHANGED <<rowVars, entry, made, stalls>>
          /\ lock'[r] = lock[r]
          /\ on' = on \/ on' = [on EXCEPT ![w] = NoJob]
      BY <1>1, <2>1, <2>8 DEF Crash, LoseLock, ReleaseLock, Idle, workerVars
    <3> QED BY <1>1, <3>1, ConstantsAssumption DEF rowVars
  <2>9. CASE UNCHANGED vars
    BY <1>1, <2>9 DEF vars, rowVars, queueVars, workerVars
  <2>10. ASSUME NEW w \in Workers,
                \/ MarkProcessing(w) \/ CountAttempt(w) \/ Simulate(w)
                \/ Complete(w) \/ ReadAttempts(w) \/ MarkFailed(w)
         PROVE  at[w] # "idle"
    BY <2>10 DEF MarkProcessing, CountAttempt, Simulate, Complete, ReadAttempts, MarkFailed
  <2> HIDE DEF Kept
  <2> QED
    BY <1>1, <2>2, <2>3, <2>4, <2>5, <2>6, <2>7, <2>8, <2>9, <2>10
       DEF Next, Call, Handler
<1>2. TypeOK /\ Busy /\ Locks /\ [Next]_vars => SettledForGood
  BY <1>1 DEF SettledForGood
<1>3. KeyInv => TypeOK /\ Busy
  BY DEF KeyInv
<1> QED BY <1>2, <1>3, LimitsKept, PTL DEF Spec

-----------------------------------------------------------------------------
(* The row of a settled entry.                                             *)

(* Faults only add up, so what has not happened yet had not happened before. *)
LEMMA FaultsGrow ==
  ASSUME TypeOK, [Next]_vars PROVE \A k \in FaultKinds : faults[k] <= faults'[k]
<1> USE DEF TypeOK
<1>1. CASE UNCHANGED faults
  BY <1>1
<1>2. ASSUME NEW k \in FaultKinds, Fault(k)
      PROVE  \A l \in FaultKinds : faults[l] <= faults'[l]
  BY <1>2 DEF Fault
<1>3. CASE \E r \in Requests : Call(r)
  BY <1>1, <1>2, <1>3 DEF Call, FindExisting, InsertRow, Enqueue, Write, FaultKinds
<1>4. CASE \E w \in Workers : Handler(w)
  BY <1>1, <1>2, <1>4 DEF Handler, MarkProcessing, CountAttempt, Simulate, Complete,
       ReadAttempts, MarkFailed, AckCompleted, AckFailed, Write, FaultKinds
<1>5. CASE \E w \in Workers : Crash(w) \/ LoseLock(w)
  BY <1>2, <1>5 DEF Crash, LoseLock, FaultKinds
<1>6. CASE \/ \E r \in Requests : Promote(r) \/ StalledCheck(r)
           \/ \E w \in Workers, r \in Requests : Take(w, r)
           \/ UNCHANGED vars
  BY <1>1, <1>6 DEF Promote, StalledCheck, Take, vars
<1> QED BY <1>3, <1>4, <1>5, <1>6 DEF Next

(* Conditions that only faults can break held before, and no query fails.   *)
LEMMA Reliable ==
  ASSUME TypeOK, TypeOK', [Next]_vars
  PROVE  /\ ~DatabaseFailed' => ~DatabaseFailed /\ ~Fault("db") /\ ~Fault("lost")
         /\ ~TooManyStalls' => ~TooManyStalls
<1>1. \A k \in FaultKinds : faults[k] \in Nat /\ faults'[k] \in Nat /\ faults[k] <= faults'[k]
  BY FaultsGrow DEF TypeOK
<1>2. ASSUME NEW k \in FaultKinds, Fault(k) PROVE faults'[k] > 0
  BY <1>2 DEF Fault, TypeOK
<1> QED
  BY <1>1, <1>2, BoundsAssumption DEF DatabaseFailed, TooManyStalls, FaultKinds

(* What a handler does while the database answers.                          *)
LEMMA ReliableHandler ==
  ASSUME ~Fault("db"), ~Fault("lost"), NEW w \in Workers
  PROVE  /\ MarkProcessing(w) =>
              /\ WorkerGoto(w, "count") /\ UNCHANGED <<attempts, faults>>
              /\ UpdateJobStatus(on[w], "PROCESSING", {})
         /\ CountAttempt(w) =>
              /\ WorkerGoto(w, "simulate") /\ UNCHANGED <<status, faults>>
              /\ IncrementAttempts(on[w])
         /\ Complete(w) =>
              /\ WorkerGoto(w, "ackDone") /\ UNCHANGED <<attempts, faults>>
              /\ UpdateJobStatus(on[w], "COMPLETED", {"result"})
         /\ ReadAttempts(w) =>
              /\ WorkerGoto(w, IF Exhausted(on[w]) THEN "fail" ELSE "ackFail")
              /\ UNCHANGED <<status, attempts, faults>>
         /\ MarkFailed(w) =>
              /\ WorkerGoto(w, "ackFail") /\ UNCHANGED <<attempts, faults>>
              /\ UpdateJobStatus(on[w], "FAILED", {"error"})
  BY DEF MarkProcessing, CountAttempt, Complete, ReadAttempts, MarkFailed, Write, rowVars

(* A job throws in all its runs or in none.                                 *)
Thrown ==
    /\ \A w \in Workers :
        /\ at[w] \in {"complete", "ackDone"} => ~Throws(dto[on[w]])
        /\ at[w] \in {"catch", "fail", "ackFail"} => Throws(dto[on[w]])
    /\ \A r \in Requests : entry[r] = "completed" => ~Throws(dto[r])

LEMMA ThrownStep ==
  ASSUME TypeOK, Busy, Thrown, ~Fault("db"), ~Fault("lost"), [Next]_vars PROVE Thrown'
<1> USE DEF Thrown, TypeOK
<1>1. dto' = dto
  BY DEF Next, Call, Handler, FindExisting, InsertRow, Enqueue, MarkProcessing,
     CountAttempt, Simulate, Complete, ReadAttempts, MarkFailed, AckCompleted,
     AckFailed, Promote, StalledCheck, Crash, LoseLock, Take, vars, callVars
<1>2. CASE UNCHANGED <<entry, at, on>>
  BY <1>1, <1>2
<1>3. ASSUME NEW w \in Workers,
             \/ MarkProcessing(w) \/ CountAttempt(w) \/ Simulate(w)
             \/ Complete(w) \/ ReadAttempts(w) \/ MarkFailed(w)
      PROVE  Thrown'
  <2>1. UNCHANGED <<entry, on>>
    BY <1>3 DEF MarkProcessing, CountAttempt, Simulate, Complete, ReadAttempts,
         MarkFailed, queueVars
  <2>2. \/ at' = [at EXCEPT ![w] = "count"]
        \/ at' = [at EXCEPT ![w] = "simulate"]
        \/ at' = [at EXCEPT ![w] = "complete"] /\ ~Throws(dto[on[w]])
        \/ at' = [at EXCEPT ![w] = "catch"] /\ Throws(dto[on[w]])
        \/ at' = [at EXCEPT ![w] = "ackDone"] /\ at[w] = "complete"
        \/ at' = [at EXCEPT ![w] = "fail"] /\ at[w] = "catch"
        \/ at' = [at EXCEPT ![w] = "ackFail"] /\ at[w] \in {"catch", "fail"}
    <3>1. CASE MarkProcessing(w) \/ CountAttempt(w)
      BY <3>1, ReliableHandler DEF WorkerGoto
    <3>2. CASE Simulate(w)
      BY <3>2 DEF Simulate, WorkerGoto
    <3>3. CASE Complete(w)
      BY <3>3, ReliableHandler DEF WorkerGoto, Complete
    <3>4. CASE ReadAttempts(w)
      BY <3>4, ReliableHandler DEF WorkerGoto, ReadAttempts
    <3>5. CASE MarkFailed(w)
      BY <3>5, ReliableHandler DEF WorkerGoto, MarkFailed
    <3> QED BY <1>3, <3>1, <3>2, <3>3, <3>4, <3>5
  <2> HIDE DEF TypeOK
  <2>3. at \in [Workers -> {"idle", "mark", "count", "simulate", "complete",
                           "catch", "fail", "ackDone", "ackFail"}]
    BY DEF TypeOK
  <2> QED BY <1>1, <2>1, <2>2, <2>3
<1>4. ASSUME NEW w \in Workers, AckCompleted(w) PROVE Thrown'
  BY <1>1, <1>4 DEF AckCompleted, Idle, Busy
<1>5. ASSUME NEW w \in Workers, AckFailed(w) PROVE Thrown'
  BY <1>1, <1>5 DEF AckFailed, Idle, Busy
<1>6. ASSUME NEW w \in Workers, NEW r \in Requests, Take(w, r) PROVE Thrown'
  BY <1>1, <1>6 DEF Take
<1>7. ASSUME NEW r \in Requests, Enqueue(r) \/ Promote(r) \/ StalledCheck(r)
      PROVE  Thrown'
  BY <1>1, <1>7 DEF Enqueue, Write, Promote, StalledCheck, workerVars
<1>8. ASSUME NEW w \in Workers, Crash(w) PROVE Thrown'
  BY <1>1, <1>8 DEF Crash, Idle
<1>9. CASE \/ \E r \in Requests : FindExisting(r) \/ InsertRow(r)
           \/ \E w \in Workers : LoseLock(w)
           \/ UNCHANGED vars
  BY <1>2, <1>9 DEF FindExisting, InsertRow, LoseLock, vars, queueVars, workerVars
<1> QED
  BY <1>3, <1>4, <1>5, <1>6, <1>7, <1>8, <1>9 DEF Next, Call, Handler

(* The holder of the lock on r has counted its attempt and Bull has not.    *)
Ahead(r) ==
    IF lock[r] # Nobody /\ at[lock[r]] \notin {"idle", "mark", "count"} THEN 1 ELSE 0

(* The row has counted every failed attempt Bull has counted, and the       *)
(* present one too once it is past the increment.                          *)
CountedInRow == \A r \in Requests : made[r] + Ahead(r) <= attempts[r]

LEMMA CountedInRowStep ==
  ASSUME TypeOK, Busy, Locks, NothingOrphaned, CountedInRow,
         ~Fault("db"), ~Fault("lost"), [Next]_vars
  PROVE  CountedInRow'
<1> USE DEF TypeOK
<1> SUFFICES ASSUME NEW r \in Requests PROVE made'[r] + Ahead(r)' <= attempts'[r]
  BY DEF CountedInRow
<1>1. /\ made[r] + Ahead(r) <= attempts[r] /\ made[r] \in Nat /\ attempts[r] \in Nat
      /\ Ahead(r) \in {0, 1} /\ Ahead(r)' \in {0, 1}
  BY DEF CountedInRow, Ahead
<1>2. CASE UNCHANGED <<made, attempts, lock, at>>
  BY <1>1, <1>2 DEF Ahead
<1>3. ASSUME NEW w \in Workers, MarkProcessing(w) \/ CountAttempt(w)
      PROVE  made'[r] + Ahead(r)' <= attempts'[r]
  <2>1. UNCHANGED <<made, lock>>
    BY <1>3 DEF MarkProcessing, CountAttempt, queueVars
  <2>2. CASE MarkProcessing(w)
    <3>1. attempts' = attempts /\ at' = [at EXCEPT ![w] = "count"]
      BY <2>2, ReliableHandler DEF WorkerGoto
    <3>2. Ahead(r)' <= Ahead(r)
      BY <2>1, <3>1, ConstantsAssumption DEF Ahead
    <3> QED BY <1>1, <2>1, <3>1, <3>2
  <2>3. CASE CountAttempt(w)
    <3>1. /\ attempts' = [attempts EXCEPT ![on[w]] = @ + 1] /\ on[w] \in Requests
          /\ at' = [at EXCEPT ![w] = "simulate"] /\ at[w] = "count"
      BY <2>3, ReliableHandler DEF WorkerGoto, CountAttempt, IncrementAttempts, Busy
    <3>2. CASE on[w] = r
      <4>1. Ahead(r)' <= Ahead(r) + 1 /\ attempts'[r] = attempts[r] + 1
        BY <1>1, <3>1, <3>2
      <4> QED BY <1>1, <2>1, <4>1
    <3>3. CASE on[w] # r
      <4>1. Ahead(r)' = Ahead(r)
        BY <2>1, <3>1, <3>3 DEF Ahead, NothingOrphaned
      <4>2. attempts'[r] = attempts[r]
        BY <3>1, <3>3
      <4> QED BY <1>1, <2>1, <4>1, <4>2
    <3> QED BY <3>2, <3>3
  <2> QED BY <1>3, <2>2, <2>3
<1>4. ASSUME NEW w \in Workers,
             Simulate(w) \/ Complete(w) \/ ReadAttempts(w) \/ MarkFailed(w)
      PROVE  made'[r] + Ahead(r)' <= attempts'[r]
  <2>1. UNCHANGED <<made, lock, attempts>>
    BY <1>4 DEF Simulate, Complete, ReadAttempts, MarkFailed, queueVars, rowVars
  <2>2. /\ at[w] \notin {"idle", "mark", "count"}
        /\ \A v \in Workers : v # w => at'[v] = at[v]
    BY <1>4 DEF Simulate, Complete, ReadAttempts, MarkFailed, Write, WorkerGoto
  <2>3. Ahead(r)' <= Ahead(r)
    BY <2>1, <2>2 DEF Ahead
  <2> QED BY <1>1, <2>1, <2>3
<1>5. ASSUME NEW w \in Workers, AckCompleted(w) \/ AckFailed(w)
      PROVE  made'[r] + Ahead(r)' <= attempts'[r]
  <2>1. /\ attempts' = attempts /\ at' = [at EXCEPT ![w] = "idle"]
        /\ at[w] \in {"ackDone", "ackFail"}
    BY <1>5 DEF AckCompleted, AckFailed, Idle, rowVars
  <2>2. CASE lock[r] = w
    <3>1. on[w] = r /\ HoldsLock(w) /\ Ahead(r) = 1
      BY <2>1, <2>2, ConstantsAssumption DEF NothingOrphaned, HoldsLock, Ahead
    <3>2. lock'[r] = Nobody /\ made'[r] \in {made[r], made[r] + 1}
      BY <1>5, <3>1 DEF AckCompleted, AckFailed
    <3>3. Ahead(r)' = 0
      BY <3>2 DEF Ahead
    <3> QED BY <1>1, <2>1, <3>1, <3>2, <3>3
  <2>3. CASE lock[r] # w
    <3>1. made'[r] = made[r] /\ lock'[r] = lock[r]
      BY <1>5, <2>3 DEF AckCompleted, AckFailed, HoldsLock
    <3>2. Ahead(r)' = Ahead(r)
      BY <2>1, <2>3, <3>1 DEF Ahead
    <3> QED BY <1>1, <2>1, <3>1, <3>2
  <2> QED BY <2>2, <2>3
<1>6. ASSUME NEW w \in Workers, NEW s \in Requests, Take(w, s)
      PROVE  made'[r] + Ahead(r)' <= attempts'[r]
  <2>1. /\ UNCHANGED <<made, attempts>> /\ at' = [at EXCEPT ![w] = "mark"]
        /\ lock' = [lock EXCEPT ![s] = w]
    BY <1>6 DEF Take, rowVars
  <2>2. Ahead(r)' <= Ahead(r)
    BY <2>1 DEF Ahead
  <2> QED BY <1>1, <2>1, <2>2
<1>7. ASSUME NEW w \in Workers, Crash(w) \/ LoseLock(w)
      PROVE  made'[r] + Ahead(r)' <= attempts'[r]
  <2>1. /\ UNCHANGED <<made, attempts>>
        /\ \A v \in Workers : v # w => at'[v] = at[v]
        /\ lock' = [s \in Requests |-> IF lock[s] = w THEN Nobody ELSE lock[s]]
    BY <1>7 DEF Crash, LoseLock, ReleaseLock, Idle, rowVars, workerVars
  <2>2. Ahead(r)' <= Ahead(r)
    BY <2>1 DEF Ahead
  <2> QED BY <1>1, <2>1, <2>2
<1>8. CASE \E s \in Requests : Call(s) \/ Promote(s) \/ StalledCheck(s)
  BY <1>2, <1>8 DEF Call, FindExisting, InsertRow, Enqueue, Promote, StalledCheck,
       rowVars, queueVars, workerVars
<1>9. CASE UNCHANGED vars
  BY <1>2, <1>9 DEF vars, rowVars, queueVars, workerVars
<1> QED
  BY <1>3, <1>4, <1>5, <1>6, <1>7, <1>8, <1>9 DEF Next, Handler

(* An entry fails for one of two reasons.                                   *)
FailedHow == \A r \in Requests :
    entry[r] = "failed" => made[r] >= QueueAttempts \/ stalls[r] > MaxStalled

(* Each stall, detected or not yet, is a fault of its own.                  *)
StallsPaid == \A r \in Requests :
    stalls[r] + (IF Stalled(r) THEN 1 ELSE 0) <= faults["crash"] + faults["stall"]

LEMMA FailedHowStep ==
  ASSUME TypeOK, Busy, Locks, NothingOrphaned, FailedHow, [Next]_vars PROVE FailedHow'
<1> USE BoundsAssumption DEF FailedHow, TypeOK
<1>1. CASE UNCHANGED <<entry, made, stalls>>
  BY <1>1
<1>2. ASSUME NEW c \in Requests, Enqueue(c) \/ Promote(c) PROVE FailedHow'
  BY <1>2 DEF Enqueue, Write, Promote
<1>3. ASSUME NEW w \in Workers, AckCompleted(w) PROVE FailedHow'
  BY <1>3 DEF AckCompleted
<1>4. ASSUME NEW w \in Workers, AckFailed(w) PROVE FailedHow'
  <2>1. CASE HoldsLock(w)
    <3>1. /\ on[w] \in Requests /\ entry[on[w]] = "active"
      BY <1>4, <2>1, ConstantsAssumption DEF AckFailed, HoldsLock, Busy, Locks
    <3>2. /\ made' = [made EXCEPT ![on[w]] = @ + 1] /\ stalls' = stalls
          /\ entry' = [entry EXCEPT ![on[w]] =
                          IF AttemptsLeft(on[w]) THEN "delayed" ELSE "failed"]
      BY <1>4, <2>1 DEF AckFailed
    <3> QED BY <3>1, <3>2 DEF AttemptsLeft
  <2>2. CASE ~HoldsLock(w)
    BY <1>4, <2>2 DEF AckFailed
  <2> QED BY <2>1, <2>2
<1>5. ASSUME NEW w \in Workers, NEW s \in Requests, Take(w, s) PROVE FailedHow'
  BY <1>5 DEF Take
<1>6. ASSUME NEW s \in Requests, StalledCheck(s) PROVE FailedHow'
  BY <1>6 DEF StalledCheck, Stalled
<1>7. CASE \/ \E c \in Requests : FindExisting(c) \/ InsertRow(c)
           \/ \E w \in Workers :
                 \/ MarkProcessing(w) \/ CountAttempt(w) \/ Simulate(w)
                 \/ Complete(w) \/ ReadAttempts(w) \/ MarkFailed(w)
                 \/ Crash(w) \/ LoseLock(w)
           \/ UNCHANGED vars
  BY <1>1, <1>7 DEF FindExisting, InsertRow, MarkProcessing, CountAttempt, Simulate,
       Complete, ReadAttempts, MarkFailed, Crash, LoseLock, vars, queueVars
<1> QED
  BY <1>2, <1>3, <1>4, <1>5, <1>6, <1>7 DEF Next, Call, Handler

LEMMA StallsPaidStep ==
  ASSUME TypeOK, TypeOK', Locks, NothingOrphaned, StallsPaid, [Next]_vars
  PROVE  StallsPaid'
<1> DEFINE Open(r) == IF Stalled(r) THEN 1 ELSE 0
<1> SUFFICES ASSUME NEW r \in Requests
             PROVE  stalls'[r] + Open(r)' <= faults'["crash"] + faults'["stall"]
  BY DEF StallsPaid
<1>1. /\ stalls[r] + Open(r) <= faults["crash"] + faults["stall"]
      /\ stalls[r] \in Nat /\ Open(r) \in {0, 1} /\ Open(r)' \in {0, 1}
      /\ \A k \in {"crash", "stall"} :
            faults[k] \in Nat /\ faults'[k] \in Nat /\ faults[k] <= faults'[k]
  BY FaultsGrow DEF StallsPaid, TypeOK, FaultKinds
<1>2. ASSUME stalls'[r] = stalls[r], Stalled(r)' => Stalled(r)
      PROVE  stalls'[r] + Open(r)' <= faults'["crash"] + faults'["stall"]
  BY <1>1, <1>2
<1> USE DEF TypeOK
<1>3. CASE UNCHANGED <<entry, lock, stalls>>
  BY <1>2, <1>3 DEF Stalled
<1>4. ASSUME NEW c \in Requests, Enqueue(c) \/ Promote(c)
      PROVE  stalls'[r] = stalls[r] /\ (Stalled(r)' => Stalled(r))
  BY <1>4 DEF Enqueue, Write, Promote, Stalled
<1>5. ASSUME NEW w \in Workers, AckCompleted(w) \/ AckFailed(w)
      PROVE  stalls'[r] = stalls[r] /\ (Stalled(r)' => Stalled(r))
  BY <1>5 DEF AckCompleted, AckFailed, Stalled
<1>6. ASSUME NEW w \in Workers, NEW s \in Requests, Take(w, s)
      PROVE  stalls'[r] = stalls[r] /\ (Stalled(r)' => Stalled(r))
  BY <1>6, ConstantsAssumption DEF Take, Stalled
<1>7. ASSUME NEW s \in Requests, StalledCheck(s)
      PROVE  stalls'[r] + Open(r)' <= faults'["crash"] + faults'["stall"]
  <2>1. CASE s = r
    <3>1. stalls'[r] = stalls[r] + 1 /\ ~Stalled(r)' /\ Stalled(r)
      BY <1>7, <2>1 DEF StalledCheck, Stalled
    <3> QED BY <1>1, <3>1
  <2>2. CASE s # r
    <3>1. stalls'[r] = stalls[r] /\ (Stalled(r)' => Stalled(r))
      BY <1>7, <2>2 DEF StalledCheck, Stalled
    <3> QED BY <1>2, <3>1
  <2> QED BY <2>1, <2>2
<1>8. ASSUME NEW w \in Workers, Crash(w) \/ LoseLock(w)
      PROVE  stalls'[r] + Open(r)' <= faults'["crash"] + faults'["stall"]
  <2>1. stalls' = stalls
    BY <1>8 DEF Crash, LoseLock
  <2>2. faults'["crash"] + faults'["stall"] = faults["crash"] + faults["stall"] + 1
    BY <1>8 DEF Crash, LoseLock, Fault, FaultKinds
  <2>3. CASE Stalled(r) \/ ~Stalled(r)'
    BY <1>2, <2>1, <2>3
  <2>4. CASE ~Stalled(r) /\ Stalled(r)'
    BY <1>1, <2>1, <2>2, <2>4
  <2> QED BY <2>3, <2>4
<1>9. CASE \/ \E c \in Requests : FindExisting(c) \/ InsertRow(c)
           \/ \E w \in Workers :
                 \/ MarkProcessing(w) \/ CountAttempt(w) \/ Simulate(w)
                 \/ Complete(w) \/ ReadAttempts(w) \/ MarkFailed(w)
           \/ UNCHANGED vars
  BY <1>3, <1>9 DEF FindExisting, InsertRow, MarkProcessing, CountAttempt, Simulate,
       Complete, ReadAttempts, MarkFailed, vars, queueVars
<1> HIDE DEF Open
<1> QED
  BY <1>2, <1>4, <1>5, <1>6, <1>7, <1>8, <1>9 DEF Next, Call, Handler

(* Bull is done with the entry, or will be when its handler is acknowledged. *)
Settling(r) ==
    \/ Settled(r)
    \/ \E w \in Workers :
          lock[r] = w /\ (at[w] = "ackDone" \/ (at[w] = "ackFail" /\ ~AttemptsLeft(r)))

(* A handler that has marked the row and will mark it again.                *)
Finishing(v, r) ==
    on[v] = r /\ at[v] \in {"count", "simulate", "complete", "catch", "fail"}

RowDue == \A r \in Requests :
    Settling(r) => status[r] \in Terminal \/ \E v \in Workers : Finishing(v, r)

(* When Bull gives a job up that throws, the row has used its attempts up.  *)
LEMMA SettlingExhausts ==
  ASSUME QueueAttempts >= MaxAttempts, TypeOK, NothingOrphaned, ~TooManyStalls,
         Thrown, CountedInRow, FailedHow, StallsPaid,
         NEW r \in Requests, Settling(r), Throws(dto[r])
  PROVE  Exhausted(r)
<1> USE BoundsAssumption DEF TypeOK
<1>1. /\ made[r] \in Nat /\ attempts[r] \in Nat /\ stalls[r] \in Nat
      /\ made[r] + Ahead(r) <= attempts[r] /\ Ahead(r) \in {0, 1}
  BY DEF CountedInRow, Ahead
<1>2. CASE entry[r] = "completed"
  BY <1>2 DEF Thrown
<1>3. CASE entry[r] = "failed"
  <2>1. stalls[r] <= faults["crash"] + faults["stall"]
    BY DEF StallsPaid, FaultKinds
  <2>2. made[r] >= QueueAttempts
    BY <1>1, <1>3, <2>1 DEF FailedHow, TooManyStalls, FaultKinds
  <2> QED BY <1>1, <2>2 DEF Exhausted
<1>4. ASSUME NEW w \in Workers, lock[r] = w, at[w] = "ackDone"
      PROVE  Exhausted(r)
  BY <1>4, ConstantsAssumption DEF Thrown, NothingOrphaned
<1>5. ASSUME NEW w \in Workers, lock[r] = w, at[w] = "ackFail", ~AttemptsLeft(r)
      PROVE  Exhausted(r)
  <2>1. Ahead(r) = 1
    BY <1>5, ConstantsAssumption DEF Ahead
  <2> QED BY <1>1, <1>5, <2>1 DEF AttemptsLeft, Exhausted
<1> QED BY <1>2, <1>3, <1>4, <1>5 DEF Settling, Settled

LEMMA RowDueStep ==
  ASSUME QueueAttempts >= MaxAttempts, TypeOK, TypeOK', Busy, Locks, NothingOrphaned,
         NoStall => Holding, FailedHow, StallsPaid, Thrown, CountedInRow, RowDue,
         FailedHow', StallsPaid',
         ~Fault("db"), ~Fault("lost"), ~TooManyStalls, ~TooManyStalls', [Next]_vars
  PROVE  RowDue'
<1> USE DEF TypeOK
<1> SUFFICES ASSUME NEW r \in Requests, Settling(r)'
             PROVE  status'[r] \in Terminal \/ \E v \in Workers : Finishing(v, r)'
  BY DEF RowDue
<1> DEFINE Goal == status'[r] \in Terminal \/ \E v \in Workers : Finishing(v, r)'
<1> SUFFICES Goal
  OBVIOUS
<1>1. Settling(r) => status[r] \in Terminal \/ \E v \in Workers : Finishing(v, r)
  BY DEF RowDue
<1>2. ASSUME Settling(r), status'[r] = status[r],
             \A v \in Workers : Finishing(v, r) => Finishing(v, r)'
      PROVE  Goal
  BY <1>1, <1>2
<1>3. CASE UNCHANGED <<status, queueVars, workerVars>>
  <2>1. /\ Settling(r)' <=> Settling(r)
        /\ \A v \in Workers : Finishing(v, r)' <=> Finishing(v, r)
    BY <1>3 DEF queueVars, workerVars, Settling, Settled, AttemptsLeft, Finishing
  <2> QED BY <1>2, <1>3, <2>1
<1>4. ASSUME NEW c \in Requests, InsertRow(c) \/ Enqueue(c)
      PROVE  Goal
  <2>1. /\ UNCHANGED <<made, stalls, lock, at, on>>
        /\ entry[c] = "none" /\ lock[c] = Nobody
        /\ \/ entry' = entry
           \/ entry' = [entry EXCEPT ![c] = "waiting"]
        /\ \A s \in Requests : s # c => status'[s] = status[s]
    BY <1>4 DEF InsertRow, Enqueue, Write, Locks, queueVars, workerVars, rowVars
  <2>2. Settling(r) /\ c # r
    BY <2>1, ConstantsAssumption DEF Settling, Settled, AttemptsLeft
  <2>3. \A v \in Workers : Finishing(v, r) => Finishing(v, r)'
    BY <2>1 DEF Finishing
  <2> QED BY <1>2, <2>1, <2>2, <2>3
<1>5. ASSUME NEW w \in Workers, MarkProcessing(w) \/ CountAttempt(w) \/ Simulate(w)
      PROVE  Goal
  <2>1. /\ UNCHANGED <<entry, made, stalls, lock, on>> /\ on[w] \in Requests
    BY <1>5 DEF MarkProcessing, CountAttempt, Simulate, queueVars, Busy
  <2>2. /\ \E l \in {"count", "simulate", "complete", "catch"} :
              at' = [at EXCEPT ![w] = l]
        /\ at[w] \in {"mark", "count", "simulate"}
    BY <1>5, ReliableHandler DEF Simulate, WorkerGoto, MarkProcessing, CountAttempt
  <2>3. on[w] # r => status'[r] = status[r]
    BY <1>5, <2>1, ReliableHandler DEF Simulate, UpdateJobStatus, rowVars
  <2>4. CASE on[w] = r
    <3>1. Finishing(w, r)'
      BY <2>1, <2>2, <2>4 DEF Finishing
    <3> QED BY <3>1
  <2>5. CASE on[w] # r
    <3>1. Settling(r)
      BY <2>1, <2>2 DEF Settling, Settled, AttemptsLeft
    <3>2. \A v \in Workers : Finishing(v, r) => Finishing(v, r)'
      BY <2>1, <2>2, <2>5 DEF Finishing
    <3> QED BY <1>2, <2>3, <2>5, <3>1, <3>2
  <2> QED BY <2>4, <2>5
<1>6. ASSUME NEW w \in Workers, Complete(w) \/ MarkFailed(w)
      PROVE  Goal
  <2>1. /\ UNCHANGED <<entry, made, stalls, lock, on>> /\ on[w] \in Requests
    BY <1>6 DEF Complete, MarkFailed, queueVars, Busy
  <2>2. /\ \E l \in {"ackDone", "ackFail"} : at' = [at EXCEPT ![w] = l]
        /\ \E s \in Terminal : status' = [status EXCEPT ![on[w]] = s]
    BY <1>6, ReliableHandler DEF WorkerGoto, UpdateJobStatus, Terminal
  <2>3. CASE on[w] = r
    BY <2>1, <2>2, <2>3
  <2>4. CASE on[w] # r
    <3>1. Settling(r)
      BY <2>1, <2>2, <2>4, ConstantsAssumption
         DEF Settling, Settled, AttemptsLeft, NothingOrphaned
    <3>2. \A v \in Workers : Finishing(v, r) => Finishing(v, r)'
      BY <2>1, <2>2, <2>4 DEF Finishing
    <3>3. status'[r] = status[r]
      BY <2>1, <2>2, <2>4
    <3> QED BY <1>2, <3>1, <3>2, <3>3
  <2> QED BY <2>3, <2>4
<1>7. ASSUME NEW w \in Workers, ReadAttempts(w)
      PROVE  Goal
  <2>1. /\ UNCHANGED <<entry, made, stalls, lock, on, status, attempts>>
        /\ on[w] \in Requests /\ at[w] = "catch"
        /\ at' = [at EXCEPT ![w] = IF Exhausted(on[w]) THEN "fail" ELSE "ackFail"]
    BY <1>7, ReliableHandler DEF ReadAttempts, queueVars, Busy, WorkerGoto
  <2>2. CASE on[w] = r
    <3>1. Exhausted(r)
      <4>1. Throws(dto[r])
        BY <2>1, <2>2 DEF Thrown
      <4>2. CASE Settling(r)
        BY <4>1, <4>2, SettlingExhausts
      <4>3. CASE ~Settling(r) /\ ~Exhausted(r)
        <5>1. lock[r] = w /\ ~AttemptsLeft(r)
          BY <2>1, <2>2, <4>3 DEF Settling, Settled, AttemptsLeft
        <5>2. made[r] + Ahead(r) <= attempts[r]
          BY DEF CountedInRow
        <5>3. Ahead(r) = 1
          BY <2>1, <5>1, ConstantsAssumption DEF Ahead
        <5> QED BY <4>3, <5>1, <5>2, <5>3, BoundsAssumption DEF AttemptsLeft, Exhausted
      <4> QED BY <4>2, <4>3
    <3>2. Finishing(w, r)'
      BY <2>1, <2>2, <3>1 DEF Finishing
    <3> QED BY <3>2
  <2>3. CASE on[w] # r
    <3>1. Settling(r)
      BY <2>1, <2>3, ConstantsAssumption
         DEF Settling, Settled, AttemptsLeft, NothingOrphaned
    <3>2. \A v \in Workers : Finishing(v, r) => Finishing(v, r)'
      BY <2>1, <2>3 DEF Finishing
    <3> QED BY <1>2, <2>1, <3>1, <3>2
  <2> QED BY <2>2, <2>3
<1>8. ASSUME NEW w \in Workers, AckCompleted(w) \/ AckFailed(w)
      PROVE  Goal
  <2>1. /\ status' = status /\ stalls' = stalls
        /\ at' = [at EXCEPT ![w] = "idle"] /\ on' = [on EXCEPT ![w] = NoJob]
        /\ at[w] \in {"ackDone", "ackFail"}
    BY <1>8 DEF AckCompleted, AckFailed, Idle, rowVars
  <2>2. \A v \in Workers : Finishing(v, r) => Finishing(v, r)'
    BY <2>1 DEF Finishing
  <2>3. Settling(r)
    <3>1. CASE lock[r] = w
      <4>1. on[w] = r /\ HoldsLock(w) /\ lock'[r] = Nobody
        BY <1>8, <3>1, ConstantsAssumption
           DEF AckCompleted, AckFailed, HoldsLock, NothingOrphaned
      <4>2. Settled(r)'
        BY <4>1, ConstantsAssumption DEF Settling
      <4>3. at[w] = "ackDone" \/ (at[w] = "ackFail" /\ ~AttemptsLeft(r))
        BY <1>8, <4>1, <4>2 DEF AckCompleted, AckFailed, Settled
      <4> QED BY <3>1, <4>3 DEF Settling
    <3>2. CASE lock[r] # w
      <4>1. entry'[r] = entry[r] /\ lock'[r] = lock[r] /\ made'[r] = made[r]
        BY <1>8, <3>2 DEF AckCompleted, AckFailed, HoldsLock
      <4> QED BY <2>1, <3>2, <4>1 DEF Settling, Settled, AttemptsLeft
    <3> QED BY <3>1, <3>2
  <2> QED BY <1>2, <2>1, <2>2, <2>3
<1>9. ASSUME NEW w \in Workers, NEW s \in Requests, Take(w, s)
      PROVE  Goal
  <2>1. /\ UNCHANGED <<status, made, stalls>> /\ at[w] = "idle"
        /\ entry' = [entry EXCEPT ![s] = "active"] /\ entry[s] = "waiting"
        /\ lock' = [lock EXCEPT ![s] = w]
        /\ at' = [at EXCEPT ![w] = "mark"] /\ on' = [on EXCEPT ![w] = s]
    BY <1>9 DEF Take, rowVars
  <2>2. Settling(r)
    BY <2>1 DEF Settling, Settled, AttemptsLeft
  <2>3. \A v \in Workers : Finishing(v, r) => Finishing(v, r)'
    BY <2>1 DEF Finishing
  <2> QED BY <1>2, <2>1, <2>2, <2>3
<1>10. ASSUME NEW s \in Requests, Promote(s) \/ StalledCheck(s)
       PROVE  Goal
  <2>1. /\ UNCHANGED <<status, made, lock, at, on>>
        /\ \A v \in Workers : Finishing(v, r) => Finishing(v, r)'
    BY <1>10 DEF Promote, StalledCheck, rowVars, workerVars, Finishing
  <2>2. StalledCheck(s) => entry'[s] # "failed"
    <3> SUFFICES ASSUME StalledCheck(s) PROVE ~(stalls[s] + 1 > MaxStalled)
      BY DEF StalledCheck
    <3>1. stalls'[s] = stalls[s] + 1
      BY DEF StalledCheck
    <3>2. stalls'[s] <= faults'["crash"] + faults'["stall"]
      BY DEF StallsPaid, FaultKinds
    <3>3. faults'["crash"] + faults'["stall"] <= MaxStalled
      BY BoundsAssumption DEF TooManyStalls, FaultKinds
    <3>4. /\ stalls[s] \in Nat /\ MaxStalled \in Nat
          /\ faults'["crash"] \in Nat /\ faults'["stall"] \in Nat
      BY BoundsAssumption DEF FaultKinds
    <3> QED BY <3>1, <3>2, <3>3, <3>4
  <2>3. Settled(r)' => Settled(r)
    BY <1>10, <2>2 DEF Promote, StalledCheck, Settled
  <2>4. Settling(r)
    BY <2>1, <2>3 DEF Settling, AttemptsLeft
  <2> QED BY <1>2, <2>1, <2>4
<1>11. ASSUME NEW w \in Workers, Crash(w)
       PROVE  Goal
  <2>1. /\ UNCHANGED <<status, entry, made, stalls>> /\ at[w] # "idle"
        /\ at' = [at EXCEPT ![w] = "idle"] /\ on' = [on EXCEPT ![w] = NoJob]
        /\ lock' = [s \in Requests |-> IF lock[s] = w THEN Nobody ELSE lock[s]]
    BY <1>11 DEF Crash, ReleaseLock, Idle, rowVars
  <2>2. NoStall
    <3>1. faults'["crash"] > 0 /\ faults'["stall"] = faults["stall"]
      BY <1>11 DEF Crash, Fault, FaultKinds
    <3> QED BY <3>1 DEF TooManyStalls, NoStall, FaultKinds
  <2>3. on[w] \in Requests /\ lock[on[w]] = w /\ entry[on[w]] = "active"
    BY <2>1, <2>2 DEF Holding
  <2>4. on[w] # r
    <3> SUFFICES ASSUME on[w] = r PROVE FALSE
      OBVIOUS
    <3>1. lock'[r] = Nobody /\ entry'[r] = "active"
      BY <2>1, <2>3
    <3> QED BY <3>1, ConstantsAssumption DEF Settling, Settled
  <2>5. \A v \in Workers : Finishing(v, r) => Finishing(v, r)'
    BY <2>1, <2>4 DEF Finishing
  <2>6. Settling(r)
    BY <2>1, ConstantsAssumption DEF Settling, Settled, AttemptsLeft
  <2> QED BY <1>2, <2>1, <2>5, <2>6
<1>12. ASSUME NEW w \in Workers, LoseLock(w)
       PROVE  Goal
  <2>1. /\ UNCHANGED <<status, entry, made, stalls, at, on>>
        /\ lock' = [s \in Requests |-> IF lock[s] = w THEN Nobody ELSE lock[s]]
    BY <1>12 DEF LoseLock, ReleaseLock, rowVars, workerVars
  <2>2. Settling(r)
    BY <2>1, ConstantsAssumption DEF Settling, Settled, AttemptsLeft
  <2>3. \A v \in Workers : Finishing(v, r) => Finishing(v, r)'
    BY <2>1 DEF Finishing
  <2> QED BY <1>2, <2>1, <2>2, <2>3
<1>13. CASE \E c \in Requests : FindExisting(c)
  BY <1>3, <1>13 DEF FindExisting, rowVars
<1>14. CASE UNCHANGED vars
  BY <1>3, <1>14 DEF vars, rowVars
<1> HIDE DEF Goal
<1> QED
  BY <1>4, <1>5, <1>6, <1>7, <1>8, <1>9, <1>10, <1>11, <1>12, <1>13, <1>14
     DEF Next, Call, Handler

(* All that the condition of RowSettledWithEntry rests on.                  *)
ProgressInv ==
    /\ KeyInv /\ Locks /\ Limits /\ NothingOrphaned
    /\ FailedHow /\ StallsPaid
    /\ NoStall => Holding
    /\ ~DatabaseFailed => Thrown /\ CountedInRow
    /\ ~DatabaseFailed /\ ~TooManyStalls => RowDue

LEMMA ProgressInvariant == ASSUME QueueAttempts >= MaxAttempts PROVE Spec => []ProgressInv
<1>1. Init => ProgressInv
  <2> SUFFICES ASSUME Init PROVE ProgressInv
    OBVIOUS
  <2> USE DEF Init
  <2>1. KeyInv
    BY ConstantsAssumption
       DEF KeyInv, TypeOK, FaultKinds, Busy, Queued, UniqueKeys, Answered, Stored
  <2>2. Locks /\ Limits /\ NothingOrphaned /\ Holding
    BY BoundsAssumption DEF Locks, Limits, NothingOrphaned, Holding
  <2>3. FailedHow /\ StallsPaid
    BY BoundsAssumption DEF FailedHow, StallsPaid, Stalled, FaultKinds
  <2>4. Thrown /\ CountedInRow
    BY DEF Thrown, CountedInRow, Ahead
  <2>5. RowDue
    BY ConstantsAssumption DEF RowDue, Settling, Settled
  <2> QED BY <2>1, <2>2, <2>3, <2>4, <2>5 DEF ProgressInv
<1>2. ASSUME ProgressInv, [Next]_vars PROVE ProgressInv'
  <2> USE <1>2
  <2>1. TypeOK /\ Busy /\ Locks /\ Limits /\ NothingOrphaned /\ FailedHow /\ StallsPaid
    BY DEF ProgressInv, KeyInv
  <2>2. KeyInv'
    BY TypeStep, BusyStep, QueuedStep, UniqueKeysStep, AnsweredStep DEF ProgressInv, KeyInv
  <2>3. TypeOK'
    BY <2>2 DEF KeyInv
  <2>4. Locks' /\ Limits' /\ NothingOrphaned'
    BY <2>1, LocksStep, LimitsStep, NothingOrphanedStep
  <2>5. FailedHow' /\ StallsPaid'
    BY <2>1, <2>3, FailedHowStep, StallsPaidStep
  <2>6. NoStall' => Holding'
    BY <2>1, NoStallBefore, HoldingStep DEF ProgressInv
  <2>7. ASSUME ~DatabaseFailed' PROVE Thrown' /\ CountedInRow'
    <3>1. ~DatabaseFailed /\ ~Fault("db") /\ ~Fault("lost")
      BY <2>1, <2>3, <2>7, Reliable
    <3>2. Thrown /\ CountedInRow
      BY <3>1 DEF ProgressInv
    <3> QED BY <2>1, <3>1, <3>2, ThrownStep, CountedInRowStep
  <2>8. ASSUME ~DatabaseFailed', ~TooManyStalls' PROVE RowDue'
    <3>1. ~DatabaseFailed /\ ~TooManyStalls /\ ~Fault("db") /\ ~Fault("lost")
      BY <2>1, <2>3, <2>8, Reliable
    <3>2. Thrown /\ CountedInRow /\ RowDue /\ (NoStall => Holding)
      BY <3>1 DEF ProgressInv
    <3> QED BY <2>1, <2>3, <2>5, <2>8, <3>1, <3>2, RowDueStep
  <2> QED BY <2>2, <2>4, <2>5, <2>6, <2>7, <2>8 DEF ProgressInv
<1> QED BY <1>1, <1>2, PTL DEF Spec

(* Bull's count and the row's end together: unless the database fails, or   *)
(* workers crash and outlive their locks, the last handler leaves the job   *)
(* COMPLETED or FAILED.  RowSettledWithEntry for all constants under which  *)
(* the queue makes the attempts the row allows (both are 3 in the code).    *)
THEOREM RowsSettle ==
  ASSUME QueueAttempts >= MaxAttempts PROVE Spec => []RowSettledWithEntry
<1>1. ProgressInv => RowSettledWithEntry
  BY DEF ProgressInv, RowSettledWithEntry, RowDue, Settling, Finishing
<1> QED BY <1>1, ProgressInvariant, PTL
=============================================================================
