---------------------------- MODULE JobLifecycle ----------------------------
(***************************************************************************)
(* What the jobs API promises a client, with no queue, worker or lock in   *)
(* sight: every accepted request becomes a job of its own, unless an       *)
(* earlier one has its key; the job is tried a bounded number of times and *)
(* ends in COMPLETED or FAILED for good; every answer names an accepted    *)
(* job of the same key.  Jobs implements this when no answer of the        *)
(* database, no worker and no lock is lost.                                *)
(***************************************************************************)
EXTENDS Naturals

CONSTANTS
    Requests,     \* the calls, which name the jobs they create
    AllKeys,      \* what the idempotency key column can hold
    NoKey,        \* its NULL
    NoJob,        \* a call that is not answered
    MaxAttempts,  \* attempts after which a job may be given up
    MaxTries      \* attempts after which it is tried no more

VARIABLES
    key,       \* the key of each call
    answer,    \* the job it was answered with
    status,    \* the status of each job
    attempts   \* the attempts made at it

vars == <<key, answer, status, attempts>>

Init ==
    /\ key \in [Requests -> AllKeys]
    /\ answer = [r \in Requests |-> NoJob]
    /\ status = [r \in Requests |-> "absent"]
    /\ attempts = [r \in Requests |-> 0]

Accepted(r) == status[r] # "absent"
SameKey(r, s) == key[r] = key[s] /\ key[r] # NoKey

Accept(r) ==
    /\ ~Accepted(r)
    /\ \A s \in Requests : Accepted(s) => ~SameKey(r, s)
    /\ status' = [status EXCEPT ![r] = "PENDING"]
    /\ UNCHANGED <<key, answer, attempts>>

Answer(r, j) ==
    /\ answer[r] = NoJob
    /\ Accepted(j)
    /\ j = r \/ SameKey(r, j)
    /\ answer' = [answer EXCEPT ![r] = j]
    /\ UNCHANGED <<key, status, attempts>>

Start(r) ==
    /\ status[r] = "PENDING"
    /\ status' = [status EXCEPT ![r] = "PROCESSING"]
    /\ UNCHANGED <<key, answer, attempts>>

Try(r) ==
    /\ status[r] = "PROCESSING"
    /\ attempts[r] < MaxTries
    /\ attempts' = [attempts EXCEPT ![r] = @ + 1]
    /\ UNCHANGED <<key, answer, status>>

Finish(r) ==
    /\ status[r] = "PROCESSING"
    /\ attempts[r] > 0
    /\ status' = [status EXCEPT ![r] = "COMPLETED"]
    /\ UNCHANGED <<key, answer, attempts>>

GiveUp(r) ==
    /\ status[r] = "PROCESSING"
    /\ attempts[r] >= MaxAttempts
    /\ status' = [status EXCEPT ![r] = "FAILED"]
    /\ UNCHANGED <<key, answer, attempts>>

Next ==
    \E r \in Requests :
        \/ Accept(r) \/ Start(r) \/ Try(r) \/ Finish(r) \/ GiveUp(r)
        \/ \E j \in Requests : Answer(r, j)

Spec == Init /\ [][Next]_vars
=============================================================================
