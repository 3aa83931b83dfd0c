------------------------------- MODULE MCJobs -------------------------------
(***************************************************************************)
(* Small instances of Jobs for TLC.  The retry constants are the ones of   *)
(* the code; each configuration picks the calls, the workers and the       *)
(* faults it is about.                                                     *)
(***************************************************************************)
EXTENDS Jobs, TLC

Good == [type |-> "CODE_EXECUTION", payload |-> "object"]
Bad == [type |-> "CODE_EXECUTION", payload |-> "badCode"]
Null == [type |-> "DATA_PROCESSING", payload |-> "null"]
Echo == [type |-> "OTHER", payload |-> "null"]
NoJson == [type |-> "FILE_GENERATION", payload |-> "malformed"]

OnlyGood == {Good}
GoodOrBad == {Good, Bad}
Assorted == {Good, Null, Echo, NoJson}
OnlyBad == {Bad}
OnlyNoJson == {NoJson}

NoFaults == [k \in FaultKinds |-> 0]
Budget(kinds, n) == [k \in FaultKinds |-> IF k \in kinds THEN n ELSE 0]

AnyFault2 == Budget(FaultKinds, 2)
CleanFaults == Budget({"db", "queue"}, 3)
DbOnly == Budget({"db"}, 1)

Symmetry == Permutations(Requests) \cup Permutations(Workers)
=============================================================================
