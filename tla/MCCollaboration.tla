-------------------------- MODULE MCCollaboration --------------------------
(***************************************************************************)
(* A small instance of Collaboration: two processes, a user with two tabs  *)
(* at one of them and a user with one socket at the other.  Two messages   *)
(* of the latter may be on their way, so that one can be behind another,   *)
(* and one in the other direction.  The first tab may be in two rooms.     *)
(***************************************************************************)
EXTENDS Collaboration

CONSTANTS r1, r2, p1, p2, s1, s2, s3, u1, u2

Homes == [s \in {s1, s2, s3} |-> IF s = s3 THEN p2 ELSE p1]
Users == [s \in {s1, s2, s3} |-> IF s = s3 THEN u2 ELSE u1]
Bounds == [p \in {p1, p2} |-> IF p = p2 THEN 2 ELSE 1]
Rooms == [s \in {s1, s2, s3} |-> IF s = s1 THEN {r1, r2} ELSE {r1}]
=============================================================================
