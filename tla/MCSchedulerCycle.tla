------------------------- MODULE MCSchedulerCycle -------------------------
(***************************************************************************)
(* Small instances of SchedulerCycle: a user with two overlapping          *)
(* searches, one of them with a km limit, and a user with one.             *)
(***************************************************************************)
EXTENDS SchedulerCycle

CONSTANTS u1, u2, s1, s2, s3, t1

Owners == [s \in Searches |-> IF s = s3 THEN u2 ELSE u1]
=============================================================================
