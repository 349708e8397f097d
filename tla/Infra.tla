------------------------------- MODULE Infra -------------------------------
(***************************************************************************)
(* The infrastructure faults every carwatch process is exposed to: a call  *)
(* to Redis or PostgreSQL that errors, a reply that is lost after the call *)
(* took effect, a process that dies.  Each one spends one unit of a budget *)
(* so that the behaviours TLC explores stay finite and a liveness property *)
(* can say "once faults stop".  The safety properties hold for every       *)
(* budget.                                                                 *)
(***************************************************************************)
EXTENDS Naturals

CONSTANT MaxFaults          \* bound: how many infrastructure faults happen

ASSUME FaultBudget == MaxFaults \in Nat

VARIABLE faults             \* how many have happened

InfraInit == faults = 0

\* One more fault happens, if the budget allows it.
Fault == /\ faults < MaxFaults
         /\ faults' = faults + 1

NoFault == UNCHANGED faults
=============================================================================
