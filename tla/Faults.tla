------------------------------- MODULE Faults -------------------------------
(***************************************************************************)
(* What may go wrong around the daemons: an SQLite statement raises, or    *)
(* the process is restarted, MaxFaults times in all.                       *)
(***************************************************************************)
EXTENDS Naturals

CONSTANT MaxFaults   \* bound

ASSUME FaultAssumptions == MaxFaults \in Nat

VARIABLE faults

FaultsTypeOK == faults \in 0 .. MaxFaults

FaultsInit == faults = 0

Fault == faults < MaxFaults /\ faults' = faults + 1
=============================================================================
