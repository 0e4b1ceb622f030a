------------------------------ MODULE MCMigrate ------------------------------
(* Migrate for TLC: the processes of an instance are interchangeable, no     *)
(* property or action names one of them.                                     *)
EXTENDS Migrate, TLC

ProcSymmetry == Permutations(Procs)
=============================================================================
