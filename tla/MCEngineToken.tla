---------------------------- MODULE MCEngineToken ----------------------------
(* EngineToken for TLC: no action or property names a process, so the        *)
(* processes of an instance are interchangeable.                             *)
EXTENDS EngineToken, TLC

ProcSymmetry == Permutations(Procs)
=============================================================================
