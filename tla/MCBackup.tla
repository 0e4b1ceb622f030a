------------------------------ MODULE MCBackup ------------------------------
(* Backup for TLC: which backup is which does not matter.  Once the migration *)
(* has begun, no backup prunes: prune looks at names of directories only, and *)
(* a migration at none.                                                       *)
EXTENDS Backup, TLC

ProcSymmetry == Permutations(Procs)

Apart ==
    \/ env = 0 /\ recorded = 0 /\ ~migrating
    \/ \A p \in Procs : keep[p] = 0
=============================================================================
