------------------------------ MODULE StateFile ------------------------------
(***************************************************************************)
(* data/.neops/state.json as neops_compose/state.py keeps it.  Every CLI    *)
(* process loads the file once (Ctx.build), changes its copy in memory and  *)
(* saves the copy whole: State.save opens state.tmp with O_TRUNC, writes it *)
(* and renames it over state.json.  There is no lock, and every process     *)
(* uses the same state.tmp, so the steps of two processes interleave.       *)
(*                                                                         *)
(* Of a State only `applied` and `faked` are kept here; both are sets of    *)
(* migration names (the code appends to a list a name it has tested not to  *)
(* be in it).                                                               *)
(***************************************************************************)
EXTENDS Naturals

CONSTANTS
    Procs,        \* concurrent CLI processes
    N             \* migrations 0001 .. N, in the order discover() sorts them

ASSUME NAssumption == N \in Nat

Migrations == 1..N

VARIABLES
    disk,         \* state.json
    tmp,          \* state.tmp
    fd,           \* fd[p]: the file the descriptor p has open for writing refers to
    mem           \* mem[p]: the State object in p's memory

fileVars == <<disk, tmp, fd, mem>>

State == [applied : SUBSET Migrations, faked : SUBSET Migrations]
FreshState == [applied |-> {}, faked |-> {}]

File == [st : {"absent", "torn", "whole"}, val : State]
Absent == [st |-> "absent", val |-> FreshState]
Torn == [st |-> "torn", val |-> FreshState]
Whole(s) == [st |-> "whole", val |-> s]

FileTypeOK ==
    /\ disk \in File
    /\ tmp \in File
    /\ fd \in [Procs -> {"closed", "tmp", "disk", "unlinked"}]
    /\ mem \in [Procs -> State]

FileInit ==
    /\ disk = Absent
    /\ tmp = Absent
    /\ fd = [p \in Procs |-> "closed"]
    /\ mem = [p \in Procs |-> FreshState]

-----------------------------------------------------------------------------
(* mutant: a State that never reads the file back *)
LoadFresh(p) ==
    /\ disk.st # "torn"
    /\ mem' = [mem EXCEPT ![p] = FreshState]
    /\ UNCHANGED <<disk, tmp, fd>>

(* State.load: a missing file is a fresh State, an unparsable one StateError *)
Load(p) ==
    /\ disk.st # "torn"
    /\ mem' = [mem EXCEPT ![p] = disk.val]
    /\ UNCHANGED <<disk, tmp, fd>>

LoadFails(p) ==
    /\ disk.st = "torn"
    /\ UNCHANGED fileVars

(* mutant: state.json is opened and truncated in place *)
OpenInPlace(p) ==
    /\ disk' = Torn
    /\ fd' = [fd EXCEPT ![p] = "disk"]
    /\ UNCHANGED <<tmp, mem>>

(* mutant: state.tmp is created with O_EXCL *)
OpenTmpExclusive(p) ==
    /\ tmp.st = "absent"
    /\ tmp' = Torn
    /\ fd' = [fd EXCEPT ![p] = "tmp"]
    /\ UNCHANGED <<disk, mem>>

(* State.save, write_secret's os.open: state.tmp exists and is empty *)
OpenTmp(p) ==
    /\ tmp' = Torn
    /\ fd' = [fd EXCEPT ![p] = "tmp"]
    /\ UNCHANGED <<disk, mem>>

(* What a file holds after p's bytes went in at offset 0: bytes of another *)
(* process that are already there may stick out behind them.               *)
Overwritten(f, p) ==
    {Whole(mem[p])} \cup IF f.st = "whole" /\ f.val # mem[p] THEN {Torn} ELSE {}

(* write_secret's os.write and os.close: the bytes go to the inode that was *)
(* opened, which another process may have renamed to state.json meanwhile   *)
WriteTmp(p) ==
    /\ fd' = [fd EXCEPT ![p] = "closed"]
    /\ IF fd[p] = "tmp" THEN tmp' \in Overwritten(tmp, p) ELSE tmp' = tmp
    /\ IF fd[p] = "disk" THEN disk' \in Overwritten(disk, p) ELSE disk' = disk
    /\ UNCHANGED mem

(* mutant: a descriptor on the replaced file has no name *)
RenamedToNothing(name) == IF name = "tmp" THEN "disk" ELSE "none"

(* tmp.replace(path): whatever state.tmp holds becomes state.json *)
Renamed(name) ==
    CASE name = "tmp" -> "disk"
      [] name = "disk" -> "unlinked"
      [] OTHER -> name

Replace(p) ==
    /\ tmp.st # "absent"
    /\ disk' = tmp
    /\ tmp' = Absent
    /\ fd' = [q \in Procs |-> Renamed(fd[q])]
    /\ UNCHANGED mem

(* tmp.replace(path) after another process renamed it away: FileNotFoundError *)
ReplaceFails(p) ==
    /\ tmp.st = "absent"
    /\ UNCHANGED fileVars

(* The end of process p closes its descriptors *)
CloseAll(p) ==
    /\ fd' = [fd EXCEPT ![p] = "closed"]
    /\ UNCHANGED <<disk, tmp, mem>>
=============================================================================
