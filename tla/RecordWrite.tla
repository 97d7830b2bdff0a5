------------------------------ MODULE RecordWrite ------------------------------
(***************************************************************************)
(* The record {job_id}.state of one job, call by call: _save_job writes    *)
(* {job_id}.tmp and renames it, _load_jobs reads the record.  Processes    *)
(* interleave between any two system calls and may die there.  A text is   *)
(* longer than a buffer may be, so it is written and read block by block;  *)
(* file names and files (inodes) are kept apart, as a rename moves a name  *)
(* under the feet of whoever has the file open.                            *)
(*                                                                         *)
(* A save is <<p, n>>, the n-th of process p, and stands for the text it   *)
(* writes; within a process saves follow one another (no await in          *)
(* _save_job).  A file is named after the save that created it.            *)
(***************************************************************************)
EXTENDS Integers

CONSTANTS
    Processes,   \* processes that save the job: the server, CLI commands
    Loads,       \* constructions of a JobManager: each loads the record once
    MaxSaves,    \* bound: saves of a process
    Blocks,      \* bound: blocks of a text
    NoFile,
    NotRead      \* what a load has before it looks

Saves == Processes \X (1..MaxSaves)

ASSUME RecordAssumption ==
    /\ MaxSaves \in Nat /\ Blocks \in Nat \ {0}
    /\ NoFile \notin Saves /\ NotRead \notin Saves \cup {NoFile}

VARIABLES
    tmp,     \* the file under the name {job_id}.tmp, or NoFile
    state,   \* the file under the name {job_id}.state, or NoFile
    data,    \* data[f]: the blocks of a file, each by the save that wrote it
    count,   \* count[p]: saves that p has begun
    pc,      \* pc[p]: the next call of p's save, or "idle"
    fd,      \* fd[p]: the file p writes to
    at,      \* at[p]: blocks p has written
    size,    \* size[s]: blocks of the text of s
    load,    \* load[l]: how far the load l is
    from,    \* from[l]: the file l reads
    read,    \* read[l]: blocks l has read
    seen,    \* seen[l]: these blocks
    failed,  \* saves that raised: there was no .tmp to rename
    overlap  \* ghost: two processes were inside _save_job at once

files == <<tmp, state, data>>
saves == <<count, pc, fd, at, size, failed, overlap>>
loads == <<load, from, read, seen>>
vars  == <<files, saves, loads>>

File  == Saves \cup {NoFile}
Blank == [b \in 1..Blocks |-> NoFile]

TypeOK ==
    /\ tmp \in File /\ state \in File
    /\ data    \in [Saves -> [1..Blocks -> File]]
    /\ count   \in [Processes -> 0..MaxSaves]
    /\ pc      \in [Processes -> {"idle", "write", "replace"}]
    /\ fd      \in [Processes -> File]
    /\ at      \in [Processes -> 0..Blocks]
    /\ size    \in [Saves -> 0..Blocks]
    /\ load    \in [Loads -> {"new", "reading", "done"}]
    /\ from    \in [Loads -> File]
    /\ read    \in [Loads -> 0..Blocks]
    /\ seen    \in [Loads -> [1..Blocks -> File]]
    /\ failed  \subseteq Saves
    /\ overlap \in BOOLEAN

Init ==
    /\ tmp = NoFile /\ state = NoFile
    /\ data    = [f \in Saves |-> Blank]
    /\ count   = [p \in Processes |-> 0]
    /\ pc      = [p \in Processes |-> "idle"]
    /\ fd      = [p \in Processes |-> NoFile]
    /\ at      = [p \in Processes |-> 0]
    /\ size    = [s \in Saves |-> 0]
    /\ load    = [l \in Loads |-> "new"]
    /\ from    = [l \in Loads |-> NoFile]
    /\ read    = [l \in Loads |-> 0]
    /\ seen    = [l \in Loads |-> Blank]
    /\ failed  = {}
    /\ overlap = FALSE

\* The save that p is at, and the text of a save: its blocks, and nothing after them.
Current(p) == <<p, count[p]>>
Text(s)    == [b \in 1..Blocks |-> IF b <= size[s] THEN s ELSE NoFile]

------------------------------------------------------------------------------
(* _save_job: open and truncate, write block by block, rename.              *)

\* Fault: what a save that died left in the .tmp is not truncated.
FaultOpen(p, n) ==
    /\ pc[p] = "idle" /\ count[p] < MaxSaves
    /\ LET s == <<p, count[p] + 1>>
           f == IF tmp = NoFile THEN s ELSE tmp
       IN  /\ tmp' = f
           /\ fd' = [fd EXCEPT ![p] = f]
           /\ size' = [size EXCEPT ![s] = n]
    /\ count'   = [count EXCEPT ![p] = @ + 1]
    /\ pc'      = [pc EXCEPT ![p] = "write"]
    /\ at'      = [at EXCEPT ![p] = 0]
    /\ overlap' = (overlap \/ \E q \in Processes : pc[q] # "idle")
    /\ UNCHANGED <<state, data, failed, loads>>

\* write_text opens the .tmp, which a dead or a busy process may have left there; the
\* text of the save has n blocks.
Open(p, n) ==
    /\ pc[p] = "idle" /\ count[p] < MaxSaves
    /\ LET s == <<p, count[p] + 1>>
           f == IF tmp = NoFile THEN s ELSE tmp
       IN  /\ tmp' = f
           /\ data' = [data EXCEPT ![f] = Blank]
           /\ fd' = [fd EXCEPT ![p] = f]
           /\ size' = [size EXCEPT ![s] = n]
    /\ count'   = [count EXCEPT ![p] = @ + 1]
    /\ pc'      = [pc EXCEPT ![p] = "write"]
    /\ at'      = [at EXCEPT ![p] = 0]
    /\ overlap' = (overlap \/ \E q \in Processes : pc[q] # "idle")
    /\ UNCHANGED <<state, failed, loads>>

\* The next block, at the offset of p's own descriptor; after the last one comes close.
Write(p) ==
    /\ pc[p] = "write"
    /\ data' = [data EXCEPT ![fd[p]] = [@ EXCEPT ![at[p] + 1] = Current(p)]]
    /\ at'   = [at EXCEPT ![p] = @ + 1]
    /\ pc'   = [pc EXCEPT ![p] = IF at[p] + 1 = size[Current(p)] THEN "replace" ELSE "write"]
    /\ UNCHANGED <<tmp, state, count, fd, size, failed, overlap, loads>>

\* Fault: the file is renamed before its buffers are flushed.
FaultReplace(p) ==
    /\ pc[p] # "idle" /\ tmp # NoFile
    /\ state' = tmp /\ tmp' = NoFile
    /\ pc'    = [pc EXCEPT ![p] = "idle"]
    /\ UNCHANGED <<data, count, fd, at, size, failed, overlap, loads>>

\* os.replace: whatever the name .tmp stands for now becomes the record.
Replace(p) ==
    /\ pc[p] = "replace" /\ tmp # NoFile
    /\ state' = tmp /\ tmp' = NoFile
    /\ pc'    = [pc EXCEPT ![p] = "idle"]
    /\ UNCHANGED <<data, count, fd, at, size, failed, overlap, loads>>

\* ... or there is no such name any more: FileNotFoundError.
ReplaceFails(p) ==
    /\ pc[p] = "replace" /\ tmp = NoFile
    /\ failed' = failed \cup {Current(p)}
    /\ pc'     = [pc EXCEPT ![p] = "idle"]
    /\ UNCHANGED <<files, count, fd, at, size, overlap, loads>>

\* The process dies inside the save; a later one of the same name starts afresh.
Crash(p) ==
    /\ pc[p] # "idle"
    /\ pc' = [pc EXCEPT ![p] = "idle"]
    /\ UNCHANGED <<files, count, fd, at, size, failed, overlap, loads>>

------------------------------------------------------------------------------
(* _load_jobs: a .state file is opened and read to its end.                 *)

\* Fault: where there is no record the .tmp is read.
FaultLoadOpen(l) ==
    /\ load[l] = "new"
    /\ from' = [from EXCEPT ![l] = IF state = NoFile THEN tmp ELSE state]
    /\ load' = [load EXCEPT ![l] = IF state = NoFile /\ tmp = NoFile THEN "done" ELSE "reading"]
    /\ UNCHANGED <<files, saves, read, seen>>

\* The directory has a record of the job, or none.
LoadOpen(l) ==
    /\ load[l] = "new"
    /\ from' = [from EXCEPT ![l] = state]
    /\ load' = [load EXCEPT ![l] = IF state = NoFile THEN "done" ELSE "reading"]
    /\ UNCHANGED <<files, saves, read, seen>>

\* The file has no more than the n blocks.
EndsAt(f, n) == \A b \in 1..Blocks : b > n => data[f][b] = NoFile

LoadBlock(l) ==
    /\ load[l] = "reading" /\ ~EndsAt(from[l], read[l])
    /\ read' = [read EXCEPT ![l] = @ + 1]
    /\ seen' = [seen EXCEPT ![l] = [@ EXCEPT ![read[l] + 1] = data[from[l]][read[l] + 1]]]
    /\ UNCHANGED <<files, saves, load, from>>

\* Fault: a load tidies a stray .tmp away.
FaultLoadEnd(l) ==
    /\ load[l] = "reading" /\ EndsAt(from[l], read[l])
    /\ load' = [load EXCEPT ![l] = "done"]
    /\ tmp' = NoFile
    /\ UNCHANGED <<state, data, saves, from, read, seen>>

LoadEnd(l) ==
    /\ load[l] = "reading" /\ EndsAt(from[l], read[l])
    /\ load' = [load EXCEPT ![l] = "done"]
    /\ UNCHANGED <<files, saves, from, read, seen>>

Saving(p) == \/ \E n \in 1..Blocks : Open(p, n)
             \/ Write(p) \/ Replace(p) \/ ReplaceFails(p) \/ Crash(p)
Loading(l) == LoadOpen(l) \/ LoadBlock(l) \/ LoadEnd(l)

Next == \/ \E p \in Processes : Saving(p)
        \/ \E l \in Loads : Loading(l)

Spec == Init /\ [][Next]_vars

------------------------------------------------------------------------------
(* Properties that hold.                                                    *)

Begun(s) == s[2] <= count[s[1]]
Busy(p)  == pc[p] # "idle"

\* The file holds the text of one save, all of it and nothing else.
Whole(f) == \E s \in Saves : Begun(s) /\ size[s] > 0 /\ data[f] = Text(s)

\* What no process has open for writing, and never will.
Settled(f) == f # NoFile => f # tmp /\ Begun(f) /\ Whole(f)

\* A load that found a record has read the text of one save, complete, wherever other
\* processes have died; so the JSON parses and no job is skipped.  It takes two saves of
\* one job at once to break that (job_manager.py:226).
LoadsAreWhole ==
    ~overlap => \A l \in Loads :
                    load[l] = "done" /\ from[l] # NoFile => \E s \in Saves : seen[l] = Text(s)

\* A save raises only if another one of the same job took its .tmp away.
SavesSucceed == failed # {} => overlap

\* How far a process is with its text; what is read is open.
ProgressOK ==
    /\ \A p \in Processes : Busy(p) =>
           /\ count[p] > 0 /\ size[Current(p)] > 0 /\ fd[p] # NoFile
           /\ pc[p] = "write" => at[p] < size[Current(p)]
           /\ pc[p] = "replace" => at[p] = size[Current(p)]
    /\ \A l \in Loads : load[l] = "reading" => from[l] # NoFile

\* A process that is alone in _save_job writes to the file under the name .tmp.
WriterOK ==
    /\ \A p, q \in Processes : Busy(p) /\ Busy(q) => p = q
    /\ \A p \in Processes : Busy(p) =>
           /\ tmp # NoFile /\ fd[p] = tmp
           /\ data[tmp] = [b \in 1..Blocks |-> IF b <= at[p] THEN Current(p) ELSE NoFile]

LoadsOK ==
    \A l \in Loads :
        /\ load[l] = "new" => from[l] = NoFile
        /\ Settled(from[l])
        /\ from[l] = NoFile => read[l] = 0
        /\ \A b \in 1..Blocks :
               seen[l][b] = IF b <= read[l] THEN data[from[l]][b] ELSE NoFile
        /\ load[l] = "done" /\ from[l] # NoFile => EndsAt(from[l], read[l])

\* The inductive invariant: until two saves overlap only the file under .tmp is written,
\* and neither the record nor what a load has open is that file.
Alone == /\ tmp # NoFile => Begun(tmp)
         /\ Settled(state)
         /\ WriterOK /\ LoadsOK
         /\ failed = {}

IInv == TypeOK /\ ProgressOK /\ (~overlap => Alone)

\* The record is a register: a save takes effect at the rename, a load finds the record
\* of the moment it opens the file.
Author(f) == IF f = NoFile THEN NoFile ELSE data[f][1]
Found     == [l \in Loads |-> IF load[l] = "new" THEN NotRead ELSE Author(from[l])]

Register == INSTANCE RecordRegister WITH
    Nothing <- NoFile, Unread <- NotRead,
    value <- Author(state), got <- Found, broken <- overlap

ImplementsRegister == Register!Spec
==============================================================================
