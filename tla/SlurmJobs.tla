------------------------------- MODULE SlurmJobs -------------------------------
(***************************************************************************)
(* Slurm jobs of one instance, as ns_hpc/job_manager.py runs them: sbatch  *)
(* queues the command, sacct tells how it does, scancel ends it.  Each of  *)
(* the three is a process the manager awaits and kills when it takes too   *)
(* long, and each talks to daemons that may have acted all the same; the   *)
(* accounting lags behind the controller.                                  *)
(*                                                                         *)
(* Managers, requests and records are those of LocalJobs: see there.  Here *)
(* a step of a request runs from one await to the next, and no two steps   *)
(* of a pass are apart.  A job that Slurm puts back in the queue           *)
(* (preemption, a lost node) is left out: see the README.                  *)
(***************************************************************************)
EXTENDS Naturals

CONSTANTS
    Managers,       \* processes that may build a JobManager on the instance
    Commands,       \* those that are CLI commands; the others are the server
    Jobs,           \* job ids
    Tasks,          \* requests that may be in flight at once
    MaxStarts,      \* bound: how often a manager is built, over all of Managers
    NotFoundLimit   \* sacct answers without the job that end a poll (6 in the code)

ASSUME SlurmAssumption ==
    /\ Managers # {} /\ Jobs # {} /\ Commands \subseteq Managers
    /\ MaxStarts \in Nat /\ NotFoundLimit \in Nat \ {0}

VARIABLES
    ctl,         \* ctl[j]: the job in slurmctld
    fate,        \* fate[j]: its final state there
    outcome,     \* outcome[j]: how the command ended
    statusFile,  \* statusFile[j]: the "exit-code" line bwrap wrote, or "none"
    acct,        \* acct[j]: its row in the accounting database
    accepted,    \* jobs of which slurmctld took a scancel of ours
    disk,        \* disk[j]: the record {job_id}.state
    up,          \* managers that are up
    mem,         \* mem[m][j]: _jobs
    task,        \* task[t]: a request in flight
    starts,      \* number of managers built so far
    told         \* ghost: jobs of which some client was told that they ended

slurm == <<ctl, fate, outcome, statusFile, acct, accepted>>
vars  == <<slurm, disk, up, mem, task, starts, told>>

Final   == {"COMPLETED", "FAILED", "CANCELLED"}
Ended   == {"completed", "failed", "cancelled"}
Entry   == [status : {"absent", "running"} \cup Ended,
            exit   : {"none", "ok", "err", "lost"}]
Row     == [state : {"unread", "none", "active"} \cup Final, code : {"none", "ok", "err"}]
Pc      == {"idle", "sbatch", "settle", "sacct", "pause", "scancel"}

NoEntry == [status |-> "absent", exit |-> "none"]
NoRow   == [state |-> "none", code |-> "none"]
Unread  == [state |-> "unread", code |-> "none"]

\* kill: a job still running at the deadline is to be cancelled; wait: timeout > 0; seen:
\* the row that sacct has read; misses: not_found_count.
Request == [pc : Pc, mgr : Managers, job : Jobs, kill : BOOLEAN, wait : BOOLEAN,
            seen : Row, misses : 0..NotFoundLimit - 1]
Idle    == [pc |-> "idle", mgr |-> CHOOSE m \in Managers : TRUE,
            job |-> CHOOSE j \in Jobs : TRUE, kill |-> FALSE, wait |-> FALSE,
            seen |-> Unread, misses |-> 0]

TypeOK ==
    /\ ctl        \in [Jobs -> {"none", "queued", "running", "ended"}]
    /\ fate       \in [Jobs -> Final \cup {"none"}]
    /\ outcome    \in [Jobs -> {"none", "ok", "err", "sig"}]
    /\ statusFile \in [Jobs -> {"none", "ok", "err"}]
    /\ acct       \in [Jobs -> Row]
    /\ accepted   \subseteq Jobs
    /\ disk       \in [Jobs -> Entry]
    /\ up         \subseteq Managers
    /\ mem        \in [Managers -> [Jobs -> Entry]]
    /\ task       \in [Tasks -> Request]
    /\ starts     \in 0..MaxStarts
    /\ told       \subseteq Jobs

Init ==
    /\ ctl        = [j \in Jobs |-> "none"]
    /\ fate       = [j \in Jobs |-> "none"]
    /\ outcome    = [j \in Jobs |-> "none"]
    /\ statusFile = [j \in Jobs |-> "none"]
    /\ acct       = [j \in Jobs |-> NoRow]
    /\ accepted   = {}
    /\ disk       = [j \in Jobs |-> NoEntry]
    /\ up         = {}
    /\ mem        = [m \in Managers |-> [j \in Jobs |-> NoEntry]]
    /\ task       = [t \in Tasks |-> Idle]
    /\ starts     = 0
    /\ told       = {}

manager == <<disk, up, mem, task, starts, told>>

------------------------------------------------------------------------------
(* Slurm: the controller, the command, the accounting.                      *)

\* The job reaches slurmctld while sbatch is awaited; a sbatch killed by its time-out
\* may have got so far.
Enqueue(t) ==
    LET j == task[t].job
    IN  /\ task[t].pc = "sbatch" /\ ctl[j] = "none"
        /\ ctl' = [ctl EXCEPT ![j] = "queued"]
        /\ UNCHANGED <<fate, outcome, statusFile, acct, accepted, manager>>

Launch(j) ==
    /\ ctl[j] = "queued"
    /\ ctl' = [ctl EXCEPT ![j] = "running"]
    /\ UNCHANGED <<fate, outcome, statusFile, acct, accepted, manager>>

\* The command ends with code c; bwrap writes the line, unless it never started.
CommandExits(j, c, line) ==
    /\ ctl[j] = "running" /\ outcome[j] = "none"
    /\ outcome'    = [outcome EXCEPT ![j] = c]
    /\ statusFile' = [statusFile EXCEPT ![j] = line]
    /\ UNCHANGED <<ctl, fate, acct, accepted, manager>>

\* The batch script was the command: its code is the job's.
JobEnds(j) ==
    /\ ctl[j] = "running" /\ outcome[j] \in {"ok", "err"}
    /\ ctl'  = [ctl EXCEPT ![j] = "ended"]
    /\ fate' = [fate EXCEPT ![j] = IF outcome[j] = "ok" THEN "COMPLETED" ELSE "FAILED"]
    /\ UNCHANGED <<outcome, statusFile, acct, accepted, manager>>

\* Slurm ends the job: one of _SLURM_FAILED_STATES (TIMEOUT, OUT_OF_MEMORY, ...), or
\* CANCELLED, by a scancel of ours or of anybody.
JobKilled(j, f) ==
    /\ ctl[j] \in {"queued", "running"}
    /\ ctl'     = [ctl EXCEPT ![j] = "ended"]
    /\ fate'    = [fate EXCEPT ![j] = f]
    /\ outcome' = [outcome EXCEPT ![j] = IF ctl[j] = "running" /\ @ = "none"
                                         THEN "sig" ELSE @]
    /\ UNCHANGED <<statusFile, acct, accepted, manager>>

\* slurmdbd catches up.  A command that was killed has exit code 0 there, or none.
Account(j) ==
    /\ ctl[j] # "none"
    /\ \E c \in {"none", IF outcome[j] = "err" THEN "err" ELSE "ok"} :
          acct' = [acct EXCEPT ![j] = IF ctl[j] = "ended"
                                      THEN [state |-> fate[j], code |-> c]
                                      ELSE [state |-> "active", code |-> "none"]]
    /\ UNCHANGED <<ctl, fate, outcome, statusFile, accepted, manager>>

\* slurmctld takes the scancel of a request; one that failed it did not take.
Accept(t) ==
    /\ task[t].pc = "scancel" /\ task[t].job \notin accepted
    /\ accepted' = accepted \cup {task[t].job}
    /\ UNCHANGED <<ctl, fate, outcome, statusFile, acct, manager>>

Slurm(j) == \/ Launch(j) \/ JobEnds(j) \/ Account(j)
            \/ \E c \in {"ok", "err"} : \E line \in {"none", c} : CommandExits(j, c, line)
            \/ \E f \in {"FAILED", "CANCELLED"} : JobKilled(j, f)

------------------------------------------------------------------------------
(* Managers.  The constructor loads the records; its pass over stale jobs   *)
(* skips Slurm's.                                                           *)

Start(m) ==
    /\ m \notin up /\ starts < MaxStarts
    /\ starts' = starts + 1
    /\ up'     = up \cup {m}
    /\ mem'    = [mem EXCEPT ![m] = disk]
    /\ UNCHANGED <<slurm, disk, task, told>>

Exit(m) ==
    /\ m \in up
    /\ up'   = up \ {m}
    /\ mem'  = [mem EXCEPT ![m] = [j \in Jobs |-> NoEntry]]
    /\ task' = [t \in Tasks |-> IF task[t].mgr = m THEN Idle ELSE task[t]]
    /\ UNCHANGED <<slurm, disk, starts, told>>

------------------------------------------------------------------------------
(* Requests.                                                                *)

Goto(t, pc) == task' = [task EXCEPT ![t] = [@ EXCEPT !.pc = pc]]
Leave(t)    == task' = [task EXCEPT ![t] = Idle]

Save(m, j, e) == /\ mem'  = [mem  EXCEPT ![m][j] = e]
                 /\ disk' = [disk EXCEPT ![j] = e]

\* The request returns to its client, with the status s of job j.
Report(t, j, s) == /\ Leave(t)
                   /\ told' = IF s \in Ended THEN told \cup {j} ELSE told

\* The request raises: the client gets an error and no status.
Raise(t) == Leave(t) /\ UNCHANGED <<slurm, disk, up, mem, starts, told>>

\* submit and _submit_slurm up to the start of sbatch.  k: detach is False.
Submit(t, m, j, k, w) ==
    /\ task[t].pc = "idle" /\ m \in up
    /\ ctl[j] = "none" /\ \A u \in Tasks : ~(task[u].pc = "sbatch" /\ task[u].job = j)
    /\ task' = [task EXCEPT ![t] = [Idle EXCEPT !.pc = "sbatch", !.mgr = m, !.job = j,
                                                !.kill = k, !.wait = w]]
    /\ UNCHANGED <<slurm, disk, up, mem, starts, told>>

\* sbatch is missing, fails, or is killed after 30 s: nothing is recorded.
SubmitFails(t) == task[t].pc = "sbatch" /\ Raise(t)

\* sbatch prints the id; the coroutine gives the accounting 5 s.
Submitted(t) ==
    /\ task[t].pc = "sbatch" /\ ctl[task[t].job] # "none"
    /\ Goto(t, "settle")
    /\ UNCHANGED <<slurm, disk, up, mem, starts, told>>

\* Fault: the entry is in memory only, until a poll settles it.
FaultSubmitRecord(t) ==
    /\ task[t].pc = "settle"
    /\ mem' = [mem EXCEPT ![task[t].mgr][task[t].job] = [status |-> "running", exit |-> "none"]]
    /\ Goto(t, "sacct")
    /\ UNCHANGED <<slurm, disk, up, starts, told>>

\* The entry and its record; then poll() asks sacct.
SubmitRecord(t) ==
    /\ task[t].pc = "settle"
    /\ Save(task[t].mgr, task[t].job, [status |-> "running", exit |-> "none"])
    /\ Goto(t, "sacct")
    /\ UNCHANGED <<slurm, up, starts, told>>

\* poll of an ended job: the cached result.
PollCached(t, m, j) ==
    /\ task[t].pc = "idle" /\ m \in up /\ mem[m][j].status \in Ended
    /\ Report(t, j, mem[m][j].status)
    /\ UNCHANGED <<slurm, disk, up, mem, starts>>

\* The poll_job tool cancels whenever detach is False, `instance status` only after a wait:
\* its peek leaves the job running.
Cancels(m, k, w) == k /\ (m \in Commands => w)

\* poll of a running job asks sacct, every 5 s if there is a timeout.
PollBegin(t, m, j, k, w) ==
    /\ task[t].pc = "idle" /\ m \in up /\ mem[m][j].status = "running"
    /\ task' = [task EXCEPT ![t] = [Idle EXCEPT !.pc = "sacct", !.mgr = m, !.job = j,
                                                !.kill = Cancels(m, k, w), !.wait = w]]
    /\ UNCHANGED <<slurm, disk, up, mem, starts, told>>

\* sacct reads the database while it is awaited (JSON that does not parse counts as an
\* answer without the job),
SacctReads(t) ==
    /\ task[t].pc = "sacct" /\ task[t].seen = Unread
    /\ \E row \in {acct[task[t].job], NoRow} : task' = [task EXCEPT ![t].seen = row]
    /\ UNCHANGED <<slurm, disk, up, mem, starts, told>>

\* or is missing, fails, or is killed after 30 s.
SacctFails(t) == task[t].pc = "sacct" /\ Raise(t)

\* Too many answers in a row without the job ...
GivesUp(t) == task[t].seen = NoRow /\ task[t].misses + 1 >= NotFoundLimit

\* ... end the poll with an error.
NotFound(t) == task[t].pc = "sacct" /\ GivesUp(t) /\ Raise(t)

\* Fault: the exit code decides, whatever ended the job.
FaultSettled(row, line) ==
    LET code == IF row.code # "none" THEN row.code ELSE line
    IN  [status |-> IF row.state = "CANCELLED" THEN "cancelled"
                    ELSE IF code = "ok" THEN "completed" ELSE "failed",
         exit   |-> IF code # "none" THEN code ELSE "lost"]

\* The status and exit code of a final row; without a code in it the status file's.
Settled(row, line) ==
    LET code == IF row.code # "none" THEN row.code ELSE line
    IN  [status |-> [COMPLETED |-> "completed", FAILED |-> "failed",
                     CANCELLED |-> "cancelled"][row.state],
         exit   |-> IF code # "none" THEN code
                    ELSE IF row.state = "COMPLETED" THEN "ok" ELSE "lost"]

\* Fault: the record is written only after a poll that waited.
FaultPollSettles(t) ==
    LET m == task[t].mgr
        j == task[t].job
        e == Settled(task[t].seen, statusFile[j])
    IN  /\ task[t].pc = "sacct" /\ task[t].seen.state \in Final
        /\ mem'  = [mem EXCEPT ![m][j] = e]
        /\ disk' = IF task[t].wait THEN [disk EXCEPT ![j] = e] ELSE disk
        /\ Report(t, j, e.status)
        /\ UNCHANGED <<slurm, up, starts>>

\* sacct's answer is final: the entry is settled without another look at it.
PollSettles(t) ==
    LET j == task[t].job
        e == Settled(task[t].seen, statusFile[j])
    IN  /\ task[t].pc = "sacct" /\ task[t].seen.state \in Final
        /\ Save(task[t].mgr, j, e)
        /\ Report(t, j, e.status)
        /\ UNCHANGED <<slurm, up, starts>>

\* cancel() of an ended entry leaves it alone, poll() then returns it; else scancel.
CancelBody(t, m, j) ==
    /\ IF mem[m][j].status \in Ended
       THEN Report(t, j, mem[m][j].status)
       ELSE /\ task' = [task EXCEPT ![t] = [Idle EXCEPT !.pc = "scancel",
                                                        !.mgr = m, !.job = j]]
            /\ UNCHANGED told
    /\ UNCHANGED <<slurm, disk, up, mem, starts>>

\* The poll found the job in the queue or running, or not yet: answer "running", or
\* cancel the job if that was asked for.
StillRunning(t) ==
    IF task[t].kill THEN CancelBody(t, task[t].mgr, task[t].job)
    ELSE /\ Leave(t)
         /\ UNCHANGED <<slurm, disk, up, mem, starts, told>>

Inconclusive(t) ==
    /\ task[t].pc = "sacct" /\ task[t].seen.state \in {"none", "active"}
    /\ ~GivesUp(t)

\* timeout=0, or the deadline has passed.
PollDeadline(t) == Inconclusive(t) /\ StillRunning(t)

\* Before the deadline the coroutine sleeps and asks again.
PollPauses(t) ==
    /\ Inconclusive(t) /\ task[t].wait
    /\ task' = [task EXCEPT ![t].pc = "pause", ![t].seen = Unread,
                            ![t].misses = IF task[t].seen = NoRow THEN @ + 1 ELSE 0]
    /\ UNCHANGED <<slurm, disk, up, mem, starts, told>>

PollAgain(t) ==
    /\ task[t].pc = "pause"
    /\ Goto(t, "sacct")
    /\ UNCHANGED <<slurm, disk, up, mem, starts, told>>

Cancel(t, m, j) ==
    /\ task[t].pc = "idle" /\ m \in up /\ mem[m][j].status # "absent"
    /\ CancelBody(t, m, j)

\* scancel is missing.
ScancelFails(t) == task[t].pc = "scancel" /\ Raise(t)

\* Fault: a job whose scancel was not accepted goes back to running.
FaultScancelReturns(t) ==
    LET m == task[t].mgr
        j == task[t].job
        s == IF j \in accepted THEN "cancelled" ELSE "running"
    IN  /\ task[t].pc = "scancel"
        /\ Save(m, j, [mem[m][j] EXCEPT !.status = s])
        /\ Report(t, j, s)
        /\ UNCHANGED <<slurm, up, starts>>

\* scancel has exited with any code, or was killed after 15 s; the entry is marked all
\* the same and poll() returns it.
ScancelReturns(t) ==
    LET m == task[t].mgr
        j == task[t].job
    IN  /\ task[t].pc = "scancel"
        /\ Save(m, j, [mem[m][j] EXCEPT !.status = "cancelled"])
        /\ Report(t, j, "cancelled")
        /\ UNCHANGED <<slurm, up, starts>>

\* list_jobs settles a job by its status file, before the accounting knows.
List(m) ==
    LET done == {j \in Jobs : mem[m][j].status = "running" /\ statusFile[j] # "none"}
        seen == [j \in Jobs |->
                   IF j \notin done THEN mem[m][j]
                   ELSE [status |-> IF statusFile[j] = "ok" THEN "completed" ELSE "failed",
                         exit   |-> statusFile[j]]]
    IN  /\ m \in up
        /\ mem'  = [mem EXCEPT ![m] = seen]
        /\ disk' = [j \in Jobs |-> IF j \in done THEN seen[j] ELSE disk[j]]
        /\ told' = told \cup {j \in Jobs : seen[j].status \in Ended}
        /\ UNCHANGED <<slurm, up, task, starts>>

NewRequest(t, m, j) ==
    \/ \E k, w \in BOOLEAN : Submit(t, m, j, k, w) \/ PollBegin(t, m, j, k, w)
    \/ PollCached(t, m, j) \/ Cancel(t, m, j)

\* What the loop does when a process it awaits has ended or taken too long, or a sleep
\* is over.
Wake(t) ==
    \/ SubmitFails(t) \/ Submitted(t) \/ SubmitRecord(t)
    \/ SacctFails(t) \/ NotFound(t) \/ PollSettles(t) \/ PollPauses(t) \/ PollAgain(t)
    \/ ScancelFails(t) \/ ScancelReturns(t)

Next ==
    \/ \E j \in Jobs : Slurm(j)
    \/ \E m \in Managers : Start(m) \/ Exit(m) \/ List(m)
    \/ \E t \in Tasks : \/ Enqueue(t) \/ Accept(t) \/ SacctReads(t)
                        \/ Wake(t) \/ PollDeadline(t)
    \/ \E t \in Tasks, m \in Managers, j \in Jobs : NewRequest(t, m, j)

Spec == Init /\ [][Next]_vars

------------------------------------------------------------------------------
(* Properties that hold.                                                    *)

Records(j) == {disk[j]} \cup {mem[m][j] : m \in Managers}

\* Whether sacct, the status file or a scancel settled it: "completed" is recorded only
\* of a command that exited 0, an error code only of one that returned it, and "failed"
\* only of one that did not succeed, unless Slurm itself ended it.
RecordTruth ==
    \A j \in Jobs : \A e \in Records(j) :
        /\ e.status = "completed" => e.exit = "ok" /\ outcome[j] = "ok"
        /\ e.exit = "err" => outcome[j] = "err"
        /\ e.status = "failed" => outcome[j] = "err" \/ fate[j] = "FAILED"

\* A client told that a job ended finds that in the record, after any crash.
ReportDurable == \A j \in told : disk[j].status \in Ended

\* The records on disk are the ledger that LocalJobs keeps too.
Ledger == INSTANCE JobLedger WITH
             ledger <- [j \in Jobs |-> disk[j].status], truth <- outcome
ImplementsLedger == Ledger!LedgerSpec

------------------------------------------------------------------------------
(* The inductive invariant behind these.                                    *)

\* The final state and the status file tell how the command ended.
SlurmOK ==
    \A j \in Jobs :
        /\ fate[j] # "none" => ctl[j] = "ended"
        /\ ctl[j] \in {"none", "queued"} => outcome[j] = "none"
        /\ fate[j] = "COMPLETED" => outcome[j] = "ok"
        /\ statusFile[j] # "none" => statusFile[j] = outcome[j]

\* A row, in the database or read by sacct, may be old, but what it says is final.
RowOK(j, row) ==
    /\ row.state \in Final => fate[j] = row.state
    /\ row.state = "COMPLETED" => row.code # "err"
    /\ row.code = "err" => outcome[j] = "err"

AccountOK == /\ \A j \in Jobs : RowOK(j, acct[j]) /\ acct[j].state # "unread"
             /\ \A t \in Tasks : RowOK(task[t].job, task[t].seen)

\* What a manager remembers has a record, an ended entry an ended one, and what has a
\* record was queued.
RecordedOK ==
    \A j \in Jobs :
        /\ disk[j].status # "absent" => ctl[j] # "none"
        /\ \A m \in Managers :
              /\ mem[m][j].status # "absent" => disk[j].status # "absent"
              /\ mem[m][j].status \in Ended => disk[j].status \in Ended

\* A request in submit is the only one to know its job; any other has a record.
FlightOK ==
    /\ \A t \in Tasks :
          /\ task[t].pc \in {"sbatch", "settle"} => disk[task[t].job].status = "absent"
          /\ task[t].pc = "settle" => ctl[task[t].job] # "none"
          /\ task[t].pc \in {"sacct", "pause", "scancel"}
             => disk[task[t].job].status # "absent"
    /\ \A t, u \in Tasks :
          /\ task[t].pc \in {"sbatch", "settle"} /\ task[u].pc \in {"sbatch", "settle"}
          /\ task[t].job = task[u].job
          => t = u

IInv == /\ TypeOK /\ SlurmOK /\ AccountOK /\ RecordTruth /\ RecordedOK
        /\ ReportDurable /\ FlightOK

------------------------------------------------------------------------------
(* A statement of the source's own documents that the code does not keep.   *)

\* JOB_DESIGN.md, poll_job: "For detach=false: kill if still going at timeout".  A job
\* recorded as cancelled, of which no scancel was accepted, runs on.
CancelledIsKilled ==
    \A j \in Jobs : disk[j].status = "cancelled" => j \in accepted \/ ctl[j] = "ended"
==============================================================================
