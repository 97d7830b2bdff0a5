------------------------------ MODULE LocalJobs ------------------------------
(***************************************************************************)
(* Local (bwrap) jobs of one instance, as ns_hpc/job_manager.py runs them. *)
(*                                                                         *)
(* A manager is one JobManager object: the server's cached one, or the one *)
(* a CLI command builds, uses once and drops.  All managers of an instance *)
(* share its directory of per-job records; each has its own copy in memory *)
(* (_jobs) and its own process handles (_procs).  Requests are coroutines: *)
(* those of one manager interleave only where they await, those of two     *)
(* managers anywhere, and the jobs' processes run beside all of them.      *)
(*                                                                         *)
(* A time-out is a step that may be taken at any moment: the model has no  *)
(* clock.  Records without a "status_path" (written by an older release,   *)
(* status "unknown") are left out.                                         *)
(*                                                                         *)
(* An operator whose name begins with Fault is not part of the model: it   *)
(* is the operator that follows it with a plausible bug, to see that the   *)
(* properties notice (PROJECT.json, "mutants").                            *)
(***************************************************************************)
EXTENDS Naturals

CONSTANTS
    Managers,    \* processes that may build a JobManager on the instance
    Commands,    \* those that are CLI commands; the others are the server
    Jobs,        \* job ids; uuid4 is taken to be fresh
    Tasks,       \* requests that may be in flight at once
    MaxStarts,   \* bound: how often a manager is built, over all of Managers
    ProcCheck    \* config.jobs.local.proc_check

ASSUME LocalJobsAssumption ==
    /\ Managers # {} /\ Jobs # {}
    /\ Commands \subseteq Managers
    /\ MaxStarts \in Nat
    /\ ProcCheck \in BOOLEAN

VARIABLES
    phase,       \* phase[j]: where the process of the job is
    outcome,     \* outcome[j]: how the command ended
    statusFile,  \* statusFile[j]: the "exit-code" line bwrap wrote, or "none"
    signal,      \* signal[j]: the strongest signal a manager sent the process
    reaped,      \* jobs whose process has been waited for (no /proc entry left)
    disk,        \* disk[j]: the record {job_id}.state
    up,          \* up[m]: the life of a manager
    mem,         \* mem[m][j]: _jobs
    handles,     \* handles[m]: the keys of _procs
    fix,         \* fix[m]: progress of _fixup_stale_jobs
    task,        \* task[t]: a request in flight
    starts,      \* number of managers built so far
    told         \* ghost: jobs of which some client was told that they ended

world == <<phase, outcome, statusFile, signal, reaped>>
vars  == <<phase, outcome, statusFile, signal, reaped,
           disk, up, mem, handles, fix, task, starts, told>>

Ended   == {"completed", "failed", "cancelled"}
Status  == {"absent", "running"} \cup Ended
Outcome == {"none", "ok", "err", "sig"}
Entry   == [status : Status, exit : Outcome \cup {"lost"}]

Phase   == {"none", "starting", "sandbox", "flushed", "gone"}
Pc      == {"idle", "spawn", "wait", "read", "check", "term", "kill", "termPid"}
Request == [pc : Pc, mgr : Managers, job : Jobs,
            kill : BOOLEAN,   \* detach is False
            peek : BOOLEAN]   \* ... of an `instance status` with a time-out of 0

NoEntry == [status |-> "absent", exit |-> "none"]
NoFix   == [todo |-> {}, probing |-> {}, changed |-> {}]
Idle    == [pc |-> "idle", mgr |-> CHOOSE m \in Managers : TRUE,
            job |-> CHOOSE j \in Jobs : TRUE, kill |-> FALSE, peek |-> FALSE]

TypeOK ==
    /\ phase      \in [Jobs -> Phase]
    /\ outcome    \in [Jobs -> Outcome]
    /\ statusFile \in [Jobs -> {"none", "ok", "err"}]
    /\ signal     \in [Jobs -> {"none", "term", "kill"}]
    /\ reaped     \subseteq Jobs
    /\ disk       \in [Jobs -> Entry]
    /\ up         \in [Managers -> {"down", "fixing", "up"}]
    /\ mem        \in [Managers -> [Jobs -> Entry]]
    /\ handles    \in [Managers -> SUBSET Jobs]
    /\ fix        \in [Managers -> [todo : SUBSET Jobs, probing : SUBSET Jobs,
                                    changed : SUBSET Jobs]]
    /\ task       \in [Tasks -> Request]
    /\ starts     \in 0..MaxStarts
    /\ told       \subseteq Jobs

Init ==
    /\ phase      = [j \in Jobs |-> "none"]
    /\ outcome    = [j \in Jobs |-> "none"]
    /\ statusFile = [j \in Jobs |-> "none"]
    /\ signal     = [j \in Jobs |-> "none"]
    /\ reaped     = {}
    /\ disk       = [j \in Jobs |-> NoEntry]
    /\ up         = [m \in Managers |-> "down"]
    /\ mem        = [m \in Managers |-> [j \in Jobs |-> NoEntry]]
    /\ handles    = [m \in Managers |-> {}]
    /\ fix        = [m \in Managers |-> NoFix]
    /\ task       = [t \in Tasks |-> Idle]
    /\ starts     = 0
    /\ told       = {}

------------------------------------------------------------------------------
(* The process: sh, then python ("starting"), then bwrap ("sandbox"), which *)
(* writes the exit-code line ("flushed") just before it exits ("gone").     *)

Live(j) == phase[j] \in {"starting", "sandbox", "flushed"}

\* _is_bwrap_alive: comm is "bwrap" and the status fd is the job's; sh and python
\* do not pass, and neither does a zombie, whose fd directory is empty.
IsBwrapAlive(j) == phase[j] \in {"sandbox", "flushed"}

\* _read_status_file found an "exit-code" line.
Finished(j) == statusFile[j] # "none"

\* os.execvp in `ns-hpc bwrap`: the pid's comm becomes "bwrap".
ExecBwrap(j) ==
    /\ phase[j] = "starting"
    /\ phase' = [phase EXCEPT ![j] = "sandbox"]
    /\ UNCHANGED <<outcome, statusFile, signal, reaped,
                   disk, up, mem, handles, fix, task, starts, told>>

\* The command ends with code c and bwrap writes the line.
WriteExit(j, c) ==
    /\ phase[j] = "sandbox"
    /\ phase'      = [phase EXCEPT ![j] = "flushed"]
    /\ outcome'    = [outcome EXCEPT ![j] = c]
    /\ statusFile' = [statusFile EXCEPT ![j] = c]
    /\ UNCHANGED <<signal, reaped, disk, up, mem, handles, fix, task, starts, told>>

\* The process exits having written no line: the start failed, or the write did.
EndSilently(j, c) ==
    /\ \/ phase[j] = "sandbox"
       \/ phase[j] = "starting" /\ c = "err"
    /\ phase'   = [phase EXCEPT ![j] = "gone"]
    /\ outcome' = [outcome EXCEPT ![j] = c]
    /\ UNCHANGED <<statusFile, signal, reaped,
                   disk, up, mem, handles, fix, task, starts, told>>

\* A signal ends it, a manager's or another (the OOM killer's); the line of a
\* command that had ended before stays.  Also the plain exit of a flushed bwrap.
Die(j) ==
    /\ Live(j)
    /\ phase'   = [phase EXCEPT ![j] = "gone"]
    /\ outcome' = [outcome EXCEPT ![j] = IF @ = "none" THEN "sig" ELSE @]
    /\ UNCHANGED <<statusFile, signal, reaped,
                   disk, up, mem, handles, fix, task, starts, told>>

\* The parent (the event loop's child watcher, or init) waits for it.
Reap(j) ==
    /\ phase[j] = "gone" /\ j \notin reaped
    /\ reaped' = reaped \cup {j}
    /\ UNCHANGED <<phase, outcome, statusFile, signal,
                   disk, up, mem, handles, fix, task, starts, told>>

Process(j) ==
    \/ ExecBwrap(j)
    \/ \E c \in {"ok", "err"} : WriteExit(j, c) \/ EndSilently(j, c)
    \/ Die(j)
    \/ Reap(j)

------------------------------------------------------------------------------
(* The manager's constructor and the end of its process.                    *)

\* Fault: list_jobs re-reads the status file of ended jobs as well.
FaultRunning(m) == {j \in Jobs : mem[m][j].status # "absent"}
Running(m) == {j \in Jobs : mem[m][j].status = "running"}
Settle(c)  == [status |-> IF c = "ok" THEN "completed" ELSE "failed", exit |-> c]

\* __init__ and _load_jobs: a snapshot of the directory, before any request.
Start(m) ==
    /\ up[m] = "down" /\ starts < MaxStarts
    /\ starts' = starts + 1
    /\ up'  = [up  EXCEPT ![m] = "fixing"]
    /\ mem' = [mem EXCEPT ![m] = disk]
    /\ fix' = [fix EXCEPT ![m] =
                 [todo    |-> {j \in Jobs : disk[j].status = "running"},
                  probing |-> {}, changed |-> {}]]
    /\ UNCHANGED <<phase, outcome, statusFile, signal, reaped, disk, handles, task, told>>

\* _fixup_stale_jobs reads one status file; without a line it goes on to /proc.
FixRead(m, j) ==
    /\ up[m] = "fixing" /\ fix[m].probing = {} /\ j \in fix[m].todo
    /\ fix' = [fix EXCEPT ![m] =
                 [todo    |-> @.todo \ {j},
                  probing |-> IF Finished(j) THEN {} ELSE {j},
                  changed |-> IF Finished(j) THEN @.changed \cup {j} ELSE @.changed]]
    /\ mem' = [mem EXCEPT ![m][j] = IF Finished(j) THEN Settle(statusFile[j]) ELSE @]
    /\ UNCHANGED <<phase, outcome, statusFile, signal, reaped,
                   disk, up, handles, task, starts, told>>

\* ... and looks at /proc: a bwrap found alive is left running,
FixAlive(m, j) ==
    /\ up[m] = "fixing" /\ j \in fix[m].probing
    /\ ProcCheck /\ IsBwrapAlive(j)
    /\ fix' = [fix EXCEPT ![m] = [todo |-> @.todo, probing |-> @.probing \ {j}, changed |-> @.changed]]
    /\ UNCHANGED <<phase, outcome, statusFile, signal, reaped,
                   disk, up, mem, handles, task, starts, told>>

\* any other job is taken for dead.
FixDead(m, j) ==
    /\ up[m] = "fixing" /\ j \in fix[m].probing
    /\ ~(ProcCheck /\ IsBwrapAlive(j))
    /\ fix' = [fix EXCEPT ![m] =
                 [todo |-> @.todo, probing |-> @.probing \ {j}, changed |-> @.changed \cup {j}]]
    /\ mem' = [mem EXCEPT ![m][j] = [status |-> "failed", exit |-> @.exit]]
    /\ UNCHANGED <<phase, outcome, statusFile, signal, reaped,
                   disk, up, handles, task, starts, told>>

\* The changed records are saved one by one after the loop.
FixSave(m, j) ==
    /\ up[m] = "fixing" /\ fix[m].todo = {} /\ fix[m].probing = {}
    /\ j \in fix[m].changed
    /\ fix'  = [fix EXCEPT ![m] = [todo |-> {}, probing |-> {}, changed |-> @.changed \ {j}]]
    /\ disk' = [disk EXCEPT ![j] = mem[m][j]]
    /\ UNCHANGED <<phase, outcome, statusFile, signal, reaped,
                   up, mem, handles, task, starts, told>>

FixDone(m) ==
    /\ up[m] = "fixing" /\ fix[m] = NoFix
    /\ up' = [up EXCEPT ![m] = "up"]
    /\ UNCHANGED <<phase, outcome, statusFile, signal, reaped,
                   disk, mem, handles, fix, task, starts, told>>

\* The process of the manager ends (a crash, a server stop, the end of a CLI
\* command): memory, handles and requests are gone, the sandboxes run on.
Exit(m) ==
    /\ up[m] # "down"
    /\ up'      = [up EXCEPT ![m] = "down"]
    /\ mem'     = [mem EXCEPT ![m] = [j \in Jobs |-> NoEntry]]
    /\ handles' = [handles EXCEPT ![m] = {}]
    /\ fix'     = [fix EXCEPT ![m] = NoFix]
    /\ task'    = [t \in Tasks |-> IF task[t].mgr = m THEN Idle ELSE task[t]]
    /\ UNCHANGED <<phase, outcome, statusFile, signal, reaped, disk, starts, told>>

Construct(m) ==
    \/ Start(m) \/ FixDone(m)
    \/ \E j \in Jobs : FixRead(m, j) \/ FixAlive(m, j) \/ FixDead(m, j) \/ FixSave(m, j)

------------------------------------------------------------------------------
(* Requests.  Turn(m): the event loop of m may run the next segment; it may *)
(* not while a request is between its status read and its /proc check.      *)

Turn(m) == /\ up[m] = "up"
           /\ \A t \in Tasks : task[t].mgr = m => task[t].pc # "check"

Goto(t, pc) == task' = [task EXCEPT ![t] = [@ EXCEPT !.pc = pc]]
Leave(t)    == task' = [task EXCEPT ![t] = Idle]
Begin(t, pc, m, j, k) ==
    task' = [task EXCEPT ![t] = [pc |-> pc, mgr |-> m, job |-> j, kill |-> k, peek |-> FALSE]]

Save(m, j, e) == /\ mem'  = [mem  EXCEPT ![m][j] = e]
                 /\ disk' = [disk EXCEPT ![j] = e]

\* The request returns to its client, with the status s of job j.
Report(t, j, s) == /\ Leave(t)
                   /\ told' = IF s \in Ended THEN told \cup {j} ELSE told

\* submit and _submit_local up to create_subprocess_exec.  k: detach is False.
Submit(t, m, j, k) ==
    /\ task[t].pc = "idle" /\ Turn(m)
    /\ phase[j] = "none"
    /\ \A u \in Tasks : ~(task[u].pc = "spawn" /\ task[u].job = j)
    /\ Begin(t, "spawn", m, j, k)
    /\ UNCHANGED <<phase, outcome, statusFile, signal, reaped,
                   disk, up, mem, handles, fix, starts, told>>

\* The kernel forks while the coroutine awaits.
Spawn(t) ==
    /\ task[t].pc = "spawn" /\ phase[task[t].job] = "none"
    /\ phase' = [phase EXCEPT ![task[t].job] = "starting"]
    /\ UNCHANGED <<outcome, statusFile, signal, reaped,
                   disk, up, mem, handles, fix, task, starts, told>>

\* Fault: the process handle is not kept.
FaultSubmitRecord(t, m, j) ==
    /\ task[t].pc = "spawn" /\ phase[j] # "none" /\ Turn(m)
    /\ Save(m, j, [status |-> "running", exit |-> "none"])
    /\ Goto(t, "read")
    /\ UNCHANGED <<phase, outcome, statusFile, signal, reaped,
                   up, handles, fix, starts, told>>

\* _submit_local after the await: entry, handle and record; then poll() begins.
SubmitRecord(t, m, j) ==
    /\ task[t].pc = "spawn" /\ phase[j] # "none" /\ Turn(m)
    /\ Save(m, j, [status |-> "running", exit |-> "none"])
    /\ handles' = [handles EXCEPT ![m] = @ \cup {j}]
    /\ Goto(t, "wait")
    /\ UNCHANGED <<phase, outcome, statusFile, signal, reaped, up, fix, starts, told>>

\* poll of an ended job: the cached result.
PollCached(t, m, j) ==
    /\ task[t].pc = "idle" /\ Turn(m) /\ mem[m][j].status \in Ended
    /\ Report(t, j, mem[m][j].status)
    /\ UNCHANGED <<phase, outcome, statusFile, signal, reaped,
                   disk, up, mem, handles, fix, starts>>

\* poll of a running job: it waits for the process it has a handle of, else it
\* reads the status file every 0.2 s.  A poll with a time-out of 0 is one that times
\* out at once; p: it is a command's, which has started nothing, with detach=False.
PollBegin(t, m, j, k, p) ==
    /\ task[t].pc = "idle" /\ Turn(m) /\ mem[m][j].status = "running"
    /\ p => k /\ m \in Commands /\ handles[m] = {}
    /\ task' = [task EXCEPT ![t] = [pc |-> IF j \in handles[m] THEN "wait" ELSE "read",
                                    mgr |-> m, job |-> j, kill |-> k, peek |-> p]]
    /\ UNCHANGED <<phase, outcome, statusFile, signal, reaped,
                   disk, up, mem, handles, fix, starts, told>>

\* Fault: the result is returned and not saved.
FaultPollFinish(t, m, j, e) ==
    /\ handles' = [handles EXCEPT ![m] = @ \ {j}]
    /\ mem' = [mem EXCEPT ![m][j] = e]
    /\ Report(t, j, e.status)
    /\ UNCHANGED <<phase, outcome, statusFile, signal, reaped, disk, up, fix, starts>>

\* The `if finished` branch of _poll_local; the entry is not looked at again.
PollFinish(t, m, j, e) ==
    /\ handles' = [handles EXCEPT ![m] = @ \ {j}]
    /\ Save(m, j, e)
    /\ Report(t, j, e.status)
    /\ UNCHANGED <<phase, outcome, statusFile, signal, reaped, up, fix, starts>>

\* Fault: a cancelled job's state file is removed.
FaultMarkCancelled(t, m, j) ==
    /\ mem'  = [mem EXCEPT ![m][j].status = "cancelled"]
    /\ disk' = [disk EXCEPT ![j] = NoEntry]
    /\ Report(t, j, "cancelled")
    /\ UNCHANGED <<phase, outcome, statusFile, reaped, up, fix, starts>>

\* cancel(): an ended entry is left alone; a handle is popped and its process
\* gets SIGTERM; without one the pid is checked and gets SIGTERM.
MarkCancelled(t, m, j) ==
    /\ Save(m, j, [status |-> "cancelled", exit |-> mem[m][j].exit])
    /\ Report(t, j, "cancelled")
    /\ UNCHANGED <<phase, outcome, statusFile, reaped, up, fix, starts>>

SendTerm(j) == signal' = [signal EXCEPT ![j] = IF @ = "kill" THEN @ ELSE "term"]
SendKill(j) == signal' = [signal EXCEPT ![j] = "kill"]

CancelEnded(t, m, j) ==
    /\ mem[m][j].status \in Ended
    /\ Report(t, j, mem[m][j].status)
    /\ UNCHANGED <<phase, outcome, statusFile, signal, reaped,
                   disk, up, mem, handles, fix, starts>>

CancelHandle(t, m, j, k) ==
    /\ mem[m][j].status = "running" /\ j \in handles[m]
    /\ handles' = [handles EXCEPT ![m] = @ \ {j}]
    /\ IF j \in reaped
       THEN MarkCancelled(t, m, j) /\ UNCHANGED signal
       ELSE /\ SendTerm(j)
            /\ Begin(t, "term", m, j, k)
            /\ UNCHANGED <<phase, outcome, statusFile, reaped,
                           disk, up, mem, fix, starts, told>>

\* Fault: without a handle nothing is signalled.
FaultCancelPid(t, m, j, k) ==
    /\ mem[m][j].status = "running" /\ j \notin handles[m]
    /\ MarkCancelled(t, m, j)
    /\ UNCHANGED <<signal, handles>>

CancelPid(t, m, j, k) ==
    /\ mem[m][j].status = "running" /\ j \notin handles[m]
    /\ UNCHANGED handles
    /\ IF IsBwrapAlive(j)
       THEN /\ SendTerm(j)
            /\ Begin(t, "termPid", m, j, k)
            /\ UNCHANGED <<phase, outcome, statusFile, reaped,
                           disk, up, mem, fix, starts, told>>
       ELSE MarkCancelled(t, m, j) /\ UNCHANGED signal

CancelBody(t, m, j, k) ==
    CancelEnded(t, m, j) \/ CancelHandle(t, m, j, k) \/ CancelPid(t, m, j, k)

Cancel(t, m, j) == task[t].pc = "idle" /\ Turn(m) /\ CancelBody(t, m, j, FALSE)

\* `instance status` cancels only a job that it has waited for; the tools of the server
\* and `instance run` do not look at the time-out.
Cancels(t) == task[t].kill /\ ~task[t].peek

\* Fault: the poll refreshes the record of a job it found running.
FaultStillRunning(t, m, j) ==
    IF Cancels(t)
    THEN CancelBody(t, m, j, TRUE)
    ELSE /\ Report(t, j, "running")
         /\ disk' = [disk EXCEPT ![j] = mem[m][j]]
         /\ UNCHANGED <<phase, outcome, statusFile, signal, reaped,
                        up, mem, handles, fix, starts>>

\* Fault: detach=False is forgotten.
FaultDetached(t, m, j) ==
    /\ Report(t, j, "running")
    /\ UNCHANGED <<phase, outcome, statusFile, signal, reaped,
                   disk, up, mem, handles, fix, starts>>

\* The poll found the job running at its deadline: the handlers of a request
\* made with detach=False cancel it in the same segment, unless it was a peek.
StillRunning(t, m, j) ==
    IF Cancels(t)
    THEN CancelBody(t, m, j, TRUE)
    ELSE /\ Report(t, j, "running")
         /\ UNCHANGED <<phase, outcome, statusFile, signal, reaped,
                        disk, up, mem, handles, fix, starts>>

\* proc.wait() returned or timed out: the status file decides, else returncode.
PollWake(t, m, j) ==
    /\ task[t].pc = "wait" /\ Turn(m)
    /\ IF Finished(j) THEN PollFinish(t, m, j, Settle(statusFile[j]))
       ELSE IF j \in reaped THEN PollFinish(t, m, j, Settle(outcome[j]))
       ELSE StillRunning(t, m, j)

\* One turn of the recovery loop: the file has no line, so it goes on to /proc ...
PollRead(t, m, j) ==
    /\ task[t].pc = "read" /\ Turn(m) /\ ~task[t].peek
    /\ IF Finished(j)
       THEN PollFinish(t, m, j, Settle(statusFile[j]))
       ELSE /\ Goto(t, "check")
            /\ UNCHANGED <<phase, outcome, statusFile, signal, reaped,
                           disk, up, mem, handles, fix, starts, told>>

\* Fault: a lost process counts as exit code 0.
FaultPollProbe(t, m, j) ==
    /\ task[t].pc = "check"
    /\ IF IsBwrapAlive(j)
       THEN /\ Goto(t, "read")
            /\ UNCHANGED <<phase, outcome, statusFile, signal, reaped,
                           disk, up, mem, handles, fix, starts, told>>
       ELSE PollFinish(t, m, j, Settle("ok"))

\* ... and a bwrap that is not found alive ends the job with exit code -1.
PollProbe(t, m, j) ==
    /\ task[t].pc = "check"
    /\ IF IsBwrapAlive(j)
       THEN /\ Goto(t, "read")
            /\ UNCHANGED <<phase, outcome, statusFile, signal, reaped,
                           disk, up, mem, handles, fix, starts, told>>
       ELSE PollFinish(t, m, j, [status |-> "failed", exit |-> "lost"])

\* The deadline passed: one last read.
PollDeadline(t, m, j) ==
    /\ task[t].pc = "read" /\ Turn(m)
    /\ IF Finished(j) THEN PollFinish(t, m, j, Settle(statusFile[j]))
       ELSE StillRunning(t, m, j)

\* cancel() after SIGTERM: the process ended, or 5 s passed and it gets SIGKILL.
CancelWake(t, m, j) ==
    /\ task[t].pc = "term" /\ Turn(m)
    /\ IF j \in reaped
       THEN MarkCancelled(t, m, j) /\ UNCHANGED <<signal, handles>>
       ELSE /\ SendKill(j) /\ Goto(t, "kill")
            /\ UNCHANGED <<phase, outcome, statusFile, reaped,
                           disk, up, mem, handles, fix, starts, told>>

\* Fault: after SIGKILL the manager waits without a time-out.
FaultCancelAbandon(t, m, j) ==
    /\ task[t].pc = "kill" /\ Turn(m) /\ j \in reaped
    /\ MarkCancelled(t, m, j)
    /\ UNCHANGED <<signal, handles>>

\* After SIGKILL it ended, or 5 s passed and the manager stops waiting.
CancelAbandon(t, m, j) ==
    /\ task[t].pc = "kill" /\ Turn(m)
    /\ MarkCancelled(t, m, j)
    /\ UNCHANGED <<signal, handles>>

\* Without a handle: /proc/<pid> went away, or 5 s passed and it gets SIGKILL.
CancelPidWake(t, m, j) ==
    /\ task[t].pc = "termPid" /\ Turn(m)
    /\ MarkCancelled(t, m, j)
    /\ IF j \in reaped THEN UNCHANGED signal ELSE SendKill(j)
    /\ UNCHANGED handles

\* list_jobs: one synchronous pass; handles of jobs it settles are not popped.
List(m) ==
    LET done == {j \in Running(m) : Finished(j)}
        seen == [j \in Jobs |-> IF j \in done THEN Settle(statusFile[j]) ELSE mem[m][j]]
    IN  /\ Turn(m)
        /\ mem'  = [mem EXCEPT ![m] = seen]
        /\ disk' = [j \in Jobs |-> IF j \in done THEN seen[j] ELSE disk[j]]
        /\ told' = told \cup {j \in Jobs : seen[j].status \in Ended}
        /\ UNCHANGED <<phase, outcome, statusFile, signal, reaped,
                       up, handles, fix, task, starts>>

\* A client's new request, and the steps of one already in flight.
NewRequest(t, m, j) ==
    \/ \E k \in BOOLEAN : Submit(t, m, j, k) \/ \E p \in BOOLEAN : PollBegin(t, m, j, k, p)
    \/ PollCached(t, m, j)
    \/ Cancel(t, m, j)

Step(t, m, j) ==
    \/ SubmitRecord(t, m, j)
    \/ PollWake(t, m, j) \/ PollRead(t, m, j)
    \/ PollProbe(t, m, j) \/ PollDeadline(t, m, j)
    \/ CancelWake(t, m, j) \/ CancelAbandon(t, m, j) \/ CancelPidWake(t, m, j)

InFlight(t, m, j) == task[t].mgr = m /\ task[t].job = j /\ Step(t, m, j)

Next ==
    \/ \E j \in Jobs : Process(j)
    \/ \E m \in Managers : Construct(m) \/ Exit(m) \/ List(m)
    \/ \E t \in Tasks : Spawn(t)
    \/ \E t \in Tasks, m \in Managers, j \in Jobs :
          NewRequest(t, m, j) \/ InFlight(t, m, j)

Spec == Init /\ [][Next]_vars

(* Fairness, for the liveness properties only.  The event loop runs every    *)
(* ready coroutine and fires every timer (asyncio's queue is first-in        *)
(* first-out), so an await that ends at the latest by time-out ends: strong  *)
(* fairness, since a sibling may hold the loop when the timer is due.  The   *)
(* kernel completes a fork, delivers signals and lets a flushed bwrap exit.  *)
(* Nothing is assumed of commands, clients or managers' lives.               *)
Settling(t) ==
    LET m == task[t].mgr
        j == task[t].job
    IN  \/ SubmitRecord(t, m, j) \/ PollWake(t, m, j) \/ PollDeadline(t, m, j)
        \/ CancelWake(t, m, j) \/ CancelAbandon(t, m, j) \/ CancelPidWake(t, m, j)

Probing(t) == PollProbe(t, task[t].mgr, task[t].job)

Doomed(j) == (signal[j] # "none" \/ phase[j] = "flushed") /\ Die(j)

Fairness ==
    /\ \A t \in Tasks :
          WF_vars(Spawn(t)) /\ SF_vars(Settling(t)) /\ WF_vars(Probing(t))
    /\ \A j \in Jobs : WF_vars(Doomed(j))

LiveSpec == Spec /\ Fairness

------------------------------------------------------------------------------
(* Properties that hold.                                                    *)

Records(j) == {disk[j]} \cup {mem[m][j] : m \in Managers}

\* Whatever the interleaving of managers, requests and the process, a record says
\* "completed" only of a command that exited 0, and an exit code it holds is the
\* command's own or the -1 of a recovery poll (_poll_local, list_jobs, fixup).
RecordTruth ==
    \A j \in Jobs : \A e \in Records(j) :
        /\ e.exit \in {"none", "lost", outcome[j]}
        /\ e.status = "completed" => e.exit = "ok"
        /\ e.status = "failed" => e.exit # "ok"
        /\ e.status \in {"absent", "running"} => e.exit = "none"

\* No record says "cancelled" of a process nobody signalled and that still lives:
\* neither after a restart (cancel by pid) nor with two cancels of one job.
CancelledIsStopped ==
    \A j \in Jobs : \A e \in Records(j) :
        e.status = "cancelled" => phase[j] = "gone" \/ signal[j] # "none"

\* A client told that a job ended can rely on it: the record on disk says so too,
\* and survives any later crash or restart (_save_job precedes every return).
ReportDurable == \A j \in told : disk[j].status \in Ended

\* No save takes a job back: once ended on disk it is never "running" or lost
\* again, though managers write whole entries from memories that may be stale.
NoResurrection ==
    [][\A j \in Jobs : disk[j].status \in Ended => disk'[j].status \in Ended]_vars

\* In a manager's memory an ended status changes only under a request on that job
\* that was already in flight: no new poll, cancel or list undoes a result.
OverwriteOnlyByInFlight ==
    [][\A m \in Managers, j \in Jobs :
          mem[m][j].status \in Ended /\ mem'[m][j].status # mem[m][j].status
          => \/ up'[m] = "down"
             \/ \E t \in Tasks : /\ task[t].pc # "idle"
                                 /\ task[t].mgr = m /\ task[t].job = j]_vars

\* The records on disk are the abstract ledger.
Ledger == INSTANCE JobLedger WITH
             ledger <- [j \in Jobs |-> disk[j].status], truth <- outcome
ImplementsLedger == Ledger!LedgerSpec

\* The job runs on no more: its command has ended, or its process was signalled.
Stopped(j) == phase[j] \in {"flushed", "gone"} \/ signal[j] # "none"

\* A request made with detach=False ends, if its manager lives, only with an ended
\* record of a job that was stopped: also when another request of the manager
\* settled the job while this one waited, for then its cancel() signals nothing.
\* The exception is `instance status --no-detach` with its default time-out of 0.
NothingLeftRunning ==
    [][\A t \in Tasks, m \in Managers, j \in Jobs :
          /\ task[t].pc # "idle" /\ Cancels(t) /\ task'[t].pc = "idle"
          /\ task[t].mgr = m /\ task[t].job = j
          => \/ up'[m] = "down"
             \/ disk'[j].status \in Ended /\ Stopped(j)']_vars

\* Every request returns to its client, whatever the process does (even one stuck
\* in D state after SIGKILL), unless its manager goes first.
RequestsReturn == \A t \in Tasks : task[t].pc # "idle" ~> task[t].pc = "idle"

\* A request made with detach=False leaves no process behind and an ended record,
\* with the same exception.
NonDetachedEnds ==
    \A t \in Tasks, m \in Managers, j \in Jobs :
        /\ task[t].pc # "idle" /\ Cancels(t)
        /\ task[t].mgr = m /\ task[t].job = j
        ~> \/ disk[j].status \in Ended /\ ~Live(j)
           \/ up[m] = "down"

------------------------------------------------------------------------------
(* The inductive invariant: CoreInv is behind RecordTruth, ReportDurable,   *)
(* CancelledIsStopped and the refinement, WaitOK behind NothingLeftRunning. *)

\* A command has ended exactly when its process has flushed or gone.
ProcessOK ==
    \A j \in Jobs :
        /\ phase[j] \in {"none", "starting", "sandbox"} => outcome[j] = "none"
        /\ statusFile[j] # "none" => statusFile[j] = outcome[j]
        /\ j \in reaped => phase[j] = "gone"

\* What a manager remembers has a record, and what has a record was spawned.
RecordedOK ==
    /\ \A j \in Jobs : disk[j].status # "absent" => phase[j] # "none"
    /\ \A m \in Managers, j \in Jobs :
          mem[m][j].status # "absent" => disk[j].status # "absent"

\* A manager that is down holds nothing; only one that is up has handles.
LifeOK ==
    \A m \in Managers :
        /\ up[m] = "down" => \A j \in Jobs : mem[m][j] = NoEntry
        /\ up[m] # "up" => handles[m] = {}
        /\ up[m] # "fixing" => fix[m] = NoFix

\* _fixup_stale_jobs looks only at running jobs and saves only ended ones.
FixOK ==
    \A m \in Managers :
        /\ fix[m].todo \cap fix[m].probing = {}
        /\ \A j \in fix[m].todo \cup fix[m].probing : mem[m][j].status = "running"
        /\ \A j \in fix[m].changed : mem[m][j].status \in Ended

\* A job a manager takes for running without having a handle of it was seen as a
\* bwrap once, or has been signalled: that is why cancel may skip one not alive.
AdoptedOK ==
    \A m \in Managers, j \in Jobs :
        /\ mem[m][j].status = "running" /\ j \notin handles[m]
        /\ j \notin fix[m].todo \cup fix[m].probing
        => phase[j] \in {"sandbox", "flushed", "gone"} \/ signal[j] # "none"

\* An ended entry is on disk, or about to be saved by the constructor.
DurableOK ==
    \A m \in Managers, j \in Jobs :
        mem[m][j].status \in Ended => disk[j].status \in Ended \/ j \in fix[m].changed

\* A request lives in a manager that is up; one that is still spawning is the only
\* one to know its job; one that waits for a cancelled process has signalled it.
FlightOK ==
    /\ \A t \in Tasks :
          /\ task[t].pc # "idle" => up[task[t].mgr] = "up"
          /\ task[t].pc = "spawn" => disk[task[t].job].status = "absent"
          /\ task[t].pc \notin {"idle", "spawn"} => disk[task[t].job].status # "absent"
          /\ task[t].pc \in {"term", "kill", "termPid"} => signal[task[t].job] # "none"
    /\ \A t, u \in Tasks :
          task[t].pc = "spawn" /\ task[u].pc = "spawn" /\ task[t].job = task[u].job
          => t = u

\* A poll that reads the status file is of a sandbox seen once, or signalled; a job
\* that another request of the manager settles while a poll awaits it was stopped.
WaitOK ==
    \A t \in Tasks :
        LET j == task[t].job
        IN  /\ task[t].pc \in {"read", "check"} => phase[j] = "sandbox" \/ Stopped(j)
            /\ /\ task[t].pc \in {"wait", "read", "check"}
               /\ mem[task[t].mgr][j].status \in Ended
               => Stopped(j)

CoreInv ==
    /\ TypeOK /\ ProcessOK /\ RecordTruth /\ RecordedOK /\ LifeOK /\ FixOK
    /\ AdoptedOK /\ CancelledIsStopped /\ DurableOK /\ ReportDurable /\ FlightOK

IInv == CoreInv /\ WaitOK

------------------------------------------------------------------------------
(* Statements of the source's own comments and documents that the code does *)
(* not keep.                                                                *)

\* _fixup_stale_jobs: "When the status file shows exit-code the job is complete".
\* The line may be written between the status read and the /proc check.
FailureIsNoSuccess ==
    [][\A m \in Managers, j \in Jobs :
          mem[m][j].status = "running" /\ mem'[m][j].status = "failed"
          => statusFile[j] # "ok"]_vars

\* JOB_DESIGN.md, poll_job: "For detach=false: kill if still going at timeout"; the help of
\* `instance status`, --detach/--no-detach: "Keep running past timeout".  So a poll with
\* detach=False does not end with the job running on; that of `instance status` does.
DetachFalseKills ==
    [][\A t \in Tasks, m \in Managers, j \in Jobs :
          /\ task[t].pc \in {"wait", "read"} /\ task[t].kill /\ task'[t].pc = "idle"
          /\ task[t].mgr = m /\ task[t].job = j
          => up'[m] = "down" \/ Stopped(j)']_vars
==============================================================================
