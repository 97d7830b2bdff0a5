------------------------------- MODULE Instances -------------------------------
(***************************************************************************)
(* The instances that one name stands for: created, used, archived, created *)
(* again (ns_hpc/instance.py), by the tools of the server and by CLI        *)
(* commands.  Nothing but the name connects them: whoever loaded an         *)
(* instance goes on with paths, and a rename gives a path to another        *)
(* directory, or to none, and the next write makes a bare one.              *)
(*                                                                         *)
(* A handler of the server yields to other handlers only where it awaits;  *)
(* a command, or another process beside a handler, may come in anywhere:    *)
(* loading an instance, building a JobManager on it, each of the manager's  *)
(* first saves and each mkdir is a step of its own.  A save is one step     *)
(* (RecordWrite has its calls), and so is the pass of a new manager over    *)
(* the records (LocalJobs has its looks).  Jobs are the local ones; a job   *)
(* is named after the actor that submits it.                                *)
(***************************************************************************)
EXTENDS Naturals, FiniteSets

CONSTANTS
    Handlers,    \* tool calls of the server
    Commands,    \* CLI commands
    Dirs,        \* bound: directories the name may stand for, one after another
    May,         \* bound: May[a]: operations that the actor may begin; it begins one
    MaxJobs,     \* bound: jobs that are submitted
    ProcCheck,   \* config.jobs.local.proc_check
    None

Actors == Handlers \cup Commands
Jobs   == Actors

ASSUME InstancesAssumption ==
    /\ Handlers \cap Commands = {}
    /\ Dirs # {} /\ None \notin Dirs \cup Actors
    /\ May \in [Actors -> SUBSET {"create", "submit", "ask", "archive", "describe"}]
    /\ MaxJobs \in Nat /\ ProcCheck \in BOOLEAN

VARIABLES
    current,   \* the directory {instances_dir}/{id}, or None
    meta,      \* meta[d]: its metadata.json
    records,   \* records[d][j]: the record of the job in it
    ready,     \* ready[d]: which directories for jobs it has
    shelf,     \* directories in .archived/
    output,    \* the directory whose output output/{id} was made for, or None
    proc,      \* proc[j]: the process of the job: sh, python, bwrap
    status,    \* status[j]: the directory its status file was opened in
    bound,     \* bound[j]: the directory its sandbox is bound to
    pc,        \* pc[a]: where the tool call or the command is
    text,      \* text[a]: the metadata it read
    mgr,       \* mgr[a]: its JobManager, named after the actor that built it
    mem,       \* mem[m][j]: the entries of a manager
    todo,      \* todo[a]: jobs whose record the constructor of its manager has yet to save
    target,    \* target[a]: the job whose process it has signalled and waits for, or None
    cache,     \* the server's manager of the name, or None
    home,      \* home[j]: ghost, the instance the job was submitted to
    dropped,   \* dropped[a]: ghost, the manager that the archiver a took from the cache
    unseen,    \* ghost: jobs that were not a recorded sandbox when a manager looked
    abandoned, \* ghost: jobs that a cancel recorded though their process lived
    roving,    \* ghost: jobs known to a manager that outlived a move
    torn       \* ghost: kinds of interruption that have happened

store == <<current, meta, records, ready, shelf, output>>
jobs  == <<proc, status, bound, home>>
own   == <<text, mgr, mem, todo, target, cache>>
ctl   == <<pc, own>>
ghost == <<dropped, unseen, abandoned, roving, torn>>
vars  == <<store, jobs, ctl, ghost>>

Metas == {"none", "live", "archived"}
Pcs   == {"idle", "mkdir", "metadata", "archive", "mark", "move", "output", "describe",
          "submit", "ask", "audit", "outputs", "status", "spawned", "wait", "cancel", "done"}

TypeOK ==
    /\ current \in Dirs \cup {None} /\ output \in Dirs \cup {None}
    /\ meta    \in [Dirs -> Metas]
    /\ records \in [Dirs -> [Jobs -> {"none", "running", "ended"}]]
    /\ ready   \in [Dirs -> SUBSET {"outputs", "status"}] /\ shelf \subseteq Dirs
    /\ proc    \in [Jobs -> {"none", "sh", "python", "sandbox", "gone"}]
    /\ status  \in [Jobs -> Dirs \cup {None}] /\ bound \in [Jobs -> Dirs \cup {None}]
    /\ home    \in [Jobs -> Dirs \cup {None}]
    /\ pc      \in [Actors -> Pcs]
    /\ text    \in [Actors -> Metas]
    /\ mgr     \in [Actors -> Actors \cup {None}] /\ cache \in Actors \cup {None}
    /\ mem     \in [Actors -> [Jobs -> {"none", "running", "ended"}]]
    /\ todo    \in [Actors -> SUBSET Jobs] /\ target \in [Actors -> Jobs \cup {None}]
    /\ dropped \in [Actors -> Actors \cup {None}]
    /\ unseen  \subseteq Jobs /\ abandoned \subseteq Jobs /\ roving \subseteq Jobs
    /\ torn    \subseteq {"mkdir", "create", "archive", "output", "describe"}

\* An instance that has been created, and no manager yet.
Init ==
    /\ \E d \in Dirs : /\ current = d /\ output = d
                       /\ meta = [e \in Dirs |-> IF e = d THEN "live" ELSE "none"]
    /\ records = [d \in Dirs |-> [j \in Jobs |-> "none"]]
    /\ ready   = [d \in Dirs |-> {}] /\ shelf = {}
    /\ proc    = [j \in Jobs |-> "none"]
    /\ status  = [j \in Jobs |-> None] /\ bound = [j \in Jobs |-> None]
    /\ home    = [j \in Jobs |-> None]
    /\ pc      = [a \in Actors |-> "idle"]
    /\ text    = [a \in Actors |-> "none"]
    /\ mgr     = [a \in Actors |-> None] /\ cache = None
    /\ mem     = [a \in Actors |-> [j \in Jobs |-> "none"]]
    /\ todo    = [a \in Actors |-> {}] /\ target = [a \in Actors |-> None]
    /\ dropped = [a \in Actors |-> None]
    /\ unseen  = {} /\ abandoned = {} /\ roving = {} /\ torn = {}

Go(a, l) == pc' = [pc EXCEPT ![a] = l]

\* A handler between two awaits keeps the event loop.
InTurn(a) == \/ pc[a] \notin {"idle", "archive", "spawned", "wait", "cancel", "done"}
             \/ todo[a] # {}
Turn(a)   == a \in Handlers => \A b \in Handlers \ {a} : ~InTurn(b)

\* The constructor returns when its saves are done.
At(a, l) == pc[a] = l /\ todo[a] = {} /\ Turn(a)

\* An actor begins.
Begins(a, k) == pc[a] = "idle" /\ k \in May[a] /\ Turn(a)

Loadable == current # None /\ meta[current] # "none"
Fresh(d) == d # current /\ d # output /\ d \notin shelf /\ meta[d] = "none"

\* mkdir(parents=True, exist_ok=True) below {instances_dir}/{id}: d is the directory.
Mkdirs(d) == IF current = None THEN Fresh(d) ELSE d = current

\* ... of a manager, which may so make a bare directory without metadata.
ManagerMkdirs(d) ==
    /\ Mkdirs(d)
    /\ current' = d
    /\ torn'    = IF current = None THEN torn \cup {"mkdir"} ELSE torn

------------------------------------------------------------------------------
(* Instance.create.                                                         *)

CreateLook(a) ==
    /\ Begins(a, "create")
    /\ Go(a, IF current = None THEN "mkdir" ELSE "done")    \* FileExistsError
    /\ UNCHANGED <<store, jobs, own, ghost>>

\* exist_ok: a directory that somebody made meanwhile is taken, and so is an output
\* directory that an archiver has not moved yet.
CreateDirs(a, d) ==
    /\ pc[a] = "mkdir" /\ Turn(a) /\ Mkdirs(d)
    /\ current' = d
    /\ output'  = IF output = None THEN d ELSE output
    /\ torn'    = IF \E b \in Actors : pc[b] = "output" THEN torn \cup {"output"} ELSE torn
    /\ Go(a, "metadata")
    /\ UNCHANGED <<meta, records, ready, shelf, jobs, own, dropped, unseen, abandoned, roving>>

\* write_text of the metadata; without the directory it raises.
CreateMeta(a) ==
    /\ pc[a] = "metadata" /\ Turn(a)
    /\ meta' = [d \in Dirs |-> IF d = current THEN "live" ELSE meta[d]]
    /\ Go(a, "done")
    /\ UNCHANGED <<current, records, ready, shelf, output, jobs, own, ghost>>

------------------------------------------------------------------------------
(* JobManager: its construction, and the cache of _get_manager.             *)

\* _is_bwrap_alive: the name of the process, and the path of its status file, which
\* /proc shows as it is now.
Visible(j) == proc[j] = "sandbox" /\ status[j] = current

\* _load_jobs: {} if there is no directory.
Loaded == IF current = None THEN [j \in Jobs |-> "none"] ELSE records[current]

\* Fault: a job without an exit code is taken to have died.
FaultEntries == [j \in Jobs |-> IF Loaded[j] = "running" THEN "ended" ELSE Loaded[j]]

\* _fixup_stale_jobs: what it makes of them.
Entries == [j \in Jobs |-> IF Loaded[j] = "running" /\ ~(ProcCheck /\ Visible(j))
                           THEN "ended" ELSE Loaded[j]]

Alive    == {j \in Jobs : proc[j] \in {"sh", "python", "sandbox"}}
Starting == {j \in Jobs : proc[j] \in {"sh", "python"}}

\* JobManager(instance), up to its first save.
Construct(a) ==
    /\ mgr'  = [mgr EXCEPT ![a] = a]
    /\ mem'  = [mem EXCEPT ![a] = Entries]
    /\ todo' = [todo EXCEPT ![a] = {j \in Jobs : Entries[j] # Loaded[j]}]

\* _save_job: under the path of the instance, which it makes if need be.
WriteRecord(j, s, d) ==
    /\ ManagerMkdirs(d)
    /\ records' = [records EXCEPT ![d][j] = s]

\* The constructor saves the records that it has changed, one by one.
FixSave(a, j, d) ==
    /\ j \in todo[a] /\ Turn(a)
    /\ WriteRecord(j, "ended", d)
    /\ todo' = [todo EXCEPT ![a] = @ \ {j}]
    /\ UNCHANGED <<meta, ready, shelf, output, jobs, pc, text, mgr, mem, target, cache,
                   dropped, unseen, abandoned, roving>>

------------------------------------------------------------------------------
(* submit_job and `instance run`; poll_job, cancel_job and their commands.  *)

PastCheck(b) == pc[b] \in {"mark", "move"}

\* The instance is loaded.
Load(a, k) ==
    /\ k \in {"submit", "ask"} /\ Begins(a, k) /\ Loadable
    /\ k = "submit" => Cardinality({j \in Jobs : home[j] # None}) < MaxJobs
    /\ home' = IF k = "submit" THEN [home EXCEPT ![a] = current] ELSE home
    /\ Go(a, k)
    /\ UNCHANGED <<store, proc, status, bound, own, ghost>>

\* The request gets a manager: the cached one of the server, whatever directory it was
\* built on, or a new one.
GetManager(a) ==
    /\ pc[a] \in {"submit", "ask"} /\ At(a, pc[a])
    /\ IF a \in Handlers /\ cache # None
       THEN /\ mgr' = [mgr EXCEPT ![a] = cache]
            /\ UNCHANGED <<mem, todo, cache, unseen>>
       ELSE /\ Construct(a)
            /\ unseen' = unseen \cup Starting
            /\ cache'  = IF a \in Handlers THEN a ELSE cache
    /\ Go(a, IF pc[a] = "ask" THEN "wait" ELSE IF a \in Handlers THEN "audit" ELSE "outputs")
    /\ UNCHANGED <<store, jobs, text, target, dropped, abandoned, roving, torn>>

\* The submit_job tool writes to the audit log first, which raises without a directory.
Audit(a) ==
    /\ At(a, "audit")
    /\ Go(a, IF current = None THEN "done" ELSE "outputs")
    /\ UNCHANGED <<store, jobs, own, ghost>>

\* _ensure_output_dir.
MakeOutputs(a, d) ==
    /\ At(a, "outputs")
    /\ ManagerMkdirs(d)
    /\ ready' = [ready EXCEPT ![d] = @ \cup {"outputs"}]
    /\ Go(a, "status")
    /\ UNCHANGED <<meta, records, shelf, output, jobs, own, dropped, unseen, abandoned, roving>>

\* _status_dir, and the process is started.
Spawn(a, d) ==
    /\ At(a, "status")
    /\ ManagerMkdirs(d)
    /\ ready'  = [ready EXCEPT ![d] = @ \cup {"status"}]
    /\ proc'   = [proc EXCEPT ![a] = "sh"]
    /\ unseen' = unseen \cup {j \in {a} : \E b \in Actors : PastCheck(b)}
    /\ Go(a, "spawned")
    /\ UNCHANGED <<meta, records, shelf, output, status, bound, home, own,
                   dropped, abandoned, roving>>

\* A change of an entry is saved at once.
Save(a, j, s, d) ==
    /\ WriteRecord(j, s, d)
    /\ mem' = [mem EXCEPT ![mgr[a]][j] = s]
    /\ UNCHANGED <<meta, ready, shelf, output, jobs, text, mgr, todo, cache, dropped, roving>>

\* create_subprocess_exec has returned.
SubmitSave(a, d) ==
    /\ At(a, "spawned")
    /\ Save(a, a, "running", d)
    /\ Go(a, "wait")
    /\ UNCHANGED <<target, unseen, abandoned>>

\* The job that a request waits for: its own, or any that its manager knows.
Target(a, j) ==
    /\ At(a, "wait")
    /\ mem[mgr[a]][j] = "running"
    /\ proc[a] = "none" \/ j = a

\* The manager that started the process has its handle, until a cancel takes it.
Handle(m, j) == /\ mgr[j] = m
                /\ ~\E b \in Actors : pc[b] = "cancel" /\ mgr[b] = m /\ target[b] = j

\* A poll finds the process gone, or, having no handle, not where it should be; a cancel
\* finds nothing to signal.
Settle(a, j, d) ==
    /\ Target(a, j)
    /\ proc[j] = "gone" \/ ~(Handle(mgr[a], j) \/ Visible(j))
    /\ Save(a, j, "ended", d)
    /\ unseen' = unseen \cup ({j} \cap Starting)
    /\ Go(a, "done")
    /\ UNCHANGED <<target, abandoned>>

\* A cancel signals the process, by its handle or by the pid of the record, and waits.
Signal(a, j) ==
    /\ Target(a, j) /\ proc[j] # "gone"
    /\ Handle(mgr[a], j) \/ Visible(j)
    /\ target' = [target EXCEPT ![a] = j]
    /\ Go(a, "cancel")
    /\ UNCHANGED <<store, jobs, text, mgr, mem, todo, cache, ghost>>

\* The process has ended, or SIGKILL was not enough, or nobody waits for what it does.
CancelSave(a, j, d) ==
    /\ At(a, "cancel") /\ target[a] = j
    /\ Save(a, j, "ended", d)
    /\ abandoned' = abandoned \cup ({j} \cap Alive)
    /\ target'    = [target EXCEPT ![a] = None]
    /\ Go(a, "done")
    /\ UNCHANGED unseen

\* The job is still running at the time-out, or ended before, or unknown.
Return(a) ==
    /\ At(a, "wait")
    /\ Go(a, "done")
    /\ UNCHANGED <<store, jobs, own, ghost>>

------------------------------------------------------------------------------
(* The process of a job: the shell's redirections, `ns-hpc bwrap`, bwrap.   *)

\* The process ends, and with it its open file and its mounts.
Gone(j) == /\ proc'   = [proc EXCEPT ![j] = "gone"]
           /\ status' = [status EXCEPT ![j] = None]
           /\ bound'  = [bound EXCEPT ![j] = None]

Redirect(j) ==
    /\ proc[j] = "sh"
    /\ IF current # None /\ ready[current] = {"outputs", "status"}
       THEN /\ proc'   = [proc EXCEPT ![j] = "python"]
            /\ status' = [status EXCEPT ![j] = current]
            /\ UNCHANGED bound
       ELSE Gone(j)
    /\ UNCHANGED <<store, home, ctl, ghost>>

\* Instance.load once more, then the binds of the workspace and of the output.
ExecBwrap(j) ==
    /\ proc[j] = "python"
    /\ IF Loadable /\ output # None
       THEN /\ proc'  = [proc EXCEPT ![j] = "sandbox"]
            /\ bound' = [bound EXCEPT ![j] = current]
            /\ UNCHANGED status
       ELSE Gone(j)
    /\ UNCHANGED <<store, home, ctl, ghost>>

\* It exits, or a signal ends it: at once, late or never.
End(j) ==
    /\ j \in Alive
    /\ Gone(j)
    /\ UNCHANGED <<store, home, ctl, ghost>>

------------------------------------------------------------------------------
(* archive_instance and `instance archive`, `clean`: Instance.archive.      *)

\* Fault: the server keeps its manager of the name.
FaultArchiveLoad(a) ==
    /\ Begins(a, "archive") /\ Loadable
    /\ dropped' = [dropped EXCEPT ![a] = IF a \in Handlers THEN cache ELSE None]
    /\ Go(a, "archive")
    /\ UNCHANGED <<store, jobs, own, unseen, abandoned, roving, torn>>

\* The instance is loaded or, by `clean`, listed; the server drops its manager and awaits
\* stop_all, a command may await its user's confirmation.
ArchiveLoad(a) ==
    /\ Begins(a, "archive") /\ Loadable
    /\ dropped' = [dropped EXCEPT ![a] = IF a \in Handlers THEN cache ELSE None]
    /\ cache'   = IF a \in Handlers THEN None ELSE cache
    /\ Go(a, "archive")
    /\ UNCHANGED <<store, jobs, text, mgr, mem, todo, target, unseen, abandoned, roving, torn>>

\* Fault: the mark is written before the look at the jobs.
FaultArchiveCheck(a) ==
    /\ At(a, "archive")
    /\ IF current = None \/ meta[current] = "archived"
       THEN Go(a, "done") /\ UNCHANGED <<meta, mgr, mem, todo, unseen>>
       ELSE /\ meta' = [meta EXCEPT ![current] = "archived"]
            /\ Construct(a)
            /\ unseen' = unseen \cup Starting \cup {j \in Jobs : pc[j] = "spawned"}
            /\ Go(a, IF \E j \in Jobs : Entries[j] = "running" THEN "done" ELSE "mark")
    /\ UNCHANGED <<current, records, ready, shelf, output, jobs, text, target, cache,
                   dropped, abandoned, roving, torn>>

\* Is there a directory, not archived, that a new manager finds no running job in?  (A job
\* that ends between the manager's look and list_jobs is one that ends before the look.)
ArchiveCheck(a) ==
    /\ At(a, "archive")
    /\ IF current = None \/ meta[current] = "archived"
       THEN Go(a, "done") /\ UNCHANGED <<mgr, mem, todo, unseen>>
       ELSE /\ Construct(a)
            /\ unseen' = unseen \cup Starting \cup {j \in Jobs : pc[j] = "spawned"}
            /\ Go(a, IF \E j \in Jobs : Entries[j] = "running" THEN "done" ELSE "mark")
    /\ UNCHANGED <<store, jobs, text, target, cache, dropped, abandoned, roving, torn>>

\* The metadata that was read is written back with the mark.
Mark(a) ==
    /\ At(a, "mark")
    /\ IF current = None
       THEN Go(a, "done") /\ UNCHANGED meta             \* FileNotFoundError
       ELSE Go(a, "move") /\ meta' = [meta EXCEPT ![current] = "archived"]
    /\ UNCHANGED <<current, records, ready, shelf, output, jobs, own, ghost>>

\* Manager m is in the hands of request b.
Serves(m, b) ==
    /\ mgr[b] = m
    /\ \/ pc[b] \in {"audit", "outputs", "status", "spawned", "wait", "cancel"}
       \/ todo[b] # {}

\* Jobs that have been submitted and are not recorded yet.
Submitting == {j \in Jobs : pc[j] \in {"submit", "audit", "outputs", "status", "spawned"}}

\* The managers that outlive a move by a: of requests in flight, and the cached one, which
\* a command does not know of and a handler has dropped, but others may have built anew.
Outliving(a) == {m \in Actors : \/ m = cache /\ (a \in Commands \/ cache # dropped[a])
                               \/ \E b \in Actors : Serves(m, b)}

\* os.rename of whatever directory has the name by now.
Move(a) ==
    /\ At(a, "move")
    /\ IF current = None
       THEN Go(a, "done") /\ UNCHANGED <<current, shelf, roving>>
       ELSE /\ shelf' = shelf \cup {current} /\ current' = None
            /\ roving' = roving \cup Submitting
                         \cup {j \in Jobs : \E m \in Outliving(a) : mem[m][j] # "none"}
            /\ Go(a, "output")
    /\ UNCHANGED <<meta, records, ready, output, jobs, own, dropped, unseen, abandoned, torn>>

\* Fault: the shared output directory stays.
FaultMoveOutput(a) ==
    /\ pc[a] = "output" /\ Turn(a)
    /\ Go(a, "done")
    /\ UNCHANGED <<store, jobs, own, ghost>>

MoveOutput(a) ==
    /\ pc[a] = "output" /\ Turn(a)
    /\ output' = None
    /\ Go(a, "done")
    /\ UNCHANGED <<current, meta, records, ready, shelf, jobs, own, ghost>>

------------------------------------------------------------------------------
(* update_instance and `instance update`: set_description.                  *)

DescribeRead(a) ==
    /\ Begins(a, "describe") /\ Loadable
    /\ text' = [text EXCEPT ![a] = meta[current]]
    /\ Go(a, "describe")
    /\ UNCHANGED <<store, jobs, mgr, mem, todo, target, cache, ghost>>

\* What was read is written back, with another description.
DescribeWrite(a) ==
    /\ pc[a] = "describe" /\ Turn(a)
    /\ meta' = [d \in Dirs |-> IF d = current THEN text[a] ELSE meta[d]]
    /\ torn' = IF text[a] = "archived" THEN torn \cup {"describe"} ELSE torn
    /\ text' = [text EXCEPT ![a] = "none"]
    /\ Go(a, "done")
    /\ UNCHANGED <<current, records, ready, shelf, output, jobs, mgr, mem, todo, target, cache,
                   dropped, unseen, abandoned, roving>>

------------------------------------------------------------------------------
\* What is left half done by the actors that die.
Half == [create |-> "metadata", archive |-> "move", output |-> "output"]
Torn(dead) == torn \cup {k \in DOMAIN Half : \E a \in dead : pc[a] = Half[k]}

Active == {a \in Actors : pc[a] \notin {"idle", "done"} \/ todo[a] # {}}

\* A set of actors dies: one command, or the server with all its handlers.
Die(dead) ==
    /\ torn'   = Torn(dead)
    /\ unseen' = unseen \cup {a \in dead : pc[a] = "spawned"}
    /\ pc'     = [a \in Actors |-> IF a \in dead THEN "done" ELSE pc[a]]
    /\ todo'   = [a \in Actors |-> IF a \in dead THEN {} ELSE todo[a]]
    /\ UNCHANGED <<store, jobs, text, mgr, mem, target, dropped, abandoned, roving>>

CommandDies(a) == a \in Commands \cap Active /\ Die({a}) /\ UNCHANGED cache

ServerDies ==
    /\ Handlers \cap Active # {} \/ cache # None
    /\ Die(Handlers \cap Active) /\ cache' = None

Create(a)  == CreateLook(a) \/ CreateMeta(a) \/ \E d \in Dirs : CreateDirs(a, d)
Archive(a) == ArchiveLoad(a) \/ ArchiveCheck(a) \/ Mark(a) \/ Move(a) \/ MoveOutput(a)
Request(a) == \/ \E k \in {"submit", "ask"} : Load(a, k)
              \/ GetManager(a) \/ Audit(a) \/ Return(a)
              \/ \E d \in Dirs : MakeOutputs(a, d) \/ Spawn(a, d) \/ SubmitSave(a, d)
              \/ \E j \in Jobs : \/ Signal(a, j)
                                  \/ \E d \in Dirs : \/ FixSave(a, j, d) \/ Settle(a, j, d)
                                                      \/ CancelSave(a, j, d)
Process(j) == Redirect(j) \/ ExecBwrap(j) \/ End(j)

Next == \/ \E a \in Actors : \/ Create(a) \/ Archive(a) \/ Request(a)
                             \/ DescribeRead(a) \/ DescribeWrite(a)
                             \/ Process(a) \/ CommandDies(a)
        \/ ServerDies

Spec == Init /\ [][Next]_vars

------------------------------------------------------------------------------
(* Properties that hold.                                                    *)

\* "Cannot archive: job(s) still running" (instance.py:230): with proc_check, a sandbox is
\* bound to an archived instance only if, when a manager looked, the job was not yet bwrap
\* or not yet recorded, or if it was started between an archiver's check and its move, or if
\* a cancel recorded it without having seen its process end.
ArchivedIsIdle ==
    ProcCheck => \A j \in Jobs : proc[j] = "sandbox" /\ bound[j] \in shelf
                                  => j \in unseen \cup abandoned

\* The record of a job lies in the instance it was submitted to, unless a request that was
\* in flight, or the server's cached manager, outlived a move of the directory.
JobsStayHome ==
    \A d \in Dirs, j \in Jobs : records[d][j] # "none" /\ d # home[j] => j \in roving

\* The name stands for an instance that can be loaded, or for nothing so that it can be
\* created: unless an actor died half way, a save or a submit that outlived a move made a
\* bare directory, or a description was written back over it.
NameUsable ==
    current # None /\ meta[current] # "live" =>
        \/ \E a \in Actors : pc[a] \in {"metadata", "move"}
        \/ torn \cap {"mkdir", "create", "archive", "describe"} # {}

\* An instance has an output directory of its own, not the one of an archived instance of
\* the same name: unless it was created between the two renames of an archive, or is a bare
\* directory.
OutputIsOwn ==
    current # None /\ output # current =>
        \/ torn \cap {"mkdir", "output"} # {}

------------------------------------------------------------------------------
(* The inductive invariant, which implies them.                             *)

InUse(m) == m = cache \/ \E a \in Actors : Serves(m, a)

\* Who has not begun has left no trace; who has no manager yet is nobody's manager.
FreshOK ==
    /\ \A a \in Actors :
           /\ pc[a] = "idle" => home[a] = None
           /\ a \in Submitting => home[a] # None /\ (proc[a] = "none" <=> pc[a] # "spawned")
           /\ home[a] = None => proc[a] = "none"
           /\ pc[a] \in {"audit", "outputs", "status", "spawned", "wait", "cancel"}
                  => mgr[a] # None
           /\ pc[a] = "cancel" => target[a] # None /\ mem[mgr[a]][target[a]] # "none"
           /\ \A j \in todo[a] : mgr[a] = a /\ mem[a][j] # "none"
           /\ \A m \in {mgr[a], dropped[a], cache} \ {None} :
                  pc[m] \notin {"idle", "submit", "ask", "archive"}
    /\ \A j \in Jobs : proc[j] = "none" => /\ \A d \in Dirs : records[d][j] = "none"
                                           /\ \A m \in Actors : mem[m][j] = "none"

\* A manager in use knows only jobs of the instance that has the name, or roving ones.
HomeOK ==
    /\ \A j \in Submitting : home[j] = current \/ j \in roving
    /\ \A m \in Actors, j \in Jobs :
           InUse(m) /\ mem[m][j] # "none" => home[j] = current \/ j \in roving
    /\ \A a \in Handlers : pc[a] \in {"archive", "mark", "move"} /\ dropped[a] # None
                               => dropped[a] # cache
    /\ JobsStayHome

NameOK ==
    /\ \A a \in Actors : pc[a] = "describe" => text[a] # "none"
    /\ NameUsable

OutputOK ==
    \/ torn \cap {"mkdir", "output"} # {}
    \/ IF current = None THEN output # None => \E a \in Actors : pc[a] = "output"
                         ELSE output = current /\ \A a \in Actors : pc[a] # "output"

\* A job that no manager has overlooked or abandoned is where the name points, its record
\* too once it is written, and holds every archiver off.
Watched(j) ==
    /\ current # None
    /\ proc[j] \in {"python", "sandbox"} => status[j] = current
    /\ proc[j] = "sandbox" => bound[j] = current
    /\ pc[j] = "spawned" \/ records[current][j] = "running"
    /\ \A b \in Actors : ~PastCheck(b)

IdleOK ==
    /\ current \notin shelf
    /\ \A j \in Alive : j \in unseen \cup abandoned \/ Watched(j)
    /\ \A a \in Actors : todo[a] \cap Alive \subseteq unseen \cup abandoned

IInv == TypeOK /\ FreshOK /\ HomeOK /\ NameOK /\ OutputOK /\ (ProcCheck => IdleOK)
==============================================================================
