# Formal models of ns-hpc (namespaced-hpc-mcp)

ns-hpc is an MCP server that gives an agent an *instance* (a directory and a bubblewrap
sandbox around it) and runs jobs, proxied MCP servers and a WebDAV share inside.  This
directory holds TLA+ modules translated from `src/src/ns_hpc/*.py`, the TLC configurations
that check them on small instances, and proofs that TLAPS checks for every instance.

Paths below are relative to `src/src/ns_hpc/` unless they say otherwise.

## 1. Inventory

| Component | State it keeps | Operations |
|---|---|---|
| **Local jobs**: `JobManager` (mode `local`) in `job_manager.py` | `_jobs` (entries by id), `_procs` (process handles), one JSON record `{id}.state` per job, `{id}.status` written by bwrap; the process itself | constructor (`_load_jobs`, `_fixup_stale_jobs`), `submit`, `poll`, `cancel`, `list_jobs` |
| **Slurm jobs**: `JobManager` (mode `slurm`) | the same entries and records; the job in slurmctld, its row in sacct | `_submit_slurm`, `_poll_slurm`, `_slurm_job_state`, cancel's scancel |
| **Proxied MCP servers**: `ProxiedMCPClient`, `ProxyManager` in `proxy.py` | per client `_client`, `_closed`, `_active_calls`, `_last_used`, `_idle_task`; the registry `_clients[proxy][instance]` | `get_or_start`, `ensure_connected`, `call_tool`, `_idle_monitor`, `close`, `_remove_client`, `stop_all`, `close_all` |
| **WebDAV bridge**: `PooledWSGIApp` in `file_server.py` | `_inflight_requests`, `_reserved_spool_bytes`, the executor; per request the spool file, `stop_event`, the worker's future | `__call__` (admission, spooling, worker, disconnect), `_run_wsgi_app`, `_reserve_spool_bytes` |
| **WebDAV file tree**: `SandboxDavProvider`, `SandboxedFile/FolderResource` | none (the file system) | path resolution and file operations |
| **Instance lifecycle**: `instance.py`, with `server.py` / `cli_impl.py` | the instance directory, its metadata and audit log, the archive | create, load, archive, destroy, description |
| **MCP server**: `server.py` | `_managers` (cache of job managers), the tool registry | one handler per tool, `_get_manager`, `_filter_tools`, `_register_proxied_tools` |
| **Configuration**: `config.py` | none after loading | `load_config`, deep merge of layers |
| **Sandbox arguments**: `namespace.py` | none | `build_bwrap_args` |
| **Command line**: `cli.py`, `cli_impl.py` | none; each command is a process | one command per function; job commands build a `JobManager` of their own |

### How they interact

* A job handler of the server calls the cached `JobManager` of the instance; with
  `detach=False` it polls and, if the poll timed out, cancels.  A CLI command builds a second
  `JobManager` over the same record directory.  There is no lock: each manager loads the
  records once, keeps its own copy and writes whole records.
* A local job is a chain of `execvp`: `sh`, then python (`ns-hpc bwrap`), then `bwrap`, which
  writes its exit code to the status file and exits.  Managers learn of its end from the
  handle, the status file, or `/proc`.
* Every proxied tool call goes through `ProxyManager.get_or_start` and the client's
  `call_tool`.  The client's idle monitor, `archive_instance` (`stop_all`) and the end of the
  server (`close_all`) close clients, and each close calls back into the registry.
* The WebDAV bridge runs coroutines on the event loop and the WSGI application on threads;
  they meet in `stop_event`, the spool file and `run_coroutine_threadsafe`.
* Archiving an instance checks its job records, stops its proxies, drops the cached manager
  and moves the directory, while other requests on it may be awaiting.

### What is hard

Interleavings of coroutines at every `await`; several processes writing the same records;
crash and restart of a manager at any moment while the sandbox runs on; reads (status file,
then `/proc`) that together are not atomic; time-outs of a poll, of SIGTERM and of SIGKILL
racing the end of the process; registries changed by callbacks while they are iterated over;
counters that must be given back on every way out of a request; threads that outlive the
coroutine that started them.  `PROJECT.json` lists each hazard at its line.

### What makes each component correct

* **Jobs**: a record never claims what did not happen (a success, an exit code); a job
  recorded as cancelled was stopped; what a client was told survives a crash; an ended record
  is never lost or taken back; every request returns; `detach=False` leaves nothing behind.
* **Proxies**: at most one connection a client; a call is never cut off by the idle monitor;
  every client is closed in the end; a sweep closes all it set out to close.
* **Bridge**: counters equal what the admitted requests hold; a thread never outlives its
  request's spool file; a stopped response stops soon; the disk keeps its reserve; every
  request ends.
* **Records**: a reader finds one whole record or none, wherever a writer died.
* **Instances**: an archived instance has no running job, a job's record stays in its instance,
  a name is usable, an instance has its own output directory; each up to exceptions that the
  properties name one by one.
* **What only answers** (configuration, the end of an output file, pages of jobs, WebDAV paths): the
  answer is that of a simpler reference definition, or agrees with another answer.

## 2. Modules

| Module | Models | Lines of code it stands for |
|---|---|---|
| `JobLedger` | abstract specification: one durable status per job and how the command really ended | the promise of the records |
| `LocalJobs` | local jobs, any number of managers, requests and restarts; implements `JobLedger` | `job_manager.py`, the job handlers of `server.py`, `cli.py` `bwrap` |
| `MCLocalJobs` | symmetry for TLC | |
| `LocalJobsProofs` | theorems about `LocalJobs` | |
| `SlurmJobs` (`MCSlurmJobs`) | Slurm jobs, with slurmctld and slurmdbd as `job_manager.py` uses them; implements `JobLedger` too | the sbatch, sacct and scancel paths of `job_manager.py` |
| `SlurmJobsProofs` | theorems about `SlurmJobs` | |
| `ProxyClients` (`MCProxyClients`) | proxied MCP servers | `proxy.py`, the proxy handler and `archive_instance`'s sweep |
| `ProxyClientsProofs` | theorems about `ProxyClients` | |
| `SpoolBridge` (`MCSpoolBridge`) | the WebDAV bridge | `PooledWSGIApp` in `file_server.py` |
| `SpoolBridgeProofs` | theorems about `SpoolBridge` | |
| `RecordRegister` | abstract specification: one record as a register, until two saves overlap | what the job modules take `_save_job` and `_load_jobs` for |
| `RecordWrite` (`MCRecordWrite`) | `_save_job` and `_load_jobs` call by call, with crashes; implements `RecordRegister` | `job_manager.py` 198-228 |
| `RecordWriteProofs` | theorems about `RecordWrite` | |
| `Instances` (`MCInstances`) | the instances that one name stands for, by tool calls and commands: create, use, archive, describe | `instance.py`, the instance and job handlers of `server.py`, `_get_manager`, `cli.py` |
| `InstancesProofs` | theorems about `Instances` | |
| `JobPages` | a client that walks through the pages of `list_jobs` while jobs are submitted | `server.py` 684-720 |
| `ConfigLayers` | `load_config`, `_deep_merge`, `_warn_unknown_keys` as operators | `config.py` |
| `JobOutput` | `_tail_file` as an operator | `job_manager.py` 106-124 |
| `DavTree` | what a WebDAV request is answered with, as an operator | `SandboxDavProvider` and the virtual collections in `file_server.py` |
| `ConfigLayersProofs` | lemmas about `ConfigLayers` | |
| `Lookups` (`MCLookups`) | `JobOutput`, `DavTree`, `ConfigLayers` and `JobPages` in one specification | |
| `LookupsProofs` | theorems about `Lookups` | |

Operators whose names begin with `Fault` are not part of a model.  Each is the operator that
follows it with a plausible bug in it; `PROJECT.json` ("mutants") pairs it with a property that
notices.

### LocalJobs

*State.*  `phase`, `outcome`, `statusFile`, `signal`, `reaped` are the process: where it is in
its exec chain, how its command ended, what bwrap wrote, the strongest signal sent, and whether
it has been waited for.  `disk` is the record of each job; `mem[m]`, `handles[m]` are `_jobs`
and the keys of `_procs` of the manager `m`; `fix[m]` is how far `_fixup_stale_jobs` has got;
`task` holds the requests in flight.  `told` is a ghost: the jobs of which a client was told
that they ended.

*A manager* is one `JobManager` object: the server's, or that of one CLI command.  `Start` loads
the records, `FixRead`/`FixAlive`/`FixDead`/`FixSave`/`FixDone` are the constructor's pass over
the running ones, and `Exit` is the end of its process at any moment, crash or not.

*A request* is a program counter: `spawn` (awaiting the subprocess), `wait` (between two polls),
`read` and `check` (the status file was read without an exit code; `/proc` is next), `term` and
`kill` (awaiting the process after a signal), `termPid` (the recovery path of `cancel`, by pid).
Each action runs from one await to the next; `Turn(m)` says that no other coroutine of the
same manager is between the read and the probe, which have no await between them.  Coroutines of
two managers, which are two processes, interleave there too.  `kill` records `detach=False` and `peek` an
`instance status` whose time-out is 0, its default (`cli.py:345`, `:366`): such a request of one of the `Commands` looks once
and never cancels, whatever it said of `detach`.  `Cancels` is the two together.

*Abstractions.*  A time-out is a step that can be taken at any moment.  An exit code is `ok`, `err`
or `sig`; the `-1` of a recovery is `lost`.  `list_jobs` is one synchronous step, as in the code.
Records without `status_path`, pid reuse and the content of output files are left out.

### SlurmJobs

*State.*  `ctl`, `fate`, `outcome`, `statusFile` are the job: its place in slurmctld, its final
state there, how its command ended, what bwrap wrote.  `acct` is its row in the accounting
database, which `Account` brings up to date at any time or never; `accepted` are the jobs whose
scancel slurmctld took.  `disk`, `mem`, `up`, `starts`, `told` are as in `LocalJobs`.

*A request* is a program counter again: `sbatch` (awaited), `settle` (the 5 s before the record is
written), `sacct`, `pause` (the 5 s between two queries), `scancel`.  `seen` is the row that sacct
has read, perhaps long before the coroutine wakes, and `misses` counts answers without the job.  A
command that is missing, fails, or is killed by its time-out is one step (`SubmitFails`,
`SacctFails`, `ScancelFails`), except that scancel's failure and time-out are not looked at:
`ScancelReturns` covers them.  Whether the daemons acted on a command that failed is open: `Enqueue`
and `Accept` are steps of their own.  A job id that is not a number, which makes `int()` raise after the 5 s
(`job_manager.py:531`), is `SubmitFails` too: nothing is recorded and the job may be in the queue.  `list_jobs` settles
by the status file, `_poll_slurm` by the row.  As in `LocalJobs` a command of `Commands` that does not wait never cancels (`Cancels`).

*Abstractions.*  The states of `_SLURM_FAILED_STATES` are one, `FAILED`; pending and running rows are
`active`.  A killed command's row may carry exit code 0 or none, as Slurm writes it.  A job that Slurm
requeues after a preemption or a node failure is left out: then the row is not final although it
looks so, and the record says `failed` of a job that runs on.

*Common to both job modules:* a record is written in one step.  `RecordWrite` shows how far the code
bears that out.

### RecordWrite

One record, with names and files kept apart: `tmp` and `state` say which file has each name, `data[f]`
what is in a file, block by block, each block marked with the save that wrote it.  A save opens and
truncates `.tmp`, writes at its own offset, and renames whatever has the name by then; a load
opens the record once and reads that file to its end, also after another one took its name.  A process may
die between any two calls (`Crash`) and a later one takes up the same name.  `overlap` is a ghost: two processes
have been inside `_save_job` at once.  Until then the record is a register (`ImplementsRegister`): this is the
one-step save of `LocalJobs` and `SlurmJobs`.  After it nothing is promised, and section 6 says what happens.

### Instances

*State.*  A directory is an element of `Dirs` and keeps its identity when it is renamed.  `current` is the one
that has the name, `shelf` those in `.archived/`, `output` the one whose output directory has the name; `meta`,
`records`, `ready` are what is in a directory: job records, and which of the two directories that a job's shell writes to.  `proc`, `status`, `bound` are the jobs' processes and the directories
that their status file and their sandbox were opened in.  `pc[a]`, `text[a]`, `mgr[a]` are a tool call or a command:
where it is, the metadata it read, its manager; `todo[a]` are the records that the constructor of its manager has yet to
save, `target[a]` is the job that its cancel has signalled.  `mem[m]` is what a manager has in memory and `cache` the server's.

*Steps.*  Whoever has loaded an instance goes on with paths, so every step looks at what the name stands for
at that moment: `Save` makes the directory anew if there is none, `ExecBwrap` binds what is there.  A handler
yields to others only where the code awaits (`Turn`); a command yields between any two calls, and so does a handler to a
command.  A request is `Load`, `GetManager` (with `FixSave` for each record that a new manager settles), for a submit
`Audit`, `MakeOutputs`, `Spawn`, `SubmitSave`, and then `Settle` or `Signal` and `CancelSave`: an archive
by another process may come between any two.  `CancelSave` records the job whether or not its process has ended, for the
code gives up on one that survives SIGKILL (`job_manager.py:849-857`) and does not wait for one that it signals by pid (865-874).
`ArchiveLoad`, `ArchiveCheck`, `Mark`, `Move`, `MoveOutput` are an archive; `CommandDies` and `ServerDies` end an actor anywhere.

*Ghosts.*  `home`, `unseen`, `abandoned`, `roving`, `torn`, `dropped` record what the exceptions of the properties speak of; no
action's guard reads them.

*Abstractions.*  A save is one step, its `mkdir` included, and so is the pass of a new manager over the records it loads,
up to the saves it leads to; `ArchiveCheck` is that pass and the `list_jobs` after it.  Jobs are local ones without their inner life,
which `LocalJobs` has; metadata is written at once.  Of the audit log, which nothing reads, there is only that writing to
it raises where the directory is gone.  `destroy` is left out: nothing in `src` calls it outside the tests.

### Lookups: JobOutput, JobPages, DavTree, ConfigLayers

These answer questions and change nothing; `Lookups` asks each question with each of a set of inputs.

* `ConfigLayers`: a table is a function from all keys to leaves, tables or `Nothing`, and `Depth` bounds how deep tables
  nest: `Levels[n]` are those of at most `n` levels.  `_deep_merge` and `_warn_unknown_keys` call themselves with the tables
  in a table, so they are recursive functions (`Merge`, `Warnings`) on the tables of depth `Depth`; those with several
  arguments take a tuple, which is the form the prover reads.  `LayersWin` says path by path which layer decides;
  `WarnsOfIgnored` gives every path its type, from the top, and takes those that have none.
* `JobOutput`: a byte is text, CR or LF; a window at the end of the file is split into lines as `str.splitlines` does.
  Characters of several bytes, and the other line ends `splitlines` knows, are left out.
* `JobPages`: the list a page is cut from is sorted anew for each request; new jobs get any free `created_at`, also an
  older one.  No two jobs have the same.
* `DavTree`: a state says what each instance's metadata is, which mounts exist and which extras are read-only;
  below each mount lies one small directory with a link within it and a link out of it.  Segments are names: dots and
  encodings are resolved by the client and by wsgidav before this code.

### ProxyClients

A call `h` creates at most one client and one connection, so both are named `h`.  `made`,
`closed`, `conn`, `recent`, `monitor` are the fields of the clients, `dying` the connection that
`close()` has taken out and awaits; `reg` and `present` are `_clients`.  A sweep holds an
iterator (`walk`): keys yielded, size at its start, keys that left since.  The iterator raises at
the next step if the size has changed, and may end early if keys came and went, as the Python
reference says of dictionary views.  Connections may fail to come up, tools may never answer,
closing may raise.  The model leaves out a proxied process that dies by itself (what fastmcp's
client then does is outside the repository) and the `Instance.load` check of a call: calls on an
instance that has been archived are still made, which only adds behaviours.

### SpoolBridge

`stage[r]` is where the coroutine of the request `r` waits, `worker[r]` where its call of the
application is; the executor is a `queue` and `MaxWorkers`.  `Arrive`, `Busy` and `Chunk` are
admission and spooling with every refusal (503, 507, 400), `Stop` is a disconnect or a
cancellation, `WorkerDone` releases file, reservation and place.  Bytes are counted in a unit;
nothing else writes to the disk; the application copies the body at most once (PUT).

## 3. What the runs check

"S" a safety property that TLC checks in every reachable state or step, "L" liveness, "R" refinement.
Where `IInv` is checked it has `TypeOK` among its conjuncts.

| Run | Properties | What it shows |
|---|---|---|
| `jobs` | `IInv`, S: `RecordTruth`, `CancelledIsStopped`, `ReportDurable`, `NoResurrection`, `OverwriteOnlyByInFlight`, `NothingLeftRunning`; R: `ImplementsLedger`; L: `RequestsReturn`, `NonDetachedEnds` | the server and a CLI command on one job, two requests at a time, two starts; about 180,000 states.  The records are true and durable; no request hangs, though the process may ignore every signal for a while; `detach=False` leaves no process and an ended record, but for the peek of `instance status` |
| `slurm_shared` | `IInv`, S: `RecordTruth`, `ReportDurable`; R: `ImplementsLedger` | the server and a CLI command on one Slurm job, two requests, a restart, a poll that gives up at the second miss; about 2.3 million states |
| `proxy_sweeps` | `TypeOK`, S: `StopMeansStopped` | an archive of one of two instances, two proxies, and the end of the server racing it; about 390,000 states |
| `proxy_live` | S: `CallsKeepConnection`, L: `IdleClientsClose` | three calls, idle monitors, an archive: no call is cut off, and no client stays open for good |
| `bridge` | `TypeOK`, S: `AccountsBalance`, `WorkerKeepsBody`, `OneCall`, `StopsSoon`, `FloorNearlyKept`; L: `AllEnd` | three requests for two places and one thread on a disk that two of them fill; every admitted request ends; about 450,000 states |
| `record_write` | `IInv`, S: `LoadsAreWhole`, `SavesSucceed`; R: `ImplementsRegister` | two processes with two saves each and a load, two blocks; about 980,000 states |
| `instances` | `IInv`, S: `ArchivedIsIdle`, `JobsStayHome`, `NameUsable`, `OutputIsOwn` | three tool calls and a command, each any one of submit, poll or cancel, archive, create and describe, and one job; about 900,000 states |
| `lookups` | S: `PagesShowAll`, `LayersWin`, `WarnsOfIgnored`, `TailIsLast`, `TreeAgrees`, `ServedIsAllowed` | every answer over small inputs; pages of one or two among five jobs |
| `jobs_exit_race`, `jobs_peek`, `slurm_cancel`, `proxy_stop_all` | one statement each of a comment or of a design document | the code does not keep it: section 6 |

*Why the bounds are enough.*  A conflict over a record needs a writer and another writer that loaded
before it wrote: two managers, or one that is started twice.  Within one manager the races are between two of
poll and cancel: two requests at a time, and any number one after the other.  The run has no symmetry, which liveness does not bear; what a third request or start would
add to the safety properties is proved, for any number of either (section 4).  Jobs meet
only in passes over all of them; that such a pass keeps any number of jobs apart, with `proc_check` on or off, is
proved (section 4), so one job is enough for TLC.  A sweep needs two inner
dicts to be shortened between steps, two instances for an inner dict that does not become empty,
and one more call than keys in use to bring a key back while a close is awaited.
What `StopMeansStopped` excepts, a new client that the `_remove_client` of the one it replaced takes out
of the registry during a sweep, first happens with five calls, which is more than the run has: the property without
the exception passes with four and is false with five.  `StopStops` (section 4) proves it, as stated, for any number.  The bridge's limit,
queue and reserve each need one request more than they admit.  Slurm jobs meet only in
`list_jobs`, so one is enough there too; two requests and two managers give every pair of writers, and a limit of two misses lets a poll
count, reset and give up (the code's limit is six).  A record of two blocks has a beginning, a torn middle and an end,
and a process needs a second save to meet what its first one left.  On a name, `May` lets each actor
do any one operation.  Three tool calls are one to build the cached manager, one to archive and one to use it meanwhile,
and a command beside them is another process, which comes in between any two calls of theirs; a second directory comes back under the name.
One job is enough (`MaxJobs`), as jobs meet only in passes over all of them; the theorems of section 4 have any number.  The small
configurations have a leaf, a table or nothing at each place of a schema of three levels; five jobs give pages to
skip into and to be pushed onto.  `MaxStarts`, `MaxSaves`, `MaxBody`,
`MaxChunks`, `MaxJobs`, `Dirs`, `May` and the sets of calls and actors are the bounds of otherwise unbounded behaviour.
`CHECK_DEADLOCK FALSE` is set everywhere: with all requests answered and no client asking, these
systems stop.

*Fairness.*  Only the three `LiveSpec` (runs `jobs`, `proxy_live`, `bridge`) assume any.  asyncio's ready queue is first-in
first-out and its timers fire, so a coroutine whose await has ended runs; where a sibling may hold
the loop at the moment a timer is due the fairness is strong.  The kernel completes a fork,
delivers signals and lets a process that has written its status exit.  `LiveSpec` of the bridge also
takes it that a client goes on sending or leaves, and takes what it is sent or leaves, and that a
response is finite.  Nothing is assumed of commands, of proxied servers, of clients asking, or of
the lives of managers.

## 4. What is proved

`LocalJobsProofs` proves, for any sets of managers, jobs and requests, any number of
restarts and either value of `proc_check` (the assumption `LocalJobsAssumption`: the sets of managers
and jobs are not empty, commands are managers, the bound is a natural number):

| Theorem | Statement |
|---|---|
| `Invariance` | `Spec => []IInv` |
| `TypeCorrect`, `RecordsAreTrue`, `CancelledMeansStopped`, `ReportsAreDurable` | `TypeOK`, `RecordTruth`, `CancelledIsStopped`, `ReportDurable` are invariants |
| `EndedStaysEnded`, `OnlyInFlightOverwrites`, `NonDetachedStops` | the action properties `NoResurrection`, `OverwriteOnlyByInFlight`, `NothingLeftRunning` |
| `Refinement` | `Spec => ImplementsLedger` |

*The inductive invariant* `IInv` adds to the safety properties what is true between the steps:

* `ProcessOK`: a command has an outcome only once its process has flushed or gone, and the status file
  never says anything else.  `RecordTruth` needs it where an outcome is read from the file.
* `RecordedOK`: what a manager remembers has a record, and what has a record was spawned.
* `LifeOK`: a manager that is down remembers nothing; only one that is up has handles.
* `FixOK`: the constructor's pass looks at running entries only, and saves ended ones only.
* `AdoptedOK`: an entry taken for running without a handle was seen as a bwrap once, or has been
  signalled.  This is why `cancel` may skip the signal for a pid that is no longer a bwrap, and it is
  the heart of `CancelledIsStopped`.
* `DurableOK`: an ended entry in memory is on disk, or about to be saved by the constructor, which
  returns to nobody before.  `ReportDurable` and `NoResurrection` rest on it.
* `FlightOK`: a request lives in a manager that is up; one that is still spawning is the only one to
  know its job; one that waits for a cancelled process has signalled it.

These make up `CoreInv`; the last conjunct of `IInv` is proved on top of it:

* `WaitOK`: a poll that reads the status file is of a sandbox seen once, or signalled, and a job that
  another request of the same manager settles while a poll awaits it was stopped.  `NothingLeftRunning`
  needs it: `cancel` signals nothing when it finds the entry ended, so an entry ended by a recovery poll
  that mistook a starting sandbox for a dead one would leave a process running.  The constructor of
  *another* manager does make that mistake, but this manager's own entry stays running and is signalled.

The proof has one lemma for each group of actions and, in each, one step for each conjunct the action
can disturb; the run `jobs` checks `IInv` itself.  The refinement maps `ledger[j]` to
`disk[j].status` and `truth` to `outcome`.

`SlurmJobsProofs` proves of `SlurmJobs`, under `SlurmAssumption` (managers and jobs exist, the bound is a
natural number, the limit of misses a positive one): `Invariance`, `TypeCorrect`, `RecordsAreTrue`,
`ReportsAreDurable` and `Refinement`.  Its `IInv` adds to the safety properties:

* `SlurmOK`: the job's final state and the status file tell how the command ended.
* `AccountOK`: a row, in the database or already read by a request, may be old, but what it says of the
  end of a job is true for good.  Without it a poll that settles an entry from a row read long ago could
  record anything.
* `RecordedOK`, `FlightOK`: as in `LocalJobs`; here an ended entry in memory is always on disk, because
  every write of an entry saves it before the next await.

The proof separates the two sides.  Slurm's steps leave the managers alone and never take back what
they said once (`Grows`), and `GrowsKeeps` shows that this is all that records and requests need of
them.  A manager's steps leave Slurm alone; `TaskSet`, `ReportKeeps` and `SaveKeeps` are what setting a request,
answering a client and writing an entry must satisfy, and each action is shown to satisfy one of them.

`RecordWriteProofs` proves, for any processes, loads, numbers of saves and blocks (`RecordAssumption`): `Invariance`,
`WholeLoads`, `SuccessfulSaves`, `Refinement`.  `IInv` has the conjunct `Alone` for as long as no two saves overlapped:
the file under `.tmp` is the only one that is written, by one process, up to its own offset (`WriterOK`), and
neither the record nor what a load has open is that file (`Settled`, `LoadsOK`); so a rename publishes a file that is
finished and never changes again.  The refinement maps `value` to the author of the record, and shows that a
write to `.tmp` leaves it alone.

`InstancesProofs` proves, for any handlers, commands, operations, jobs and directories (`InstancesAssumption`): `Invariance`,
`IdleWhenArchived`, `RecordsAtHome`, `UsableName`, `OwnOutput`.  `IInv` adds to the four properties:

* `FreshOK`: an actor that has not begun has left no trace; one that has no manager yet is nobody's manager; and a request
  past `GetManager` has one, which knows what the request has signalled.
* `HomeOK`: a manager in use knows only jobs whose home is the directory that has the name, or roving ones.  It is what
  makes `JobsStayHome` inductive: a save goes to the name, so the manager's memory must fit it.  Where a `mkdir` makes a
  bare directory nothing was submitted to it, so that everything in memory is roving by then (`HomeKept`).
* `IdleOK`, with proc_check: a process that no manager has overlooked lives where the name points, has its record
  there as running, and holds off every archiver that is past its check (`Watched`), unless a cancel has abandoned it; and what a
  constructor has yet to save is of jobs that have ended, or were overlooked or abandoned.
* `OutputOK`: the output directory and the name change together, except between an archiver's two renames.

There is one lemma for each conjunct (`TypeStep`, `FreshStep`, `HomeStep`, `NameStep`, `OutputStep`, `IdleStep`), and in it one
step for each action that can disturb it; what several actions do to `records`, `mem` and `todo` (`SaveType`, `ConstructFacts`,
`EntriesKeep`) has lemmas of its own.

`SpoolBridgeProofs` proves, for any requests, limits and sizes (`SpoolAssumption`): `KeepsBody`, `CalledOnce`, `StopsInTime`,
`Admission`, `Balance`, `FloorKept` and `TypeCorrect`.  `IInv` says besides that every call waits in the executor's queue once,
so that a thread takes a call whose request is there, and counts what a stopped worker has yet to send against the two messages
(`LateOK`).  `Listed` is the converse: a call that waits is in the queue, so that no request waits for a call nobody
will take.  `Admitted` is finite because it begins empty and grows by one, so no assumption on `Requests` is needed.
`ByteInvariance` adds the accounts of the bytes, `Bytes`:

* `Held`: a request holds what is left of twice its declared length, or, without one, as much as it has received; the
  application has copied no more than that.  So a release gives back what was taken and no counter becomes negative.
* `Accounts`: `reserved` is the sum of what the admitted requests hold, and `Ahead`, the free space once each has taken all
  that it still may (`Weight`: its reservation, and what its spool file keeps in memory), is above the floor, or
  at the capacity while nothing has been taken.  The free space alone is not inductive: a write needs no look at the
  disk, for the reservation made it long before.  `FloorKept` follows as no `Weight` is below `-SpoolMax`.

The sums are folds over sets, and the library states nothing of them: `SumIs` to `SumBound` derive what is needed (a summand
more, less or changed; a bound for each gives one for the sum) from the fold's own equation.  That this equation has
a solution, and only one, is the smallest counterexample's contradiction: finite sets are well-founded under inclusion
(`Smallest`), so no induction theorem with an operator parameter is used.

`ProxyClientsProofs` proves, for any finite sets of proxies and instances, any calls and any of the sweeps (`ProxyAssumption`):
`Invariance`, `Types`, `CallKeepsConnection`, `StopStops`.  `IInv` adds to the types:

* `KeysOK`: the registry lists a client under its own key, and a call uses a client of the key it named.
* `LinksOK`: a client holds, and closes, only connections that calls on it opened.
* `CutOK`: a closed client has calls in flight only if a sweep of theirs has begun.  An idle monitor closes without
  calls in flight, and `get_or_start` and `ensure_connected` bring no call to a closed client.
* `DictsOK`, `SweepOK`: while no key has left `_clients`, a target of a `stop_all` that is still open, and has not
  replaced a closed client, is registered in an inner dict the iterator has yet to yield.

`ShrinkKeeps` says once what every step but a tool call's needs for the first three, `OthersKeep` what every step
but its own needs for a sweep's `SweepOK`.

`LookupsProofs` proves of `Lookups`, for any inputs that `LookupsAssumption` gives their types (files are sequences of bytes, paths of
strings, metadata one of the four forms, configuration files tables), any number of jobs and any models of the configuration:

* `Invariance`, `ShowsAll`: `PagesIInv` and `PagesShowAll`.  The argument is about cardinalities: the index of a job in
  the sorted list is the number of newer ones, which a submission never lowers, and no index reaches the number of all jobs.
* `TailKept`: `TailIsLast`.  A line end is an element of a set of
  positions, so the k-th line is a matter of ranks (`Rank`, `Nth`).  A window at the end of the file has the line ends of the
  file shifted (`WindowEnds`), hence its lines but for the one it cuts (`WindowLines`), also where it begins between CR and LF;
  the line it cuts is a suffix of the file's (`TextSuffix`).
* `ServedAllowed`, `TreesAgree`: `ServedIsAllowed` and `TreeAgrees`.  The directory below a mount stays the one of `DavTree`.
  The walk is a fold over the segments of a path; `WalksExists` shows as above that its equation has a solution, and `WalkIs`
  that a walk ends with a step of `Enter`, which never leads back to the root (`EnterIs`).  `ValidatedIs` is the heart:
  for a path that exists, `_validate_within_root` has resolved the path itself, not a parent.

* `LayersKept`, `WarningsExact`: `LayersWin` and `WarnsOfIgnored`, from the lemmas of `ConfigLayersProofs`.

`ConfigLayersProofs` computes what the recursive functions of `ConfigLayers` are, for any keys, values, models and depth
(`ConfigAssumption`).  A function defined by `f[x] == ...` is *some* function with that equation, if there is one, so each
needs a proof that its equation has a solution:

* `UpTo` is induction over `0..N` for what is said by a *set* of numbers, again by the smallest counterexample, and
  `TableInduction` the same over the levels of tables.  A set in place of a predicate is what the provers can instantiate.
* `Recursion`: an equation whose right-hand side looks one level down only has a solution; `MergeEquation`, `SaidEquation`,
  `WarningsEquation` and `TypesExist` apply it.  The right-hand side is a function too (`D`), for the same reason.
* `PathIs`, `LeafAboveIs`, `TypeBelow` say of a path what they say of the path without its first key.
* `UpperWins`: of two layers, the upper has a path's say, or nobody where it has a leaf above; by induction on the length of
  the path.  `LastOfThreeWins` puts two merges together, where a leaf of the second file may hide what the first one added.
* `WarningsAre`: with any prefix, a part of the file is warned of at the paths whose type is `Nothing`; by induction on
  the levels, where an entry of a `dict[str, Model]` is two levels down.

*Model-checked only*: liveness (`RequestsReturn`, `NonDetachedEnds`, `IdleClientsClose`, `AllEnd`; fairness and ENABLED are
out of the prover's reach).  Every other property of a passing run is a theorem.

## 5. What is not modelled

* The defaults and limits of a Slurm submission (`_resolve_slurm_resources`) are a loop over the configured names
  without state; a reference definition would be the same loop.
* `build_bwrap_args` lays out an argument list in a fixed order from a few paths; a reference definition would be the
  same list.
* Host commands and context resources run a configured command or read text files, without state of their own.
* `_filter_tools` and `_register_proxied_tools` copy tool descriptions once at the start.
* `Instance.destroy` and `JobManager._remove_job` are not called in `src` outside the tests; the lines of the audit log are only written.
* File operations below a WebDAV mount are wsgidav's.
* The other CLI commands print; the Slurm test containers are not part of the program.

## 6. Where the code does not do what it says

Each run below checks one statement and TLC finds a behaviour that breaks it.

* `jobs_exit_race`: bwrap writes exit code 0 and exits between the read of the status file and the look
  at `/proc`: the job is recorded as failed, although "when the status file shows `exit-code` the job
  is complete" (`job_manager.py:240`).
* `jobs_peek`: `instance status --no-detach` without `--poll-timeout` finds the job running, says so and leaves it running
  (`cli.py:366` cancels only if `poll_timeout > 0`, and 0 is the default), against "`--no-detach` → kill if still
  going at timeout" (`JOB_DESIGN.md:39`).  The tool's `poll_job` does cancel at 0 (`server.py:643-650`).
* `slurm_cancel`: scancel fails, or is killed after 15 s; the job is recorded as cancelled all the same,
  every later poll says so, and it stays in the queue or runs ("kill if still going at timeout",
  `JOB_DESIGN.md:39`).
* `proxy_stop_all`: closing a client pops the inner dict of `_clients` that became empty, and the
  iteration of `stop_all` raises `RuntimeError` at its next step, so that the other clients stay open and
  `archive_instance` fails; with a single client all are closed and it fails still.  `close_all`
  iterates over the very dict each close shrinks.

Seen in the same models, without a run of their own:

* *Proxies.*  Two first calls on a client both connect, for `ensure_connected` looks at `_client` before the await
  and sets it after; the first connection is overwritten and never closed (`proxy.py:104`, against "One connection to a
  proxied MCP server", `proxy.py:65`).
* *Records.*  Two processes that save one job at once share the `.tmp`: one can publish the other's half-written text, which
  `_load_jobs` then skips as if there were no job, or find its own file gone, and the save raises out of a poll or a cancel
  (`job_manager.py:226-228`, against "Atomically write", `:221`).  The ghost `overlap` marks exactly these behaviours.
* *Archives.*  A job submitted while an archive awaits `stop_all`, or after its check, saves its record into a bare directory of the
  old name, which can neither be loaded (no metadata) nor created (`FileExistsError`); so do the `mkdir`s of a submit that loaded the instance
  before another process archived it (`job_manager.py:285`, `:291`): `torn` has `"mkdir"`.  A cancel that gives up on a process after
  SIGKILL, or signals it by pid without waiting, records the job as cancelled; the check of an archive then passes over
  a sandbox that lives on in the archived directory: `abandoned` has the job.  A process that dies after
  the mark leaves an instance that `list_instances` still shows ("List all active (non-archived)", `server.py:374`) and
  that `archive_instance` reports as archived without moving it.  A description written back over the mark
  or over a moved directory undoes it.  An instance created between the two renames loses its output directory
  to the archive of the old one.  The manager that a poll builds anew while an archive awaits outlives the move and writes
  its records into the next instance of that name.  With `proc_check` off an archive never sees a running local job.
* *WebDAV.*  The mounts of an instance whose metadata does not parse are listed and not found, since `is_archived` takes such
  an instance for active and `_resolve_instance_path` for missing (`instance.py:199`, `file_server.py:611`).
* *Configuration.*  A file that is not UTF-8 raises `UnicodeDecodeError`, which `load_config` does not catch
  as it does a file that does not parse (`config.py:161`, `:222`); this one is not an input of the model.
* *Jobs.*  Of a poll and a cancel of one job, both awaiting, the one that wakes last overwrites the final status the
  other saved (`job_manager.py:835`; `OverwriteOnlyByInFlight` and the ledger say how far that goes).  The constructor of a
  second manager marks a job failed that has not become bwrap yet, and the process runs on (`job_manager.py:269`).
  `list_jobs` settles a job and leaves its handle in `_procs` (`:907`).
* *Bridge.*  The bytes `SpooledTemporaryFile` keeps in memory are neither used nor reserved, and the reserve of free
  space can be crossed by them (`file_server.py:387`; `FloorNearlyKept` is the bound that does hold).
* *More of proxies.*  A client closed while it connects keeps the connection it then stores (`proxy.py:137`).  The callback
  of a close removes a new, open client made under the same key during the await (`proxy.py:231`, against "Remove a closed
  client", `:228`); a `stop_all` under way then misses it.
