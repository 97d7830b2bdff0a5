---------------------------- MODULE SlurmJobsProofs ----------------------------
(***************************************************************************)
(* Proofs about SlurmJobs, for any managers, jobs and requests.  IInv is   *)
(* inductive.  The steps of Slurm leave the managers alone, and what they  *)
(* say of a command or a job once, they never take back (Grows): that is   *)
(* all the records need of them.  The steps of a manager leave Slurm       *)
(* alone; what they do to a request (TaskSet) is apart from what they      *)
(* write (SaveKeeps).                                                      *)
(***************************************************************************)
EXTENDS SlurmJobs, TLAPS

\* The canonical idle request is a request that has read nothing.
LEMMA IdleType == Idle \in Request /\ Idle.pc = "idle" /\ Idle.seen = Unread
BY SlurmAssumption DEF Idle, Request, Pc, Row, Unread, Final

\* The initial state satisfies the inductive invariant.
LEMMA InitInv == Init => IInv
<1> SUFFICES ASSUME Init PROVE IInv
    OBVIOUS
<1>1. TypeOK
    BY IdleType, SlurmAssumption
    DEF Init, TypeOK, Entry, Ended, Row, Final, NoEntry, NoRow
<1>2. SlurmOK /\ RecordedOK /\ ReportDurable /\ RecordTruth
    BY DEF Init, SlurmOK, RecordedOK, ReportDurable, RecordTruth, Records, NoEntry, Ended
<1>3. AccountOK /\ FlightOK
    BY IdleType DEF Init, AccountOK, RowOK, FlightOK, NoRow, Unread, Final
<1> QED
    BY <1>1, <1>2, <1>3 DEF IInv

------------------------------------------------------------------------------
(* Types.                                                                   *)

\* What a request becomes when its step, or the row it has read, changes.
LEMMA RequestType ==
    ASSUME NEW r \in Request
    PROVE  /\ \A pc \in Pc : [r EXCEPT !.pc = pc] \in Request
           /\ \A row \in Row : [r EXCEPT !.seen = row] \in Request
<1> DEFINE Misses == 0..NotFoundLimit - 1
<1> HIDE DEF Misses
<1>1. Request = [pc : Pc, mgr : Managers, job : Jobs, kill : BOOLEAN, wait : BOOLEAN,
                 seen : Row, misses : Misses]
    BY DEF Request, Misses
<1> QED
    BY <1>1

\* A request that starts with scancel.
LEMMA ScancelType ==
    ASSUME NEW m \in Managers, NEW j \in Jobs
    PROVE  [Idle EXCEPT !.pc = "scancel", !.mgr = m, !.job = j] \in Request
<1> DEFINE Misses == 0..NotFoundLimit - 1
<1> HIDE DEF Misses
<1>1. Request = [pc : Pc, mgr : Managers, job : Jobs, kill : BOOLEAN, wait : BOOLEAN,
                 seen : Row, misses : Misses]
    BY DEF Request, Misses
<1> QED
    BY <1>1, IdleType DEF Pc

\* A row that is final settles on an ended entry.
LEMMA SettledType ==
    ASSUME NEW row \in Row, row.state \in Final, NEW line \in {"none", "ok", "err"}
    PROVE  Settled(row, line) \in Entry /\ Settled(row, line).status \in Ended
BY DEF Settled, Row, Final, Entry, Ended

\* Slurm's steps keep the types.
LEMMA SlurmTypeStep ==
    ASSUME TypeOK,
           (\E j \in Jobs : Slurm(j)) \/ (\E t \in Tasks : Enqueue(t) \/ Accept(t))
    PROVE  TypeOK'
<1> USE DEF TypeOK, manager
<1>1. ASSUME NEW t \in Tasks, Enqueue(t) PROVE TypeOK'
    BY <1>1 DEF Enqueue, Request
<1>2. ASSUME NEW t \in Tasks, Accept(t) PROVE TypeOK'
    BY <1>2 DEF Accept, Request
<1>3. ASSUME NEW j \in Jobs, Launch(j) PROVE TypeOK'
    BY <1>3 DEF Launch
<1>4. ASSUME NEW j \in Jobs, JobEnds(j) PROVE TypeOK'
    BY <1>4 DEF JobEnds, Final
<1>5. ASSUME NEW j \in Jobs, Account(j) PROVE TypeOK'
    BY <1>5 DEF Account, Row, Final
<1>6. ASSUME NEW j \in Jobs, NEW c \in {"ok", "err"}, NEW line \in {"none", c},
             CommandExits(j, c, line)
      PROVE  TypeOK'
    BY <1>6 DEF CommandExits
<1>7. ASSUME NEW j \in Jobs, NEW f \in {"FAILED", "CANCELLED"}, JobKilled(j, f)
      PROVE  TypeOK'
    BY <1>7 DEF JobKilled, Final
<1> QED
    BY <1>1, <1>2, <1>3, <1>4, <1>5, <1>6, <1>7 DEF Slurm

\* A step that writes the entry e of m's job j keeps the types of mem and disk.
LEMMA SaveType ==
    ASSUME TypeOK, NEW m \in Managers, NEW j \in Jobs, NEW e \in Entry, Save(m, j, e)
    PROVE  /\ mem'  \in [Managers -> [Jobs -> Entry]]
           /\ disk' \in [Jobs -> Entry]
BY DEF TypeOK, Save

\* The steps of a manager that is asked for something keep the types.
LEMMA NewRequestTypeStep ==
    ASSUME TypeOK, NEW t \in Tasks, NEW m \in Managers, NEW j \in Jobs,
           NewRequest(t, m, j)
    PROVE  TypeOK'
<1> USE DEF TypeOK, slurm
<1>1. ASSUME NEW k \in BOOLEAN, NEW w \in BOOLEAN, Submit(t, m, j, k, w)
      PROVE  TypeOK'
    BY IdleType, <1>1 DEF Submit, Request, Pc
<1>2. ASSUME NEW k \in BOOLEAN, NEW w \in BOOLEAN, PollBegin(t, m, j, k, w)
      PROVE  TypeOK'
    BY IdleType, <1>2 DEF PollBegin, Cancels, Request, Pc
<1>3. CASE PollCached(t, m, j)
    BY IdleType, <1>3 DEF PollCached, Report, Leave
<1>4. CASE Cancel(t, m, j)
    BY IdleType, ScancelType, <1>4 DEF Cancel, CancelBody, Report, Leave
<1> QED
    BY <1>1, <1>2, <1>3, <1>4 DEF NewRequest

\* The steps of a request in flight keep the types.
LEMMA WakeTypeStep ==
    ASSUME TypeOK, NEW t \in Tasks,
           Wake(t) \/ PollDeadline(t) \/ SacctReads(t)
    PROVE  TypeOK'
<1> USE DEF TypeOK, slurm
<1>a. task[t] \in Request /\ task[t].mgr \in Managers /\ task[t].job \in Jobs
    BY DEF Request
<1>1. CASE SubmitFails(t) \/ SacctFails(t) \/ NotFound(t) \/ ScancelFails(t)
    BY IdleType, <1>1 DEF SubmitFails, SacctFails, NotFound, ScancelFails, Raise, Leave
<1>2. CASE Submitted(t) \/ PollAgain(t)
    BY <1>a, <1>2, RequestType DEF Submitted, PollAgain, Goto, Pc
<1>3. CASE SubmitRecord(t)
    <2>1. [status |-> "running", exit |-> "none"] \in Entry
        BY DEF Entry
    <2>2. mem' \in [Managers -> [Jobs -> Entry]] /\ disk' \in [Jobs -> Entry]
        BY <1>a, <1>3, <2>1, SaveType DEF SubmitRecord
    <2> QED
        BY <1>a, <1>3, <2>2, RequestType DEF SubmitRecord, Goto, Pc
<1>4. CASE PollSettles(t)
    <2>1. task[t].seen \in Row /\ statusFile[task[t].job] \in {"none", "ok", "err"}
        BY <1>a DEF Request
    <2>2. Settled(task[t].seen, statusFile[task[t].job]) \in Entry
        BY <1>4, <2>1, SettledType DEF PollSettles
    <2>3. mem' \in [Managers -> [Jobs -> Entry]] /\ disk' \in [Jobs -> Entry]
        BY <1>a, <1>4, <2>2, SaveType DEF PollSettles
    <2> QED
        BY IdleType, <1>a, <1>4, <2>3 DEF PollSettles, Report, Leave
<1>5. CASE PollPauses(t)
    <2>1. task[t].seen = NoRow => task[t].misses + 1 \in 0..NotFoundLimit - 1
        BY <1>5, <1>a, SlurmAssumption DEF PollPauses, Inconclusive, GivesUp, Request
    <2>2. task'[t] \in Request
        <3> DEFINE Misses == 0..NotFoundLimit - 1
        <3>1. Request = [pc : Pc, mgr : Managers, job : Jobs, kill : BOOLEAN,
                         wait : BOOLEAN, seen : Row, misses : Misses]
            BY DEF Request
        <3>2. 0 \in Misses
            BY SlurmAssumption
        <3>3. task[t].seen = NoRow => task[t].misses + 1 \in Misses
            BY <2>1
        <3>4. Unread \in Row /\ "pause" \in Pc
            BY DEF Unread, Row, Pc
        <3> HIDE DEF Misses
        <3> QED
            BY <1>5, <1>a, <3>1, <3>2, <3>3, <3>4 DEF PollPauses
    <2> QED
        BY <1>5, <2>2 DEF PollPauses
<1>6. CASE PollDeadline(t)
    BY IdleType, ScancelType, <1>a, <1>6
    DEF PollDeadline, StillRunning, CancelBody, Report, Leave
<1>7. CASE ScancelReturns(t)
    <2>1. \A e \in Entry : [e EXCEPT !.status = "cancelled"] \in Entry
        BY DEF Entry, Ended
    <2>2. mem' \in [Managers -> [Jobs -> Entry]] /\ disk' \in [Jobs -> Entry]
        <3>1. mem[task[t].mgr][task[t].job] \in Entry
            BY <1>a
        <3> QED
            BY <1>a, <1>7, <2>1, <3>1, SaveType DEF ScancelReturns
    <2> QED
        BY IdleType, <1>a, <1>7, <2>2 DEF ScancelReturns, Report, Leave
<1>8. CASE SacctReads(t)
    <2>1. acct[task[t].job] \in Row /\ NoRow \in Row
        BY <1>a DEF NoRow, Row
    <2> QED
        BY <1>a, <1>8, <2>1, RequestType DEF SacctReads
<1> QED
    BY <1>1, <1>2, <1>3, <1>4, <1>5, <1>6, <1>7, <1>8 DEF Wake

\* Every step keeps the types.
LEMMA TypeStep == TypeOK /\ [Next]_vars => TypeOK'
<1> SUFFICES ASSUME TypeOK, [Next]_vars PROVE TypeOK'
    OBVIOUS
<1>1. ASSUME NEW m \in Managers, Start(m) PROVE TypeOK'
    BY <1>1, SlurmAssumption DEF TypeOK, Start, slurm
<1>2. ASSUME NEW m \in Managers, Exit(m) PROVE TypeOK'
    BY <1>2, IdleType DEF TypeOK, Exit, slurm, Entry, NoEntry
<1>3. ASSUME NEW m \in Managers, List(m) PROVE TypeOK'
    <2>1. \A j \in Jobs : statusFile[j] # "none"
             => [status |-> IF statusFile[j] = "ok" THEN "completed" ELSE "failed",
                 exit   |-> statusFile[j]] \in Entry
        BY DEF TypeOK, Entry, Ended
    <2> QED
        BY <1>3, <2>1 DEF TypeOK, List, slurm
<1>4. CASE UNCHANGED vars
    BY <1>4 DEF TypeOK, vars, slurm
<1> QED
    BY <1>1, <1>2, <1>3, <1>4, SlurmTypeStep, NewRequestTypeStep, WakeTypeStep DEF Next

------------------------------------------------------------------------------
(* The steps of Slurm.                                                      *)

\* What they say of a command or a job once stands, and no manager moves.
Grows ==
    /\ UNCHANGED manager
    /\ \A j \in Jobs : /\ ctl[j] # "none" => ctl'[j] # "none"
                       /\ fate[j] # "none" => fate'[j] = fate[j]
                       /\ outcome[j] # "none" => outcome'[j] = outcome[j]

\* Whatever grows so leaves every claim about records, requests and rows true.
LEMMA GrowsKeeps ==
    ASSUME IInv, Grows
    PROVE  /\ RecordTruth' /\ RecordedOK' /\ ReportDurable' /\ FlightOK'
           /\ \A j \in Jobs : \A row : RowOK(j, row) => RowOK(j, row)'
<1> USE DEF IInv, Grows, manager
<1>1. RecordTruth'
    BY DEF RecordTruth, Records, TypeOK
<1>2. RecordedOK' /\ ReportDurable' /\ FlightOK'
    BY DEF RecordedOK, ReportDurable, FlightOK, TypeOK, Request
<1>3. ASSUME NEW j \in Jobs, NEW row, RowOK(j, row) PROVE RowOK(j, row)'
    BY <1>3 DEF RowOK, Final
<1> QED
    BY <1>1, <1>2, <1>3

\* Every step of Slurm grows.
LEMMA SlurmGrows ==
    ASSUME IInv,
           (\E j \in Jobs : Slurm(j)) \/ (\E t \in Tasks : Enqueue(t) \/ Accept(t))
    PROVE  Grows
<1> USE DEF IInv, TypeOK, SlurmOK, Grows, manager
<1>1. ASSUME NEW t \in Tasks, Enqueue(t) \/ Accept(t) PROVE Grows
    BY <1>1 DEF Enqueue, Accept
<1>2. ASSUME NEW j \in Jobs, Launch(j) \/ JobEnds(j) \/ Account(j) PROVE Grows
    BY <1>2 DEF Launch, JobEnds, Account
<1>3. ASSUME NEW j \in Jobs, NEW c \in {"ok", "err"}, NEW line \in {"none", c},
             CommandExits(j, c, line)
      PROVE  Grows
    BY <1>3 DEF CommandExits
<1>4. ASSUME NEW j \in Jobs, NEW f \in {"FAILED", "CANCELLED"}, JobKilled(j, f)
      PROVE  Grows
    BY <1>4 DEF JobKilled
<1> QED
    BY <1>1, <1>2, <1>3, <1>4 DEF Slurm

\* They tell how the command ended by what it did.
LEMMA SlurmTruth ==
    ASSUME IInv, TypeOK',
           (\E j \in Jobs : Slurm(j)) \/ (\E t \in Tasks : Enqueue(t) \/ Accept(t))
    PROVE  SlurmOK'
<1> USE DEF IInv, TypeOK, SlurmOK, manager
<1>1. ASSUME NEW t \in Tasks, Enqueue(t) \/ Accept(t) PROVE SlurmOK'
    BY <1>1 DEF Enqueue, Accept
<1>2. ASSUME NEW j \in Jobs, Launch(j) \/ JobEnds(j) \/ Account(j) PROVE SlurmOK'
    BY <1>2 DEF Launch, JobEnds, Account
<1>3. ASSUME NEW j \in Jobs, NEW c \in {"ok", "err"}, NEW line \in {"none", c},
             CommandExits(j, c, line)
      PROVE  SlurmOK'
    BY <1>3 DEF CommandExits
<1>4. ASSUME NEW j \in Jobs, NEW f \in {"FAILED", "CANCELLED"}, JobKilled(j, f)
      PROVE  SlurmOK'
    BY <1>4 DEF JobKilled
<1> QED
    BY <1>1, <1>2, <1>3, <1>4 DEF Slurm

\* The accounting copies what the controller holds.
LEMMA SlurmAccounts ==
    ASSUME IInv, TypeOK', Grows,
           (\E j \in Jobs : Slurm(j)) \/ (\E t \in Tasks : Enqueue(t) \/ Accept(t))
    PROVE  AccountOK'
<1>1. \A j \in Jobs : \A row : RowOK(j, row) => RowOK(j, row)'
    BY GrowsKeeps
<1>2. \A t \in Tasks : RowOK(task[t].job, task[t].seen)'
    <2>1. \A t \in Tasks : task[t].job \in Jobs
        BY DEF IInv, TypeOK, Request
    <2>2. UNCHANGED task
        BY DEF Grows, manager
    <2>3. ASSUME NEW t \in Tasks PROVE RowOK(task[t].job, task[t].seen)'
        <3>1. RowOK(task[t].job, task[t].seen)
            BY DEF IInv, AccountOK
        <3> QED
            BY <2>1, <2>2, <3>1 DEF RowOK, Grows, Final
    <2> QED
        BY <2>3
<1>3. ASSUME NEW j \in Jobs, Account(j), NEW i \in Jobs
      PROVE  (RowOK(i, acct[i]) /\ acct[i].state # "unread")'
    BY <1>3 DEF Account, IInv, TypeOK, SlurmOK, AccountOK, RowOK, Final
<1>4. UNCHANGED acct => \A i \in Jobs : (RowOK(i, acct[i]) /\ acct[i].state # "unread")'
    BY DEF IInv, AccountOK, RowOK, Grows, Final
<1>5. UNCHANGED acct \/ \E j \in Jobs : Account(j)
    BY DEF Slurm, Launch, CommandExits, JobEnds, JobKilled, Enqueue, Accept
<1> QED
    BY <1>2, <1>3, <1>4, <1>5 DEF AccountOK

\* Every step of Slurm keeps the inductive invariant.
LEMMA SlurmStep ==
    ASSUME IInv, TypeOK',
           (\E j \in Jobs : Slurm(j)) \/ (\E t \in Tasks : Enqueue(t) \/ Accept(t))
    PROVE  IInv'
<1>1. Grows
    BY SlurmGrows
<1> QED
    BY <1>1, GrowsKeeps, SlurmTruth, SlurmAccounts DEF IInv

------------------------------------------------------------------------------
(* The steps of a manager that write nothing.                               *)

\* What FlightOK and AccountOK ask of a request r at t.
RequestOK(t, r) ==
    /\ RowOK(r.job, r.seen)
    /\ r.pc \in {"sbatch", "settle"}
       => /\ disk[r.job].status = "absent"
          /\ \A u \in Tasks \ {t} : ~(task[u].pc \in {"sbatch", "settle"}
                                      /\ task[u].job = r.job)
    /\ r.pc = "settle" => ctl[r.job] # "none"
    /\ r.pc \in {"sacct", "pause", "scancel"} => disk[r.job].status # "absent"

\* That is what they ask.
LEMMA RequestsOK == IInv => \A t \in Tasks : RequestOK(t, task[t])
BY DEF IInv, AccountOK, FlightOK, RequestOK

\* A row that says nothing is right of any job.
LEMMA NothingRead == \A j : RowOK(j, Unread) /\ RowOK(j, NoRow)
BY DEF RowOK, Unread, NoRow, Final

\* A request that is over is in order.
LEMMA IdleOK == \A t : RequestOK(t, Idle)
BY IdleType, NothingRead DEF RequestOK

\* A step that only sets a request to one in order keeps the inductive invariant.
LEMMA TaskSet ==
    ASSUME IInv, TypeOK', UNCHANGED <<slurm, disk, mem, told>>,
           NEW t \in Tasks, NEW r, task' = [task EXCEPT ![t] = r], RequestOK(t, r)
    PROVE  IInv'
<1> USE DEF IInv, slurm
<1>1. (SlurmOK /\ RecordTruth /\ RecordedOK /\ ReportDurable)'
    BY DEF SlurmOK, RecordTruth, Records, RecordedOK, ReportDurable
<1>2. task'[t] = r /\ \A u \in Tasks \ {t} : task'[u] = task[u]
    BY DEF TypeOK
<1>3. AccountOK'
    BY <1>2 DEF AccountOK, RowOK, RequestOK
<1>4. FlightOK'
    BY <1>2 DEF FlightOK, RequestOK
<1> QED
    BY <1>1, <1>3, <1>4

\* A request that returns what the record confirms keeps the inductive invariant.
LEMMA ReportKeeps ==
    ASSUME IInv, TypeOK', UNCHANGED <<slurm, disk, mem>>,
           NEW t \in Tasks, NEW j \in Jobs, NEW s, Report(t, j, s),
           s \in Ended => disk[j].status \in Ended
    PROVE  IInv'
<1> USE DEF IInv, slurm
<1>1. (SlurmOK /\ RecordTruth /\ RecordedOK /\ ReportDurable)'
    BY DEF SlurmOK, RecordTruth, Records, RecordedOK, ReportDurable, Report
<1>2. task'[t] = Idle /\ \A u \in Tasks \ {t} : task'[u] = task[u]
    BY DEF TypeOK, Report, Leave
<1>3. AccountOK'
    BY <1>2, IdleOK DEF AccountOK, RowOK, RequestOK
<1>4. FlightOK'
    BY <1>2, IdleType DEF FlightOK
<1> QED
    BY <1>1, <1>3, <1>4

\* A cancel keeps the inductive invariant, whether it begins or finds the job ended.
LEMMA CancelBodyStep ==
    ASSUME IInv, TypeOK', NEW t \in Tasks, NEW m \in Managers, NEW j \in Jobs,
           mem[m][j].status # "absent" \/ disk[j].status # "absent",
           CancelBody(t, m, j)
    PROVE  IInv'
<1>1. CASE mem[m][j].status \in Ended
    <2>1. Report(t, j, mem[m][j].status) /\ UNCHANGED <<slurm, disk, mem>>
        BY <1>1 DEF CancelBody
    <2>2. disk[j].status \in Ended
        BY <1>1 DEF IInv, RecordedOK
    <2> QED
        BY <2>1, <2>2, ReportKeeps
<1>2. CASE mem[m][j].status \notin Ended
    <2> DEFINE r == [Idle EXCEPT !.pc = "scancel", !.mgr = m, !.job = j]
    <2>1. task' = [task EXCEPT ![t] = r] /\ UNCHANGED <<slurm, disk, mem, told>>
        BY <1>2 DEF CancelBody
    <2>2. r.pc = "scancel" /\ r.job = j /\ r.seen = Unread
        BY IdleType DEF Request
    <2>3. disk[j].status # "absent"
        BY DEF IInv, RecordedOK
    <2>4. RequestOK(t, r)
        BY <2>2, <2>3, NothingRead DEF RequestOK
    <2> QED
        BY <2>1, <2>4, TaskSet
<1> QED
    BY <1>1, <1>2

\* A new request keeps the inductive invariant.
LEMMA NewRequestStep ==
    ASSUME IInv, TypeOK', NEW t \in Tasks, NEW m \in Managers, NEW j \in Jobs,
           NewRequest(t, m, j)
    PROVE  IInv'
<1>1. ASSUME NEW k \in BOOLEAN, NEW w \in BOOLEAN, Submit(t, m, j, k, w)
      PROVE  IInv'
    <2> DEFINE r == [Idle EXCEPT !.pc = "sbatch", !.mgr = m, !.job = j,
                                 !.kill = k, !.wait = w]
    <2>1. task' = [task EXCEPT ![t] = r] /\ UNCHANGED <<slurm, disk, mem, told>>
        BY <1>1 DEF Submit
    <2>2. r.pc = "sbatch" /\ r.job = j /\ r.seen = Unread
        BY IdleType DEF Request
    <2>3. ctl[j] = "none" /\ disk[j].status = "absent"
        BY <1>1 DEF Submit, IInv, RecordedOK
    <2>4. \A u \in Tasks : ~(task[u].pc \in {"sbatch", "settle"} /\ task[u].job = j)
        BY <1>1, <2>3 DEF Submit, IInv, FlightOK
    <2>5. RequestOK(t, r)
        BY <2>2, <2>3, <2>4, NothingRead DEF RequestOK
    <2> QED
        BY <2>1, <2>5, TaskSet
<1>2. ASSUME NEW k \in BOOLEAN, NEW w \in BOOLEAN, PollBegin(t, m, j, k, w)
      PROVE  IInv'
    <2> DEFINE r == [Idle EXCEPT !.pc = "sacct", !.mgr = m, !.job = j,
                                 !.kill = Cancels(m, k, w), !.wait = w]
    <2>1. task' = [task EXCEPT ![t] = r] /\ UNCHANGED <<slurm, disk, mem, told>>
        BY <1>2 DEF PollBegin
    <2>2. r.pc = "sacct" /\ r.job = j /\ r.seen = Unread
        BY IdleType DEF Request
    <2>3. disk[j].status # "absent"
        BY <1>2 DEF PollBegin, IInv, RecordedOK
    <2>4. RequestOK(t, r)
        BY <2>2, <2>3, NothingRead DEF RequestOK
    <2> QED
        BY <2>1, <2>4, TaskSet
<1>3. CASE PollCached(t, m, j)
    <2>1. disk[j].status \in Ended
        BY <1>3 DEF PollCached, IInv, RecordedOK
    <2>2. Report(t, j, mem[m][j].status) /\ UNCHANGED <<slurm, disk, mem>>
        BY <1>3 DEF PollCached
    <2> QED
        BY <2>1, <2>2, ReportKeeps
<1>4. CASE Cancel(t, m, j)
    BY <1>4, CancelBodyStep DEF Cancel
<1> QED
    BY <1>1, <1>2, <1>3, <1>4 DEF NewRequest

------------------------------------------------------------------------------
(* The steps that write.                                                    *)

\* What RecordTruth asks of an entry e of job j.
EntryTrue(j, e) ==
    /\ e.status = "completed" => e.exit = "ok" /\ outcome[j] = "ok"
    /\ e.exit = "err" => outcome[j] = "err"
    /\ e.status = "failed" => outcome[j] = "err" \/ fate[j] = "FAILED"

\* A request that writes a true entry of its job, the first or an ended one, and goes on
\* to sacct or returns what it wrote, keeps the inductive invariant.
LEMMA SaveKeeps ==
    ASSUME IInv, TypeOK', UNCHANGED slurm,
           NEW t \in Tasks, NEW m \in Managers, NEW j \in Jobs, NEW e,
           task[t].pc # "idle", task[t].mgr = m, task[t].job = j,
           Save(m, j, e), EntryTrue(j, e),
           \/ e.status = "running" /\ disk[j].status = "absent" /\ Goto(t, "sacct")
              /\ UNCHANGED told
           \/ e.status \in Ended /\ Leave(t) /\ told' \subseteq told \cup {j},
           ctl[j] # "none",
           task[t].pc # "settle" => disk[j].status # "absent"
    PROVE  IInv'
<1> USE DEF IInv, slurm
<1>1. /\ disk'[j] = e /\ \A i \in Jobs \ {j} : disk'[i] = disk[i]
      /\ mem'[m][j] = e
      /\ \A n \in Managers, i \in Jobs : n # m \/ i # j => mem'[n][i] = mem[n][i]
    BY DEF Save, TypeOK
<1>2. SlurmOK'
    BY DEF SlurmOK
<1>3. RecordTruth'
    BY <1>1 DEF RecordTruth, Records, EntryTrue
<1>a. e.status \in Ended => e.status # "absent"
    BY DEF Ended
<1>b. "running" \notin Ended /\ "absent" \notin Ended
    BY DEF Ended
<1>4. RecordedOK' /\ ReportDurable'
    <2>1. \A i \in Jobs : disk'[i].status # "absent" => ctl'[i] # "none"
        BY <1>1 DEF RecordedOK
    <2>2. ASSUME NEW i \in Jobs, NEW n \in Managers
          PROVE  /\ mem'[n][i].status # "absent" => disk'[i].status # "absent"
                 /\ mem'[n][i].status \in Ended => disk'[i].status \in Ended
        <3>1. CASE i # j
            BY <1>1, <3>1 DEF RecordedOK
        <3>2. CASE i = j
            <4>1. disk'[j].status = e.status /\ e.status # "absent"
                BY <1>1, <1>a
            <4>2. CASE e.status \in Ended
                BY <3>2, <4>1, <4>2
            <4>3. CASE e.status = "running" /\ disk[j].status = "absent"
                <5>1. n # m => mem'[n][j].status = "absent"
                    BY <1>1, <4>3 DEF RecordedOK
                <5> QED
                    BY <1>1, <1>b, <3>2, <4>1, <4>3, <5>1
            <4> QED
                BY <4>2, <4>3
        <3> QED
            BY <3>1, <3>2
    <2>3. ReportDurable'
        <3>1. CASE e.status \in Ended /\ told' \subseteq told \cup {j}
            BY <1>1, <3>1 DEF ReportDurable, TypeOK
        <3>2. CASE UNCHANGED told /\ disk[j].status = "absent"
            <4>1. j \notin told
                BY <1>b, <3>2 DEF ReportDurable
            <4> QED
                BY <1>1, <3>2, <4>1 DEF ReportDurable, TypeOK
        <3> QED
            BY <3>1, <3>2
    <2> QED
        BY <2>1, <2>2, <2>3 DEF RecordedOK
<1>5. /\ \A u \in Tasks \ {t} : task'[u] = task[u]
      /\ \/ task'[t] = Idle
         \/ task'[t] = [task[t] EXCEPT !.pc = "sacct"] /\ disk'[j].status # "absent"
    BY <1>1 DEF Goto, Leave, TypeOK
<1>c. \E pc, n, i, k, w, row, x : task[t] = [pc |-> pc, mgr |-> n, job |-> i, kill |-> k,
                                           wait |-> w, seen |-> row, misses |-> x]
    BY DEF TypeOK, Request
<1>6. AccountOK'
    <2>1. \A i, row : RowOK(i, row)' <=> RowOK(i, row)
        BY DEF RowOK
    <2>2. CASE task'[t] = Idle
        BY <2>1, <2>2, <1>5, IdleOK DEF AccountOK, RequestOK
    <2>3. CASE task'[t] = [task[t] EXCEPT !.pc = "sacct"]
        <3>1. task'[t].job = task[t].job /\ task'[t].seen = task[t].seen
            BY <1>c, <2>3
        <3> QED
            BY <2>1, <1>5, <3>1 DEF AccountOK, RowOK
    <2> QED
        BY <1>5, <2>2, <2>3
<1>7. \A u \in Tasks \ {t} : task[u].pc \in {"sbatch", "settle"} => task[u].job # j
    BY DEF FlightOK
<1>8. task'[t].pc \in {"idle", "sacct"}
      /\ (task'[t].pc = "sacct" => disk'[task'[t].job].status # "absent")
    <2>1. CASE task'[t] = [task[t] EXCEPT !.pc = "sacct"]
        BY <1>5, <1>c, <2>1, IdleType
    <2> QED
        BY <1>5, <2>1, IdleType
<1>9. FlightOK'
    <2>1. ASSUME NEW u \in Tasks \ {t}
          PROVE  /\ task'[u].pc \in {"sbatch", "settle"}
                    => disk'[task'[u].job].status = "absent"
                 /\ task'[u].pc = "settle" => ctl'[task'[u].job] # "none"
                 /\ task'[u].pc \in {"sacct", "pause", "scancel"}
                    => disk'[task'[u].job].status # "absent"
        <3>1. task[u].job \in Jobs
            BY DEF TypeOK, Request
        <3> QED
            BY <1>1, <1>5, <1>7, <1>a, <3>1 DEF FlightOK
    <2> QED
        BY <1>5, <1>8, <2>1 DEF FlightOK
<1> QED
    BY <1>2, <1>3, <1>4, <1>6, <1>9

\* The entry settled by a row that is right of the job is true.
LEMMA SettledTrue ==
    ASSUME IInv, NEW j \in Jobs, NEW row, RowOK(j, row), row.state \in Final, row \in Row
    PROVE  EntryTrue(j, Settled(row, statusFile[j]))
BY DEF IInv, TypeOK, SlurmOK, EntryTrue, Settled, RowOK, Row, Final

\* A cancelled entry is as true as the entry it replaces.
LEMMA CancelledTrue ==
    ASSUME IInv, NEW m \in Managers, NEW j \in Jobs
    PROVE  LET e == [mem[m][j] EXCEPT !.status = "cancelled"]
           IN  EntryTrue(j, e) /\ e.status = "cancelled"
<1>1. mem[m][j] \in Entry /\ mem[m][j] \in Records(j)
    BY DEF IInv, TypeOK, Records
<1> QED
    BY <1>1 DEF IInv, RecordTruth, EntryTrue, Entry

\* What the loop does for a request in flight keeps the inductive invariant.
LEMMA WakeStep ==
    ASSUME IInv, TypeOK', NEW t \in Tasks,
           Wake(t) \/ PollDeadline(t) \/ SacctReads(t)
    PROVE  IInv'
<1> DEFINE m == task[t].mgr
           j == task[t].job
<1>a. task[t] \in Request /\ m \in Managers /\ j \in Jobs /\ RequestOK(t, task[t])
    BY RequestsOK DEF IInv, TypeOK, Request
<1>b. ASSUME NEW pc PROVE /\ [task[t] EXCEPT !.pc = pc].pc = pc
                          /\ [task[t] EXCEPT !.pc = pc].job = j
                          /\ [task[t] EXCEPT !.pc = pc].seen = task[t].seen
    BY <1>a DEF Request
<1>c. disk[j].status # "absent" => ctl[j] # "none"
    BY <1>a DEF IInv, RecordedOK
<1>1. CASE SubmitFails(t) \/ SacctFails(t) \/ NotFound(t) \/ ScancelFails(t)
    <2>1. task' = [task EXCEPT ![t] = Idle] /\ UNCHANGED <<slurm, disk, mem, told>>
        BY <1>1 DEF SubmitFails, SacctFails, NotFound, ScancelFails, Raise, Leave
    <2> QED
        BY <2>1, IdleOK, TaskSet
<1>2. CASE Submitted(t)
    <2> DEFINE r == [task[t] EXCEPT !.pc = "settle"]
    <2>1. task' = [task EXCEPT ![t] = r] /\ UNCHANGED <<slurm, disk, mem, told>>
        BY <1>2 DEF Submitted, Goto
    <2>2. RequestOK(t, r)
        BY <1>a, <1>b, <1>2 DEF Submitted, RequestOK
    <2> QED
        BY <2>1, <2>2, TaskSet
<1>3. CASE SubmitRecord(t)
    <2> DEFINE e == [status |-> "running", exit |-> "none"]
    <2>1. EntryTrue(j, e)
        BY DEF EntryTrue
    <2>2. task[t].pc = "settle" /\ Save(m, j, e) /\ Goto(t, "sacct") /\ UNCHANGED <<slurm, told>>
        BY <1>3 DEF SubmitRecord
    <2>3. disk[j].status = "absent" /\ ctl[j] # "none"
        BY <1>a, <2>2 DEF RequestOK
    <2> HIDE DEF m, j
    <2> QED
        BY <1>a, <2>1, <2>2, <2>3, SaveKeeps DEF m, j
<1>4. CASE PollSettles(t)
    <2> DEFINE e == Settled(task[t].seen, statusFile[j])
    <2>1. /\ task[t].pc = "sacct" /\ task[t].seen.state \in Final
          /\ Save(m, j, e) /\ Report(t, j, e.status) /\ UNCHANGED slurm
        BY <1>4 DEF PollSettles
    <2>2. task[t].seen \in Row /\ RowOK(j, task[t].seen)
          /\ statusFile[j] \in {"none", "ok", "err"}
        BY <1>a DEF Request, RequestOK, IInv, TypeOK
    <2>3. EntryTrue(j, e) /\ e.status \in Ended
        BY <1>a, <2>1, <2>2, SettledTrue, SettledType
    <2>4. disk[j].status # "absent"
        BY <1>a, <2>1 DEF RequestOK
    <2>5. Leave(t) /\ told' \subseteq told \cup {j}
        BY <2>1 DEF Report
    <2> HIDE DEF e
    <2> QED
        BY <1>a, <1>c, <2>1, <2>3, <2>4, <2>5, SaveKeeps
<1>5. CASE PollPauses(t)
    <2> DEFINE r == [task[t] EXCEPT !.pc = "pause", !.seen = Unread,
                                    !.misses = IF task[t].seen = NoRow THEN @ + 1 ELSE 0]
    <2>1. task' = [task EXCEPT ![t] = r] /\ UNCHANGED <<slurm, disk, mem, told>>
        BY <1>5 DEF PollPauses
    <2>2. r.pc = "pause" /\ r.job = j /\ r.seen = Unread
        BY <1>a DEF Request
    <2>3. disk[j].status # "absent"
        BY <1>a, <1>5 DEF RequestOK, PollPauses, Inconclusive
    <2>4. RequestOK(t, r)
        BY <2>2, <2>3, NothingRead DEF RequestOK
    <2> QED
        BY <2>1, <2>4, TaskSet
<1>6. CASE PollAgain(t)
    <2> DEFINE r == [task[t] EXCEPT !.pc = "sacct"]
    <2>1. task' = [task EXCEPT ![t] = r] /\ UNCHANGED <<slurm, disk, mem, told>>
        BY <1>6 DEF PollAgain, Goto
    <2>2. RequestOK(t, r)
        BY <1>a, <1>b, <1>6 DEF PollAgain, RequestOK
    <2> QED
        BY <2>1, <2>2, TaskSet
<1>7. CASE PollDeadline(t)
    <2>1. disk[j].status # "absent"
        BY <1>a, <1>7 DEF RequestOK, PollDeadline, Inconclusive
    <2>2. CASE task[t].kill
        BY <1>a, <1>7, <2>1, <2>2, CancelBodyStep DEF PollDeadline, StillRunning
    <2>3. CASE ~task[t].kill
        <3>1. task' = [task EXCEPT ![t] = Idle] /\ UNCHANGED <<slurm, disk, mem, told>>
            BY <1>7, <2>3 DEF PollDeadline, StillRunning, Leave
        <3> QED
            BY <3>1, IdleOK, TaskSet
    <2> QED
        BY <2>2, <2>3
<1>8. CASE ScancelReturns(t)
    <2> DEFINE e == [mem[m][j] EXCEPT !.status = "cancelled"]
    <2>1. /\ task[t].pc = "scancel"
          /\ Save(m, j, e) /\ Report(t, j, "cancelled") /\ UNCHANGED slurm
        BY <1>8 DEF ScancelReturns
    <2>2. EntryTrue(j, e) /\ e.status \in Ended
        BY <1>a, CancelledTrue DEF Ended
    <2>3. disk[j].status # "absent"
        BY <1>a, <2>1 DEF RequestOK
    <2>4. Leave(t) /\ told' \subseteq told \cup {j}
        BY <2>1 DEF Report
    <2> HIDE DEF e
    <2> QED
        BY <1>a, <1>c, <2>1, <2>2, <2>3, <2>4, SaveKeeps
<1>9. CASE SacctReads(t)
    <2>1. PICK row \in {acct[j], NoRow} : task' = [task EXCEPT ![t].seen = row]
        BY <1>9 DEF SacctReads
    <2> DEFINE r == [task[t] EXCEPT !.seen = row]
    <2>2. task' = [task EXCEPT ![t] = r] /\ UNCHANGED <<slurm, disk, mem, told>>
        BY <1>9, <2>1 DEF SacctReads
    <2>3. r.pc = task[t].pc /\ r.job = j /\ r.seen = row
        BY <1>a DEF Request
    <2>4. RowOK(j, row)
        BY <1>a, NothingRead DEF IInv, AccountOK
    <2>5. RequestOK(t, r)
        BY <1>a, <2>3, <2>4 DEF RequestOK
    <2> QED
        BY <2>2, <2>5, TaskSet
<1> QED
    BY <1>1, <1>2, <1>3, <1>4, <1>5, <1>6, <1>7, <1>8, <1>9 DEF Wake

\* A manager that is built knows what the disk says.
LEMMA StartStep ==
    ASSUME IInv, TypeOK', NEW m \in Managers, Start(m)
    PROVE  IInv'
<1> USE DEF IInv, Start, slurm
<1>1. (SlurmOK /\ AccountOK /\ FlightOK /\ ReportDurable)'
    BY DEF SlurmOK, AccountOK, RowOK, FlightOK, ReportDurable
<1>2. (RecordTruth /\ RecordedOK)'
    BY DEF TypeOK, RecordTruth, Records, RecordedOK
<1> QED
    BY <1>1, <1>2

\* A manager that goes away forgets, and its requests with it.
LEMMA ExitStep ==
    ASSUME IInv, TypeOK', NEW m \in Managers, Exit(m)
    PROVE  IInv'
<1> USE DEF IInv, Exit, slurm
<1>1. (SlurmOK /\ ReportDurable)'
    BY DEF SlurmOK, ReportDurable
<1>2. (RecordTruth /\ RecordedOK)'
    BY DEF TypeOK, RecordTruth, Records, RecordedOK, NoEntry, Ended
<1>3. \A t \in Tasks : task'[t] = Idle \/ task'[t] = task[t]
    BY DEF TypeOK
<1>4. AccountOK'
    BY <1>3, IdleOK DEF AccountOK, RowOK, RequestOK
<1>5. FlightOK'
    BY <1>3, IdleType DEF FlightOK
<1> QED
    BY <1>1, <1>2, <1>4, <1>5

\* What list_jobs does to the entries of m, to the records and to what clients know.
LEMMA ListWrites ==
    ASSUME IInv, NEW m \in Managers, List(m), NEW j \in Jobs
    PROVE  /\ \A n \in Managers \ {m} : mem'[n][j] = mem[n][j]
           /\ \/ mem'[m][j] = mem[m][j] /\ disk'[j] = disk[j]
              \/ /\ mem[m][j].status = "running" /\ disk[j].status # "absent"
                 /\ mem'[m][j].status \in Ended /\ disk'[j] = mem'[m][j]
                 /\ EntryTrue(j, disk'[j])
           /\ j \in told' => j \in told \/ mem'[m][j].status \in Ended
<1> USE DEF IInv, TypeOK, List
<1>1. \A n \in Managers \ {m} : mem'[n][j] = mem[n][j]
    OBVIOUS
<1>2. CASE mem[m][j].status = "running" /\ statusFile[j] # "none"
    <2>1. /\ mem'[m][j] = [status |-> IF statusFile[j] = "ok" THEN "completed"
                                      ELSE "failed",
                           exit   |-> statusFile[j]]
          /\ disk'[j] = mem'[m][j]
        BY <1>2
    <2>2. disk[j].status # "absent"
        BY <1>2 DEF RecordedOK
    <2>3. statusFile[j] \in {"ok", "err"} /\ statusFile[j] = outcome[j]
        BY <1>2 DEF SlurmOK
    <2>4. mem'[m][j].status \in Ended /\ EntryTrue(j, disk'[j])
        BY <2>1, <2>3 DEF EntryTrue, Ended
    <2> QED
        BY <1>1, <1>2, <2>1, <2>2, <2>4
<1>3. CASE ~(mem[m][j].status = "running" /\ statusFile[j] # "none")
    BY <1>3
<1> QED
    BY <1>2, <1>3

\* list_jobs keeps the inductive invariant.
LEMMA ListStep ==
    ASSUME IInv, TypeOK', NEW m \in Managers, List(m)
    PROVE  IInv'
<1>0. UNCHANGED <<slurm, task>>
    BY DEF List
<1>1. SlurmOK' /\ AccountOK'
    BY <1>0 DEF IInv, SlurmOK, AccountOK, RowOK, slurm
<1>2. RecordTruth'
    <2>1. ASSUME NEW j \in Jobs, NEW e \in Records(j)' PROVE EntryTrue(j, e)
        <3>1. \A n \in Managers : EntryTrue(j, mem[n][j]) /\ EntryTrue(j, disk[j])
            BY DEF IInv, RecordTruth, Records, EntryTrue
        <3>2. EntryTrue(j, disk'[j]) /\ EntryTrue(j, mem'[m][j])
            BY <3>1, ListWrites
        <3>3. \A n \in Managers \ {m} : EntryTrue(j, mem'[n][j])
            BY <3>1, ListWrites
        <3> QED
            BY <2>1, <3>2, <3>3 DEF Records
    <2> QED
        BY <1>0, <2>1 DEF RecordTruth, EntryTrue, slurm
<1>3. ASSUME NEW j \in Jobs
      PROVE  /\ disk'[j].status = "absent" <=> disk[j].status = "absent"
             /\ disk[j].status \in Ended => disk'[j].status \in Ended
             /\ mem'[m][j].status # "absent" => disk'[j].status # "absent"
             /\ mem'[m][j].status \in Ended => disk'[j].status \in Ended
    BY ListWrites DEF IInv, RecordedOK, Ended
<1>4. RecordedOK'
    <2>1. ASSUME NEW j \in Jobs, NEW n \in Managers
          PROVE  /\ mem'[n][j].status # "absent" => disk'[j].status # "absent"
                 /\ mem'[n][j].status \in Ended => disk'[j].status \in Ended
        <3>1. CASE n = m
            BY <1>3, <3>1
        <3>2. CASE n # m
            <4>1. mem'[n][j] = mem[n][j]
                BY <3>2, ListWrites
            <4> QED
                BY <1>3, <4>1 DEF IInv, RecordedOK
        <3> QED
            BY <3>1, <3>2
    <2>2. \A j \in Jobs : disk'[j].status # "absent" => ctl'[j] # "none"
        BY <1>0, <1>3 DEF IInv, RecordedOK, slurm
    <2> QED
        BY <2>1, <2>2 DEF RecordedOK
<1>5. ReportDurable'
    <2>1. ASSUME NEW j \in told' PROVE disk'[j].status \in Ended
        <3>1. j \in Jobs
            BY DEF TypeOK
        <3>2. j \in told \/ mem'[m][j].status \in Ended
            BY <3>1, <2>1, ListWrites
        <3> QED
            BY <1>3, <3>1, <3>2 DEF IInv, ReportDurable
    <2> QED
        BY <2>1 DEF ReportDurable
<1>6. FlightOK'
    BY <1>0, <1>3 DEF IInv, FlightOK, slurm, TypeOK, Request
<1> QED
    BY <1>1, <1>2, <1>4, <1>5, <1>6 DEF IInv

\* The inductive invariant is inductive.
LEMMA NextStep == IInv /\ [Next]_vars => IInv'
<1> SUFFICES ASSUME IInv, [Next]_vars PROVE IInv'
    OBVIOUS
<1>1. TypeOK'
    BY TypeStep DEF IInv
<1>2. CASE UNCHANGED vars
    BY <1>2
    DEF IInv, vars, slurm, TypeOK, SlurmOK, AccountOK, RowOK, RecordTruth, Records,
        RecordedOK, ReportDurable, FlightOK
<1> QED
    BY <1>1, <1>2, SlurmStep, NewRequestStep, WakeStep, StartStep, ExitStep, ListStep
    DEF Next

------------------------------------------------------------------------------
(* Theorems.                                                                *)

\* IInv is an invariant of the Slurm jobs.
THEOREM Invariance == Spec => []IInv
BY InitInv, NextStep, PTL DEF Spec

\* Every variable keeps its type.
THEOREM TypeCorrect == Spec => []TypeOK
BY Invariance, PTL DEF IInv

\* No record says of a job what neither its command nor Slurm did.
THEOREM RecordsAreTrue == Spec => []RecordTruth
BY Invariance, PTL DEF IInv

\* What a client was told of the end of a job survives any crash.
THEOREM ReportsAreDurable == Spec => []ReportDurable
BY Invariance, PTL DEF IInv

\* A record appears as "running", and is only replaced by an ended one.
MayWrite(j) == \/ disk'[j] = disk[j]
               \/ disk[j].status = "absent" /\ disk'[j].status = "running"
               \/ disk[j].status # "absent" /\ disk'[j].status \in Ended

\* No step of a manager or of Slurm writes anything else.
LEMMA DiskStep ==
    ASSUME IInv, [Next]_vars
    PROVE  \A j \in Jobs : MayWrite(j)
<1> USE DEF MayWrite
<1>1. CASE (\E j \in Jobs : Slurm(j)) \/ (\E t \in Tasks : Enqueue(t) \/ Accept(t))
    BY <1>1, SlurmGrows DEF Grows, manager
<1>2. ASSUME NEW m \in Managers, List(m) PROVE \A j \in Jobs : MayWrite(j)
    <2>1. ASSUME NEW j \in Jobs PROVE MayWrite(j)
        BY <1>2, ListWrites
    <2> QED
        BY <2>1
<1>3. ASSUME NEW t \in Tasks, NEW m \in Managers, NEW j \in Jobs, NewRequest(t, m, j)
      PROVE  UNCHANGED disk
    BY <1>3 DEF NewRequest, Submit, PollBegin, PollCached, Cancel, CancelBody
<1>4. ASSUME NEW t \in Tasks, Wake(t) \/ PollDeadline(t) \/ SacctReads(t)
      PROVE  \A j \in Jobs : MayWrite(j)
    <2>a. RequestOK(t, task[t]) /\ task[t] \in Request
        BY RequestsOK DEF IInv, TypeOK
    <2>1. ASSUME NEW e, Save(task[t].mgr, task[t].job, e)
          PROVE  /\ disk'[task[t].job] = e
                 /\ \A j \in Jobs : j # task[t].job => disk'[j] = disk[j]
        BY <2>a, <2>1 DEF Save, IInv, TypeOK, Request
    <2>2. CASE SubmitRecord(t)
        BY <2>a, <2>1, <2>2 DEF SubmitRecord, RequestOK
    <2>3. CASE PollSettles(t)
        <3>1. Settled(task[t].seen, statusFile[task[t].job]).status \in Ended
            BY <2>a, <2>3, SettledType DEF PollSettles, Request, IInv, TypeOK
        <3> QED
            BY <2>a, <2>1, <2>3, <3>1 DEF PollSettles, RequestOK
    <2>4. CASE ScancelReturns(t)
        <3>1. LET e == [mem[task[t].mgr][task[t].job] EXCEPT !.status = "cancelled"]
              IN  e.status \in Ended
            BY <2>a, CancelledTrue DEF Request, Ended
        <3> QED
            BY <2>a, <2>1, <2>4, <3>1 DEF ScancelReturns, RequestOK
    <2>5. SubmitRecord(t) \/ PollSettles(t) \/ ScancelReturns(t) \/ UNCHANGED disk
        BY <1>4
        DEF Wake, SubmitFails, Submitted, SacctFails, NotFound, PollPauses, PollAgain,
            ScancelFails, PollDeadline, StillRunning, CancelBody, SacctReads, Raise
    <2> QED
        BY <2>2, <2>3, <2>4, <2>5
<1>5. ASSUME NEW m \in Managers, Start(m) \/ Exit(m) PROVE UNCHANGED disk
    BY <1>5 DEF Start, Exit
<1>6. CASE UNCHANGED vars
    BY <1>6 DEF vars
<1> HIDE DEF MayWrite
<1>7. UNCHANGED disk => \A j \in Jobs : MayWrite(j)
    BY DEF MayWrite
<1> QED
    BY <1>1, <1>2, <1>3, <1>4, <1>5, <1>6, <1>7 DEF Next, vars

\* Only Slurm's steps end a command, and they write no record.
LEMMA OutcomeStep ==
    ASSUME IInv, [Next]_vars
    PROVE  \/ UNCHANGED outcome
           \/ /\ UNCHANGED disk
              /\ \E j \in Jobs : /\ outcome[j] = "none"
                                 /\ \E c \in {"ok", "err", "sig"} :
                                       outcome' = [outcome EXCEPT ![j] = c]
<1>1. ASSUME NEW j \in Jobs, Slurm(j), outcome' # outcome
      PROVE  /\ UNCHANGED disk /\ outcome[j] = "none"
             /\ \E c \in {"ok", "err", "sig"} : outcome' = [outcome EXCEPT ![j] = c]
    <2>1. CASE Launch(j) \/ JobEnds(j) \/ Account(j)
        BY <1>1, <2>1 DEF Launch, JobEnds, Account
    <2>2. ASSUME NEW f \in {"FAILED", "CANCELLED"}, JobKilled(j, f)
          PROVE  /\ UNCHANGED disk /\ outcome[j] = "none"
                 /\ outcome' = [outcome EXCEPT ![j] = "sig"]
        BY <1>1, <2>2 DEF JobKilled, manager, IInv, TypeOK
    <2>3. ASSUME NEW c \in {"ok", "err"}, NEW line \in {"none", c}, CommandExits(j, c, line)
          PROVE  /\ UNCHANGED disk /\ outcome[j] = "none"
                 /\ outcome' = [outcome EXCEPT ![j] = c]
        BY <2>3 DEF CommandExits, manager
    <2> QED
        BY <1>1, <2>1, <2>2, <2>3 DEF Slurm
<1>2. ASSUME NEW m \in Managers, Start(m) \/ Exit(m) \/ List(m)
      PROVE  UNCHANGED outcome
    BY <1>2 DEF Start, Exit, List, slurm
<1>3. ASSUME NEW t \in Tasks, NEW m \in Managers, NEW j \in Jobs, NewRequest(t, m, j)
      PROVE  UNCHANGED outcome
    BY <1>3 DEF NewRequest, Submit, PollBegin, PollCached, Cancel, CancelBody, slurm
<1>4. ASSUME NEW t \in Tasks, Wake(t) \/ PollDeadline(t) \/ SacctReads(t)
      PROVE  UNCHANGED outcome
    BY <1>4
    DEF Wake, SubmitFails, Submitted, SubmitRecord, SacctFails, NotFound, PollSettles,
        PollPauses, PollAgain, ScancelFails, ScancelReturns, PollDeadline, StillRunning,
        CancelBody, SacctReads, Raise, slurm
<1>5. ASSUME NEW t \in Tasks, Enqueue(t) \/ Accept(t) PROVE UNCHANGED outcome
    BY <1>5 DEF Enqueue, Accept
<1> QED
    BY <1>1, <1>2, <1>3, <1>4, <1>5 DEF Next, vars, slurm

\* The records of Slurm jobs implement the ledger too: every step writes it as it
\* allows, ends a command, or stutters.
THEOREM Refinement == Spec => ImplementsLedger
<1>1. Init => Ledger!LedgerInit
    BY DEF Init, Ledger!LedgerInit, NoEntry
<1>2. IInv /\ IInv' /\ [Next]_vars
      => [Ledger!LedgerNext]_<<[j \in Jobs |-> disk[j].status], outcome>>
    <2> SUFFICES ASSUME IInv, IInv', [Next]_vars
                 PROVE  [Ledger!LedgerNext]_<<[j \in Jobs |-> disk[j].status], outcome>>
        OBVIOUS
    <2>1. CASE UNCHANGED outcome
        <3>1. \A j \in Jobs : disk'[j].status \in Ledger!Status
            BY DEF IInv, TypeOK, Entry, Ended, Ledger!Status, Ledger!Ended
        <3>2. ASSUME NEW j \in Jobs PROVE Ledger!MayBecome(j, disk'[j].status)
            <4>1. MayWrite(j)
                BY DiskStep
            <4>2. disk'[j].status = "completed" => outcome[j] = "ok"
                BY <2>1 DEF IInv, RecordTruth, Records
            <4> QED
                BY <4>1, <4>2 DEF MayWrite, Ended, Ledger!MayBecome
        <3>3. Ledger!Write
            BY <2>1, <3>1, <3>2 DEF Ledger!Write
        <3> QED
            BY <3>3 DEF Ledger!LedgerNext
    <2>2. CASE outcome' # outcome
        <3>1. PICK j \in Jobs, c \in {"ok", "err", "sig"} :
                 /\ UNCHANGED disk /\ outcome[j] = "none"
                 /\ outcome' = [outcome EXCEPT ![j] = c]
            BY <2>2, OutcomeStep
        <3>2. Ledger!CommandEnds(j)
            BY <3>1 DEF Ledger!CommandEnds, Ledger!Outcome
        <3> QED
            BY <3>2 DEF Ledger!LedgerNext
    <2> QED
        BY <2>1, <2>2
<1> QED
    BY <1>1, <1>2, Invariance, PTL DEF Spec, ImplementsLedger, Ledger!LedgerSpec
================================================================================
