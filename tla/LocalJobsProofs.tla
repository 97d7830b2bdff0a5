---------------------------- MODULE LocalJobsProofs ----------------------------
(***************************************************************************)
(* Proofs about LocalJobs, for any managers, jobs and requests.  CoreInv   *)
(* is inductive: one lemma per action says that the action keeps it, given *)
(* that it keeps the types (TypeStep shows that apart).  The invariants    *)
(* are parts of it; the action properties and the refinement of JobLedger  *)
(* follow from what a step may write to disk and to memory.  WaitOK, the   *)
(* rest of IInv, and NothingLeftRunning come at the end.                   *)
(***************************************************************************)
EXTENDS LocalJobs, TLAPS

\* The canonical idle request is a request.
LEMMA IdleType == Idle \in Request /\ Idle.pc = "idle"
BY LocalJobsAssumption DEF Idle, Request, Pc

\* The initial state satisfies the inductive invariant.
LEMMA InitInv == Init => CoreInv
<1> SUFFICES ASSUME Init PROVE CoreInv
    OBVIOUS
<1>1. TypeOK
    BY IdleType, LocalJobsAssumption
    DEF Init, TypeOK, Phase, Outcome, Entry, Status, Ended, NoEntry, NoFix
<1>2. ProcessOK /\ RecordedOK /\ LifeOK /\ FixOK /\ AdoptedOK /\ DurableOK /\ ReportDurable
    BY DEF Init, ProcessOK, RecordedOK, LifeOK, FixOK, AdoptedOK, DurableOK,
           ReportDurable, NoEntry, NoFix, Ended
<1>3. RecordTruth /\ CancelledIsStopped
    BY DEF Init, RecordTruth, CancelledIsStopped, Records, NoEntry
<1>4. FlightOK
    BY IdleType DEF Init, FlightOK
<1> QED
    BY <1>1, <1>2, <1>3, <1>4 DEF CoreInv

\* ExecBwrap keeps the inductive invariant.
LEMMA ExecBwrapStep ==
    ASSUME CoreInv, TypeOK', NEW j \in Jobs,
           ExecBwrap(j)
    PROVE  CoreInv'
<1> USE DEF CoreInv, ExecBwrap
<1>1. (ProcessOK /\ RecordedOK /\ LifeOK /\ FixOK)'
    BY DEF TypeOK, ProcessOK, RecordedOK, LifeOK, FixOK, FlightOK, Ended
<1>2. (AdoptedOK /\ DurableOK /\ ReportDurable)'
    BY DEF TypeOK, RecordedOK, LifeOK, FixOK, AdoptedOK, DurableOK, ReportDurable,
       FlightOK, Ended
<1>3. (RecordTruth /\ CancelledIsStopped)'
    BY DEF TypeOK, ProcessOK, FixOK, RecordTruth, CancelledIsStopped, Records,
       Entry, Outcome
<1>4. FlightOK'
    BY DEF TypeOK, RecordedOK, LifeOK, FixOK, FlightOK, Request, Ended
<1> QED
    BY <1>1, <1>2, <1>3, <1>4

\* WriteExit keeps the inductive invariant.
LEMMA WriteExitStep ==
    ASSUME CoreInv, TypeOK', NEW j \in Jobs, NEW c \in {"ok", "err"},
           WriteExit(j, c)
    PROVE  CoreInv'
<1> USE DEF CoreInv, WriteExit
<1>1. (ProcessOK /\ RecordedOK /\ LifeOK /\ FixOK)'
    BY DEF TypeOK, ProcessOK, RecordedOK, LifeOK, FixOK, FlightOK, Ended
<1>2. (AdoptedOK /\ DurableOK /\ ReportDurable)'
    BY DEF TypeOK, RecordedOK, LifeOK, FixOK, AdoptedOK, DurableOK, ReportDurable,
       FlightOK, Ended
<1>3. (RecordTruth /\ CancelledIsStopped)'
    BY DEF TypeOK, ProcessOK, FixOK, RecordTruth, CancelledIsStopped, Records,
       Entry, Outcome
<1>4. FlightOK'
    BY DEF TypeOK, RecordedOK, LifeOK, FixOK, FlightOK, Request, Ended
<1> QED
    BY <1>1, <1>2, <1>3, <1>4

\* EndSilently keeps the inductive invariant.
LEMMA EndSilentlyStep ==
    ASSUME CoreInv, TypeOK', NEW j \in Jobs, NEW c \in {"ok", "err"},
           EndSilently(j, c)
    PROVE  CoreInv'
<1> USE DEF CoreInv, EndSilently
<1>1. (ProcessOK /\ RecordedOK /\ LifeOK /\ FixOK)'
    BY DEF TypeOK, ProcessOK, RecordedOK, LifeOK, FixOK, FlightOK, Ended
<1>2. (AdoptedOK /\ DurableOK /\ ReportDurable)'
    BY DEF TypeOK, RecordedOK, LifeOK, FixOK, AdoptedOK, DurableOK, ReportDurable,
       FlightOK, Ended
<1>3. (RecordTruth /\ CancelledIsStopped)'
    BY DEF TypeOK, ProcessOK, FixOK, RecordTruth, CancelledIsStopped, Records,
       Entry, Outcome
<1>4. FlightOK'
    BY DEF TypeOK, RecordedOK, LifeOK, FixOK, FlightOK, Request, Ended
<1> QED
    BY <1>1, <1>2, <1>3, <1>4

\* Die keeps the inductive invariant.
LEMMA DieStep ==
    ASSUME CoreInv, TypeOK', NEW j \in Jobs,
           Die(j)
    PROVE  CoreInv'
<1> USE DEF CoreInv, Die, Live
<1>1. (ProcessOK /\ RecordedOK /\ LifeOK /\ FixOK)'
    BY DEF TypeOK, ProcessOK, RecordedOK, LifeOK, FixOK, FlightOK, Ended
<1>2. (AdoptedOK /\ DurableOK /\ ReportDurable)'
    BY DEF TypeOK, RecordedOK, LifeOK, FixOK, AdoptedOK, DurableOK, ReportDurable,
       FlightOK, Ended
<1>3. (RecordTruth /\ CancelledIsStopped)'
    BY DEF TypeOK, ProcessOK, FixOK, RecordTruth, CancelledIsStopped, Records,
       Entry, Outcome
<1>4. FlightOK'
    BY DEF TypeOK, RecordedOK, LifeOK, FixOK, FlightOK, Request, Ended
<1> QED
    BY <1>1, <1>2, <1>3, <1>4

\* Reap keeps the inductive invariant.
LEMMA ReapStep ==
    ASSUME CoreInv, TypeOK', NEW j \in Jobs,
           Reap(j)
    PROVE  CoreInv'
<1> USE DEF CoreInv, Reap
<1>1. (ProcessOK /\ RecordedOK /\ LifeOK /\ FixOK)'
    BY DEF TypeOK, ProcessOK, RecordedOK, LifeOK, FixOK, FlightOK, Ended
<1>2. (AdoptedOK /\ DurableOK /\ ReportDurable)'
    BY DEF TypeOK, RecordedOK, LifeOK, FixOK, AdoptedOK, DurableOK, ReportDurable,
       FlightOK, Ended
<1>3. (RecordTruth /\ CancelledIsStopped)'
    BY DEF TypeOK, ProcessOK, FixOK, RecordTruth, CancelledIsStopped, Records,
       Entry, Outcome
<1>4. FlightOK'
    BY DEF TypeOK, RecordedOK, LifeOK, FixOK, FlightOK, Request, Ended
<1> QED
    BY <1>1, <1>2, <1>3, <1>4

\* Start keeps the inductive invariant.
LEMMA StartStep ==
    ASSUME CoreInv, TypeOK', NEW m \in Managers,
           Start(m)
    PROVE  CoreInv'
<1> USE DEF CoreInv, Start
<1>1. (ProcessOK /\ RecordedOK /\ LifeOK /\ FixOK)'
    BY DEF TypeOK, ProcessOK, RecordedOK, LifeOK, FixOK, FlightOK, Ended
<1>2. (AdoptedOK /\ DurableOK /\ ReportDurable)'
    BY DEF TypeOK, RecordedOK, LifeOK, FixOK, AdoptedOK, DurableOK, ReportDurable,
       FlightOK, Ended
<1>3. (RecordTruth /\ CancelledIsStopped)'
    BY DEF TypeOK, ProcessOK, FixOK, RecordTruth, CancelledIsStopped, Records,
       Entry, Outcome
<1>4. FlightOK'
    BY DEF TypeOK, RecordedOK, LifeOK, FixOK, FlightOK, Request, Ended
<1> QED
    BY <1>1, <1>2, <1>3, <1>4

\* FixRead keeps the inductive invariant.
LEMMA FixReadStep ==
    ASSUME CoreInv, TypeOK', NEW m \in Managers, NEW j \in Jobs,
           FixRead(m, j)
    PROVE  CoreInv'
<1> USE DEF CoreInv, FixRead, Finished, Settle
<1>1. (ProcessOK /\ RecordedOK /\ LifeOK /\ FixOK)'
    BY DEF TypeOK, ProcessOK, RecordedOK, LifeOK, FixOK, FlightOK, Ended
<1>2. (AdoptedOK /\ DurableOK /\ ReportDurable)'
    BY DEF TypeOK, RecordedOK, LifeOK, FixOK, AdoptedOK, DurableOK, ReportDurable,
       FlightOK, Ended
<1>3. (RecordTruth /\ CancelledIsStopped)'
    BY DEF TypeOK, ProcessOK, FixOK, RecordTruth, CancelledIsStopped, Records,
       Entry, Outcome
<1>4. FlightOK'
    BY DEF TypeOK, RecordedOK, LifeOK, FixOK, FlightOK, Request, Ended
<1> QED
    BY <1>1, <1>2, <1>3, <1>4

\* FixAlive keeps the inductive invariant.
LEMMA FixAliveStep ==
    ASSUME CoreInv, TypeOK', NEW m \in Managers, NEW j \in Jobs,
           FixAlive(m, j)
    PROVE  CoreInv'
<1> USE DEF CoreInv, FixAlive, IsBwrapAlive
<1>1. (ProcessOK /\ RecordedOK /\ LifeOK /\ FixOK)'
    BY DEF TypeOK, ProcessOK, RecordedOK, LifeOK, FixOK, FlightOK, Ended
<1>2. (AdoptedOK /\ DurableOK /\ ReportDurable)'
    BY DEF TypeOK, RecordedOK, LifeOK, FixOK, AdoptedOK, DurableOK, ReportDurable,
       FlightOK, Ended
<1>3. (RecordTruth /\ CancelledIsStopped)'
    BY DEF TypeOK, ProcessOK, FixOK, RecordTruth, CancelledIsStopped, Records,
       Entry, Outcome
<1>4. FlightOK'
    BY DEF TypeOK, RecordedOK, LifeOK, FixOK, FlightOK, Request, Ended
<1> QED
    BY <1>1, <1>2, <1>3, <1>4

\* FixDead keeps the inductive invariant.
LEMMA FixDeadStep ==
    ASSUME CoreInv, TypeOK', NEW m \in Managers, NEW j \in Jobs,
           FixDead(m, j)
    PROVE  CoreInv'
<1> USE DEF CoreInv, FixDead
<1>1. (ProcessOK /\ RecordedOK /\ LifeOK /\ FixOK)'
    BY DEF TypeOK, ProcessOK, RecordedOK, LifeOK, FixOK, FlightOK, Ended
<1>2. (AdoptedOK /\ DurableOK /\ ReportDurable)'
    BY DEF TypeOK, RecordedOK, LifeOK, FixOK, AdoptedOK, DurableOK, ReportDurable,
       FlightOK, Ended
<1>3. (RecordTruth /\ CancelledIsStopped)'
    BY DEF TypeOK, ProcessOK, FixOK, RecordTruth, CancelledIsStopped, Records,
       Entry, Outcome
<1>4. FlightOK'
    BY DEF TypeOK, RecordedOK, LifeOK, FixOK, FlightOK, Request, Ended
<1> QED
    BY <1>1, <1>2, <1>3, <1>4

\* FixSave keeps the inductive invariant.
LEMMA FixSaveStep ==
    ASSUME CoreInv, TypeOK', NEW m \in Managers, NEW j \in Jobs,
           FixSave(m, j)
    PROVE  CoreInv'
<1> USE DEF CoreInv, FixSave
<1>a. /\ mem[m][j].status \in Ended /\ disk[j].status # "absent"
      /\ disk' = [disk EXCEPT ![j] = mem[m][j]]
    BY DEF FixOK, RecordedOK, Ended
<1>1. (ProcessOK /\ RecordedOK /\ LifeOK /\ FixOK)'
    BY <1>a DEF TypeOK, ProcessOK, RecordedOK, LifeOK, FixOK, FlightOK, Ended
<1>2. (AdoptedOK /\ DurableOK /\ ReportDurable)'
    BY DEF TypeOK, RecordedOK, LifeOK, FixOK, AdoptedOK, DurableOK, ReportDurable,
       FlightOK, Ended
<1>3. (RecordTruth /\ CancelledIsStopped)'
    BY DEF TypeOK, ProcessOK, FixOK, RecordTruth, CancelledIsStopped, Records,
       Entry, Outcome
<1>4. FlightOK'
    BY <1>a DEF TypeOK, RecordedOK, LifeOK, FixOK, FlightOK, Request, Ended
<1> QED
    BY <1>1, <1>2, <1>3, <1>4

\* FixDone keeps the inductive invariant.
LEMMA FixDoneStep ==
    ASSUME CoreInv, TypeOK', NEW m \in Managers,
           FixDone(m)
    PROVE  CoreInv'
<1> USE DEF CoreInv, FixDone
<1>a. NoFix.todo = {} /\ NoFix.probing = {} /\ NoFix.changed = {}
    BY DEF NoFix
<1>1. (ProcessOK /\ RecordedOK /\ LifeOK /\ FixOK)'
    BY <1>a DEF TypeOK, ProcessOK, RecordedOK, LifeOK, FixOK, FlightOK, Ended
<1>2. (AdoptedOK /\ DurableOK /\ ReportDurable)'
    BY <1>a DEF TypeOK, RecordedOK, LifeOK, FixOK, AdoptedOK, DurableOK,
       ReportDurable, FlightOK, Ended
<1>3. (RecordTruth /\ CancelledIsStopped)'
    BY DEF TypeOK, ProcessOK, FixOK, RecordTruth, CancelledIsStopped, Records,
       Entry, Outcome
<1>4. FlightOK'
    BY DEF TypeOK, RecordedOK, LifeOK, FixOK, FlightOK, Request, Ended
<1> QED
    BY <1>1, <1>2, <1>3, <1>4

\* Exit keeps the inductive invariant.
LEMMA ExitStep ==
    ASSUME CoreInv, TypeOK', NEW m \in Managers,
           Exit(m)
    PROVE  CoreInv'
<1> USE DEF CoreInv, Exit, NoEntry
<1>a. NoFix.todo = {} /\ NoFix.probing = {} /\ NoFix.changed = {}
    BY DEF NoFix
<1>1. (ProcessOK /\ RecordedOK /\ LifeOK /\ FixOK)'
    BY <1>a DEF TypeOK, ProcessOK, RecordedOK, LifeOK, FixOK, FlightOK, Ended
<1>2. (AdoptedOK /\ DurableOK /\ ReportDurable)'
    BY <1>a DEF TypeOK, RecordedOK, LifeOK, FixOK, AdoptedOK, DurableOK,
       ReportDurable, FlightOK, Ended
<1>3. (RecordTruth /\ CancelledIsStopped)'
    BY DEF TypeOK, ProcessOK, FixOK, RecordTruth, CancelledIsStopped, Records,
       Entry, Outcome
<1>4. FlightOK'
    BY IdleType DEF TypeOK, RecordedOK, LifeOK, FixOK, FlightOK, Request, Ended
<1> QED
    BY <1>1, <1>2, <1>3, <1>4

\* Submit keeps the inductive invariant.
LEMMA SubmitStep ==
    ASSUME CoreInv, TypeOK', NEW t \in Tasks, NEW m \in Managers, NEW j \in Jobs,
           NEW k \in BOOLEAN,
           Submit(t, m, j, k)
    PROVE  CoreInv'
<1> USE DEF CoreInv, Submit, Turn, Begin
<1>1. (ProcessOK /\ RecordedOK /\ LifeOK /\ FixOK)'
    BY DEF TypeOK, ProcessOK, RecordedOK, LifeOK, FixOK, FlightOK, Ended
<1>2. (AdoptedOK /\ DurableOK /\ ReportDurable)'
    BY DEF TypeOK, RecordedOK, LifeOK, FixOK, AdoptedOK, DurableOK, ReportDurable,
       FlightOK, Ended
<1>3. (RecordTruth /\ CancelledIsStopped)'
    BY DEF TypeOK, ProcessOK, FixOK, RecordTruth, CancelledIsStopped, Records,
       Entry, Outcome
<1>4. FlightOK'
    BY DEF TypeOK, RecordedOK, LifeOK, FixOK, FlightOK, Request, Ended
<1> QED
    BY <1>1, <1>2, <1>3, <1>4

\* Spawn keeps the inductive invariant.
LEMMA SpawnStep ==
    ASSUME CoreInv, TypeOK', NEW t \in Tasks,
           Spawn(t)
    PROVE  CoreInv'
<1> USE DEF CoreInv, Spawn
<1>1. (ProcessOK /\ RecordedOK /\ LifeOK /\ FixOK)'
    BY DEF TypeOK, ProcessOK, RecordedOK, LifeOK, FixOK, FlightOK, Ended
<1>2. (AdoptedOK /\ DurableOK /\ ReportDurable)'
    BY DEF TypeOK, RecordedOK, LifeOK, FixOK, AdoptedOK, DurableOK, ReportDurable,
       FlightOK, Ended
<1>3. (RecordTruth /\ CancelledIsStopped)'
    BY DEF TypeOK, ProcessOK, FixOK, RecordTruth, CancelledIsStopped, Records,
       Entry, Outcome
<1>4. FlightOK'
    BY DEF TypeOK, RecordedOK, LifeOK, FixOK, FlightOK, Request, Ended
<1> QED
    BY <1>1, <1>2, <1>3, <1>4

\* SubmitRecord keeps the inductive invariant.
LEMMA SubmitRecordStep ==
    ASSUME CoreInv, TypeOK', NEW t \in Tasks, NEW m \in Managers, NEW j \in Jobs,
           task[t].mgr = m, task[t].job = j,
           SubmitRecord(t, m, j)
    PROVE  CoreInv'
<1> USE DEF CoreInv, SubmitRecord, Turn, Save, Goto
<1>a. fix[m].todo = {} /\ fix[m].probing = {} /\ fix[m].changed = {}
    BY DEF LifeOK, NoFix, Turn
<1>1. (ProcessOK /\ RecordedOK /\ LifeOK /\ FixOK)'
    BY <1>a DEF TypeOK, ProcessOK, RecordedOK, LifeOK, FixOK, FlightOK, Ended
<1>2. (AdoptedOK /\ DurableOK /\ ReportDurable)'
    BY DEF TypeOK, RecordedOK, LifeOK, FixOK, AdoptedOK, DurableOK, ReportDurable,
       FlightOK, Ended
<1>3. (RecordTruth /\ CancelledIsStopped)'
    BY DEF TypeOK, ProcessOK, FixOK, RecordTruth, CancelledIsStopped, Records,
       Entry, Outcome
<1>4. FlightOK'
    BY DEF TypeOK, RecordedOK, LifeOK, FixOK, FlightOK, Request, Ended
<1> QED
    BY <1>1, <1>2, <1>3, <1>4

\* PollCached keeps the inductive invariant.
LEMMA PollCachedStep ==
    ASSUME CoreInv, TypeOK', NEW t \in Tasks, NEW m \in Managers, NEW j \in Jobs,
           PollCached(t, m, j)
    PROVE  CoreInv'
<1> USE DEF CoreInv, PollCached, Turn, Report, Leave
<1>a. fix[m].todo = {} /\ fix[m].probing = {} /\ fix[m].changed = {}
    BY DEF LifeOK, NoFix, Turn
<1>1. (ProcessOK /\ RecordedOK /\ LifeOK /\ FixOK)'
    BY DEF TypeOK, ProcessOK, RecordedOK, LifeOK, FixOK, FlightOK, Ended
<1>2. (AdoptedOK /\ DurableOK /\ ReportDurable)'
    BY <1>a DEF TypeOK, RecordedOK, LifeOK, FixOK, AdoptedOK, DurableOK,
       ReportDurable, FlightOK, Ended
<1>3. (RecordTruth /\ CancelledIsStopped)'
    BY DEF TypeOK, ProcessOK, FixOK, RecordTruth, CancelledIsStopped, Records,
       Entry, Outcome
<1>4. FlightOK'
    BY IdleType DEF TypeOK, RecordedOK, LifeOK, FixOK, FlightOK, Request, Ended
<1> QED
    BY <1>1, <1>2, <1>3, <1>4

\* PollBegin keeps the inductive invariant.
LEMMA PollBeginStep ==
    ASSUME CoreInv, TypeOK', NEW t \in Tasks, NEW m \in Managers, NEW j \in Jobs,
           NEW k \in BOOLEAN, NEW p \in BOOLEAN,
           PollBegin(t, m, j, k, p)
    PROVE  CoreInv'
<1> USE DEF CoreInv, PollBegin, Turn
<1>1. (ProcessOK /\ RecordedOK /\ LifeOK /\ FixOK)'
    BY DEF TypeOK, ProcessOK, RecordedOK, LifeOK, FixOK, FlightOK, Ended
<1>2. (AdoptedOK /\ DurableOK /\ ReportDurable)'
    BY DEF TypeOK, RecordedOK, LifeOK, FixOK, AdoptedOK, DurableOK, ReportDurable,
       FlightOK, Ended
<1>3. (RecordTruth /\ CancelledIsStopped)'
    BY DEF TypeOK, ProcessOK, FixOK, RecordTruth, CancelledIsStopped, Records,
       Entry, Outcome
<1>4. FlightOK'
    BY DEF TypeOK, RecordedOK, LifeOK, FixOK, FlightOK, Request, Ended
<1> QED
    BY <1>1, <1>2, <1>3, <1>4

\* List keeps the inductive invariant.
LEMMA ListStep ==
    ASSUME CoreInv, TypeOK', NEW m \in Managers,
           List(m)
    PROVE  CoreInv'
<1> USE DEF CoreInv, List, Turn, Running, Finished, Settle
<1>a. fix[m].todo = {} /\ fix[m].probing = {} /\ fix[m].changed = {}
    BY DEF LifeOK, NoFix, Turn
<1>1. (ProcessOK /\ RecordedOK /\ LifeOK /\ FixOK)'
    BY <1>a DEF TypeOK, ProcessOK, RecordedOK, LifeOK, FixOK, FlightOK, Ended
<1>2. (AdoptedOK /\ DurableOK /\ ReportDurable)'
    BY <1>a DEF TypeOK, RecordedOK, LifeOK, FixOK, AdoptedOK, DurableOK,
       ReportDurable, FlightOK, Ended
<1>3. (RecordTruth /\ CancelledIsStopped)'
    BY DEF TypeOK, ProcessOK, FixOK, RecordTruth, CancelledIsStopped, Records,
       Entry, Outcome
<1>4. FlightOK'
    BY DEF TypeOK, RecordedOK, LifeOK, FixOK, FlightOK, Request, Ended
<1> QED
    BY <1>1, <1>2, <1>3, <1>4

\* PollFinish keeps the inductive invariant.
LEMMA PollFinishStep ==
    ASSUME CoreInv, TypeOK', NEW t \in Tasks, NEW m \in Managers, NEW j \in Jobs,
           NEW e \in Entry, task[t].mgr = m, task[t].job = j,
           task[t].pc \notin {"idle", "spawn"},
           e.status \in {"completed", "failed"},
           e.exit \in {"none", "lost", outcome[j]},
           (e.status = "completed") <=> (e.exit = "ok"),
           PollFinish(t, m, j, e)
    PROVE  CoreInv'
<1> USE DEF CoreInv, PollFinish, Save, Report, Leave
<1>a. fix[m].todo = {} /\ fix[m].probing = {} /\ fix[m].changed = {}
    BY DEF LifeOK, NoFix, FlightOK
<1>1. (ProcessOK /\ RecordedOK /\ LifeOK /\ FixOK)'
    BY <1>a DEF TypeOK, ProcessOK, RecordedOK, LifeOK, FixOK, FlightOK, Ended
<1>2. (AdoptedOK /\ DurableOK /\ ReportDurable)'
    BY <1>a DEF TypeOK, RecordedOK, LifeOK, FixOK, AdoptedOK, DurableOK,
       ReportDurable, FlightOK, Ended
<1>3. (RecordTruth /\ CancelledIsStopped)'
    BY DEF TypeOK, ProcessOK, FixOK, RecordTruth, CancelledIsStopped, Records,
       Entry, Outcome
<1>4. FlightOK'
    BY IdleType DEF TypeOK, RecordedOK, LifeOK, FixOK, FlightOK, Request, Ended
<1> QED
    BY <1>1, <1>2, <1>3, <1>4

\* MarkCancelled keeps the inductive invariant.
LEMMA MarkCancelledStep ==
    ASSUME CoreInv, TypeOK', NEW t \in Tasks, NEW m \in Managers, NEW j \in Jobs,
           up[m] = "up", disk[j].status # "absent",
           phase[j] = "gone" \/ signal'[j] # "none",
           UNCHANGED signal \/ SendKill(j),
           UNCHANGED handles \/ handles' = [handles EXCEPT ![m] = @ \ {j}],
           MarkCancelled(t, m, j)
    PROVE  CoreInv'
<1> USE DEF CoreInv, MarkCancelled, SendKill, Save, Report, Leave
<1>a. fix[m].todo = {} /\ fix[m].probing = {} /\ fix[m].changed = {}
    BY DEF LifeOK, NoFix
<1>b. /\ disk'[j].exit = mem[m][j].exit /\ disk'[j].status = "cancelled"
      /\ mem'[m][j] = disk'[j]
      /\ \A n \in Managers, i \in Jobs : n # m \/ i # j => mem'[n][i] = mem[n][i]
      /\ \A i \in Jobs : i # j => disk'[i] = disk[i]
      /\ UNCHANGED outcome
    BY DEF TypeOK, Entry
<1>1. (ProcessOK /\ RecordedOK /\ LifeOK /\ FixOK)'
    BY <1>a DEF TypeOK, ProcessOK, RecordedOK, LifeOK, FixOK, FlightOK, Ended
<1>2. (AdoptedOK /\ DurableOK /\ ReportDurable)'
    BY <1>a DEF TypeOK, RecordedOK, LifeOK, FixOK, AdoptedOK, DurableOK,
       ReportDurable, FlightOK, Ended
<1>3. (RecordTruth /\ CancelledIsStopped)'
    BY <1>b DEF TypeOK, ProcessOK, FixOK, RecordTruth, CancelledIsStopped, Records,
       Entry, Outcome
<1>4. FlightOK'
    BY IdleType DEF TypeOK, RecordedOK, LifeOK, FixOK, FlightOK, Request, Ended
<1> QED
    BY <1>1, <1>2, <1>3, <1>4

\* FlightOK when a request moves on to wait for a process it has just signalled.
LEMMA SignalledFlight ==
    ASSUME TypeOK, FlightOK, NEW t \in Tasks, NEW m \in Managers, NEW j \in Jobs,
           up[m] = "up", disk[j].status # "absent", signal'[j] # "none",
           task'[t].pc \in {"term", "kill", "termPid"},
           task'[t].mgr = m, task'[t].job = j,
           \A u \in Tasks : u # t => task'[u] = task[u],
           \A i \in Jobs : signal[i] # "none" => signal'[i] # "none",
           UNCHANGED <<up, disk>>
    PROVE  FlightOK'
<1>1. ASSUME NEW u \in Tasks, u # t
      PROVE  /\ task'[u] = task[u] /\ task[u].job \in Jobs
    BY <1>1 DEF TypeOK, Request
<1> QED
    BY <1>1 DEF FlightOK

\* CancelHandleSignals keeps the inductive invariant.
LEMMA CancelHandleSignals ==
    ASSUME CoreInv, TypeOK', NEW t \in Tasks, NEW m \in Managers, NEW j \in Jobs,
           NEW k \in BOOLEAN, up[m] = "up", disk[j].status # "absent", j \notin reaped,
           CancelHandle(t, m, j, k)
    PROVE  CoreInv'
<1> USE DEF CoreInv, CancelHandle, SendTerm, Begin
<1>a. signal'[j] # "none" /\ \A i \in Jobs : signal[i] # "none" => signal'[i] # "none"
    BY DEF TypeOK
<1>b. /\ task'[t].pc = "term" /\ task'[t].mgr = m /\ task'[t].job = j
      /\ \A u \in Tasks : u # t => task'[u] = task[u]
      /\ UNCHANGED <<up, disk>>
    BY DEF TypeOK, Request
<1>1. (ProcessOK /\ RecordedOK /\ LifeOK /\ FixOK)'
    BY DEF TypeOK, ProcessOK, RecordedOK, LifeOK, FixOK, FlightOK, Ended
<1>2. (AdoptedOK /\ DurableOK /\ ReportDurable)'
    BY <1>a DEF TypeOK, RecordedOK, LifeOK, FixOK, AdoptedOK, DurableOK,
       ReportDurable, FlightOK, Ended
<1>3. (RecordTruth /\ CancelledIsStopped)'
    BY <1>a DEF TypeOK, ProcessOK, FixOK, RecordTruth, CancelledIsStopped, Records,
       Entry, Outcome
<1>4. FlightOK'
    BY <1>a, <1>b, SignalledFlight
<1> QED
    BY <1>1, <1>2, <1>3, <1>4

\* CancelPidSignals keeps the inductive invariant.
LEMMA CancelPidSignals ==
    ASSUME CoreInv, TypeOK', NEW t \in Tasks, NEW m \in Managers, NEW j \in Jobs,
           NEW k \in BOOLEAN, up[m] = "up", disk[j].status # "absent", IsBwrapAlive(j),
           CancelPid(t, m, j, k)
    PROVE  CoreInv'
<1> USE DEF CoreInv, CancelPid, SendTerm, Begin
<1>a. signal'[j] # "none" /\ \A i \in Jobs : signal[i] # "none" => signal'[i] # "none"
    BY DEF TypeOK
<1>b. /\ task'[t].pc = "termPid" /\ task'[t].mgr = m /\ task'[t].job = j
      /\ \A u \in Tasks : u # t => task'[u] = task[u]
      /\ UNCHANGED <<up, disk>>
    BY DEF TypeOK, Request
<1>1. (ProcessOK /\ RecordedOK /\ LifeOK /\ FixOK)'
    BY DEF TypeOK, ProcessOK, RecordedOK, LifeOK, FixOK, FlightOK, Ended
<1>2. (AdoptedOK /\ DurableOK /\ ReportDurable)'
    BY <1>a DEF TypeOK, RecordedOK, LifeOK, FixOK, AdoptedOK, DurableOK,
       ReportDurable, FlightOK, Ended
<1>3. (RecordTruth /\ CancelledIsStopped)'
    BY <1>a DEF TypeOK, ProcessOK, FixOK, RecordTruth, CancelledIsStopped, Records,
       Entry, Outcome
<1>4. FlightOK'
    BY <1>a, <1>b, SignalledFlight
<1> QED
    BY <1>1, <1>2, <1>3, <1>4

\* CancelWakeSignals keeps the inductive invariant.
LEMMA CancelWakeSignals ==
    ASSUME CoreInv, TypeOK', NEW t \in Tasks, NEW m \in Managers, NEW j \in Jobs,
           up[m] = "up", disk[j].status # "absent",
           task[t].mgr = m, task[t].job = j, j \notin reaped,
           CancelWake(t, m, j)
    PROVE  CoreInv'
<1> USE DEF CoreInv, Turn, CancelWake, SendKill, Goto
<1>a. signal'[j] # "none" /\ \A i \in Jobs : signal[i] # "none" => signal'[i] # "none"
    BY DEF TypeOK
<1>b. /\ task'[t].pc = "kill" /\ task'[t].mgr = m /\ task'[t].job = j
      /\ \A u \in Tasks : u # t => task'[u] = task[u]
      /\ UNCHANGED <<up, disk>>
    BY DEF TypeOK, Request
<1>1. (ProcessOK /\ RecordedOK /\ LifeOK /\ FixOK)'
    BY DEF TypeOK, ProcessOK, RecordedOK, LifeOK, FixOK, FlightOK, Ended
<1>2. (AdoptedOK /\ DurableOK /\ ReportDurable)'
    BY <1>a DEF TypeOK, RecordedOK, LifeOK, FixOK, AdoptedOK, DurableOK,
       ReportDurable, FlightOK, Ended
<1>3. (RecordTruth /\ CancelledIsStopped)'
    BY <1>a DEF TypeOK, ProcessOK, FixOK, RecordTruth, CancelledIsStopped, Records,
       Entry, Outcome
<1>4. FlightOK'
    BY <1>a, <1>b, SignalledFlight
<1> QED
    BY <1>1, <1>2, <1>3, <1>4

\* PollWait keeps the inductive invariant.
LEMMA PollWaitStep ==
    ASSUME CoreInv, TypeOK', NEW t \in Tasks, NEW m \in Managers, NEW j \in Jobs,
           task[t].mgr = m, task[t].job = j, task[t].pc \in {"read", "check"},
           NEW pc \in {"read", "check"}, Goto(t, pc),
           UNCHANGED <<phase, outcome, statusFile, signal, reaped,
                       disk, up, mem, handles, fix, starts, told>>
    PROVE  CoreInv'
<1> USE DEF CoreInv, Goto
<1>1. (ProcessOK /\ RecordedOK /\ LifeOK /\ FixOK)'
    BY DEF TypeOK, ProcessOK, RecordedOK, LifeOK, FixOK, FlightOK, Ended
<1>2. (AdoptedOK /\ DurableOK /\ ReportDurable)'
    BY DEF TypeOK, RecordedOK, LifeOK, FixOK, AdoptedOK, DurableOK, ReportDurable,
       FlightOK, Ended
<1>3. (RecordTruth /\ CancelledIsStopped)'
    BY DEF TypeOK, ProcessOK, FixOK, RecordTruth, CancelledIsStopped, Records,
       Entry, Outcome
<1>4. FlightOK'
    BY DEF TypeOK, RecordedOK, LifeOK, FixOK, FlightOK, Request, Ended
<1> QED
    BY <1>1, <1>2, <1>3, <1>4

\* Return keeps the inductive invariant.
LEMMA ReturnStep ==
    ASSUME CoreInv, TypeOK', NEW t \in Tasks, NEW m \in Managers, NEW j \in Jobs,
           up[m] = "up", NEW s \in {"running", mem[m][j].status}, Report(t, j, s),
           UNCHANGED <<phase, outcome, statusFile, signal, reaped,
                       disk, up, mem, handles, fix, starts>>
    PROVE  CoreInv'
<1> USE DEF CoreInv, Report, Leave
<1>a. fix[m].todo = {} /\ fix[m].probing = {} /\ fix[m].changed = {}
    BY DEF LifeOK, NoFix
<1>1. (ProcessOK /\ RecordedOK /\ LifeOK /\ FixOK)'
    BY DEF TypeOK, ProcessOK, RecordedOK, LifeOK, FixOK, FlightOK, Ended
<1>2. (AdoptedOK /\ DurableOK /\ ReportDurable)'
    BY <1>a DEF TypeOK, RecordedOK, LifeOK, FixOK, AdoptedOK, DurableOK,
       ReportDurable, FlightOK, Ended
<1>3. (RecordTruth /\ CancelledIsStopped)'
    BY DEF TypeOK, ProcessOK, FixOK, RecordTruth, CancelledIsStopped, Records,
       Entry, Outcome
<1>4. FlightOK'
    BY IdleType DEF TypeOK, RecordedOK, LifeOK, FixOK, FlightOK, Request, Ended
<1> QED
    BY <1>1, <1>2, <1>3, <1>4

\* CancelHandle: the job is ended at once if the process was reaped, else signalled.
LEMMA CancelHandleStep ==
    ASSUME CoreInv, TypeOK', NEW t \in Tasks, NEW m \in Managers, NEW j \in Jobs,
           NEW k \in BOOLEAN, Turn(m), CancelHandle(t, m, j, k)
    PROVE  CoreInv'
<1>1. up[m] = "up" /\ disk[j].status # "absent"
    BY DEF CoreInv, Turn, CancelHandle, RecordedOK
<1>2. CASE j \in reaped
    <2>1. phase[j] = "gone"
        BY <1>2 DEF CoreInv, ProcessOK
    <2> QED
        BY <1>1, <1>2, <2>1, MarkCancelledStep DEF CancelHandle
<1>3. CASE j \notin reaped
    BY <1>1, <1>3, CancelHandleSignals
<1> QED
    BY <1>2, <1>3

\* CancelPid: a job not found alive is gone or signalled, since it was adopted.
LEMMA CancelPidStep ==
    ASSUME CoreInv, TypeOK', NEW t \in Tasks, NEW m \in Managers, NEW j \in Jobs,
           NEW k \in BOOLEAN, Turn(m), CancelPid(t, m, j, k)
    PROVE  CoreInv'
<1>1. up[m] = "up" /\ disk[j].status # "absent"
    BY DEF CoreInv, Turn, CancelPid, RecordedOK
<1>2. CASE IsBwrapAlive(j)
    BY <1>1, <1>2, CancelPidSignals
<1>3. CASE ~IsBwrapAlive(j)
    <2>1. fix[m].todo = {} /\ fix[m].probing = {}
        BY <1>1 DEF CoreInv, LifeOK, NoFix
    <2>2. phase[j] = "gone" \/ signal[j] # "none"
        BY <1>3, <2>1 DEF CoreInv, AdoptedOK, CancelPid, IsBwrapAlive
    <2>3. UNCHANGED <<signal, handles>> /\ MarkCancelled(t, m, j)
        BY <1>3 DEF CancelPid
    <2> QED
        BY <1>1, <2>2, <2>3, MarkCancelledStep
<1> QED
    BY <1>2, <1>3

\* cancel() called by a fresh request or by a poll that reached its deadline.
LEMMA CancelBodyStep ==
    ASSUME CoreInv, TypeOK', NEW t \in Tasks, NEW m \in Managers, NEW j \in Jobs,
           NEW k \in BOOLEAN, Turn(m), CancelBody(t, m, j, k)
    PROVE  CoreInv'
<1>1. CASE CancelEnded(t, m, j)
    BY <1>1, ReturnStep DEF CancelEnded, Turn
<1>2. CASE CancelHandle(t, m, j, k)
    BY <1>2, CancelHandleStep
<1>3. CASE CancelPid(t, m, j, k)
    BY <1>3, CancelPidStep
<1> QED
    BY <1>1, <1>2, <1>3 DEF CancelBody

\* A poll at its deadline: it reports "running", or cancels for a detach=False client.
LEMMA StillRunningStep ==
    ASSUME CoreInv, TypeOK', NEW t \in Tasks, NEW m \in Managers, NEW j \in Jobs,
           Turn(m), StillRunning(t, m, j)
    PROVE  CoreInv'
<1>1. CASE Cancels(t)
    BY <1>1, CancelBodyStep DEF StillRunning
<1>2. CASE ~Cancels(t)
    BY <1>2, ReturnStep DEF StillRunning, Turn
<1> QED
    BY <1>1, <1>2

\* What the end of a poll may record: a code a status file or a parent has seen.
LEMMA SettleType ==
    ASSUME CoreInv, NEW j \in Jobs, NEW c,
           c = outcome[j] \/ (c = statusFile[j] /\ c # "none")
    PROVE  /\ Settle(c) \in Entry
           /\ Settle(c).status \in {"completed", "failed"}
           /\ Settle(c).exit = outcome[j]
           /\ Settle(c).status = "completed" <=> Settle(c).exit = "ok"
<1>1. c = outcome[j]
    BY DEF CoreInv, ProcessOK
<1> QED
    BY <1>1 DEF CoreInv, TypeOK, Settle, Entry, Status, Ended, Outcome

\* A request in flight keeps the inductive invariant, whatever segment it runs.
LEMMA InFlightStep ==
    ASSUME CoreInv, TypeOK', NEW t \in Tasks, NEW m \in Managers, NEW j \in Jobs,
           InFlight(t, m, j)
    PROVE  CoreInv'
<1>1. task[t].mgr = m /\ task[t].job = j
    BY DEF InFlight
<1>2. CASE SubmitRecord(t, m, j)
    BY <1>1, <1>2, SubmitRecordStep
<1>3. ASSUME Finished(j), task[t].pc \notin {"idle", "spawn"},
             PollFinish(t, m, j, Settle(statusFile[j]))
      PROVE  CoreInv'
    <2>1. statusFile[j] # "none"
        BY <1>3 DEF Finished
    <2> QED
        BY <1>1, <1>3, <2>1, SettleType, PollFinishStep
<1>4. CASE PollWake(t, m, j)
    <2>1. CASE Finished(j)
        BY <1>3, <1>4, <2>1 DEF PollWake
    <2>2. CASE ~Finished(j) /\ j \in reaped
        <3> DEFINE e == Settle(outcome[j])
        <3>1. /\ e \in Entry /\ e.exit = outcome[j]
              /\ e.status \in {"completed", "failed"}
              /\ e.status = "completed" <=> e.exit = "ok"
            BY SettleType
        <3>2. PollFinish(t, m, j, e) /\ task[t].pc \notin {"idle", "spawn"}
            BY <1>4, <2>2 DEF PollWake
        <3> HIDE DEF e
        <3> QED
            BY <1>1, <3>1, <3>2, PollFinishStep
    <2>3. CASE ~Finished(j) /\ j \notin reaped
        BY <1>4, <2>3, StillRunningStep DEF PollWake
    <2> QED
        BY <2>1, <2>2, <2>3
<1>5. CASE PollRead(t, m, j)
    <2>1. CASE Finished(j)
        BY <1>3, <1>5, <2>1 DEF PollRead
    <2>2. CASE ~Finished(j)
        BY <1>1, <1>5, <2>2, PollWaitStep DEF PollRead
    <2> QED
        BY <2>1, <2>2
<1>6. CASE PollProbe(t, m, j)
    <2>1. CASE IsBwrapAlive(j)
        BY <1>1, <1>6, <2>1, PollWaitStep DEF PollProbe
    <2>2. CASE ~IsBwrapAlive(j)
        <3> DEFINE e == [status |-> "failed", exit |-> "lost"]
        <3>1. e \in Entry /\ e.status = "failed" /\ e.exit = "lost"
            BY DEF Entry, Status, Ended
        <3>2. PollFinish(t, m, j, e) /\ task[t].pc \notin {"idle", "spawn"}
            BY <1>6, <2>2 DEF PollProbe
        <3> HIDE DEF e
        <3> QED
            BY <1>1, <3>1, <3>2, PollFinishStep
    <2> QED
        BY <2>1, <2>2
<1>7. CASE PollDeadline(t, m, j)
    <2>1. CASE Finished(j)
        BY <1>3, <1>7, <2>1 DEF PollDeadline
    <2>2. CASE ~Finished(j)
        BY <1>7, <2>2, StillRunningStep DEF PollDeadline
    <2> QED
        BY <2>1, <2>2
<1>8. task[t].pc \in {"term", "kill", "termPid"}
      => up[m] = "up" /\ disk[j].status # "absent" /\ signal[j] # "none"
    BY <1>1 DEF CoreInv, FlightOK
<1>9. CASE CancelWake(t, m, j)
    <2>1. CASE j \in reaped
        BY <1>8, <1>9, <2>1, MarkCancelledStep DEF CancelWake
    <2>2. CASE j \notin reaped
        BY <1>1, <1>8, <1>9, <2>2, CancelWakeSignals DEF CancelWake
    <2> QED
        BY <2>1, <2>2
<1>10. CASE CancelAbandon(t, m, j)
    BY <1>8, <1>10, MarkCancelledStep DEF CancelAbandon
<1>11. CASE CancelPidWake(t, m, j)
    <2>1. SendKill(j) => signal'[j] # "none"
        BY DEF CoreInv, TypeOK, SendKill
    <2> QED
        BY <1>8, <1>11, <2>1, MarkCancelledStep DEF CancelPidWake
<1> QED
    BY <1>2, <1>4, <1>5, <1>6, <1>7, <1>9, <1>10, <1>11 DEF InFlight, Step

\* A client's new submit, poll or cancel keeps the inductive invariant.
LEMMA NewRequestStep ==
    ASSUME CoreInv, TypeOK', NEW t \in Tasks, NEW m \in Managers, NEW j \in Jobs,
           NewRequest(t, m, j)
    PROVE  CoreInv'
<1>1. CASE Cancel(t, m, j)
    BY <1>1, CancelBodyStep DEF Cancel
<1> QED
    BY <1>1, SubmitStep, PollBeginStep, PollCachedStep DEF NewRequest

\* What a request's own steps do to task.
LEMMA GotoType ==
    ASSUME TypeOK, NEW t \in Tasks, NEW pc \in Pc, Goto(t, pc)
    PROVE  task' \in [Tasks -> Request]
BY DEF TypeOK, Goto, Request

\* ... and what a new request does to it.
LEMMA BeginType ==
    ASSUME TypeOK, NEW t \in Tasks, NEW pc \in Pc, NEW m \in Managers, NEW j \in Jobs,
           NEW k \in BOOLEAN, Begin(t, pc, m, j, k)
    PROVE  task' \in [Tasks -> Request]
BY DEF TypeOK, Begin, Request

\* MarkCancelled keeps the types, whatever its caller does to signals and handles.
LEMMA MarkTypes ==
    ASSUME TypeOK, NEW t \in Tasks, NEW m \in Managers, NEW j \in Jobs,
           MarkCancelled(t, m, j),
           signal' \in [Jobs -> {"none", "term", "kill"}],
           handles' \in [Managers -> SUBSET Jobs]
    PROVE  TypeOK'
<1> DEFINE e == [status |-> "cancelled", exit |-> mem[m][j].exit]
<1>a. e \in Entry
    BY DEF TypeOK, Entry, Status, Ended
<1>1. mem' \in [Managers -> [Jobs -> Entry]] /\ disk' \in [Jobs -> Entry]
    BY <1>a DEF TypeOK, MarkCancelled, Save
<1>2. task' \in [Tasks -> Request] /\ told' \subseteq Jobs
    BY IdleType DEF TypeOK, MarkCancelled, Report, Leave
<1> QED
    BY <1>1, <1>2 DEF TypeOK, MarkCancelled

\* The requests' actions keep the types.
LEMMA RequestTypes ==
    ASSUME CoreInv, NEW t \in Tasks, NEW m \in Managers, NEW j \in Jobs,
           NewRequest(t, m, j) \/ InFlight(t, m, j)
    PROVE  TypeOK'
<1> USE IdleType DEF TypeOK
<1>0. TypeOK
    BY DEF CoreInv
<1>a. {"spawn", "wait", "read", "check", "term", "kill", "termPid"} \subseteq Pc
    BY DEF Pc
<1>1. ASSUME NEW k \in BOOLEAN, NEW p \in BOOLEAN,
             Submit(t, m, j, k) \/ PollBegin(t, m, j, k, p)
      PROVE  TypeOK'
    <2>1. CASE Submit(t, m, j, k)
        BY <1>0, <1>a, <2>1, BeginType DEF Submit
    <2>2. CASE PollBegin(t, m, j, k, p)
        <3>1. task' \in [Tasks -> Request]
            BY <1>0, <1>a, <2>2 DEF PollBegin, Request
        <3> QED
            BY <1>0, <2>2, <3>1 DEF PollBegin
    <2> QED
        BY <1>1, <2>1, <2>2
<1>2. CASE PollCached(t, m, j)
    BY <1>0, <1>2 DEF PollCached, Report, Leave
<1>3. CASE SubmitRecord(t, m, j)
    <2>1. mem' \in [Managers -> [Jobs -> Entry]] /\ disk' \in [Jobs -> Entry]
        BY <1>0, <1>3 DEF SubmitRecord, Save, Entry, Status, Outcome
    <2>2. task' \in [Tasks -> Request]
        BY <1>0, <1>3 DEF SubmitRecord, Goto, Request, Pc
    <2>3. handles' \in [Managers -> SUBSET Jobs]
        BY <1>0, <1>3 DEF SubmitRecord
    <2> QED
        BY <1>0, <1>3, <2>1, <2>2, <2>3 DEF SubmitRecord
<1>4. ASSUME NEW e \in Entry, PollFinish(t, m, j, e) PROVE TypeOK'
    BY <1>0, <1>4 DEF PollFinish, Save, Report, Leave
<1>5. ASSUME NEW k \in BOOLEAN, CancelBody(t, m, j, k) PROVE TypeOK'
    <2>1. CASE CancelEnded(t, m, j)
        BY <1>0, <2>1 DEF CancelEnded, Report, Leave
    <2>2. CASE CancelHandle(t, m, j, k)
        <3>1. CASE j \in reaped
            BY <1>0, <2>2, <3>1, MarkTypes DEF CancelHandle
        <3>2. CASE j \notin reaped
            <4>1. task' \in [Tasks -> Request]
                BY <1>0, <1>a, <2>2, <3>2, BeginType DEF CancelHandle
            <4> QED
                BY <1>0, <2>2, <3>2, <4>1 DEF CancelHandle, SendTerm
        <3> QED
            BY <3>1, <3>2
    <2>3. CASE CancelPid(t, m, j, k)
        <3>1. CASE IsBwrapAlive(j)
            <4>1. task' \in [Tasks -> Request]
                BY <1>0, <1>a, <2>3, <3>1, BeginType DEF CancelPid
            <4> QED
                BY <1>0, <2>3, <3>1, <4>1 DEF CancelPid, SendTerm
        <3>2. CASE ~IsBwrapAlive(j)
            BY <1>0, <2>3, <3>2, MarkTypes DEF CancelPid
        <3> QED
            BY <3>1, <3>2
    <2> QED
        BY <1>5, <2>1, <2>2, <2>3 DEF CancelBody
<1>6. ASSUME StillRunning(t, m, j) PROVE TypeOK'
    <2>1. CASE Cancels(t)
        BY <1>5, <1>6, <2>1 DEF StillRunning
    <2>2. CASE ~Cancels(t)
        BY <1>0, <1>6, <2>2 DEF StillRunning, Report, Leave
    <2> QED
        BY <2>1, <2>2
<1>7. CASE PollWake(t, m, j) \/ PollRead(t, m, j) \/ PollDeadline(t, m, j)
    <2>1. Settle(statusFile[j]) \in Entry /\ Settle(outcome[j]) \in Entry
        BY <1>0 DEF Settle, Entry, Status, Ended, Outcome
    <2>2. CASE \E e \in Entry : PollFinish(t, m, j, e)
        BY <1>4, <2>2
    <2>3. CASE StillRunning(t, m, j)
        BY <1>6, <2>3
    <2>4. CASE Goto(t, "check") /\ UNCHANGED <<phase, outcome, statusFile, signal, reaped,
                                disk, up, mem, handles, fix, starts, told>>
        BY <1>0, <1>a, <2>4, GotoType
    <2> QED
        BY <1>7, <2>1, <2>2, <2>3, <2>4 DEF PollWake, PollRead, PollDeadline
<1>8. CASE PollProbe(t, m, j)
    <2>1. [status |-> "failed", exit |-> "lost"] \in Entry
        BY DEF Entry, Status, Ended
    <2>2. CASE IsBwrapAlive(j)
        <3>1. task' \in [Tasks -> Request]
            BY <1>0, <1>a, <1>8, <2>2, GotoType DEF PollProbe
        <3> QED
            BY <1>0, <1>8, <2>2, <3>1 DEF PollProbe
    <2>3. CASE ~IsBwrapAlive(j)
        BY <1>4, <1>8, <2>1, <2>3 DEF PollProbe
    <2> QED
        BY <2>2, <2>3
<1>9. CASE CancelWake(t, m, j)
    <2>1. CASE j \in reaped
        BY <1>0, <1>9, <2>1, MarkTypes DEF CancelWake
    <2>2. CASE j \notin reaped
        <3>1. task' \in [Tasks -> Request]
            BY <1>0, <1>a, <1>9, <2>2, GotoType DEF CancelWake
        <3> QED
            BY <1>0, <1>9, <2>2, <3>1 DEF CancelWake, SendKill
    <2> QED
        BY <2>1, <2>2
<1>10. CASE CancelAbandon(t, m, j) \/ CancelPidWake(t, m, j)
    BY <1>0, <1>10, MarkTypes DEF CancelAbandon, CancelPidWake, SendKill
<1> QED
    BY <1>1, <1>2, <1>3, <1>5, <1>7, <1>8, <1>9, <1>10
    DEF NewRequest, InFlight, Step, Cancel

\* Every action, and a stuttering step, yields a state of the right types.
LEMMA TypeStep == CoreInv /\ [Next]_vars => TypeOK'
<1> SUFFICES ASSUME CoreInv, [Next]_vars PROVE TypeOK'
    OBVIOUS
<1> USE IdleType, LocalJobsAssumption DEF TypeOK
<1>0. TypeOK
    BY DEF CoreInv
<1>1. ASSUME NEW j \in Jobs, Process(j) PROVE TypeOK'
    <2>1. CASE ExecBwrap(j) \/ Reap(j)
        BY <1>0, <2>1 DEF ExecBwrap, Reap, Phase
    <2>2. CASE Die(j)
        BY <1>0, <2>2 DEF Die, Phase, Outcome
    <2>3. ASSUME NEW c \in {"ok", "err"}, WriteExit(j, c) PROVE TypeOK'
        BY <1>0, <2>3 DEF WriteExit, Phase, Outcome
    <2>4. ASSUME NEW c \in {"ok", "err"}, EndSilently(j, c) PROVE TypeOK'
        BY <1>0, <2>4 DEF EndSilently, Phase, Outcome
    <2> QED
        BY <1>1, <2>1, <2>2, <2>3, <2>4 DEF Process
<1>2. ASSUME NEW m \in Managers, Start(m) PROVE TypeOK'
    <2>1. starts' \in 0..MaxStarts
        BY <1>0, <1>2 DEF Start
    <2>2. fix' \in [Managers -> [todo : SUBSET Jobs, probing : SUBSET Jobs,
                                 changed : SUBSET Jobs]]
        BY <1>0, <1>2 DEF Start
    <2>3. mem' \in [Managers -> [Jobs -> Entry]]
        BY <1>0, <1>2 DEF Start
    <2> QED
        BY <1>0, <1>2, <2>1, <2>2, <2>3 DEF Start
<1>3. ASSUME NEW m \in Managers, NEW j \in Jobs,
             FixRead(m, j) \/ FixAlive(m, j) \/ FixDead(m, j) \/ FixSave(m, j)
      PROVE  TypeOK'
    <2>1. fix' \in [Managers -> [todo : SUBSET Jobs, probing : SUBSET Jobs,
                                 changed : SUBSET Jobs]]
        BY <1>0, <1>3 DEF FixRead, FixAlive, FixDead, FixSave
    <2>2. mem' \in [Managers -> [Jobs -> Entry]]
        <3>1. CASE FixRead(m, j)
            BY <1>0, <3>1 DEF FixRead, Finished, Settle, Entry, Status, Ended, Outcome
        <3>2. CASE FixDead(m, j)
            <4>1. [status |-> "failed", exit |-> mem[m][j].exit] \in Entry
                BY <1>0 DEF Entry, Status, Ended
            <4> QED
                BY <1>0, <3>2, <4>1 DEF FixDead
        <3>3. CASE FixAlive(m, j) \/ FixSave(m, j)
            BY <1>0, <3>3 DEF FixAlive, FixSave
        <3> QED
            BY <1>3, <3>1, <3>2, <3>3
    <2>3. disk' \in [Jobs -> Entry]
        BY <1>0, <1>3 DEF FixRead, FixAlive, FixDead, FixSave
    <2> QED
        BY <1>0, <1>3, <2>1, <2>2, <2>3 DEF FixRead, FixAlive, FixDead, FixSave
<1>4. ASSUME NEW m \in Managers, FixDone(m) PROVE TypeOK'
    BY <1>0, <1>4 DEF FixDone
<1>5. ASSUME NEW m \in Managers, Exit(m) PROVE TypeOK'
    BY <1>0, <1>5 DEF Exit, NoFix, NoEntry, Entry, Status, Outcome
<1>6. ASSUME NEW m \in Managers, List(m) PROVE TypeOK'
    <2>1. mem' \in [Managers -> [Jobs -> Entry]] /\ disk' \in [Jobs -> Entry]
        BY <1>0, <1>6 DEF List, Running, Settle, Finished, Entry, Status, Ended, Outcome
    <2> QED
        BY <1>0, <1>6, <2>1 DEF List
<1>7. ASSUME NEW t \in Tasks, Spawn(t) PROVE TypeOK'
    BY <1>0, <1>7 DEF Spawn, Phase, Request
<1>8. ASSUME NEW t \in Tasks, NEW m \in Managers, NEW j \in Jobs,
             NewRequest(t, m, j) \/ InFlight(t, m, j)
      PROVE  TypeOK'
    BY <1>0, <1>8, RequestTypes
<1>9. CASE UNCHANGED vars
    BY <1>0, <1>9 DEF vars
<1> QED
    BY <1>1, <1>2, <1>3, <1>4, <1>5, <1>6, <1>7, <1>8, <1>9 DEF Next, Construct

\* The inductive invariant is inductive.
LEMMA NextStep == CoreInv /\ [Next]_vars => CoreInv'
<1> SUFFICES ASSUME CoreInv, [Next]_vars PROVE CoreInv'
    OBVIOUS
<1>1. TypeOK'
    BY TypeStep
<1>2. ASSUME NEW j \in Jobs, Process(j) PROVE CoreInv'
    BY <1>1, <1>2, ExecBwrapStep, WriteExitStep, EndSilentlyStep, DieStep, ReapStep
    DEF Process
<1>3. ASSUME NEW m \in Managers, Construct(m) PROVE CoreInv'
    BY <1>1, <1>3, StartStep, FixReadStep, FixAliveStep, FixDeadStep, FixSaveStep,
       FixDoneStep
    DEF Construct
<1>4. ASSUME NEW m \in Managers, Exit(m) PROVE CoreInv'
    BY <1>1, <1>4, ExitStep
<1>5. ASSUME NEW m \in Managers, List(m) PROVE CoreInv'
    BY <1>1, <1>5, ListStep
<1>6. ASSUME NEW t \in Tasks, Spawn(t) PROVE CoreInv'
    BY <1>1, <1>6, SpawnStep
<1>7. ASSUME NEW t \in Tasks, NEW m \in Managers, NEW j \in Jobs,
             NewRequest(t, m, j) \/ InFlight(t, m, j)
      PROVE  CoreInv'
    BY <1>1, <1>7, NewRequestStep, InFlightStep
<1>8. CASE UNCHANGED vars
    BY <1>8
    DEF vars, CoreInv, TypeOK, ProcessOK, RecordTruth, Records, RecordedOK, LifeOK, FixOK,
        AdoptedOK, CancelledIsStopped, DurableOK, ReportDurable, FlightOK
<1> QED
    BY <1>2, <1>3, <1>4, <1>5, <1>6, <1>7, <1>8 DEF Next

\* CoreInv is an invariant of every behaviour of the managers.
LEMMA CoreInvariance == Spec => []CoreInv
<1>1. Init => CoreInv
    BY InitInv
<1>2. CoreInv /\ [Next]_vars => CoreInv'
    BY NextStep
<1> QED
    BY <1>1, <1>2, PTL DEF Spec

\* Every variable keeps its type.
THEOREM TypeCorrect == Spec => []TypeOK
<1>1. CoreInv => TypeOK
    BY DEF CoreInv
<1> QED
    BY <1>1, CoreInvariance, PTL

\* A record that says "completed" is of a command that exited 0, and a recorded exit
\* code is the command's own, or the -1 of a recovery poll.
THEOREM RecordsAreTrue == Spec => []RecordTruth
<1>1. CoreInv => RecordTruth
    BY DEF CoreInv
<1> QED
    BY <1>1, CoreInvariance, PTL

\* No record says "cancelled" of a live process that was sent no signal.
THEOREM CancelledMeansStopped == Spec => []CancelledIsStopped
<1>1. CoreInv => CancelledIsStopped
    BY DEF CoreInv
<1> QED
    BY <1>1, CoreInvariance, PTL

\* A client that was told that a job ended can read the same on disk, for good.
THEOREM ReportsAreDurable == Spec => []ReportDurable
<1>1. CoreInv => ReportDurable
    BY DEF CoreInv
<1> QED
    BY <1>1, CoreInvariance, PTL

\* What a step may write: a fresh record, or an ended one over a record.
MayWrite(j) ==
    \/ disk'[j] = disk[j]
    \/ disk[j].status = "absent" /\ disk'[j].status = "running"
    \/ disk[j].status # "absent" /\ disk'[j].status \in Ended

\* No step of any manager or process writes anything else.
LEMMA DiskStep ==
    ASSUME CoreInv, [Next]_vars
    PROVE  \A j \in Jobs : MayWrite(j)
<1>1. ASSUME NEW j \in Jobs, Process(j) PROVE UNCHANGED disk
    BY <1>1 DEF Process, ExecBwrap, WriteExit, EndSilently, Die, Reap
<1>2. ASSUME NEW m \in Managers, Construct(m) PROVE \A j \in Jobs : MayWrite(j)
    <2>1. ASSUME NEW j \in Jobs, FixSave(m, j) PROVE \A i \in Jobs : MayWrite(i)
        BY <2>1 DEF CoreInv, TypeOK, FixOK, RecordedOK, FixSave, MayWrite, Ended
    <2>2. ASSUME NEW j \in Jobs, FixRead(m, j) \/ FixAlive(m, j) \/ FixDead(m, j)
          PROVE  UNCHANGED disk
        BY <2>2 DEF FixRead, FixAlive, FixDead
    <2> QED
        BY <1>2, <2>1, <2>2 DEF Construct, Start, FixDone, MayWrite
<1>3. ASSUME NEW m \in Managers, List(m) PROVE \A j \in Jobs : MayWrite(j)
    BY <1>3 DEF CoreInv, RecordedOK, List, Running, Settle, Ended, MayWrite
<1>4. ASSUME NEW m \in Managers, NEW j \in Jobs, NEW e, disk[j].status # "absent",
             Save(m, j, e), e.status \in Ended
      PROVE  \A i \in Jobs : MayWrite(i)
    BY <1>4 DEF CoreInv, TypeOK, Save, MayWrite
<1>5. ASSUME NEW t \in Tasks, NEW m \in Managers, NEW j \in Jobs,
             disk[j].status # "absent", MarkCancelled(t, m, j)
      PROVE  \A i \in Jobs : MayWrite(i)
    BY <1>4, <1>5 DEF MarkCancelled, Ended
<1>6. ASSUME NEW t \in Tasks, NEW m \in Managers, NEW j \in Jobs, NEW k \in BOOLEAN,
             CancelBody(t, m, j, k)
      PROVE  \A i \in Jobs : MayWrite(i)
    <2>1. CASE CancelEnded(t, m, j)
        BY <2>1 DEF CancelEnded, MayWrite
    <2>2. CASE CancelHandle(t, m, j, k)
        BY <1>5, <2>2 DEF CoreInv, RecordedOK, CancelHandle, MayWrite
    <2>3. CASE CancelPid(t, m, j, k)
        BY <1>5, <2>3 DEF CoreInv, RecordedOK, CancelPid, MayWrite
    <2> QED
        BY <1>6, <2>1, <2>2, <2>3 DEF CancelBody
<1>7. ASSUME NEW t \in Tasks, NEW m \in Managers, NEW j \in Jobs, NewRequest(t, m, j)
      PROVE  \A i \in Jobs : MayWrite(i)
    BY <1>6, <1>7 DEF NewRequest, Submit, PollBegin, PollCached, Cancel, MayWrite
<1>8. ASSUME NEW t \in Tasks, NEW m \in Managers, NEW j \in Jobs, InFlight(t, m, j)
      PROVE  \A i \in Jobs : MayWrite(i)
    <2>1. task[t].mgr = m /\ task[t].job = j
        BY <1>8 DEF InFlight
    <2>2. task[t].pc \notin {"idle", "spawn"} => disk[j].status # "absent"
        BY <2>1 DEF CoreInv, FlightOK
    <2>3. CASE SubmitRecord(t, m, j)
        BY <2>1, <2>3 DEF CoreInv, TypeOK, FlightOK, SubmitRecord, Save, MayWrite
    <2>4. ASSUME NEW e, PollFinish(t, m, j, e), e.status \in Ended,
                 task[t].pc \notin {"idle", "spawn"}
          PROVE  \A i \in Jobs : MayWrite(i)
        BY <1>4, <2>2, <2>4 DEF PollFinish
    <2>5. ASSUME StillRunning(t, m, j) PROVE \A i \in Jobs : MayWrite(i)
        BY <1>6, <2>5 DEF StillRunning, MayWrite
    <2>6. \A c : Settle(c).status \in Ended
        BY DEF Settle, Ended
    <2>7. CASE PollWake(t, m, j)
        BY <2>4, <2>5, <2>6, <2>7 DEF PollWake
    <2>8. CASE PollRead(t, m, j)
        BY <2>4, <2>6, <2>8 DEF PollRead, MayWrite
    <2>9. CASE PollProbe(t, m, j)
        <3>1. [status |-> "failed", exit |-> "lost"].status \in Ended
            BY DEF Ended
        <3> QED
            BY <2>4, <2>9, <3>1 DEF PollProbe, MayWrite
    <2>10. CASE PollDeadline(t, m, j)
        BY <2>4, <2>5, <2>6, <2>10 DEF PollDeadline
    <2>11. CASE CancelWake(t, m, j) \/ CancelAbandon(t, m, j) \/ CancelPidWake(t, m, j)
        BY <1>5, <2>2, <2>11 DEF CancelWake, CancelAbandon, CancelPidWake, MayWrite
    <2> QED
        BY <1>8, <2>3, <2>7, <2>8, <2>9, <2>10, <2>11 DEF InFlight, Step
<1>9. CASE UNCHANGED vars
    BY <1>9 DEF vars, MayWrite
<1> QED
    BY <1>1, <1>2, <1>3, <1>7, <1>8, <1>9 DEF Next, Exit, Spawn, MayWrite

\* No save takes a job back from an ended status.
THEOREM EndedStaysEnded == Spec => NoResurrection
<1>1. CoreInv /\ [Next]_vars
      => [\A j \in Jobs : disk[j].status \in Ended => disk'[j].status \in Ended]_vars
    BY DiskStep DEF MayWrite, Ended
<1> QED
    BY <1>1, CoreInvariance, PTL DEF Spec, NoResurrection

\* Only the process's own steps end a command, and they write no record.
LEMMA OutcomeStep ==
    ASSUME CoreInv, [Next]_vars
    PROVE  \/ UNCHANGED outcome
           \/ /\ UNCHANGED disk
              /\ \E j \in Jobs : /\ outcome[j] = "none"
                                 /\ \E c \in {"ok", "err", "sig"} :
                                       outcome' = [outcome EXCEPT ![j] = c]
<1>1. ASSUME NEW j \in Jobs, Process(j), outcome' # outcome
      PROVE  /\ UNCHANGED disk /\ outcome[j] = "none"
             /\ \E c \in {"ok", "err", "sig"} : outcome' = [outcome EXCEPT ![j] = c]
    <2>1. CASE ExecBwrap(j) \/ Reap(j)
        BY <1>1, <2>1 DEF ExecBwrap, Reap
    <2>2. CASE Die(j)
        BY <1>1, <2>2 DEF Die, CoreInv, TypeOK
    <2>3. ASSUME NEW c \in {"ok", "err"}, WriteExit(j, c) \/ EndSilently(j, c)
          PROVE  /\ UNCHANGED disk /\ outcome[j] = "none"
                 /\ outcome' = [outcome EXCEPT ![j] = c]
        BY <2>3 DEF WriteExit, EndSilently, CoreInv, ProcessOK
    <2> QED
        BY <1>1, <2>1, <2>2, <2>3 DEF Process
<1>2. ASSUME NEW m \in Managers, Construct(m) \/ Exit(m) \/ List(m)
      PROVE  UNCHANGED outcome
    BY <1>2
    DEF Construct, Start, FixRead, FixAlive, FixDead, FixSave, FixDone, Exit, List
<1>3. ASSUME NEW t \in Tasks, NEW m \in Managers, NEW j \in Jobs,
             NewRequest(t, m, j) \/ InFlight(t, m, j)
      PROVE  UNCHANGED outcome
    BY <1>3
    DEF NewRequest, Submit, PollBegin, PollCached, Cancel, CancelBody, CancelEnded,
        CancelHandle, CancelPid, MarkCancelled, InFlight, Step, SubmitRecord, PollWake,
        PollRead, PollProbe, PollDeadline, PollFinish, StillRunning, CancelWake,
        CancelAbandon, CancelPidWake
<1> QED
    BY <1>1, <1>2, <1>3 DEF Next, Spawn, vars

\* The records on disk implement the ledger: every step of the managers and of the
\* processes writes the ledger as it allows, ends a command, or stutters.
THEOREM Refinement == Spec => ImplementsLedger
<1>1. Init => Ledger!LedgerInit
    BY DEF Init, Ledger!LedgerInit, NoEntry
<1>2. CoreInv /\ CoreInv' /\ [Next]_vars
      => [Ledger!LedgerNext]_<<[j \in Jobs |-> disk[j].status], outcome>>
    <2> SUFFICES ASSUME CoreInv, CoreInv', [Next]_vars
                 PROVE  [Ledger!LedgerNext]_<<[j \in Jobs |-> disk[j].status], outcome>>
        OBVIOUS
    <2>1. CASE UNCHANGED outcome
        <3>1. \A j \in Jobs : disk'[j].status \in Ledger!Status
            BY DEF CoreInv, TypeOK, Entry, Status, Ended, Ledger!Status, Ledger!Ended
        <3>2. ASSUME NEW j \in Jobs PROVE Ledger!MayBecome(j, disk'[j].status)
            <4>1. MayWrite(j)
                BY DiskStep
            <4>2. disk'[j].status = "completed" => outcome[j] = "ok"
                BY <2>1 DEF CoreInv, RecordTruth, Records
            <4> QED
                BY <4>1, <4>2 DEF MayWrite, Ended, Ledger!MayBecome
        <3>3. Ledger!Write
            BY <2>1, <3>1, <3>2 DEF Ledger!Write
        <3> QED
            BY <3>3 DEF Ledger!LedgerNext
    <2>2. CASE outcome' # outcome
        <3>1. PICK j \in Jobs, c \in {"ok", "err", "sig"} :
                 /\ UNCHANGED disk /\ outcome[j] = "none"
                 /\ outcome' = [outcome EXCEPT ![j] = c]
            BY <2>2, OutcomeStep
        <3>2. Ledger!CommandEnds(j)
            BY <3>1 DEF Ledger!CommandEnds, Ledger!Outcome
        <3> QED
            BY <3>2 DEF Ledger!LedgerNext
    <2> QED
        BY <2>1, <2>2
<1> QED
    BY <1>1, <1>2, CoreInvariance, PTL DEF Spec, ImplementsLedger, Ledger!LedgerSpec

\* In memory an ended status changes only under a request in flight on its job, or
\* when the manager itself goes away.
THEOREM OnlyInFlightOverwrites == Spec => OverwriteOnlyByInFlight
<1> DEFINE Excused(m, j) ==
              \/ up'[m] = "down"
              \/ \E t \in Tasks : /\ task[t].pc # "idle"
                                  /\ task[t].mgr = m /\ task[t].job = j
<1> DEFINE Kept(m, j) ==
              mem[m][j].status \in Ended /\ mem'[m][j].status # mem[m][j].status
              => Excused(m, j)
<1>1. ASSUME CoreInv, [Next]_vars PROVE \A m \in Managers, j \in Jobs : Kept(m, j)
    <2>1. CASE UNCHANGED mem
        BY <2>1
    <2>2. ASSUME NEW m \in Managers, Start(m)
          PROVE  \A n \in Managers, i \in Jobs : Kept(n, i)
        <3>1. \A i \in Jobs : mem[m][i].status \notin Ended
            BY <1>1, <2>2 DEF CoreInv, LifeOK, Start, NoEntry, Ended
        <3> QED
            BY <1>1, <2>2, <3>1 DEF CoreInv, TypeOK, Start
    <2>3. ASSUME NEW m \in Managers, NEW j \in Jobs, FixRead(m, j) \/ FixDead(m, j)
          PROVE  \A n \in Managers, i \in Jobs : Kept(n, i)
        <3>1. mem[m][j].status \notin Ended
            BY <1>1, <2>3 DEF CoreInv, FixOK, FixRead, FixDead, Ended
        <3>2. \A n \in Managers, i \in Jobs : n # m \/ i # j => mem'[n][i] = mem[n][i]
            BY <1>1, <2>3 DEF CoreInv, TypeOK, FixRead, FixDead
        <3> QED
            BY <3>1, <3>2
    <2>4. ASSUME NEW m \in Managers, Exit(m)
          PROVE  \A n \in Managers, i \in Jobs : Kept(n, i)
        BY <1>1, <2>4 DEF CoreInv, TypeOK, Exit
    <2>5. ASSUME NEW m \in Managers, List(m)
          PROVE  \A n \in Managers, i \in Jobs : Kept(n, i)
        BY <1>1, <2>5 DEF CoreInv, TypeOK, List, Running, Ended
    <2>6. ASSUME NEW m \in Managers, NEW j \in Jobs, NEW e, Save(m, j, e),
                 mem[m][j].status \notin Ended \/ Excused(m, j)
          PROVE  \A n \in Managers, i \in Jobs : Kept(n, i)
        BY <1>1, <2>6 DEF CoreInv, TypeOK, Save
    <2>7. ASSUME NEW t \in Tasks, NEW m \in Managers, NEW j \in Jobs, NEW k \in BOOLEAN,
                 CancelBody(t, m, j, k)
          PROVE  \A n \in Managers, i \in Jobs : Kept(n, i)
        <3>1. CASE CancelEnded(t, m, j)
            BY <2>1, <3>1 DEF CancelEnded
        <3>2. CASE CancelHandle(t, m, j, k)
            BY <2>1, <2>6, <3>2 DEF CancelHandle, MarkCancelled, Ended
        <3>3. CASE CancelPid(t, m, j, k)
            BY <2>1, <2>6, <3>3 DEF CancelPid, MarkCancelled, Ended
        <3> QED
            BY <2>7, <3>1, <3>2, <3>3 DEF CancelBody
    <2>8. ASSUME NEW t \in Tasks, NEW m \in Managers, NEW j \in Jobs, NewRequest(t, m, j)
          PROVE  \A n \in Managers, i \in Jobs : Kept(n, i)
        BY <2>1, <2>7, <2>8 DEF NewRequest, Submit, PollBegin, PollCached, Cancel
    <2>9. ASSUME NEW t \in Tasks, NEW m \in Managers, NEW j \in Jobs, InFlight(t, m, j)
          PROVE  \A n \in Managers, i \in Jobs : Kept(n, i)
        <3>1. task[t].pc # "idle" => Excused(m, j)
            BY <2>9 DEF InFlight
        <3>2. ASSUME NEW e, Save(m, j, e), task[t].pc # "idle"
              PROVE  \A n \in Managers, i \in Jobs : Kept(n, i)
            BY <2>6, <3>1, <3>2
        <3>3. ASSUME StillRunning(t, m, j)
              PROVE  \A n \in Managers, i \in Jobs : Kept(n, i)
            BY <2>1, <2>7, <3>3 DEF StillRunning
        <3>4. CASE SubmitRecord(t, m, j)
            BY <3>2, <3>4 DEF SubmitRecord
        <3>5. CASE PollWake(t, m, j)
            BY <3>2, <3>3, <3>5 DEF PollWake, PollFinish
        <3>6. CASE PollRead(t, m, j)
            BY <2>1, <3>2, <3>6 DEF PollRead, PollFinish
        <3>7. CASE PollProbe(t, m, j)
            BY <2>1, <3>2, <3>7 DEF PollProbe, PollFinish
        <3>8. CASE PollDeadline(t, m, j)
            BY <3>2, <3>3, <3>8 DEF PollDeadline, PollFinish
        <3>9. CASE CancelWake(t, m, j)
            BY <2>1, <3>2, <3>9 DEF CancelWake, MarkCancelled
        <3>10. CASE CancelAbandon(t, m, j) \/ CancelPidWake(t, m, j)
            BY <3>2, <3>10 DEF CancelAbandon, CancelPidWake, MarkCancelled
        <3> QED
            BY <2>9, <3>4, <3>5, <3>6, <3>7, <3>8, <3>9, <3>10 DEF InFlight, Step
    <2>10. ASSUME NEW j \in Jobs, Process(j) PROVE UNCHANGED mem
        BY <2>10 DEF Process, ExecBwrap, WriteExit, EndSilently, Die, Reap
    <2>11. ASSUME NEW m \in Managers, Construct(m)
           PROVE  \A n \in Managers, i \in Jobs : Kept(n, i)
        <3>1. ASSUME NEW j \in Jobs, FixAlive(m, j) \/ FixSave(m, j) PROVE UNCHANGED mem
            BY <3>1 DEF FixAlive, FixSave
        <3>2. FixDone(m) => UNCHANGED mem
            BY DEF FixDone
        <3> HIDE DEF Kept
        <3> QED
            BY <2>1, <2>2, <2>3, <2>11, <3>1, <3>2 DEF Construct
    <2>12. ASSUME NEW t \in Tasks, Spawn(t) PROVE UNCHANGED mem
        BY <2>12 DEF Spawn
    <2>13. UNCHANGED vars => UNCHANGED mem
        BY DEF vars
    <2> HIDE DEF Kept
    <2> QED
        BY <1>1, <2>1, <2>4, <2>5, <2>8, <2>9, <2>10, <2>11, <2>12, <2>13 DEF Next
<1>2. CoreInv /\ [Next]_vars => [\A m \in Managers, j \in Jobs : Kept(m, j)]_vars
    BY <1>1
<1> QED
    BY <1>2, CoreInvariance, PTL DEF Spec, OverwriteOnlyByInFlight
\* A job seen as a sandbox stays seen, and one that was stopped stays so.
LEMMA StopsForGood ==
    ASSUME CoreInv, [Next]_vars, NEW j \in Jobs
    PROVE  /\ Stopped(j) => Stopped(j)'
           /\ phase[j] = "sandbox" \/ Stopped(j) => (phase[j] = "sandbox" \/ Stopped(j))'
<1> USE DEF CoreInv, TypeOK, Stopped
<1>1. ASSUME NEW i \in Jobs, Process(i)
      PROVE  /\ UNCHANGED signal
             /\ phase[j] \in {"flushed", "gone"} => phase'[j] \in {"flushed", "gone"}
             /\ phase[j] = "sandbox" => phase'[j] \in {"sandbox", "flushed", "gone"}
    <2>1. CASE ExecBwrap(i) \/ Die(i) \/ Reap(i)
        BY <2>1 DEF ExecBwrap, Die, Reap
    <2>2. ASSUME NEW c \in {"ok", "err"}, WriteExit(i, c) \/ EndSilently(i, c)
          PROVE  /\ UNCHANGED signal
                 /\ phase[j] \in {"flushed", "gone"} => phase'[j] \in {"flushed", "gone"}
                 /\ phase[j] = "sandbox" => phase'[j] \in {"sandbox", "flushed", "gone"}
        BY <2>2 DEF WriteExit, EndSilently
    <2> QED
        BY <1>1, <2>1, <2>2 DEF Process
<1>2. ASSUME NEW m \in Managers, Construct(m) \/ Exit(m) \/ List(m)
      PROVE  UNCHANGED <<phase, signal>>
    BY <1>2
    DEF Construct, Start, FixRead, FixAlive, FixDead, FixSave, FixDone, Exit, List
<1>3. ASSUME NEW t \in Tasks, Spawn(t)
      PROVE  /\ UNCHANGED signal
             /\ phase[j] # "none" => phase'[j] = phase[j]
    BY <1>3 DEF Spawn
<1>4. ASSUME NEW t \in Tasks, NEW m \in Managers, NEW i \in Jobs,
             NewRequest(t, m, i) \/ InFlight(t, m, i)
      PROVE  UNCHANGED phase /\ (signal[j] # "none" => signal'[j] # "none")
    <2>1. SendTerm(i) \/ SendKill(i) => (signal[j] # "none" => signal'[j] # "none")
        BY DEF SendTerm, SendKill
    <2>2. ASSUME NEW k, CancelBody(t, m, i, k)
          PROVE  UNCHANGED phase /\ (signal[j] # "none" => signal'[j] # "none")
        BY <2>1, <2>2 DEF CancelBody, CancelEnded, CancelHandle, CancelPid, MarkCancelled
    <2>3. CASE NewRequest(t, m, i)
        BY <2>2, <2>3 DEF NewRequest, Submit, PollBegin, PollCached, Cancel
    <2>4. ASSUME StillRunning(t, m, i)
          PROVE  UNCHANGED phase /\ (signal[j] # "none" => signal'[j] # "none")
        BY <2>2, <2>4 DEF StillRunning
    <2>5. CASE InFlight(t, m, i)
        BY <2>1, <2>4, <2>5
        DEF InFlight, Step, SubmitRecord, PollWake, PollRead, PollProbe, PollDeadline,
            PollFinish, CancelWake, CancelAbandon, CancelPidWake, MarkCancelled
    <2> QED
        BY <1>4, <2>3, <2>5
<1>5. CASE UNCHANGED vars
    BY <1>5 DEF vars
<1> QED
    BY <1>1, <1>2, <1>3, <1>4, <1>5 DEF Next

\* A job whose status file has a line, or whose process was waited for, was stopped.
LEMMA FinishedStops ==
    ASSUME CoreInv, NEW j \in Jobs, Finished(j) \/ j \in reaped
    PROVE  Stopped(j)
BY DEF CoreInv, TypeOK, ProcessOK, Finished, Stopped, Phase

\* A manager's entry of a job becomes an ended one, under cancel() or at the end of a
\* poll, only when the job was stopped.
LEMMA SettledStops ==
    ASSUME CoreInv, WaitOK, [Next]_vars, NEW n \in Managers, NEW i \in Jobs,
           up[n] = "up", mem[n][i].status \notin Ended, mem'[n][i].status \in Ended
    PROVE  Stopped(i)'
<1>a. up[n] = "up" /\ mem'[n] # mem[n] /\ mem' # mem
    OBVIOUS
<1>b. Stopped(i) => Stopped(i)'
    BY StopsForGood
<1>c. Finished(i) \/ i \in reaped => Stopped(i)
    BY FinishedStops
<1>1. ASSUME NEW j \in Jobs, Process(j) PROVE FALSE
    BY <1>a, <1>1 DEF Process, ExecBwrap, WriteExit, EndSilently, Die, Reap
<1>2. ASSUME NEW m \in Managers, Construct(m) PROVE FALSE
    <2>1. m # n /\ mem'[n] = mem[n]
        BY <1>a, <1>2
        DEF CoreInv, TypeOK, Construct, Start, FixRead, FixAlive, FixDead, FixSave, FixDone
    <2> QED
        BY <1>a, <2>1
<1>3. ASSUME NEW m \in Managers, Exit(m) PROVE FALSE
    BY <1>3 DEF CoreInv, TypeOK, Exit, NoEntry, Ended
<1>4. ASSUME NEW m \in Managers, List(m) PROVE Stopped(i)'
    <2>1. m = n /\ Finished(i)
        BY <1>a, <1>4 DEF CoreInv, TypeOK, List
    <2> QED
        BY <1>b, <1>c, <2>1
<1>5. ASSUME NEW t \in Tasks, Spawn(t) PROVE FALSE
    BY <1>a, <1>5 DEF Spawn
<1>6. ASSUME NEW m \in Managers, NEW j \in Jobs, NEW e, Save(m, j, e) PROVE m = n /\ j = i
    BY <1>6 DEF CoreInv, TypeOK, Save
<1>7. ASSUME NEW t \in Tasks, NEW m \in Managers, NEW j \in Jobs, NEW k \in BOOLEAN,
             CancelBody(t, m, j, k), Turn(m)
      PROVE  Stopped(i)'
    <2>1. CASE CancelEnded(t, m, j)
        BY <1>a, <2>1 DEF CancelEnded
    <2>2. CASE CancelHandle(t, m, j, k)
        <3>1. j \in reaped /\ j = i
            BY <1>6, <1>a, <2>2 DEF CancelHandle, MarkCancelled
        <3> QED
            BY <1>b, <1>c, <3>1
    <2>3. CASE CancelPid(t, m, j, k)
        <3>1. ~IsBwrapAlive(j) /\ m = n /\ j = i
            BY <1>6, <1>a, <2>3 DEF CancelPid, MarkCancelled
        <3>2. fix[m].todo = {} /\ fix[m].probing = {}
            BY <1>7 DEF Turn, CoreInv, LifeOK, NoFix
        <3>3. Stopped(i)
            BY <2>3, <3>1, <3>2 DEF CoreInv, AdoptedOK, CancelPid, IsBwrapAlive, Stopped
        <3> QED
            BY <1>b, <3>3
    <2> QED
        BY <1>7, <2>1, <2>2, <2>3 DEF CancelBody
<1>8. ASSUME NEW t \in Tasks, NEW m \in Managers, NEW j \in Jobs, NewRequest(t, m, j)
      PROVE  Stopped(i)'
    BY <1>a, <1>7, <1>8 DEF NewRequest, Submit, PollBegin, PollCached, Cancel
<1>9. ASSUME NEW t \in Tasks, NEW m \in Managers, NEW j \in Jobs, InFlight(t, m, j)
      PROVE  Stopped(i)'
    <2>0. task[t].mgr = m /\ task[t].job = j
        BY <1>9 DEF InFlight
    <2>1. CASE SubmitRecord(t, m, j)
        BY <2>1 DEF CoreInv, TypeOK, SubmitRecord, Save, Ended
    <2>2. ASSUME NEW e, PollFinish(t, m, j, e), Finished(j) \/ j \in reaped
          PROVE  Stopped(i)'
        BY <1>6, <1>b, <1>c, <2>2 DEF PollFinish
    <2>3. ASSUME StillRunning(t, m, j), Turn(m) PROVE Stopped(i)'
        BY <1>7, <1>a, <2>3 DEF StillRunning, CoreInv, TypeOK, Request
    <2>4. CASE PollWake(t, m, j)
        BY <2>2, <2>3, <2>4 DEF PollWake
    <2>5. CASE PollRead(t, m, j)
        BY <1>a, <2>2, <2>5 DEF PollRead
    <2>6. CASE PollDeadline(t, m, j)
        BY <2>2, <2>3, <2>6 DEF PollDeadline
    <2>7. CASE PollProbe(t, m, j)
        <3>1. ~IsBwrapAlive(j) /\ j = i
            BY <1>6, <1>a, <2>7 DEF PollProbe, PollFinish
        <3>2. Stopped(i)
            BY <2>0, <2>7, <3>1 DEF WaitOK, PollProbe, IsBwrapAlive
        <3> QED
            BY <1>b, <3>2
    <2>8. ASSUME MarkCancelled(t, m, j), task[t].pc \in {"term", "kill", "termPid"}
          PROVE  Stopped(i)'
        <3>1. j = i
            BY <1>6, <2>8 DEF MarkCancelled
        <3>2. Stopped(i)
            BY <2>0, <2>8, <3>1 DEF CoreInv, FlightOK, Stopped
        <3> QED
            BY <1>b, <3>2
    <2>9. CASE CancelWake(t, m, j) \/ CancelAbandon(t, m, j) \/ CancelPidWake(t, m, j)
        BY <1>a, <2>8, <2>9 DEF CancelWake, CancelAbandon, CancelPidWake
    <2> QED
        BY <1>9, <2>1, <2>4, <2>5, <2>6, <2>7, <2>9 DEF InFlight, Step
<1>10. CASE UNCHANGED vars
    BY <1>a, <1>10 DEF vars
<1> QED
    BY <1>1, <1>2, <1>3, <1>4, <1>5, <1>8, <1>9, <1>10 DEF Next
\* What a step does to a request: it leaves it alone, moves it on, or ends it.
Awaits(t) == task[t].pc \in {"wait", "read", "check"}
SameWait(t) ==
    /\ task'[t].mgr = task[t].mgr /\ task'[t].job = task[t].job
    /\ Awaits(t)
    /\ task'[t].pc \in {"read", "check"} => task[t].pc \in {"read", "check"}
NewWait(t) ==
    LET j == task'[t].job
    IN  /\ mem'[task'[t].mgr][j].status = "running"
        /\ task'[t].pc \in {"read", "check"} => phase[j] = "sandbox" \/ Stopped(j)

\* A request that awaits a job after a step did so before, or took it for running and
\* then, without a handle, had adopted it.
LEMMA WaitBegins ==
    ASSUME CoreInv, [Next]_vars, NEW t \in Tasks, Awaits(t)'
    PROVE  SameWait(t) \/ NewWait(t)
<1> USE DEF Awaits
<1>a. task'[t] = task[t] => SameWait(t)
    BY DEF SameWait
<1>b. task'[t] # Idle
    BY IdleType
<1>1. ASSUME NEW j \in Jobs, Process(j) PROVE UNCHANGED task
    BY <1>1 DEF Process, ExecBwrap, WriteExit, EndSilently, Die, Reap
<1>2. ASSUME NEW m \in Managers, Construct(m) \/ List(m) PROVE UNCHANGED task
    BY <1>2
    DEF Construct, Start, FixRead, FixAlive, FixDead, FixSave, FixDone, List
<1>3. ASSUME NEW m \in Managers, Exit(m) PROVE task'[t] = task[t]
    BY <1>b, <1>3 DEF Exit
<1>4. ASSUME NEW u \in Tasks, Spawn(u) PROVE UNCHANGED task
    BY <1>4 DEF Spawn
<1>5. ASSUME NEW u \in Tasks, Leave(u) PROVE task'[t] = task[t]
    BY <1>b, <1>5 DEF CoreInv, TypeOK, Leave
<1>6. ASSUME NEW u \in Tasks, NEW m \in Managers, NEW j \in Jobs, NEW pc, NEW k,
             Begin(u, pc, m, j, k), pc \notin {"wait", "read", "check"}
      PROVE  task'[t] = task[t]
    BY <1>6 DEF CoreInv, TypeOK, Begin
<1>7. ASSUME NEW u \in Tasks, NEW m \in Managers, NEW j \in Jobs, NEW k \in BOOLEAN,
             CancelBody(u, m, j, k)
      PROVE  task'[t] = task[t]
    BY <1>5, <1>6, <1>7
    DEF CancelBody, CancelEnded, CancelHandle, CancelPid, MarkCancelled, Report
<1>8. ASSUME NEW u \in Tasks, NEW m \in Managers, NEW j \in Jobs, NEW k \in BOOLEAN,
             NEW p \in BOOLEAN, PollBegin(u, m, j, k, p)
      PROVE  SameWait(t) \/ NewWait(t)
    <2>1. CASE u # t
        BY <1>a, <1>8, <2>1 DEF PollBegin, CoreInv, TypeOK
    <2>2. CASE u = t
        <3>1. /\ task'[t].mgr = m /\ task'[t].job = j /\ mem' = mem
              /\ mem[m][j].status = "running"
              /\ task'[t].pc = "read" => j \notin handles[m]
              /\ task'[t].pc # "check"
            BY <1>8, <2>2 DEF PollBegin, CoreInv, TypeOK
        <3>2. fix[m].todo = {} /\ fix[m].probing = {}
            BY <1>8 DEF PollBegin, Turn, CoreInv, LifeOK, NoFix
        <3> QED
            BY <3>1, <3>2 DEF NewWait, CoreInv, AdoptedOK, Stopped
    <2> QED
        BY <2>1, <2>2
<1>9. ASSUME NEW u \in Tasks, NEW m \in Managers, NEW j \in Jobs, NewRequest(u, m, j)
      PROVE  SameWait(t) \/ NewWait(t)
    BY <1>a, <1>5, <1>6, <1>7, <1>8, <1>9
    DEF NewRequest, Submit, PollCached, Report, Cancel
<1>10. ASSUME NEW u \in Tasks, NEW m \in Managers, NEW j \in Jobs, InFlight(u, m, j)
      PROVE  SameWait(t) \/ NewWait(t)
    <2>0. task[u].mgr = m /\ task[u].job = j /\ task[u].kill \in BOOLEAN
        BY <1>10 DEF InFlight, CoreInv, TypeOK, Request
    <2>1. CASE SubmitRecord(u, m, j)
        <3>1. CASE u # t
            BY <1>a, <2>1, <3>1 DEF SubmitRecord, Goto, CoreInv, TypeOK
        <3>2. CASE u = t
            BY <2>0, <2>1, <3>2
            DEF NewWait, SubmitRecord, Goto, Save, CoreInv, TypeOK, Request
        <3> QED
            BY <3>1, <3>2
    <2>2. ASSUME NEW pc \in {"read", "check"}, Goto(u, pc), task[u].pc \in {"read", "check"}
          PROVE  SameWait(t)
        BY <2>2 DEF SameWait, Goto, CoreInv, TypeOK, Request
    <2>3. ASSUME NEW e, PollFinish(u, m, j, e) PROVE SameWait(t)
        BY <1>a, <1>5, <2>3 DEF PollFinish, Report
    <2>4. ASSUME StillRunning(u, m, j) PROVE SameWait(t)
        BY <1>a, <1>5, <1>7, <2>4 DEF StillRunning, Report
    <2>5. ASSUME MarkCancelled(u, m, j) PROVE SameWait(t)
        BY <1>a, <1>5, <2>5 DEF MarkCancelled, Report
    <2>6. ASSUME Goto(u, "kill") PROVE SameWait(t)
        BY <1>a, <2>6 DEF Goto, CoreInv, TypeOK, Request
    <2> QED
        BY <1>10, <2>1, <2>2, <2>3, <2>4, <2>5, <2>6
        DEF InFlight, Step, PollWake, PollRead, PollProbe, PollDeadline, CancelWake,
            CancelAbandon, CancelPidWake
<1>11. CASE UNCHANGED vars
    BY <1>a, <1>11 DEF vars
<1> QED
    BY <1>a, <1>1, <1>2, <1>3, <1>4, <1>9, <1>10, <1>11 DEF Next

\* No request is left waiting for a job that was settled and runs on.
LEMMA WaitStep == CoreInv /\ WaitOK /\ [Next]_vars => WaitOK'
<1> SUFFICES ASSUME CoreInv, WaitOK, [Next]_vars PROVE WaitOK'
    OBVIOUS
<1>0. \A t \in Tasks : task'[t].mgr \in Managers /\ task'[t].job \in Jobs
    BY NextStep DEF CoreInv, TypeOK, Request
<1> SUFFICES ASSUME NEW t \in Tasks, Awaits(t)', NEW m \in Managers, NEW j \in Jobs,
                    task'[t].mgr = m, task'[t].job = j
             PROVE  /\ task'[t].pc \in {"read", "check"}
                       => (phase[j] = "sandbox" \/ Stopped(j))'
                    /\ mem'[m][j].status \in Ended => Stopped(j)'
    BY <1>0 DEF WaitOK, Awaits
<1>1. /\ Stopped(j) => Stopped(j)'
      /\ phase[j] = "sandbox" \/ Stopped(j) => (phase[j] = "sandbox" \/ Stopped(j))'
    BY StopsForGood
<1>2. CASE SameWait(t)
    <2>1. /\ task'[t].pc \in {"read", "check"} => phase[j] = "sandbox" \/ Stopped(j)
          /\ mem[m][j].status \in Ended => Stopped(j)
          /\ up[m] = "up"
        BY <1>2 DEF SameWait, Awaits, WaitOK, CoreInv, FlightOK
    <2> QED
        BY <1>1, <2>1, SettledStops
<1>3. CASE NewWait(t)
    BY <1>1, <1>3 DEF NewWait, Ended
<1> QED
    BY <1>2, <1>3, WaitBegins

\* IInv is an invariant of every behaviour of the managers.
THEOREM Invariance == Spec => []IInv
<1>1. Init => WaitOK
    BY IdleType DEF Init, WaitOK
<1>2. CoreInv /\ WaitOK /\ [Next]_vars => WaitOK'
    BY WaitStep
<1> QED
    BY <1>1, <1>2, CoreInvariance, PTL DEF Spec, IInv

\* A request in flight that ends, though its manager lives, leaves its job with an
\* ended entry in memory and on disk, unless it was detached or a peek.
LEMMA EndsSettled ==
    ASSUME CoreInv, [Next]_vars, NEW t \in Tasks, NEW m \in Managers, NEW j \in Jobs,
           task[t].pc # "idle", Cancels(t), task'[t].pc = "idle",
           task[t].mgr = m, task[t].job = j, up'[m] # "down"
    PROVE  /\ mem'[m][j].status \in Ended /\ disk'[j].status \in Ended
           /\ task[t].pc # "spawn"
<1> DEFINE Settled(i, n) == mem'[n][i].status \in Ended /\ disk'[i].status \in Ended
<1>a. task'[t] # task[t] /\ task' # task
    OBVIOUS
<1>1. ASSUME NEW i \in Jobs, Process(i) PROVE FALSE
    BY <1>a, <1>1 DEF Process, ExecBwrap, WriteExit, EndSilently, Die, Reap
<1>2. ASSUME NEW n \in Managers, Construct(n) \/ List(n) PROVE FALSE
    BY <1>a, <1>2
    DEF Construct, Start, FixRead, FixAlive, FixDead, FixSave, FixDone, List
<1>3. ASSUME NEW n \in Managers, Exit(n) PROVE FALSE
    BY <1>a, <1>3 DEF CoreInv, TypeOK, Exit
<1>4. ASSUME NEW u \in Tasks, Spawn(u) PROVE FALSE
    BY <1>a, <1>4 DEF Spawn
<1>5. ASSUME NEW u \in Tasks, u # t, NEW n \in Managers, NEW i \in Jobs,
             NewRequest(u, n, i) \/ InFlight(u, n, i)
      PROVE  FALSE
    <2>1. ASSUME NEW k, CancelBody(u, n, i, k) PROVE task'[t] = task[t]
        BY <1>5, <2>1
        DEF CancelBody, CancelEnded, CancelHandle, CancelPid, MarkCancelled, Report, Leave,
            Begin, CoreInv, TypeOK
    <2>2. CASE NewRequest(u, n, i)
        BY <1>5, <1>a, <2>1, <2>2
        DEF NewRequest, Submit, PollBegin, PollCached, Cancel, Report, Leave, Begin,
            CoreInv, TypeOK
    <2>3. ASSUME Leave(u) \/ \E pc \in Pc : Goto(u, pc) PROVE task'[t] = task[t]
        BY <1>5, <2>3 DEF Leave, Goto, CoreInv, TypeOK
    <2>4. CASE InFlight(u, n, i)
        BY <1>a, <2>1, <2>3, <2>4
        DEF InFlight, Step, SubmitRecord, PollWake, PollRead, PollProbe, PollDeadline,
            PollFinish, StillRunning, CancelWake, CancelAbandon, CancelPidWake,
            MarkCancelled, Report, Pc
    <2> QED
        BY <1>5, <2>2, <2>4
<1>6. ASSUME NEW n \in Managers, NEW i \in Jobs, NewRequest(t, n, i) PROVE FALSE
    BY <1>6 DEF NewRequest, Submit, PollBegin, PollCached, Cancel
<1>7. ASSUME NEW e, Save(m, j, e), e.status \in Ended PROVE Settled(j, m)
    BY <1>7 DEF Save, CoreInv, TypeOK
<1>8. ASSUME MarkCancelled(t, m, j) PROVE Settled(j, m)
    BY <1>7, <1>8 DEF MarkCancelled, Ended
<1>9. ASSUME NEW n \in Managers, NEW i \in Jobs, InFlight(t, n, i)
      PROVE  Settled(j, m) /\ task[t].pc # "spawn"
    <2>0. n = m /\ i = j
        BY <1>9 DEF InFlight
    <2>1. ASSUME NEW pc \in {"wait", "check", "read", "kill", "term", "termPid"},
                 Goto(t, pc) \/ Begin(t, pc, m, j, TRUE)
          PROVE  FALSE
        BY <2>1 DEF Goto, Begin, CoreInv, TypeOK, Request
    <2>2. ~SubmitRecord(t, m, j)
        BY <2>1 DEF SubmitRecord
    <2>3. \A c : Settle(c).status \in Ended
        BY DEF Settle, Ended
    <2>4. ASSUME NEW e, PollFinish(t, m, j, e), e.status \in Ended PROVE Settled(j, m)
        BY <1>7, <2>4 DEF PollFinish
    <2>5. ASSUME StillRunning(t, m, j), Turn(m) PROVE Settled(j, m)
        <3>1. CASE CancelEnded(t, m, j)
            <4>1. fix[m].changed = {}
                BY <2>5 DEF Turn, CoreInv, LifeOK, NoFix
            <4> QED
                BY <3>1, <4>1 DEF CancelEnded, CoreInv, DurableOK
        <3>2. CASE CancelHandle(t, m, j, TRUE)
            BY <1>8, <2>1, <3>2 DEF CancelHandle
        <3>3. CASE CancelPid(t, m, j, TRUE)
            BY <1>8, <2>1, <3>3 DEF CancelPid
        <3> QED
            BY <2>5, <3>1, <3>2, <3>3 DEF StillRunning, CancelBody
    <2>6. CASE PollWake(t, m, j) \/ PollDeadline(t, m, j)
        BY <2>3, <2>4, <2>5, <2>6 DEF PollWake, PollDeadline
    <2>7. CASE PollRead(t, m, j)
        BY <2>1, <2>3, <2>4, <2>7 DEF PollRead
    <2>8. CASE PollProbe(t, m, j)
        <3>1. [status |-> "failed", exit |-> "lost"].status \in Ended
            BY DEF Ended
        <3> QED
            BY <2>1, <2>4, <2>8, <3>1 DEF PollProbe
    <2>9. CASE CancelWake(t, m, j) \/ CancelAbandon(t, m, j) \/ CancelPidWake(t, m, j)
        BY <1>8, <2>1, <2>9 DEF CancelWake, CancelAbandon, CancelPidWake
    <2> QED
        BY <1>9, <2>0, <2>2, <2>6, <2>7, <2>8, <2>9
        DEF InFlight, Step, PollWake, PollRead, PollProbe, PollDeadline, CancelWake,
            CancelAbandon, CancelPidWake
<1>10. ASSUME UNCHANGED vars PROVE FALSE
    BY <1>a, <1>10 DEF vars
<1> HIDE DEF Settled
<1>11. ASSUME NEW u \in Tasks, NEW n \in Managers, NEW i \in Jobs,
              NewRequest(u, n, i) \/ InFlight(u, n, i)
       PROVE  Settled(j, m) /\ task[t].pc # "spawn"
    BY <1>5, <1>6, <1>9, <1>11
<1>12. Settled(j, m) /\ task[t].pc # "spawn"
    BY <1>1, <1>2, <1>3, <1>4, <1>10, <1>11 DEF Next
<1> QED
    BY <1>12 DEF Settled

\* A request made with detach=False ends only when its job was stopped and its record
\* is an ended one, or when its manager goes away: unless it is an `instance status` with
\* a time-out of 0, which cancels nothing.
THEOREM NonDetachedStops == Spec => NothingLeftRunning
<1> DEFINE Cleared(t, m, j) ==
              /\ task[t].pc # "idle" /\ Cancels(t) /\ task'[t].pc = "idle"
              /\ task[t].mgr = m /\ task[t].job = j
              => \/ up'[m] = "down"
                 \/ disk'[j].status \in Ended /\ Stopped(j)'
<1>1. ASSUME CoreInv, WaitOK, [Next]_vars, NEW t \in Tasks, NEW m \in Managers, NEW j \in Jobs
      PROVE  Cleared(t, m, j)
    <2> SUFFICES ASSUME task[t].pc # "idle", Cancels(t), task'[t].pc = "idle",
                        task[t].mgr = m, task[t].job = j, up'[m] # "down"
                 PROVE  disk'[j].status \in Ended /\ Stopped(j)'
        OBVIOUS
    <2>1. /\ mem'[m][j].status \in Ended /\ disk'[j].status \in Ended
          /\ task[t].pc # "spawn"
        BY <1>1, EndsSettled
    <2>2. up[m] = "up"
        BY <1>1 DEF CoreInv, FlightOK
    <2>3. CASE mem[m][j].status \notin Ended
        BY <1>1, <2>1, <2>2, <2>3, SettledStops
    <2>4. CASE mem[m][j].status \in Ended
        <3>1. task[t].pc \in {"wait", "read", "check", "term", "kill", "termPid"}
            BY <1>1, <2>1 DEF CoreInv, TypeOK, Request, Pc
        <3>2. Stopped(j)
            BY <1>1, <2>4, <3>1 DEF WaitOK, CoreInv, FlightOK, Stopped
        <3> QED
            BY <1>1, <2>1, <3>2, StopsForGood
    <2> QED
        BY <2>1, <2>3, <2>4
<1>2. IInv /\ [Next]_vars
      => [\A t \in Tasks, m \in Managers, j \in Jobs : Cleared(t, m, j)]_vars
    BY <1>1 DEF IInv
<1> QED
    BY <1>2, Invariance, PTL DEF Spec, NothingLeftRunning
=============================================================================
