---------------------------- MODULE InstancesProofs ----------------------------
(* Proofs about Instances, for any handlers, commands, directories and roles. *)
EXTENDS Instances, TLAPS

LEMMA ActorKinds == Handlers \subseteq Actors /\ Commands \subseteq Actors
  BY DEF Actors

USE InstancesAssumption, ActorKinds DEF Jobs

\* What a new manager finds is well typed, and nothing it finds is new.
LEMMA EntriesType ==
    ASSUME TypeOK
    PROVE  /\ Loaded \in [Jobs -> {"none", "running", "ended"}]
           /\ Entries \in [Jobs -> {"none", "running", "ended"}]
           /\ \A j \in Jobs : Entries[j] # "none" <=> Loaded[j] # "none"
           /\ \A j \in Jobs : Loaded[j] # "none"
                                  => current \in Dirs /\ records[current][j] = Loaded[j]
  <1>1. CASE current = None
    <2>1. Loaded = [j \in Jobs |-> "none"]
      BY <1>1 DEF Loaded
    <2> QED BY <2>1 DEF Entries
  <1>2. CASE current # None
    <2>1. /\ current \in Dirs /\ Loaded = records[current]
          /\ Loaded \in [Jobs -> {"none", "running", "ended"}]
      BY <1>2 DEF Loaded, TypeOK
    <2> QED BY <2>1 DEF Entries
  <1> QED BY <1>1, <1>2

\* A new manager: its types, whose it is, and what it knows and has yet to save.
LEMMA ConstructFacts ==
    ASSUME TypeOK, NEW a \in Actors, Construct(a)
    PROVE  /\ mgr' \in [Actors -> Actors \cup {None}] /\ todo' \in [Actors -> SUBSET Jobs]
           /\ mem' \in [Actors -> [Jobs -> {"none", "running", "ended"}]]
           /\ mgr' = [mgr EXCEPT ![a] = a]
           /\ \A b \in Actors \ {a} : todo'[b] = todo[b] /\ mem'[b] = mem[b]
           /\ mem'[a] = Entries
           /\ \A j \in Jobs : mem'[a][j] # "none"
                                  => current \in Dirs /\ records[current][j] # "none"
           /\ \A j \in todo'[a] : mem'[a][j] # "none" /\ Entries[j] # Loaded[j]
  <1>1. /\ mgr' = [mgr EXCEPT ![a] = a] /\ mem' = [mem EXCEPT ![a] = Entries]
        /\ todo' = [todo EXCEPT ![a] = {j \in Jobs : Entries[j] # Loaded[j]}]
    BY DEF Construct
  <1>2. /\ mgr' \in [Actors -> Actors \cup {None}]
        /\ mem' \in [Actors -> [Jobs -> {"none", "running", "ended"}]]
    BY <1>1, EntriesType DEF TypeOK
  <1>3. /\ todo' \in [Actors -> SUBSET Jobs] /\ todo'[a] = {j \in Jobs : Entries[j] # Loaded[j]}
        /\ \A b \in Actors \ {a} : todo'[b] = todo[b]
    BY <1>1 DEF TypeOK
  <1>4. mem'[a] = Entries /\ \A b \in Actors \ {a} : mem'[b] = mem[b]
    BY <1>1 DEF TypeOK
  <1>5. \A j \in Jobs : Entries[j] # "none" => current \in Dirs /\ records[current][j] # "none"
    BY EntriesType
  <1>6. \A j \in Jobs : Entries[j] # Loaded[j] => Entries[j] # "none"
    BY EntriesType
  <1> QED BY <1>1, <1>2, <1>3, <1>4, <1>5, <1>6

LEMMA RecordType ==
    ASSUME TypeOK, NEW j \in Jobs, NEW d \in Dirs, NEW s \in {"running", "ended"},
           WriteRecord(j, s, d)
    PROVE  /\ current' \in Dirs \cup {None}
           /\ records' \in [Dirs -> [Jobs -> {"none", "running", "ended"}]]
           /\ torn' \subseteq {"mkdir", "create", "archive", "output", "describe"}
  <1>1. records' \in [Dirs -> [Jobs -> {"none", "running", "ended"}]]
    BY DEF TypeOK, WriteRecord
  <1> QED BY <1>1 DEF TypeOK, WriteRecord, ManagerMkdirs

LEMMA SaveType ==
    ASSUME TypeOK, NEW a \in Actors, NEW j \in Jobs, NEW d \in Dirs,
           NEW s \in {"running", "ended"}, Save(a, j, s, d)
    PROVE  /\ current' \in Dirs \cup {None}
           /\ mem' \in [Actors -> [Jobs -> {"none", "running", "ended"}]]
           /\ records' \in [Dirs -> [Jobs -> {"none", "running", "ended"}]]
           /\ torn' \subseteq {"mkdir", "create", "archive", "output", "describe"}
           /\ meta' = meta /\ ready' = ready /\ shelf' = shelf /\ output' = output
           /\ UNCHANGED jobs /\ text' = text /\ mgr' = mgr /\ todo' = todo /\ cache' = cache
           /\ dropped' = dropped /\ roving' = roving
  <1>1. mem' \in [Actors -> [Jobs -> {"none", "running", "ended"}]]
    BY DEF TypeOK, Save
  <1>2. WriteRecord(j, s, d)
    BY DEF Save
  <1> QED BY <1>1, <1>2, RecordType DEF Save

LEMMA GoType ==
    ASSUME TypeOK, NEW a \in Actors, NEW l \in Pcs, Go(a, l)
    PROVE  pc' \in [Actors -> Pcs]
  BY DEF TypeOK, Go

LEMMA DieType ==
    ASSUME TypeOK, NEW dead \in SUBSET Actors, Die(dead)
    PROVE  /\ pc' \in [Actors -> Pcs] /\ unseen' \subseteq Jobs
           /\ todo' \in [Actors -> SUBSET Jobs]
           /\ torn' \subseteq {"mkdir", "create", "archive", "output", "describe"}
  BY DEF TypeOK, Die, Torn, Half, Pcs

\* GetManager, in its two cases.
LEMMA GetManagerCases ==
    ASSUME NEW a \in Actors, GetManager(a)
    PROVE  /\ pc[a] \in {"submit", "ask"} /\ todo[a] = {}
           /\ \E l \in {"wait", "audit", "outputs"} : Go(a, l) /\ (l # "wait" => pc[a] = "submit")
           /\ UNCHANGED <<current, meta, records, ready, shelf, output>>
           /\ UNCHANGED <<proc, status, bound, home, text, target, dropped>>
           /\ UNCHANGED <<abandoned, roving, torn>>
           /\ \/ /\ a \in Handlers /\ cache # None /\ mgr' = [mgr EXCEPT ![a] = cache]
                 /\ mem' = mem /\ todo' = todo /\ cache' = cache /\ unseen' = unseen
              \/ /\ Construct(a) /\ unseen' = unseen \cup Starting
                 /\ cache' = IF a \in Handlers THEN a ELSE cache
  <1>1. /\ pc[a] \in {"submit", "ask"} /\ todo[a] = {}
        /\ Go(a, IF pc[a] = "ask" THEN "wait" ELSE IF a \in Handlers THEN "audit" ELSE "outputs")
        /\ UNCHANGED <<current, meta, records, ready, shelf, output>>
        /\ UNCHANGED <<proc, status, bound, home, text, target, dropped>>
        /\ UNCHANGED <<abandoned, roving, torn>>
    BY DEF GetManager, At, store, jobs
  <1>2. CASE a \in Handlers /\ cache # None
    BY <1>1, <1>2 DEF GetManager
  <1>3. CASE ~(a \in Handlers /\ cache # None)
    BY <1>1, <1>3 DEF GetManager
  <1> QED BY <1>2, <1>3

\* ArchiveCheck, in its two cases.
LEMMA ArchiveCheckCases ==
    ASSUME NEW a \in Actors, ArchiveCheck(a)
    PROVE  /\ pc[a] = "archive" /\ todo[a] = {}
           /\ UNCHANGED <<current, meta, records, ready, shelf, output>>
           /\ UNCHANGED <<proc, status, bound, home, text, target, cache, dropped>>
           /\ UNCHANGED <<abandoned, roving, torn>>
           /\ \/ Go(a, "done") /\ mgr' = mgr /\ mem' = mem /\ todo' = todo /\ unseen' = unseen
              \/ /\ current # None /\ Construct(a)
                 /\ unseen' = unseen \cup Starting \cup {j \in Jobs : pc[j] = "spawned"}
                 /\ \E l \in {"done", "mark"} :
                        /\ Go(a, l)
                        /\ l = "mark" => \A j \in Jobs : Entries[j] # "running"
  <1>1. /\ pc[a] = "archive" /\ todo[a] = {}
        /\ UNCHANGED <<current, meta, records, ready, shelf, output>>
        /\ UNCHANGED <<proc, status, bound, home, text, target, cache, dropped>>
        /\ UNCHANGED <<abandoned, roving, torn>>
    BY DEF ArchiveCheck, At, store, jobs
  <1>2. CASE current = None \/ meta[current] = "archived"
    BY <1>1, <1>2 DEF ArchiveCheck
  <1>3. CASE ~(current = None \/ meta[current] = "archived")
    BY <1>1, <1>3 DEF ArchiveCheck
  <1> QED BY <1>2, <1>3


\* Every step keeps the types.
LEMMA TypeStep == IInv /\ [Next]_vars => TypeOK'
  <1> SUFFICES ASSUME IInv, [Next]_vars PROVE TypeOK'
    OBVIOUS
  <1>t. TypeOK
    BY DEF IInv
  <1>1. ASSUME NEW a \in Actors, CreateLook(a) PROVE TypeOK'
    BY <1>1, <1>t, GoType DEF CreateLook, Begins, store, jobs, own, ghost, TypeOK, Pcs, Metas
  <1>2. ASSUME NEW a \in Actors, NEW d \in Dirs, CreateDirs(a, d) PROVE TypeOK'
    BY <1>2, <1>t, GoType DEF CreateDirs, Mkdirs, Fresh, jobs, own, TypeOK, Pcs, Metas
  <1>3. ASSUME NEW a \in Actors, CreateMeta(a) PROVE TypeOK'
    BY <1>3, <1>t, GoType DEF CreateMeta, jobs, own, ghost, TypeOK, Pcs, Metas
  <1>4. ASSUME NEW a \in Actors, NEW k \in {"submit", "ask"}, Load(a, k) PROVE TypeOK'
    <2>1. home' \in [Jobs -> Dirs \cup {None}] /\ pc' \in [Actors -> Pcs]
      BY <1>4, <1>t, GoType DEF Load, Loadable, TypeOK, Pcs
    <2> QED BY <1>4, <1>t, <2>1 DEF Load, TypeOK, store, own, ghost
  <1>5. ASSUME NEW a \in Actors, GetManager(a) PROVE TypeOK'
    <2>1. pc' \in [Actors -> Pcs]
      BY <1>5, <1>t, GoType, GetManagerCases DEF Pcs
    <2>2. /\ mgr' \in [Actors -> Actors \cup {None}] /\ cache' \in Actors \cup {None}
          /\ mem' \in [Actors -> [Jobs -> {"none", "running", "ended"}]]
          /\ todo' \in [Actors -> SUBSET Jobs] /\ unseen' \subseteq Jobs
      <3>1. CASE a \in Handlers /\ cache # None /\ mgr' = [mgr EXCEPT ![a] = cache]
                 /\ mem' = mem /\ todo' = todo /\ cache' = cache /\ unseen' = unseen
        BY <1>t, <3>1 DEF TypeOK
      <3>2. CASE Construct(a) /\ unseen' = unseen \cup Starting
                 /\ cache' = IF a \in Handlers THEN a ELSE cache
        BY <1>t, <3>2, ConstructFacts DEF TypeOK, Starting
      <3> QED BY <1>5, <3>1, <3>2, GetManagerCases
    <2> QED BY <1>5, <1>t, <2>1, <2>2, GetManagerCases DEF TypeOK
  <1>6. ASSUME NEW a \in Actors, Audit(a) PROVE TypeOK'
    <2>1. pc' \in [Actors -> Pcs]
      BY <1>6, <1>t, GoType DEF Audit, Pcs
    <2> QED BY <1>6, <1>t, <2>1 DEF Audit, TypeOK, store, jobs, own, ghost
  <1>7. ASSUME NEW a \in Actors, NEW d \in Dirs, MakeOutputs(a, d) PROVE TypeOK'
    <2>1. ready' \in [Dirs -> SUBSET {"outputs", "status"}] /\ pc' \in [Actors -> Pcs]
      BY <1>7, <1>t, GoType DEF MakeOutputs, TypeOK, Pcs
    <2> QED BY <1>7, <1>t, <2>1 DEF MakeOutputs, ManagerMkdirs, TypeOK, jobs, own
  <1>8. ASSUME NEW a \in Actors, NEW d \in Dirs, Spawn(a, d) PROVE TypeOK'
    <2>1. ready' \in [Dirs -> SUBSET {"outputs", "status"}] /\ pc' \in [Actors -> Pcs]
      BY <1>8, <1>t, GoType DEF Spawn, TypeOK, Pcs
    <2>2. proc' \in [Jobs -> {"none", "sh", "python", "sandbox", "gone"}] /\ unseen' \subseteq Jobs
      BY <1>8, <1>t DEF Spawn, TypeOK
    <2> QED BY <1>8, <1>t, <2>1, <2>2 DEF Spawn, ManagerMkdirs, TypeOK, own
  <1>9. ASSUME NEW a \in Actors, NEW d \in Dirs, SubmitSave(a, d) PROVE TypeOK'
    <2>1. pc' \in [Actors -> Pcs]
      BY <1>9, <1>t, GoType DEF SubmitSave, Pcs
    <2> QED BY <1>9, <1>t, <2>1, SaveType DEF SubmitSave, TypeOK, jobs
  <1>10. ASSUME NEW a \in Actors, NEW j \in Jobs, NEW d \in Dirs, FixSave(a, j, d) PROVE TypeOK'
    <2>1. todo' \in [Actors -> SUBSET Jobs]
      BY <1>10, <1>t DEF FixSave, TypeOK
    <2> QED BY <1>10, <1>t, <2>1, RecordType DEF FixSave, TypeOK, jobs
  <1>11. ASSUME NEW a \in Actors, NEW j \in Jobs, NEW d \in Dirs, Settle(a, j, d) PROVE TypeOK'
    <2>1. pc' \in [Actors -> Pcs] /\ unseen' \subseteq Jobs
      BY <1>11, <1>t, GoType DEF Settle, TypeOK, Pcs
    <2> QED BY <1>11, <1>t, <2>1, SaveType DEF Settle, TypeOK, jobs
  <1>12. ASSUME NEW a \in Actors, NEW j \in Jobs, Signal(a, j) PROVE TypeOK'
    <2>1. pc' \in [Actors -> Pcs] /\ target' \in [Actors -> Jobs \cup {None}]
      BY <1>12, <1>t, GoType DEF Signal, TypeOK, Pcs
    <2> QED BY <1>12, <1>t, <2>1 DEF Signal, TypeOK, store, jobs, ghost
  <1>13. ASSUME NEW a \in Actors, NEW j \in Jobs, NEW d \in Dirs,
                CancelSave(a, j, d)
         PROVE  TypeOK'
    <2>1. /\ pc' \in [Actors -> Pcs] /\ abandoned' \subseteq Jobs
          /\ target' \in [Actors -> Jobs \cup {None}]
      BY <1>13, <1>t, GoType DEF CancelSave, TypeOK, Pcs
    <2> QED BY <1>13, <1>t, <2>1, SaveType DEF CancelSave, TypeOK, jobs
  <1>14. ASSUME NEW a \in Actors, Return(a) PROVE TypeOK'
    BY <1>14, <1>t, GoType DEF Return, At, store, jobs, own, ghost, TypeOK, Pcs, Metas
  <1>15. ASSUME NEW a \in Actors, Redirect(a) PROVE TypeOK'
    <2>1. /\ proc' \in [Jobs -> {"none", "sh", "python", "sandbox", "gone"}]
          /\ status' \in [Jobs -> Dirs \cup {None}] /\ bound' \in [Jobs -> Dirs \cup {None}]
      <3>1. CASE current # None /\ ready[current] = {"outputs", "status"}
        <4>1. /\ current \in Dirs /\ proc' = [proc EXCEPT ![a] = "python"]
              /\ status' = [status EXCEPT ![a] = current] /\ bound' = bound
          BY <1>15, <1>t, <3>1 DEF Redirect, TypeOK
        <4> QED BY <1>t, <4>1 DEF TypeOK
      <3>2. CASE ~(current # None /\ ready[current] = {"outputs", "status"})
        BY <1>15, <1>t, <3>2 DEF Redirect, Gone, TypeOK
      <3> QED BY <3>1, <3>2
    <2> QED BY <1>15, <1>t, <2>1 DEF Redirect, TypeOK, store, ctl, own, ghost
  <1>16. ASSUME NEW a \in Actors, ExecBwrap(a) PROVE TypeOK'
    <2>1. /\ proc' \in [Jobs -> {"none", "sh", "python", "sandbox", "gone"}]
          /\ status' \in [Jobs -> Dirs \cup {None}] /\ bound' \in [Jobs -> Dirs \cup {None}]
      <3>1. CASE Loadable /\ output # None
        <4>1. /\ current \in Dirs /\ proc' = [proc EXCEPT ![a] = "sandbox"]
              /\ bound' = [bound EXCEPT ![a] = current] /\ status' = status
          BY <1>16, <1>t, <3>1 DEF ExecBwrap, TypeOK, Loadable
        <4> QED BY <1>t, <4>1 DEF TypeOK
      <3>2. CASE ~(Loadable /\ output # None)
        BY <1>16, <1>t, <3>2 DEF ExecBwrap, Gone, TypeOK
      <3> QED BY <3>1, <3>2
    <2> QED BY <1>16, <1>t, <2>1 DEF ExecBwrap, TypeOK, store, ctl, own, ghost
  <1>17. ASSUME NEW a \in Actors, End(a) PROVE TypeOK'
    BY <1>17, <1>t DEF End, Gone, store, ctl, own, ghost, TypeOK, Pcs, Metas
  <1>18. ASSUME NEW a \in Actors, ArchiveLoad(a) PROVE TypeOK'
    BY <1>18, <1>t, GoType DEF ArchiveLoad, Begins, store, jobs, TypeOK, Pcs, Metas
  <1>19. ASSUME NEW a \in Actors, ArchiveCheck(a) PROVE TypeOK'
    <2>1. /\ pc' \in [Actors -> Pcs] /\ unseen' \subseteq Jobs
          /\ mgr' \in [Actors -> Actors \cup {None}] /\ todo' \in [Actors -> SUBSET Jobs]
          /\ mem' \in [Actors -> [Jobs -> {"none", "running", "ended"}]]
      BY <1>19, <1>t, GoType, ArchiveCheckCases, ConstructFacts DEF TypeOK, Pcs, Starting
    <2> QED BY <1>19, <1>t, <2>1, ArchiveCheckCases DEF TypeOK
  <1>20. ASSUME NEW a \in Actors, Mark(a) PROVE TypeOK'
    <2>1. pc' \in [Actors -> Pcs] /\ meta' \in [Dirs -> Metas]
      <3>1. CASE current = None
        BY <1>20, <1>t, <3>1, GoType DEF Mark, TypeOK, Pcs
      <3>2. CASE current # None
        <4>1. current \in Dirs /\ Go(a, "move") /\ meta' = [meta EXCEPT ![current] = "archived"]
          BY <1>20, <1>t, <3>2 DEF Mark, TypeOK
        <4>2. pc' \in [Actors -> Pcs]
          BY <1>t, <4>1, GoType DEF Pcs
        <4> QED BY <1>t, <4>1, <4>2 DEF TypeOK, Metas
      <3> QED BY <3>1, <3>2
    <2> QED BY <1>20, <1>t, <2>1 DEF Mark, TypeOK, jobs, own, ghost
  <1>21. ASSUME NEW a \in Actors, Move(a) PROVE TypeOK'
    <2>1. /\ pc' \in [Actors -> Pcs] /\ current' \in Dirs \cup {None} /\ shelf' \subseteq Dirs
          /\ roving' \subseteq Jobs
      <3>1. CASE current = None
        BY <1>21, <1>t, <3>1, GoType DEF Move, TypeOK, Pcs
      <3>2. CASE current # None
        BY <1>21, <1>t, <3>2, GoType DEF Move, TypeOK, Pcs, Submitting
      <3> QED BY <3>1, <3>2
    <2> QED BY <1>21, <1>t, <2>1 DEF Move, TypeOK, jobs, own
  <1>22. ASSUME NEW a \in Actors, MoveOutput(a) PROVE TypeOK'
    BY <1>22, <1>t, GoType DEF MoveOutput, jobs, own, ghost, TypeOK, Pcs, Metas
  <1>23. ASSUME NEW a \in Actors, DescribeRead(a) PROVE TypeOK'
    <2>1. pc' \in [Actors -> Pcs] /\ text' \in [Actors -> Metas]
      BY <1>23, <1>t, GoType DEF DescribeRead, TypeOK, Pcs, Loadable
    <2> QED BY <1>23, <1>t, <2>1 DEF DescribeRead, TypeOK, store, jobs, ghost
  <1>24. ASSUME NEW a \in Actors, DescribeWrite(a) PROVE TypeOK'
    BY <1>24, <1>t, GoType DEF DescribeWrite, jobs, TypeOK, Pcs, Metas
  <1>25. ASSUME NEW a \in Actors, CommandDies(a) PROVE TypeOK'
    <2>1. {a} \in SUBSET Actors /\ Die({a}) /\ UNCHANGED cache
      BY <1>25 DEF CommandDies
    <2> QED BY <1>t, <2>1, DieType DEF Die, TypeOK, store, jobs
  <1>26. CASE ServerDies
    BY <1>26, <1>t, DieType DEF ServerDies, Die, Active, store, jobs, TypeOK, Pcs, Metas
  <1>27. CASE UNCHANGED vars
    BY <1>27, <1>t DEF vars, store, jobs, ctl, own, ghost, TypeOK, Pcs, Metas
  <1> QED BY <1>1, <1>2, <1>3, <1>4, <1>5, <1>6, <1>7, <1>8, <1>9, <1>10, <1>11, <1>12, <1>13,
           <1>14, <1>15, <1>16, <1>17, <1>18, <1>19, <1>20, <1>21, <1>22, <1>23, <1>24, <1>25,
           <1>26, <1>27
         DEF Next, Create, Archive, Request, Process

\* A new manager knows no job that has not been started, and has in memory what it has yet
\* to save; it is nobody's manager before, so that nothing that is being cancelled is lost.
LEMMA FreshConstruct ==
    ASSUME TypeOK, FreshOK, NEW a \in Actors, Construct(a), pc[a] \in {"submit", "ask", "archive"}
    PROVE  /\ \A j \in Jobs : proc[j] = "none" => \A m \in Actors : mem'[m][j] = "none"
           /\ \A b \in Actors : \A j \in todo'[b] : mgr'[b] = b /\ mem'[b][j] # "none"
           /\ \A b \in Actors : pc[b] = "cancel" => mgr[b] # a
           /\ \A b \in Actors : pc[b] = "cancel"
                  => target[b] # None /\ mem'[mgr'[b]][target[b]] # "none"
  <1>1. /\ \A b \in Actors \ {a} : todo'[b] = todo[b] /\ mem'[b] = mem[b]
        /\ \A j \in Jobs : mem'[a][j] # "none" => current \in Dirs /\ records[current][j] # "none"
        /\ \A j \in todo'[a] : mem'[a][j] # "none"
    BY ConstructFacts
  <1>2. \A b \in Actors : mgr'[b] = IF b = a THEN a ELSE mgr[b]
    BY ConstructFacts DEF TypeOK
  <1>3. \A b \in Actors : pc[b] = "cancel" => b # a /\ mgr[b] \in Actors \ {a}
    BY DEF FreshOK, TypeOK
  <1>4. \A j \in Jobs : proc[j] = "none" => \A m \in Actors : mem'[m][j] = "none"
    BY <1>1 DEF FreshOK
  <1>5. \A b \in Actors : \A j \in todo'[b] : mgr'[b] = b /\ mem'[b][j] # "none"
    BY <1>1, <1>2 DEF FreshOK
  <1>6. \A b \in Actors : pc[b] = "cancel"
            => target[b] # None /\ mem'[mgr'[b]][target[b]] # "none"
    BY <1>1, <1>2, <1>3 DEF FreshOK
  <1> QED BY <1>3, <1>4, <1>5, <1>6

\* Who has not begun leaves no trace.
LEMMA FreshStep == IInv /\ [Next]_vars => FreshOK'
  <1> SUFFICES ASSUME IInv, [Next]_vars PROVE FreshOK'
    OBVIOUS
  <1>t. TypeOK /\ FreshOK
    BY DEF IInv
  <1>1. ASSUME NEW a \in Actors, CreateLook(a) PROVE FreshOK'
    BY <1>1, <1>t DEF CreateLook, Begins, Go, store, jobs, own, ghost, FreshOK, Submitting, TypeOK
  <1>2. ASSUME NEW a \in Actors, NEW d \in Dirs, CreateDirs(a, d) PROVE FreshOK'
    BY <1>2, <1>t DEF CreateDirs, Mkdirs, Fresh, Go, jobs, own, FreshOK, Submitting, TypeOK
  <1>3. ASSUME NEW a \in Actors, CreateMeta(a) PROVE FreshOK'
    BY <1>3, <1>t DEF CreateMeta, Go, jobs, own, ghost, FreshOK, Submitting, TypeOK
  <1>4. ASSUME NEW a \in Actors, NEW k \in {"submit", "ask"}, Load(a, k) PROVE FreshOK'
    BY <1>4, <1>t DEF Load, Begins, Loadable, Go, store, own, ghost, FreshOK, Submitting, TypeOK
  <1>5. ASSUME NEW a \in Actors, GetManager(a) PROVE FreshOK'
    <2>1. PICK l \in {"wait", "audit", "outputs"} :
              pc' = [pc EXCEPT ![a] = l] /\ (l # "wait" => pc[a] = "submit")
      BY <1>5, GetManagerCases DEF Go
    <2>2. /\ pc[a] \in {"submit", "ask"} /\ todo[a] = {}
          /\ UNCHANGED <<records, proc, home, target, dropped>>
      BY <1>5, GetManagerCases
    <2>3. CASE a \in Handlers /\ cache # None /\ mgr' = [mgr EXCEPT ![a] = cache]
               /\ mem' = mem /\ todo' = todo /\ cache' = cache
      BY <1>t, <2>1, <2>2, <2>3 DEF FreshOK, Submitting, TypeOK
    <2>4. CASE Construct(a) /\ cache' = IF a \in Handlers THEN a ELSE cache
      <3>1. \A b \in Actors : mgr'[b] = IF b = a THEN a ELSE mgr[b]
        BY <1>t, <2>4, ConstructFacts DEF TypeOK
      <3>2. \A b \in Actors : pc[b] = "cancel" => mgr[b] # a
        BY <1>t, <2>2 DEF FreshOK, TypeOK
      <3> QED BY <1>t, <2>1, <2>2, <2>4, <3>1, <3>2, FreshConstruct DEF FreshOK, Submitting, TypeOK
    <2> QED BY <1>5, <2>3, <2>4, GetManagerCases
  <1>6. ASSUME NEW a \in Actors, Audit(a) PROVE FreshOK'
    BY <1>6, <1>t DEF Audit, At, Go, store, jobs, own, ghost, FreshOK, Submitting, TypeOK
  <1>7. ASSUME NEW a \in Actors, NEW d \in Dirs, MakeOutputs(a, d) PROVE FreshOK'
    BY <1>7, <1>t
       DEF MakeOutputs, At, ManagerMkdirs, Mkdirs, Fresh, Go, jobs, own, FreshOK, Submitting,
           TypeOK
  <1>8. ASSUME NEW a \in Actors, NEW d \in Dirs, Spawn(a, d) PROVE FreshOK'
    <2>1. /\ pc[a] = "status" /\ pc' = [pc EXCEPT ![a] = "spawned"]
          /\ UNCHANGED <<mgr, mem, todo, target, cache, dropped, records, home>>
      BY <1>8 DEF Spawn, At, Go, own, ManagerMkdirs
    <2>2. proc'[a] = "sh" /\ \A j \in Jobs \ {a} : proc'[j] = proc[j]
      BY <1>8, <1>t DEF Spawn, TypeOK
    <2>3. home[a] # None /\ mgr[a] # None
      BY <1>t, <2>1 DEF FreshOK, Submitting
    <2>4. \A b \in Actors : pc'[b] = IF b = a THEN "spawned" ELSE pc[b]
      BY <1>t, <2>1 DEF TypeOK
    <2>5. \A m \in Actors : pc'[m] \in {"idle", "submit", "ask", "archive"} => pc'[m] = pc[m]
      BY <2>4
    <2>6. \A b \in Actors : \A m \in {mgr[b], dropped[b], cache} \ {None} :
              pc'[m] \notin {"idle", "submit", "ask", "archive"}
      BY <1>t, <2>5 DEF FreshOK, TypeOK
    <2> QED BY <1>t, <2>1, <2>2, <2>3, <2>4, <2>6 DEF FreshOK, Submitting
  <1>9. ASSUME NEW a \in Actors, NEW d \in Dirs, SubmitSave(a, d) PROVE FreshOK'
    BY <1>9, <1>t
       DEF SubmitSave, At, Save, WriteRecord, ManagerMkdirs, Mkdirs, Fresh, Go, jobs, FreshOK,
           Submitting, TypeOK
  <1>10. ASSUME NEW a \in Actors, NEW j \in Jobs, NEW d \in Dirs, FixSave(a, j, d) PROVE FreshOK'
    BY <1>10, <1>t
       DEF FixSave, WriteRecord, ManagerMkdirs, Mkdirs, Fresh, jobs, FreshOK, Submitting, TypeOK
  <1>11. ASSUME NEW a \in Actors, NEW j \in Jobs, NEW d \in Dirs, Settle(a, j, d) PROVE FreshOK'
    BY <1>11, <1>t
       DEF Settle, Target, At, Save, WriteRecord, ManagerMkdirs, Mkdirs, Fresh, Go, jobs, FreshOK,
           Submitting, TypeOK
  <1>12. ASSUME NEW a \in Actors, NEW j \in Jobs, Signal(a, j) PROVE FreshOK'
    BY <1>12, <1>t DEF Signal, Target, At, Go, store, jobs, ghost, FreshOK, Submitting, TypeOK
  <1>13. ASSUME NEW a \in Actors, NEW j \in Jobs, NEW d \in Dirs,
                CancelSave(a, j, d)
         PROVE  FreshOK'
    BY <1>13, <1>t
       DEF CancelSave, At, Save, WriteRecord, ManagerMkdirs, Mkdirs, Fresh, Go, jobs, FreshOK,
           Submitting, TypeOK
  <1>14. ASSUME NEW a \in Actors, Return(a) PROVE FreshOK'
    BY <1>14, <1>t DEF Return, At, Go, store, jobs, own, ghost, FreshOK, Submitting, TypeOK
  <1>15. ASSUME NEW a \in Actors, Redirect(a) PROVE FreshOK'
    <2>1. UNCHANGED <<pc, mgr, mem, todo, target, cache, dropped, records, home>>
      BY <1>15 DEF Redirect, store, ctl, own, ghost
    <2>2. \A j \in Jobs : proc'[j] = "none" <=> proc[j] = "none"
      BY <1>15, <1>t DEF Redirect, Gone, Alive, TypeOK
    <2> QED BY <1>t, <2>1, <2>2 DEF FreshOK, Submitting
  <1>16. ASSUME NEW a \in Actors, ExecBwrap(a) PROVE FreshOK'
    <2>1. UNCHANGED <<pc, mgr, mem, todo, target, cache, dropped, records, home>>
      BY <1>16 DEF ExecBwrap, store, ctl, own, ghost
    <2>2. \A j \in Jobs : proc'[j] = "none" <=> proc[j] = "none"
      BY <1>16, <1>t DEF ExecBwrap, Gone, Alive, TypeOK
    <2> QED BY <1>t, <2>1, <2>2 DEF FreshOK, Submitting
  <1>17. ASSUME NEW a \in Actors, End(a) PROVE FreshOK'
    <2>1. UNCHANGED <<pc, mgr, mem, todo, target, cache, dropped, records, home>>
      BY <1>17 DEF End, store, ctl, own, ghost
    <2>2. \A j \in Jobs : proc'[j] = "none" <=> proc[j] = "none"
      BY <1>17, <1>t DEF End, Gone, Alive, TypeOK
    <2> QED BY <1>t, <2>1, <2>2 DEF FreshOK, Submitting
  <1>18. ASSUME NEW a \in Actors, ArchiveLoad(a) PROVE FreshOK'
    BY <1>18, <1>t DEF ArchiveLoad, Begins, Go, store, jobs, FreshOK, Submitting, TypeOK
  <1>19. ASSUME NEW a \in Actors, ArchiveCheck(a) PROVE FreshOK'
    <2>1. /\ pc[a] = "archive" /\ todo[a] = {}
          /\ UNCHANGED <<records, proc, home, target, cache, dropped>>
      BY <1>19, ArchiveCheckCases
    <2>2. CASE Go(a, "done") /\ mgr' = mgr /\ mem' = mem /\ todo' = todo
      BY <1>t, <2>1, <2>2 DEF Go, FreshOK, Submitting, TypeOK
    <2>3. CASE Construct(a) /\ \E l \in {"done", "mark"} : Go(a, l)
      <3>1. \A b \in Actors : mgr'[b] = IF b = a THEN a ELSE mgr[b]
        BY <1>t, <2>3, ConstructFacts DEF TypeOK
      <3>2. PICK l \in {"done", "mark"} : pc' = [pc EXCEPT ![a] = l]
        BY <2>3 DEF Go
      <3> QED BY <1>t, <2>1, <2>3, <3>1, <3>2, FreshConstruct DEF FreshOK, Submitting, TypeOK
    <2> QED BY <1>19, <2>2, <2>3, ArchiveCheckCases
  <1>20. ASSUME NEW a \in Actors, Mark(a) PROVE FreshOK'
    BY <1>20, <1>t DEF Mark, At, Go, jobs, own, ghost, FreshOK, Submitting, TypeOK
  <1>21. ASSUME NEW a \in Actors, Move(a) PROVE FreshOK'
    BY <1>21, <1>t DEF Move, At, Go, jobs, own, FreshOK, Submitting, TypeOK
  <1>22. ASSUME NEW a \in Actors, MoveOutput(a) PROVE FreshOK'
    BY <1>22, <1>t DEF MoveOutput, Go, jobs, own, ghost, FreshOK, Submitting, TypeOK
  <1>23. ASSUME NEW a \in Actors, DescribeRead(a) PROVE FreshOK'
    BY <1>23, <1>t
       DEF DescribeRead, Begins, Loadable, Go, store, jobs, ghost, FreshOK, Submitting, TypeOK
  <1>24. ASSUME NEW a \in Actors, DescribeWrite(a) PROVE FreshOK'
    BY <1>24, <1>t DEF DescribeWrite, Go, jobs, FreshOK, Submitting, TypeOK
  <1>25. ASSUME NEW a \in Actors, CommandDies(a) PROVE FreshOK'
    BY <1>25, <1>t DEF CommandDies, Die, Active, store, jobs, FreshOK, Submitting, TypeOK
  <1>26. CASE ServerDies
    BY <1>26, <1>t DEF ServerDies, Die, Active, store, jobs, FreshOK, Submitting, TypeOK
  <1>27. CASE UNCHANGED vars
    BY <1>27, <1>t DEF vars, store, jobs, ctl, own, ghost, FreshOK, Submitting, TypeOK
  <1> QED BY <1>1, <1>2, <1>3, <1>4, <1>5, <1>6, <1>7, <1>8, <1>9, <1>10, <1>11, <1>12, <1>13,
           <1>14, <1>15, <1>16, <1>17, <1>18, <1>19, <1>20, <1>21, <1>22, <1>23, <1>24, <1>25,
           <1>26, <1>27
         DEF Next, Create, Archive, Request, Process

\* Where a mkdir makes a bare directory, nothing was submitted to it.
LEMMA HomeKept ==
    ASSUME TypeOK, FreshOK, HomeOK, NEW d \in Dirs, Mkdirs(d)
    PROVE  /\ \A j \in Submitting : home[j] = d \/ j \in roving
           /\ \A m \in Actors, j \in Jobs :
                  InUse(m) /\ mem[m][j] # "none" => home[j] = d \/ j \in roving
  <1>1. CASE current = None
    <2>1. \A j \in Submitting : home[j] # None
      BY DEF FreshOK, Submitting
    <2>2. \A m \in Actors, j \in Jobs : mem[m][j] # "none" => home[j] # None
      BY DEF FreshOK
    <2> QED BY <1>1, <2>1, <2>2 DEF HomeOK
  <1>2. CASE current # None
    BY <1>2 DEF HomeOK, Mkdirs
  <1> QED BY <1>1, <1>2

\* Managers in use, and records, know the jobs of the instance, or roving ones.
LEMMA HomeStep == IInv /\ [Next]_vars => HomeOK'
  <1> SUFFICES ASSUME IInv, [Next]_vars PROVE HomeOK'
    OBVIOUS
  <1>t. TypeOK /\ FreshOK /\ HomeOK
    BY DEF IInv
  <1>1. ASSUME NEW a \in Actors, CreateLook(a) PROVE HomeOK'
    BY <1>1, <1>t
       DEF CreateLook, Begins, Go, store, jobs, own, ghost, HomeOK, JobsStayHome, InUse, Serves,
           Submitting, FreshOK, TypeOK
  <1>2. ASSUME NEW a \in Actors, NEW d \in Dirs, CreateDirs(a, d) PROVE HomeOK'
    <2>1. /\ pc[a] = "mkdir" /\ pc' = [pc EXCEPT ![a] = "metadata"] /\ Mkdirs(d) /\ current' = d
          /\ UNCHANGED <<records, home, mgr, mem, todo, cache, dropped, roving>>
      BY <1>2 DEF CreateDirs, Go, jobs, own
    <2>2. Submitting' = Submitting /\ \A m \in Actors : InUse(m)' => InUse(m)
      BY <1>t, <2>1 DEF Submitting, InUse, Serves, TypeOK
    <2> QED BY <1>t, <2>1, <2>2, HomeKept DEF HomeOK, JobsStayHome, TypeOK
  <1>3. ASSUME NEW a \in Actors, CreateMeta(a) PROVE HomeOK'
    BY <1>3, <1>t
       DEF CreateMeta, Go, jobs, own, ghost, HomeOK, JobsStayHome, InUse, Serves, Submitting,
           FreshOK, TypeOK
  <1>4. ASSUME NEW a \in Actors, NEW k \in {"submit", "ask"}, Load(a, k) PROVE HomeOK'
    BY <1>4, <1>t
       DEF Load, Begins, Loadable, Go, store, own, ghost, HomeOK, JobsStayHome, InUse, Serves,
           Submitting, FreshOK, TypeOK
  <1>5. ASSUME NEW a \in Actors, GetManager(a) PROVE HomeOK'
    <2>1. PICK l \in {"wait", "audit", "outputs"} :
              pc' = [pc EXCEPT ![a] = l] /\ (l # "wait" => pc[a] = "submit")
      BY <1>5, GetManagerCases DEF Go
    <2>2. /\ pc[a] \in {"submit", "ask"} /\ todo[a] = {}
          /\ UNCHANGED <<current, records, home, dropped, roving>>
      BY <1>5, GetManagerCases
    <2>3. CASE a \in Handlers /\ cache # None /\ mgr' = [mgr EXCEPT ![a] = cache]
               /\ mem' = mem /\ todo' = todo /\ cache' = cache
      <3>1. \A m \in Actors : InUse(m)' => InUse(m)
        BY <1>t, <2>1, <2>2, <2>3 DEF InUse, Serves, TypeOK
      <3> QED BY <1>t, <2>1, <2>2, <2>3, <3>1 DEF HomeOK, JobsStayHome, Submitting, TypeOK
    <2>4. CASE Construct(a) /\ cache' = IF a \in Handlers THEN a ELSE cache
      <3>1. \A m \in Actors \ {a} : InUse(m)' => InUse(m)
        BY <1>t, <2>1, <2>2, <2>4, ConstructFacts DEF InUse, Serves, TypeOK
      <3>2. \A j \in Jobs : mem'[a][j] # "none" => home[j] = current \/ j \in roving
        BY <1>t, <2>4, ConstructFacts DEF HomeOK, JobsStayHome
      <3>3. \A m \in Actors \ {a} : mem'[m] = mem[m]
        BY <1>t, <2>4, ConstructFacts
      <3>4. \A b \in Actors : dropped[b] # a
        BY <1>t, <2>2 DEF FreshOK, TypeOK
      <3> QED BY <1>t, <2>1, <2>2, <2>4, <3>1, <3>2, <3>3, <3>4
              DEF HomeOK, JobsStayHome, Submitting, TypeOK
    <2> QED BY <1>5, <2>3, <2>4, GetManagerCases
  <1>6. ASSUME NEW a \in Actors, Audit(a) PROVE HomeOK'
    BY <1>6, <1>t
       DEF Audit, At, Go, store, jobs, own, ghost, HomeOK, JobsStayHome, InUse, Serves,
           Submitting, FreshOK, TypeOK
  <1>7. ASSUME NEW a \in Actors, NEW d \in Dirs, MakeOutputs(a, d) PROVE HomeOK'
    BY <1>7, <1>t
       DEF MakeOutputs, At, ManagerMkdirs, Mkdirs, Fresh, Go, jobs, own, HomeOK, JobsStayHome,
           InUse, Serves, Submitting, FreshOK, TypeOK
  <1>8. ASSUME NEW a \in Actors, NEW d \in Dirs, Spawn(a, d) PROVE HomeOK'
    <2>1. /\ pc[a] = "status" /\ pc' = [pc EXCEPT ![a] = "spawned"] /\ Mkdirs(d) /\ current' = d
          /\ UNCHANGED <<records, home, mgr, mem, todo, cache, dropped, roving>>
      BY <1>8 DEF Spawn, At, Go, own, ManagerMkdirs
    <2>2. Submitting' = Submitting /\ \A m \in Actors : InUse(m)' => InUse(m)
      BY <1>t, <2>1 DEF Submitting, InUse, Serves, TypeOK
    <2> QED BY <1>t, <2>1, <2>2, HomeKept DEF HomeOK, JobsStayHome, TypeOK
  <1>9. ASSUME NEW a \in Actors, NEW d \in Dirs, SubmitSave(a, d) PROVE HomeOK'
    <2>1. /\ Mkdirs(d) /\ current' = d /\ pc[a] = "spawned"
          /\ pc' = [pc EXCEPT ![a] = "wait"]
          /\ UNCHANGED <<home, mgr, todo, cache, dropped, roving>>
      BY <1>9, <1>t DEF SubmitSave, Target, At, Go, Save, WriteRecord, ManagerMkdirs, jobs, TypeOK
    <2>2. /\ Submitting' \subseteq Submitting
          /\ \A m \in Actors : InUse(m)' => InUse(m)
      BY <1>t, <2>1 DEF Submitting, InUse, Serves, TypeOK
    <2>3. \A e \in Dirs, i \in Jobs :
              records'[e][i] # "none" => records[e][i] # "none" \/ (e = d /\ i = a)
      BY <1>9, <1>t DEF SubmitSave, Save, WriteRecord, TypeOK
    <2>4. mgr[a] \in Actors /\ InUse(mgr[a])
      BY <1>t, <2>1 DEF FreshOK, InUse, Serves, TypeOK
    <2>5. \A m \in Actors, i \in Jobs :
              mem'[m][i] # "none" => mem[m][i] # "none" \/ i = a
      BY <1>9, <1>t, <2>4 DEF SubmitSave, Save, TypeOK
    <2>6. home[a] = d \/ a \in roving
      BY <1>t, <2>1, <2>4, HomeKept DEF FreshOK, Submitting, TypeOK
    <2> QED BY <1>t, <2>1, <2>2, <2>3, <2>5, <2>6, HomeKept DEF HomeOK, JobsStayHome, TypeOK
  <1>10. ASSUME NEW a \in Actors, NEW j \in Jobs, NEW d \in Dirs, FixSave(a, j, d) PROVE HomeOK'
    <2>1. /\ Mkdirs(d) /\ current' = d /\ j \in todo[a]
          /\ UNCHANGED <<pc, home, mgr, mem, cache, dropped, roving>>
      BY <1>10 DEF FixSave, WriteRecord, ManagerMkdirs, jobs
    <2>2. \A b \in Actors : todo'[b] \subseteq todo[b]
      BY <1>10, <1>t DEF FixSave, TypeOK
    <2>3. Submitting' = Submitting /\ \A m \in Actors : InUse(m)' => InUse(m)
      BY <2>1, <2>2 DEF Submitting, InUse, Serves
    <2>4. \A e \in Dirs, i \in Jobs :
              records'[e][i] # "none" => records[e][i] # "none" \/ (e = d /\ i = j)
      BY <1>10, <1>t DEF FixSave, WriteRecord, TypeOK
    <2>5. home[j] = d \/ j \in roving
      <3>1. InUse(a) /\ mem[a][j] # "none"
        BY <1>t, <2>1 DEF FreshOK, InUse, Serves
      <3> QED BY <1>t, <2>1, <3>1, HomeKept
    <2> QED BY <1>t, <2>1, <2>3, <2>4, <2>5, HomeKept DEF HomeOK, JobsStayHome
  <1>11. ASSUME NEW a \in Actors, NEW j \in Jobs, NEW d \in Dirs, Settle(a, j, d) PROVE HomeOK'
    <2>1. /\ Mkdirs(d) /\ current' = d /\ pc[a] = "wait" /\ mem[mgr[a]][j] = "running"
          /\ pc' = [pc EXCEPT ![a] = "done"]
          /\ UNCHANGED <<home, mgr, todo, cache, dropped, roving>>
      BY <1>11, <1>t DEF Settle, Target, At, Go, Save, WriteRecord, ManagerMkdirs, jobs, TypeOK
    <2>2. /\ Submitting' \subseteq Submitting
          /\ \A m \in Actors : InUse(m)' => InUse(m)
      BY <1>t, <2>1 DEF Submitting, InUse, Serves, TypeOK
    <2>3. \A e \in Dirs, i \in Jobs :
              records'[e][i] # "none" => records[e][i] # "none" \/ (e = d /\ i = j)
      BY <1>11, <1>t DEF Settle, Save, WriteRecord, TypeOK
    <2>4. mgr[a] \in Actors /\ InUse(mgr[a])
      BY <1>t, <2>1 DEF FreshOK, InUse, Serves, TypeOK
    <2>5. \A m \in Actors, i \in Jobs :
              mem'[m][i] # "none" => mem[m][i] # "none" \/ i = j
      BY <1>11, <1>t, <2>4 DEF Settle, Save, TypeOK
    <2>6. home[j] = d \/ j \in roving
      BY <1>t, <2>1, <2>4, HomeKept DEF FreshOK, Submitting, TypeOK
    <2> QED BY <1>t, <2>1, <2>2, <2>3, <2>5, <2>6, HomeKept DEF HomeOK, JobsStayHome, TypeOK
  <1>12. ASSUME NEW a \in Actors, NEW j \in Jobs, Signal(a, j) PROVE HomeOK'
    BY <1>12, <1>t
       DEF Signal, Target, At, Go, store, jobs, ghost, HomeOK, JobsStayHome, InUse, Serves,
           Submitting, FreshOK, TypeOK
  <1>13. ASSUME NEW a \in Actors, NEW j \in Jobs, NEW d \in Dirs,
                CancelSave(a, j, d)
         PROVE  HomeOK'
    <2>1. /\ Mkdirs(d) /\ current' = d /\ pc[a] = "cancel" /\ target[a] = j
          /\ pc' = [pc EXCEPT ![a] = "done"]
          /\ UNCHANGED <<home, mgr, todo, cache, dropped, roving>>
      BY <1>13, <1>t DEF CancelSave, Target, At, Go, Save, WriteRecord, ManagerMkdirs, jobs, TypeOK
    <2>2. /\ Submitting' \subseteq Submitting
          /\ \A m \in Actors : InUse(m)' => InUse(m)
      BY <1>t, <2>1 DEF Submitting, InUse, Serves, TypeOK
    <2>3. \A e \in Dirs, i \in Jobs :
              records'[e][i] # "none" => records[e][i] # "none" \/ (e = d /\ i = j)
      BY <1>13, <1>t DEF CancelSave, Save, WriteRecord, TypeOK
    <2>4. mgr[a] \in Actors /\ InUse(mgr[a])
      BY <1>t, <2>1 DEF FreshOK, InUse, Serves, TypeOK
    <2>5. \A m \in Actors, i \in Jobs :
              mem'[m][i] # "none" => mem[m][i] # "none" \/ i = j
      BY <1>13, <1>t, <2>4 DEF CancelSave, Save, TypeOK
    <2>6. home[j] = d \/ j \in roving
      BY <1>t, <2>1, <2>4, HomeKept DEF FreshOK, Submitting, TypeOK
    <2> QED BY <1>t, <2>1, <2>2, <2>3, <2>5, <2>6, HomeKept DEF HomeOK, JobsStayHome, TypeOK
  <1>14. ASSUME NEW a \in Actors, Return(a) PROVE HomeOK'
    BY <1>14, <1>t
       DEF Return, At, Go, store, jobs, own, ghost, HomeOK, JobsStayHome, InUse, Serves,
           Submitting, FreshOK, TypeOK
  <1>15. ASSUME NEW a \in Actors, Redirect(a) PROVE HomeOK'
    BY <1>15, <1>t
       DEF Redirect, Gone, store, ctl, own, ghost, HomeOK, JobsStayHome, InUse, Serves,
           Submitting, FreshOK, TypeOK
  <1>16. ASSUME NEW a \in Actors, ExecBwrap(a) PROVE HomeOK'
    BY <1>16, <1>t
       DEF ExecBwrap, Gone, store, ctl, own, ghost, HomeOK, JobsStayHome, InUse, Serves,
           Submitting, FreshOK, TypeOK
  <1>17. ASSUME NEW a \in Actors, End(a) PROVE HomeOK'
    BY <1>17, <1>t
       DEF End, Gone, store, ctl, own, ghost, HomeOK, JobsStayHome, InUse, Serves, Submitting,
           FreshOK, TypeOK
  <1>18. ASSUME NEW a \in Actors, ArchiveLoad(a) PROVE HomeOK'
    BY <1>18, <1>t
       DEF ArchiveLoad, Begins, Go, store, jobs, HomeOK, JobsStayHome, InUse, Serves, Submitting,
           FreshOK, TypeOK
  <1>19. ASSUME NEW a \in Actors, ArchiveCheck(a) PROVE HomeOK'
    <2>1. /\ pc[a] = "archive" /\ todo[a] = {}
          /\ UNCHANGED <<current, records, home, cache, dropped, roving>>
      BY <1>19, ArchiveCheckCases
    <2>2. CASE Go(a, "done") /\ mgr' = mgr /\ mem' = mem /\ todo' = todo
      BY <1>t, <2>1, <2>2 DEF Go, HomeOK, JobsStayHome, InUse, Serves, Submitting, TypeOK
    <2>3. CASE Construct(a) /\ \E l \in {"done", "mark"} : Go(a, l)
      <3>1. PICK l \in {"done", "mark"} : pc' = [pc EXCEPT ![a] = l]
        BY <2>3 DEF Go
      <3>2. \A m \in Actors \ {a} : InUse(m)' => InUse(m)
        BY <1>t, <2>1, <2>3, <3>1, ConstructFacts DEF InUse, Serves, TypeOK
      <3>3. \A j \in Jobs : mem'[a][j] # "none" => home[j] = current \/ j \in roving
        BY <1>t, <2>3, ConstructFacts DEF HomeOK, JobsStayHome
      <3>4. \A m \in Actors \ {a} : mem'[m] = mem[m]
        BY <1>t, <2>3, ConstructFacts
      <3> QED BY <1>t, <2>1, <3>1, <3>2, <3>3, <3>4 DEF HomeOK, JobsStayHome, Submitting, TypeOK
    <2> QED BY <1>19, <2>2, <2>3, ArchiveCheckCases
  <1>20. ASSUME NEW a \in Actors, Mark(a) PROVE HomeOK'
    BY <1>20, <1>t
       DEF Mark, At, Go, jobs, own, ghost, HomeOK, JobsStayHome, InUse, Serves, Submitting,
           FreshOK, TypeOK
  <1>21. ASSUME NEW a \in Actors, Move(a) PROVE HomeOK'
    <2>1. UNCHANGED <<records, home, mgr, mem, todo, cache, dropped>> /\ pc[a] = "move"
      BY <1>21 DEF Move, At, jobs, own
    <2>2. CASE current = None
      BY <1>21, <1>t, <2>1, <2>2
         DEF Move, Go, HomeOK, JobsStayHome, InUse, Serves, Submitting, TypeOK
    <2>3. CASE current # None
      <3>1. /\ current' = None /\ pc' = [pc EXCEPT ![a] = "output"]
            /\ roving' = roving \cup Submitting
                         \cup {j \in Jobs : \E m \in Outliving(a) : mem[m][j] # "none"}
        BY <1>21, <2>3 DEF Move, Go
      <3>2. Submitting' \subseteq roving'
        BY <1>t, <2>1, <3>1 DEF Submitting, TypeOK
      <3>3. \A m \in Actors : InUse(m) => m \in Outliving(a)
        BY <1>t, <2>1 DEF InUse, Outliving, HomeOK, TypeOK, Actors
      <3>4. \A m \in Actors, j \in Jobs : InUse(m) /\ mem[m][j] # "none" => j \in roving'
        BY <3>1, <3>3
      <3>5. \A m \in Actors : InUse(m)' => InUse(m)
        BY <1>t, <2>1, <3>1 DEF InUse, Serves, TypeOK
      <3> QED BY <1>t, <2>1, <3>1, <3>2, <3>4, <3>5 DEF HomeOK, JobsStayHome, TypeOK
    <2> QED BY <2>2, <2>3
  <1>22. ASSUME NEW a \in Actors, MoveOutput(a) PROVE HomeOK'
    BY <1>22, <1>t
       DEF MoveOutput, Go, jobs, own, ghost, HomeOK, JobsStayHome, InUse, Serves, Submitting,
           FreshOK, TypeOK
  <1>23. ASSUME NEW a \in Actors, DescribeRead(a) PROVE HomeOK'
    BY <1>23, <1>t
       DEF DescribeRead, Begins, Loadable, Go, store, jobs, ghost, HomeOK, JobsStayHome, InUse,
           Serves, Submitting, FreshOK, TypeOK
  <1>24. ASSUME NEW a \in Actors, DescribeWrite(a) PROVE HomeOK'
    BY <1>24, <1>t
       DEF DescribeWrite, Go, jobs, HomeOK, JobsStayHome, InUse, Serves, Submitting, FreshOK,
           TypeOK
  <1>25. ASSUME NEW a \in Actors, CommandDies(a) PROVE HomeOK'
    BY <1>25, <1>t
       DEF CommandDies, Die, Active, store, jobs, HomeOK, JobsStayHome, InUse, Serves, Submitting,
           FreshOK, TypeOK
  <1>26. CASE ServerDies
    BY <1>26, <1>t
       DEF ServerDies, Die, Active, store, jobs, HomeOK, JobsStayHome, InUse, Serves, Submitting,
           FreshOK, TypeOK
  <1>27. CASE UNCHANGED vars
    BY <1>27, <1>t
       DEF vars, store, jobs, ctl, own, ghost, HomeOK, JobsStayHome, InUse, Serves, Submitting,
           FreshOK, TypeOK
  <1> QED BY <1>1, <1>2, <1>3, <1>4, <1>5, <1>6, <1>7, <1>8, <1>9, <1>10, <1>11, <1>12, <1>13,
           <1>14, <1>15, <1>16, <1>17, <1>18, <1>19, <1>20, <1>21, <1>22, <1>23, <1>24, <1>25,
           <1>26, <1>27
         DEF Next, Create, Archive, Request, Process

\* The name is usable, or somebody is about to make it so, or something has gone wrong.
LEMMA NameStep == IInv /\ [Next]_vars => NameOK'
  <1> SUFFICES ASSUME IInv, [Next]_vars PROVE NameOK'
    OBVIOUS
  <1>t. TypeOK /\ NameOK
    BY DEF IInv
  <1>1. ASSUME NEW a \in Actors, CreateLook(a) PROVE NameOK'
    BY <1>1, <1>t
       DEF CreateLook, Begins, Go, store, jobs, own, ghost, NameOK, NameUsable, TypeOK, Metas
  <1>2. ASSUME NEW a \in Actors, NEW d \in Dirs, CreateDirs(a, d) PROVE NameOK'
    BY <1>2, <1>t DEF CreateDirs, Mkdirs, Fresh, Go, jobs, own, NameOK, NameUsable, TypeOK, Metas
  <1>3. ASSUME NEW a \in Actors, CreateMeta(a) PROVE NameOK'
    BY <1>3, <1>t DEF CreateMeta, Go, jobs, own, ghost, NameOK, NameUsable, TypeOK, Metas
  <1>4. ASSUME NEW a \in Actors, NEW k \in {"submit", "ask"}, Load(a, k) PROVE NameOK'
    BY <1>4, <1>t
       DEF Load, Begins, Loadable, Go, store, own, ghost, NameOK, NameUsable, TypeOK, Metas
  <1>5. ASSUME NEW a \in Actors, GetManager(a) PROVE NameOK'
    <2>1. /\ pc[a] \in {"submit", "ask"} /\ UNCHANGED <<current, meta, output, text, torn>>
          /\ \E l \in {"wait", "audit", "outputs"} : Go(a, l)
      BY <1>5, GetManagerCases
    <2> QED BY <1>t, <2>1 DEF Go, NameOK, NameUsable, TypeOK
  <1>6. ASSUME NEW a \in Actors, Audit(a) PROVE NameOK'
    BY <1>6, <1>t DEF Audit, At, Go, store, jobs, own, ghost, NameOK, NameUsable, TypeOK, Metas
  <1>7. ASSUME NEW a \in Actors, NEW d \in Dirs, MakeOutputs(a, d) PROVE NameOK'
    BY <1>7, <1>t
       DEF MakeOutputs, At, ManagerMkdirs, Mkdirs, Fresh, Go, jobs, own, NameOK, NameUsable,
           TypeOK, Metas
  <1>8. ASSUME NEW a \in Actors, NEW d \in Dirs, Spawn(a, d) PROVE NameOK'
    BY <1>8, <1>t
       DEF Spawn, At, ManagerMkdirs, Mkdirs, Fresh, Go, own, NameOK, NameUsable, TypeOK, Metas
  <1>9. ASSUME NEW a \in Actors, NEW d \in Dirs, SubmitSave(a, d) PROVE NameOK'
    BY <1>9, <1>t
       DEF SubmitSave, At, Save, WriteRecord, ManagerMkdirs, Mkdirs, Fresh, Go, jobs, NameOK,
           NameUsable, TypeOK, Metas
  <1>10. ASSUME NEW a \in Actors, NEW j \in Jobs, NEW d \in Dirs, FixSave(a, j, d) PROVE NameOK'
    BY <1>10, <1>t
       DEF FixSave, WriteRecord, ManagerMkdirs, Mkdirs, Fresh, jobs, NameOK, NameUsable, TypeOK,
           Metas
  <1>11. ASSUME NEW a \in Actors, NEW j \in Jobs, NEW d \in Dirs, Settle(a, j, d) PROVE NameOK'
    BY <1>11, <1>t
       DEF Settle, Target, At, Save, WriteRecord, ManagerMkdirs, Mkdirs, Fresh, Go, jobs, NameOK,
           NameUsable, TypeOK, Metas
  <1>12. ASSUME NEW a \in Actors, NEW j \in Jobs, Signal(a, j) PROVE NameOK'
    BY <1>12, <1>t
       DEF Signal, Target, At, Go, store, jobs, ghost, NameOK, NameUsable, TypeOK, Metas
  <1>13. ASSUME NEW a \in Actors, NEW j \in Jobs, NEW d \in Dirs,
                CancelSave(a, j, d)
         PROVE  NameOK'
    BY <1>13, <1>t
       DEF CancelSave, At, Save, WriteRecord, ManagerMkdirs, Mkdirs, Fresh, Go, jobs, NameOK,
           NameUsable, TypeOK, Metas
  <1>14. ASSUME NEW a \in Actors, Return(a) PROVE NameOK'
    BY <1>14, <1>t DEF Return, At, Go, store, jobs, own, ghost, NameOK, NameUsable, TypeOK, Metas
  <1>15. ASSUME NEW a \in Actors, Redirect(a) PROVE NameOK'
    BY <1>15, <1>t DEF Redirect, Gone, store, ctl, own, ghost, NameOK, NameUsable, TypeOK, Metas
  <1>16. ASSUME NEW a \in Actors, ExecBwrap(a) PROVE NameOK'
    BY <1>16, <1>t DEF ExecBwrap, Gone, store, ctl, own, ghost, NameOK, NameUsable, TypeOK, Metas
  <1>17. ASSUME NEW a \in Actors, End(a) PROVE NameOK'
    BY <1>17, <1>t DEF End, Gone, store, ctl, own, ghost, NameOK, NameUsable, TypeOK, Metas
  <1>18. ASSUME NEW a \in Actors, ArchiveLoad(a) PROVE NameOK'
    BY <1>18, <1>t DEF ArchiveLoad, Begins, Go, store, jobs, NameOK, NameUsable, TypeOK, Metas
  <1>19. ASSUME NEW a \in Actors, ArchiveCheck(a) PROVE NameOK'
    <2>1. /\ pc[a] = "archive" /\ UNCHANGED <<current, meta, output, text, torn>>
          /\ Go(a, "done") \/ Go(a, "mark")
      BY <1>19, ArchiveCheckCases
    <2> QED BY <1>t, <2>1 DEF Go, NameOK, NameUsable, TypeOK
  <1>20. ASSUME NEW a \in Actors, Mark(a) PROVE NameOK'
    BY <1>20, <1>t DEF Mark, At, Go, jobs, own, ghost, NameOK, NameUsable, TypeOK, Metas
  <1>21. ASSUME NEW a \in Actors, Move(a) PROVE NameOK'
    BY <1>21, <1>t DEF Move, At, Go, jobs, own, NameOK, NameUsable, TypeOK, Metas
  <1>22. ASSUME NEW a \in Actors, MoveOutput(a) PROVE NameOK'
    BY <1>22, <1>t DEF MoveOutput, Go, jobs, own, ghost, NameOK, NameUsable, TypeOK, Metas
  <1>23. ASSUME NEW a \in Actors, DescribeRead(a) PROVE NameOK'
    BY <1>23, <1>t
       DEF DescribeRead, Begins, Loadable, Go, store, jobs, ghost, NameOK, NameUsable, TypeOK,
           Metas
  <1>24. ASSUME NEW a \in Actors, DescribeWrite(a) PROVE NameOK'
    BY <1>24, <1>t DEF DescribeWrite, Go, jobs, NameOK, NameUsable, TypeOK, Metas
  <1>25. ASSUME NEW a \in Actors, CommandDies(a) PROVE NameOK'
    BY <1>25, <1>t
       DEF CommandDies, Die, Active, store, jobs, Torn, Half, NameOK, NameUsable, TypeOK, Metas
  <1>26. CASE ServerDies
    BY <1>26, <1>t
       DEF ServerDies, Die, Active, store, jobs, Torn, Half, NameOK, NameUsable, TypeOK, Metas
  <1>27. CASE UNCHANGED vars
    BY <1>27, <1>t DEF vars, store, jobs, ctl, own, ghost, NameOK, NameUsable, TypeOK, Metas
  <1> QED BY <1>1, <1>2, <1>3, <1>4, <1>5, <1>6, <1>7, <1>8, <1>9, <1>10, <1>11, <1>12, <1>13,
           <1>14, <1>15, <1>16, <1>17, <1>18, <1>19, <1>20, <1>21, <1>22, <1>23, <1>24, <1>25,
           <1>26, <1>27
         DEF Next, Create, Archive, Request, Process

\* The output directory is the instance's, or about to be moved, unless torn.
LEMMA OutputStep == IInv /\ [Next]_vars => OutputOK'
  <1> SUFFICES ASSUME IInv, [Next]_vars PROVE OutputOK'
    OBVIOUS
  <1>t. TypeOK /\ OutputOK
    BY DEF IInv
  <1>1. ASSUME NEW a \in Actors, CreateLook(a) PROVE OutputOK'
    BY <1>1, <1>t DEF CreateLook, Begins, Go, store, jobs, own, ghost, OutputOK, TypeOK
  <1>2. ASSUME NEW a \in Actors, NEW d \in Dirs, CreateDirs(a, d) PROVE OutputOK'
    BY <1>2, <1>t DEF CreateDirs, Mkdirs, Fresh, Go, jobs, own, OutputOK, TypeOK
  <1>3. ASSUME NEW a \in Actors, CreateMeta(a) PROVE OutputOK'
    BY <1>3, <1>t DEF CreateMeta, Go, jobs, own, ghost, OutputOK, TypeOK
  <1>4. ASSUME NEW a \in Actors, NEW k \in {"submit", "ask"}, Load(a, k) PROVE OutputOK'
    BY <1>4, <1>t DEF Load, Begins, Loadable, Go, store, own, ghost, OutputOK, TypeOK
  <1>5. ASSUME NEW a \in Actors, GetManager(a) PROVE OutputOK'
    <2>1. /\ pc[a] \in {"submit", "ask"} /\ UNCHANGED <<current, meta, output, text, torn>>
          /\ \E l \in {"wait", "audit", "outputs"} : Go(a, l)
      BY <1>5, GetManagerCases
    <2> QED BY <1>t, <2>1 DEF Go, OutputOK, TypeOK
  <1>6. ASSUME NEW a \in Actors, Audit(a) PROVE OutputOK'
    BY <1>6, <1>t DEF Audit, At, Go, store, jobs, own, ghost, OutputOK, TypeOK
  <1>7. ASSUME NEW a \in Actors, NEW d \in Dirs, MakeOutputs(a, d) PROVE OutputOK'
    BY <1>7, <1>t
       DEF MakeOutputs, At, ManagerMkdirs, Mkdirs, Fresh, Go, jobs, own, OutputOK, TypeOK
  <1>8. ASSUME NEW a \in Actors, NEW d \in Dirs, Spawn(a, d) PROVE OutputOK'
    BY <1>8, <1>t DEF Spawn, At, ManagerMkdirs, Mkdirs, Fresh, Go, own, OutputOK, TypeOK
  <1>9. ASSUME NEW a \in Actors, NEW d \in Dirs, SubmitSave(a, d) PROVE OutputOK'
    BY <1>9, <1>t
       DEF SubmitSave, At, Save, WriteRecord, ManagerMkdirs, Mkdirs, Fresh, Go, jobs, OutputOK,
           TypeOK
  <1>10. ASSUME NEW a \in Actors, NEW j \in Jobs, NEW d \in Dirs, FixSave(a, j, d) PROVE OutputOK'
    BY <1>10, <1>t DEF FixSave, WriteRecord, ManagerMkdirs, Mkdirs, Fresh, jobs, OutputOK, TypeOK
  <1>11. ASSUME NEW a \in Actors, NEW j \in Jobs, NEW d \in Dirs, Settle(a, j, d) PROVE OutputOK'
    BY <1>11, <1>t
       DEF Settle, Target, At, Save, WriteRecord, ManagerMkdirs, Mkdirs, Fresh, Go, jobs,
           OutputOK, TypeOK
  <1>12. ASSUME NEW a \in Actors, NEW j \in Jobs, Signal(a, j) PROVE OutputOK'
    BY <1>12, <1>t DEF Signal, Target, At, Go, store, jobs, ghost, OutputOK, TypeOK
  <1>13. ASSUME NEW a \in Actors, NEW j \in Jobs, NEW d \in Dirs,
                CancelSave(a, j, d)
         PROVE  OutputOK'
    BY <1>13, <1>t
       DEF CancelSave, At, Save, WriteRecord, ManagerMkdirs, Mkdirs, Fresh, Go, jobs, OutputOK,
           TypeOK
  <1>14. ASSUME NEW a \in Actors, Return(a) PROVE OutputOK'
    BY <1>14, <1>t DEF Return, At, Go, store, jobs, own, ghost, OutputOK, TypeOK
  <1>15. ASSUME NEW a \in Actors, Redirect(a) PROVE OutputOK'
    BY <1>15, <1>t DEF Redirect, Gone, store, ctl, own, ghost, OutputOK, TypeOK
  <1>16. ASSUME NEW a \in Actors, ExecBwrap(a) PROVE OutputOK'
    BY <1>16, <1>t DEF ExecBwrap, Gone, store, ctl, own, ghost, OutputOK, TypeOK
  <1>17. ASSUME NEW a \in Actors, End(a) PROVE OutputOK'
    BY <1>17, <1>t DEF End, Gone, store, ctl, own, ghost, OutputOK, TypeOK
  <1>18. ASSUME NEW a \in Actors, ArchiveLoad(a) PROVE OutputOK'
    BY <1>18, <1>t DEF ArchiveLoad, Begins, Go, store, jobs, OutputOK, TypeOK
  <1>19. ASSUME NEW a \in Actors, ArchiveCheck(a) PROVE OutputOK'
    <2>1. /\ pc[a] = "archive" /\ UNCHANGED <<current, meta, output, text, torn>>
          /\ Go(a, "done") \/ Go(a, "mark")
      BY <1>19, ArchiveCheckCases
    <2> QED BY <1>t, <2>1 DEF Go, OutputOK, TypeOK
  <1>20. ASSUME NEW a \in Actors, Mark(a) PROVE OutputOK'
    BY <1>20, <1>t DEF Mark, At, Go, jobs, own, ghost, OutputOK, TypeOK
  <1>21. ASSUME NEW a \in Actors, Move(a) PROVE OutputOK'
    BY <1>21, <1>t DEF Move, At, Go, jobs, own, OutputOK, TypeOK
  <1>22. ASSUME NEW a \in Actors, MoveOutput(a) PROVE OutputOK'
    BY <1>22, <1>t DEF MoveOutput, Go, jobs, own, ghost, OutputOK, TypeOK
  <1>23. ASSUME NEW a \in Actors, DescribeRead(a) PROVE OutputOK'
    BY <1>23, <1>t DEF DescribeRead, Begins, Loadable, Go, store, jobs, ghost, OutputOK, TypeOK
  <1>24. ASSUME NEW a \in Actors, DescribeWrite(a) PROVE OutputOK'
    BY <1>24, <1>t DEF DescribeWrite, Go, jobs, OutputOK, TypeOK
  <1>25. ASSUME NEW a \in Actors, CommandDies(a) PROVE OutputOK'
    BY <1>25, <1>t DEF CommandDies, Die, Active, store, jobs, Torn, Half, OutputOK, TypeOK
  <1>26. CASE ServerDies
    BY <1>26, <1>t DEF ServerDies, Die, Active, store, jobs, Torn, Half, OutputOK, TypeOK
  <1>27. CASE UNCHANGED vars
    BY <1>27, <1>t DEF vars, store, jobs, ctl, own, ghost, OutputOK, TypeOK
  <1> QED BY <1>1, <1>2, <1>3, <1>4, <1>5, <1>6, <1>7, <1>8, <1>9, <1>10, <1>11, <1>12, <1>13,
           <1>14, <1>15, <1>16, <1>17, <1>18, <1>19, <1>20, <1>21, <1>22, <1>23, <1>24, <1>25,
           <1>26, <1>27
         DEF Next, Create, Archive, Request, Process

\* A job that no manager overlooked, and that is not starting, is found running again, and
\* so is not among those that a new manager has to save.
LEMMA EntriesKeep ==
    ASSUME ProcCheck, TypeOK, NEW j \in Jobs, j \in Alive, j \notin Starting, Watched(j)
    PROVE  /\ Entries[j] = Loaded[j]
           /\ pc[j] # "spawned" => Entries[j] = "running"
  <1>1. current # None /\ Loaded = records[current] /\ Visible(j)
    BY DEF Watched, Visible, Alive, Starting, Loaded
  <1>2. Entries[j] = Loaded[j]
    BY <1>1 DEF Entries
  <1> QED BY <1>1, <1>2 DEF Watched

\* With proc_check, a job that no manager overlooked keeps every archiver off.
LEMMA IdleStep == ProcCheck /\ IInv /\ [Next]_vars => IdleOK'
  <1> SUFFICES ASSUME ProcCheck, IInv, [Next]_vars PROVE IdleOK'
    OBVIOUS
  <1>t. ProcCheck /\ TypeOK /\ FreshOK /\ IdleOK
    BY DEF IInv
  <1>1. ASSUME NEW a \in Actors, CreateLook(a) PROVE IdleOK'
    BY <1>1, <1>t
       DEF CreateLook, Begins, Go, store, jobs, own, ghost, IdleOK, Watched, PastCheck, Alive,
           Starting, FreshOK, TypeOK
  <1>2. ASSUME NEW a \in Actors, NEW d \in Dirs, CreateDirs(a, d) PROVE IdleOK'
    BY <1>2, <1>t
       DEF CreateDirs, Mkdirs, Fresh, Go, jobs, own, IdleOK, Watched, PastCheck, Alive, Starting,
           FreshOK, TypeOK
  <1>3. ASSUME NEW a \in Actors, CreateMeta(a) PROVE IdleOK'
    BY <1>3, <1>t
       DEF CreateMeta, Go, jobs, own, ghost, IdleOK, Watched, PastCheck, Alive, Starting, FreshOK,
           TypeOK
  <1>4. ASSUME NEW a \in Actors, NEW k \in {"submit", "ask"}, Load(a, k) PROVE IdleOK'
    BY <1>4, <1>t
       DEF Load, Begins, Loadable, Go, store, own, ghost, IdleOK, Watched, PastCheck, Alive,
           Starting, FreshOK, TypeOK
  <1>5. ASSUME NEW a \in Actors, GetManager(a) PROVE IdleOK'
    <2>1. PICK l \in {"wait", "audit", "outputs"} : pc' = [pc EXCEPT ![a] = l]
      BY <1>5, GetManagerCases DEF Go
    <2>2. /\ pc[a] \in {"submit", "ask"}
          /\ UNCHANGED <<current, records, shelf, proc, status, bound, abandoned>>
      BY <1>5, GetManagerCases
    <2>3. \A b \in Actors : PastCheck(b)' <=> PastCheck(b)
      BY <1>t, <2>1, <2>2 DEF PastCheck, TypeOK
    <2>4. \A j \in Jobs : Watched(j) => Watched(j)'
      BY <1>t, <2>1, <2>2, <2>3 DEF Watched, TypeOK
    <2>5. CASE mem' = mem /\ todo' = todo /\ unseen' = unseen
      BY <1>t, <2>2, <2>4, <2>5 DEF IdleOK, Alive
    <2>6. CASE Construct(a) /\ unseen' = unseen \cup Starting
      <3>1. \A j \in Alive : j \in unseen' \cup abandoned \/ j \notin todo'[a]
        BY <1>t, <2>6, ConstructFacts, EntriesKeep DEF IdleOK, Alive
      <3>2. \A b \in Actors \ {a} : todo'[b] = todo[b]
        BY <1>t, <2>6, ConstructFacts
      <3> QED BY <1>t, <2>2, <2>4, <2>6, <3>1, <3>2 DEF IdleOK, Alive
    <2> QED BY <1>5, <2>5, <2>6, GetManagerCases
  <1>6. ASSUME NEW a \in Actors, Audit(a) PROVE IdleOK'
    BY <1>6, <1>t
       DEF Audit, At, Go, store, jobs, own, ghost, IdleOK, Watched, PastCheck, Alive, Starting,
           FreshOK, TypeOK
  <1>7. ASSUME NEW a \in Actors, NEW d \in Dirs, MakeOutputs(a, d) PROVE IdleOK'
    BY <1>7, <1>t
       DEF MakeOutputs, At, ManagerMkdirs, Mkdirs, Fresh, Go, jobs, own, IdleOK, Watched,
           PastCheck, Alive, Starting, FreshOK, TypeOK
  <1>8. ASSUME NEW a \in Actors, NEW d \in Dirs, Spawn(a, d) PROVE IdleOK'
    <2>1. /\ pc[a] = "status" /\ pc' = [pc EXCEPT ![a] = "spawned"] /\ Mkdirs(d) /\ current' = d
          /\ UNCHANGED <<records, shelf, status, bound, todo, abandoned>>
          /\ unseen' = unseen \cup {j \in {a} : \E b \in Actors : PastCheck(b)}
      BY <1>8 DEF Spawn, At, Go, own, ManagerMkdirs
    <2>2. proc'[a] = "sh" /\ \A j \in Jobs \ {a} : proc'[j] = proc[j]
      BY <1>8, <1>t DEF Spawn, TypeOK
    <2>3. \A b \in Actors : PastCheck(b)' <=> PastCheck(b)
      BY <1>t, <2>1 DEF PastCheck, TypeOK
    <2>4. \A j \in Jobs \ {a} : Watched(j) => Watched(j)'
      BY <1>t, <2>1, <2>2, <2>3 DEF Watched, Mkdirs, TypeOK
    <2>5. a \in unseen' \/ Watched(a)'
      BY <1>t, <2>1, <2>2, <2>3 DEF Watched, TypeOK
    <2>6. \A b \in Actors : a \notin todo[b]
      <3>1. proc[a] = "none"
        BY <1>t, <2>1 DEF FreshOK, Submitting
      <3> QED BY <1>t, <3>1 DEF FreshOK
    <2>7. d \notin shelf
      BY <1>t, <2>1 DEF IdleOK, Mkdirs, Fresh
    <2> QED BY <1>t, <2>1, <2>2, <2>4, <2>5, <2>6, <2>7 DEF IdleOK, Alive
  <1>9. ASSUME NEW a \in Actors, NEW d \in Dirs, SubmitSave(a, d) PROVE IdleOK'
    BY <1>9, <1>t
       DEF SubmitSave, At, Save, WriteRecord, ManagerMkdirs, Mkdirs, Fresh, Go, jobs, IdleOK,
           Watched, PastCheck, Alive, Starting, FreshOK, TypeOK
  <1>10. ASSUME NEW a \in Actors, NEW j \in Jobs, NEW d \in Dirs, FixSave(a, j, d) PROVE IdleOK'
    BY <1>10, <1>t
       DEF FixSave, WriteRecord, ManagerMkdirs, Mkdirs, Fresh, jobs, IdleOK, Watched, PastCheck,
           Alive, Starting, FreshOK, TypeOK
  <1>11. ASSUME NEW a \in Actors, NEW j \in Jobs, NEW d \in Dirs, Settle(a, j, d) PROVE IdleOK'
    BY <1>11, <1>t
       DEF Settle, Target, At, Save, WriteRecord, ManagerMkdirs, Mkdirs, Fresh, Go, jobs, Handle,
           Visible, IdleOK, Watched, PastCheck, Alive, Starting, FreshOK, TypeOK
  <1>12. ASSUME NEW a \in Actors, NEW j \in Jobs, Signal(a, j) PROVE IdleOK'
    BY <1>12, <1>t
       DEF Signal, Target, At, Go, store, jobs, ghost, IdleOK, Watched, PastCheck, Alive,
           Starting, FreshOK, TypeOK
  <1>13. ASSUME NEW a \in Actors, NEW j \in Jobs, NEW d \in Dirs,
                CancelSave(a, j, d)
         PROVE  IdleOK'
    BY <1>13, <1>t
       DEF CancelSave, At, Save, WriteRecord, ManagerMkdirs, Mkdirs, Fresh, Go, jobs, IdleOK,
           Watched, PastCheck, Alive, Starting, FreshOK, TypeOK
  <1>14. ASSUME NEW a \in Actors, Return(a) PROVE IdleOK'
    BY <1>14, <1>t
       DEF Return, At, Go, store, jobs, own, ghost, IdleOK, Watched, PastCheck, Alive, Starting,
           FreshOK, TypeOK
  <1>15. ASSUME NEW a \in Actors, Redirect(a) PROVE IdleOK'
    <2>1. UNCHANGED <<current, records, shelf, pc, todo, unseen, abandoned>> /\ proc[a] = "sh"
      BY <1>15 DEF Redirect, store, ctl, own, ghost
    <2>2. \A j \in Jobs \ {a} :
              proc'[j] = proc[j] /\ status'[j] = status[j] /\ bound'[j] = bound[j]
      BY <1>15, <1>t DEF Redirect, Gone, TypeOK
    <2>3. proc'[a] = "gone" \/ (proc'[a] = "python" /\ status'[a] = current)
      BY <1>15, <1>t DEF Redirect, Gone, TypeOK
    <2>4. \A j \in Jobs : Watched(j) => Watched(j)'
      BY <1>t, <2>1, <2>2, <2>3 DEF Watched, PastCheck
    <2> QED BY <1>t, <2>1, <2>2, <2>4 DEF IdleOK, Alive
  <1>16. ASSUME NEW a \in Actors, ExecBwrap(a) PROVE IdleOK'
    BY <1>16, <1>t
       DEF ExecBwrap, Gone, store, ctl, own, ghost, IdleOK, Watched, PastCheck, Alive, Starting,
           FreshOK, TypeOK
  <1>17. ASSUME NEW a \in Actors, End(a) PROVE IdleOK'
    BY <1>17, <1>t
       DEF End, Gone, store, ctl, own, ghost, IdleOK, Watched, PastCheck, Alive, Starting,
           FreshOK, TypeOK
  <1>18. ASSUME NEW a \in Actors, ArchiveLoad(a) PROVE IdleOK'
    BY <1>18, <1>t
       DEF ArchiveLoad, Begins, Go, store, jobs, IdleOK, Watched, PastCheck, Alive, Starting,
           FreshOK, TypeOK
  <1>19. ASSUME NEW a \in Actors, ArchiveCheck(a) PROVE IdleOK'
    <2>1. /\ pc[a] = "archive"
          /\ UNCHANGED <<current, records, shelf, proc, status, bound, abandoned>>
      BY <1>19, ArchiveCheckCases
    <2>2. CASE Go(a, "done") /\ todo' = todo /\ unseen' = unseen
      BY <1>t, <2>1, <2>2 DEF Go, IdleOK, Watched, PastCheck, Alive, TypeOK
    <2>3. CASE /\ Construct(a)
               /\ unseen' = unseen \cup Starting \cup {j \in Jobs : pc[j] = "spawned"}
               /\ \E l \in {"done", "mark"} :
                      Go(a, l) /\ (l = "mark" => \A j \in Jobs : Entries[j] # "running")
      <3>1. PICK l \in {"done", "mark"} :
                /\ pc' = [pc EXCEPT ![a] = l]
                /\ l = "mark" => \A j \in Jobs : Entries[j] # "running"
        BY <2>3 DEF Go
      <3>2. \A j \in Alive : j \in unseen' \cup abandoned
                             \/ (Watched(j) /\ Entries[j] = "running" /\ j \notin todo'[a])
        BY <1>t, <2>3, ConstructFacts, EntriesKeep DEF IdleOK, Alive
      <3>3. ASSUME NEW j \in Alive, j \notin unseen' \cup abandoned
            PROVE  Watched(j)'
        <4>1. Watched(j) /\ l # "mark" /\ pc[j] # "spawned" /\ j \in Jobs
          BY <2>3, <3>1, <3>2, <3>3 DEF Alive
        <4>2. \A b \in Actors : ~PastCheck(b)'
          BY <1>t, <2>1, <3>1, <4>1 DEF Watched, PastCheck, TypeOK
        <4> QED BY <2>1, <4>1, <4>2 DEF Watched
      <3>4. \A b \in Actors \ {a} : todo'[b] = todo[b]
        BY <1>t, <2>3, ConstructFacts
      <3> QED BY <1>t, <2>1, <2>3, <3>2, <3>3, <3>4 DEF IdleOK, Alive
    <2> QED BY <1>19, <2>2, <2>3, ArchiveCheckCases
  <1>20. ASSUME NEW a \in Actors, Mark(a) PROVE IdleOK'
    BY <1>20, <1>t
       DEF Mark, At, Go, jobs, own, ghost, IdleOK, Watched, PastCheck, Alive, Starting, FreshOK,
           TypeOK
  <1>21. ASSUME NEW a \in Actors, Move(a) PROVE IdleOK'
    BY <1>21, <1>t
       DEF Move, At, Go, jobs, own, IdleOK, Watched, PastCheck, Alive, Starting, FreshOK, TypeOK
  <1>22. ASSUME NEW a \in Actors, MoveOutput(a) PROVE IdleOK'
    BY <1>22, <1>t
       DEF MoveOutput, Go, jobs, own, ghost, IdleOK, Watched, PastCheck, Alive, Starting, FreshOK,
           TypeOK
  <1>23. ASSUME NEW a \in Actors, DescribeRead(a) PROVE IdleOK'
    BY <1>23, <1>t
       DEF DescribeRead, Begins, Loadable, Go, store, jobs, ghost, IdleOK, Watched, PastCheck,
           Alive, Starting, FreshOK, TypeOK
  <1>24. ASSUME NEW a \in Actors, DescribeWrite(a) PROVE IdleOK'
    BY <1>24, <1>t
       DEF DescribeWrite, Go, jobs, IdleOK, Watched, PastCheck, Alive, Starting, FreshOK, TypeOK
  <1>25. ASSUME NEW a \in Actors, CommandDies(a) PROVE IdleOK'
    BY <1>25, <1>t
       DEF CommandDies, Die, Active, store, jobs, IdleOK, Watched, PastCheck, Alive, Starting,
           FreshOK, TypeOK
  <1>26. CASE ServerDies
    BY <1>26, <1>t
       DEF ServerDies, Die, Active, store, jobs, IdleOK, Watched, PastCheck, Alive, Starting,
           FreshOK, TypeOK
  <1>27. CASE UNCHANGED vars
    BY <1>27, <1>t
       DEF vars, store, jobs, ctl, own, ghost, IdleOK, Watched, PastCheck, Alive, Starting,
           FreshOK, TypeOK
  <1> QED BY <1>1, <1>2, <1>3, <1>4, <1>5, <1>6, <1>7, <1>8, <1>9, <1>10, <1>11, <1>12, <1>13,
           <1>14, <1>15, <1>16, <1>17, <1>18, <1>19, <1>20, <1>21, <1>22, <1>23, <1>24, <1>25,
           <1>26, <1>27
         DEF Next, Create, Archive, Request, Process

LEMMA InitIInv == Init => IInv
  <1> SUFFICES ASSUME Init PROVE IInv
    OBVIOUS
  <1>1. PICK d \in Dirs : /\ current = d /\ output = d
                         /\ meta = [e \in Dirs |-> IF e = d THEN "live" ELSE "none"]
    BY DEF Init
  <1>2. TypeOK
    <2>1. records \in [Dirs -> [Jobs -> {"none", "running", "ended"}]]
      BY DEF Init
    <2>2. mem \in [Actors -> [Jobs -> {"none", "running", "ended"}]]
      BY DEF Init
    <2> QED BY <1>1, <2>1, <2>2 DEF Init, TypeOK, Metas, Pcs
  <1>3. FreshOK
    BY DEF Init, FreshOK, Submitting
  <1>4. HomeOK
    BY DEF Init, HomeOK, JobsStayHome, Submitting
  <1>5. NameOK
    BY <1>1 DEF Init, NameOK, NameUsable
  <1>6. OutputOK
    BY <1>1 DEF Init, OutputOK
  <1>7. IdleOK
    BY <1>1 DEF Init, IdleOK, Alive
  <1> QED BY <1>2, <1>3, <1>4, <1>5, <1>6, <1>7 DEF IInv

\* The inductive invariant holds of every behaviour of the tool calls and commands that
\* work on the instances of one name.
THEOREM Invariance == Spec => []IInv
  <1>1. IInv /\ [Next]_vars => IInv'
    BY TypeStep, FreshStep, HomeStep, NameStep, OutputStep, IdleStep DEF IInv
  <1> QED BY InitIInv, <1>1, PTL DEF Spec

\* With proc_check, a sandbox bound to an archived instance is one that a manager looked
\* for too early, or that was started between the check of Instance.archive and its move,
\* or that a cancel recorded as ended without having seen it end.
THEOREM IdleWhenArchived == Spec => []ArchivedIsIdle
  <1>1. IInv => ArchivedIsIdle
    BY DEF IInv, ArchivedIsIdle, IdleOK, Watched, Alive, TypeOK
  <1> QED BY Invariance, <1>1, PTL

\* The record of a job lies in the instance it was submitted to, unless a request in flight
\* or the server's cached manager outlived a move of the directory.
THEOREM RecordsAtHome == Spec => []JobsStayHome
  <1>1. IInv => JobsStayHome
    BY DEF IInv, HomeOK
  <1> QED BY Invariance, <1>1, PTL

\* The name can be loaded or created, unless a crash, a bare directory made by a save or
\* by a submit that had loaded the instance before it was moved, or a description written
\* back is in the way.
THEOREM UsableName == Spec => []NameUsable
  <1>1. IInv => NameUsable
    BY DEF IInv, NameOK
  <1> QED BY Invariance, <1>1, PTL

\* The output directory of the name is not an archived instance's, unless the instance was
\* created between the two renames of Instance.archive, or is a bare directory.
THEOREM OwnOutput == Spec => []OutputIsOwn
  <1>1. IInv => OutputIsOwn
    BY DEF IInv, OutputOK, OutputIsOwn
  <1> QED BY Invariance, <1>1, PTL
==============================================================================
