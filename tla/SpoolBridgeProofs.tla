---------------------------- MODULE SpoolBridgeProofs ----------------------------
(***************************************************************************)
(* Safety of the WebDAV bridge, for any requests, limits and sizes: a       *)
(* thread never outlives the request whose spool file it reads, a stopped   *)
(* response stops soon, the shared counters are what the admitted requests  *)
(* hold, and the reservations keep the floor of free space.                 *)
(***************************************************************************)
EXTENDS SpoolBridge, FiniteSetTheorems, SequenceTheorems, TLAPS

Waiting == {"queued", "app", "sending"}

\* The types of what the invariant speaks of.
Shape ==
    /\ stage  \in [Requests -> Stages]
    /\ stop   \in [Requests -> BOOLEAN]
    /\ worker \in [Requests -> {"none", "queued", "app", "sending", "ended"}]
    /\ queue  \in Seq(Requests)
    /\ outbox \in [Requests -> 0..2]
    /\ late   \in [Requests -> Nat]

\* Every call in the executor's queue waits there once.
QueueOK ==
    /\ \A i \in 1..Len(queue) : worker[queue[i]] = "queued"
    /\ \A i, j \in 1..Len(queue) : queue[i] = queue[j] => i = j

\* What is still to send after a stop counts against the two messages.
LateOK ==
    \A r \in Requests :
        /\ ~stop[r] => late[r] = 0
        /\ late[r] <= 2
        /\ worker[r] = "sending" => outbox[r] >= 1 /\ late[r] + outbox[r] <= 2

\* The counter of the admission.
AdmitOK ==
    /\ IsFiniteSet(Admitted)
    /\ inflight = Cardinality(Admitted)
    /\ inflight <= MaxInflight

IInv == Shape /\ WorkerKeepsBody /\ QueueOK /\ LateOK /\ AdmitOK

------------------------------------------------------------------------------
(* The counter.                                                            *)

\* A step that neither admits nor releases a request.
LEMMA SameAdmitted ==
    ASSUME AdmitOK, UNCHANGED inflight, Admitted' = Admitted
    PROVE  AdmitOK'
BY DEF AdmitOK

LEMMA Admit ==
    ASSUME AdmitOK, NEW r \in Requests, r \notin Admitted,
           Admitted' = Admitted \cup {r}, inflight < MaxInflight, inflight' = inflight + 1
    PROVE  AdmitOK'
<1>1. /\ IsFiniteSet(Admitted \cup {r})
      /\ Cardinality(Admitted \cup {r}) = Cardinality(Admitted) + 1
  BY FS_AddElement DEF AdmitOK
<1>2. Cardinality(Admitted) \in Nat  BY FS_CardinalityType DEF AdmitOK
<1> QED  BY <1>1, <1>2, SpoolAssumption DEF AdmitOK

LEMMA Release ==
    ASSUME AdmitOK, NEW r \in Requests, r \in Admitted,
           Admitted' = Admitted \ {r}, inflight' = inflight - 1
    PROVE  AdmitOK'
<1>1. /\ IsFiniteSet(Admitted \ {r})
      /\ Cardinality(Admitted \ {r}) = Cardinality(Admitted) - 1
  BY FS_RemoveElement DEF AdmitOK
<1>2. Cardinality(Admitted) \in Nat  BY FS_CardinalityType DEF AdmitOK
<1> QED  BY <1>1, <1>2, SpoolAssumption DEF AdmitOK

------------------------------------------------------------------------------
(* The coroutine.                                                          *)

LEMMA BusyKeeps == ASSUME IInv, NEW r \in Requests, Busy(r) PROVE IInv'
<1>1. Shape'  BY DEF IInv, Shape, Busy, workerVars, Stages
<1>2. WorkerKeepsBody'  BY DEF IInv, Shape, Busy, workerVars, WorkerKeepsBody
<1>3. QueueOK' /\ LateOK'  BY DEF IInv, Busy, workerVars, QueueOK, LateOK
<1>4. Admitted' = Admitted  BY DEF IInv, Shape, Busy, Admitted
<1> QED  BY <1>1, <1>2, <1>3, <1>4, SameAdmitted DEF IInv, Busy

LEMMA ArriveKeeps == ASSUME IInv, NEW r \in Requests, NEW d \in Declared, Arrive(r, d) PROVE IInv'
<1>0. \E s \in {"refusing", "receiving"} : stage' = [stage EXCEPT ![r] = s]  BY DEF Arrive
<1>1. Shape'  BY <1>0 DEF IInv, Shape, Arrive, workerVars, Stages
<1>2. WorkerKeepsBody'  BY <1>0 DEF IInv, Shape, Arrive, workerVars, WorkerKeepsBody
<1>3. QueueOK' /\ LateOK'  BY DEF IInv, Arrive, workerVars, QueueOK, LateOK
<1>4. r \notin Admitted /\ Admitted' = Admitted \cup {r}  BY <1>0 DEF IInv, Shape, Arrive, Admitted
<1> QED  BY <1>1, <1>2, <1>3, <1>4, Admit DEF IInv, Arrive

\* Whichever way a request ends, its worker is not at work.
LEMMA EndKeeps ==
    ASSUME IInv, NEW r \in Requests, r \in Admitted, worker[r] \notin Waiting, End(r)
    PROVE  IInv'
<1>1. Shape'  BY DEF IInv, Shape, End, Stages
<1>2. WorkerKeepsBody'  BY DEF IInv, Shape, End, WorkerKeepsBody, Waiting
<1>3. QueueOK'  BY DEF IInv, QueueOK, End
<1>4. LateOK'  BY DEF IInv, Shape, LateOK, End, Waiting
<1>5. Admitted' = Admitted \ {r}  BY DEF IInv, Shape, End, Admitted
<1> QED  BY <1>1, <1>2, <1>3, <1>4, <1>5, Release DEF IInv, End

LEMMA EndsKeep ==
    ASSUME IInv, NEW r \in Requests, Refused(r) \/ GiveUp(r) \/ WorkerDone(r)
    PROVE  IInv'
<1>1. r \in Admitted  BY DEF Refused, GiveUp, WorkerDone, Admitted
<1>2. worker[r] \notin Waiting  BY DEF IInv, Shape, Refused, GiveUp, WorkerDone, WorkerKeepsBody, Waiting
<1>3. End(r)  BY DEF Refused, GiveUp, WorkerDone
<1> QED  BY <1>1, <1>2, <1>3, EndKeeps

\* A chunk that is refused, is followed by another, or is the last.
LEMMA ChunkKeeps ==
    ASSUME IInv, NEW r \in Requests, NEW n \in 0..MaxBody, NEW more \in BOOLEAN, Chunk(r, n, more)
    PROVE  IInv'
<1>0. /\ stage[r] = "receiving" /\ UNCHANGED <<inflight, stop, outbox, late>>
      /\ \/ stage' = [stage EXCEPT ![r] = "refusing"] /\ UNCHANGED <<worker, queue>>
         \/ UNCHANGED <<stage, worker, queue>>
         \/ /\ stage'  = [stage EXCEPT ![r] = "waiting"]
            /\ worker' = [worker EXCEPT ![r] = "queued"]
            /\ queue'  = Append(queue, r)
  BY DEF Chunk, Refuse, workerVars
<1>1. Admitted' = Admitted  BY <1>0 DEF IInv, Shape, Admitted
<1>2. AdmitOK'  BY <1>0, <1>1, SameAdmitted DEF IInv
<1>3. CASE UNCHANGED <<worker, queue>>
  <2>1. Shape'  BY <1>0, <1>3 DEF IInv, Shape, Stages
  <2>2. WorkerKeepsBody'  BY <1>0, <1>3 DEF IInv, Shape, WorkerKeepsBody
  <2>3. QueueOK' /\ LateOK'  BY <1>0, <1>3 DEF IInv, QueueOK, LateOK
  <2> QED  BY <1>2, <2>1, <2>2, <2>3 DEF IInv
<1>4. CASE /\ stage'  = [stage EXCEPT ![r] = "waiting"]
           /\ worker' = [worker EXCEPT ![r] = "queued"]
           /\ queue'  = Append(queue, r)
  <2>1. Shape'  BY <1>0, <1>4 DEF IInv, Shape, Stages
  <2>2. WorkerKeepsBody'  BY <1>0, <1>4 DEF IInv, Shape, WorkerKeepsBody
  <2>3. \A i \in 1..Len(queue) : queue[i] \in Requests /\ queue[i] # r
    BY <1>0 DEF IInv, Shape, QueueOK, WorkerKeepsBody
  <2>4. /\ Len(queue') = Len(queue) + 1 /\ Len(queue) \in Nat
        /\ \A i \in 1..Len(queue) : queue'[i] = queue[i]
        /\ queue'[Len(queue) + 1] = r
    BY <1>4 DEF IInv, Shape
  <2>5. QueueOK'  BY <1>4, <2>3, <2>4 DEF IInv, Shape, QueueOK
  <2>6. LateOK'  BY <1>0, <1>4 DEF IInv, Shape, LateOK
  <2> QED  BY <1>2, <2>1, <2>2, <2>5, <2>6 DEF IInv
<1> QED  BY <1>0, <1>3, <1>4

LEMMA StopKeeps == ASSUME IInv, NEW r \in Requests, Stop(r) PROVE IInv'
<1>1. Shape'  BY DEF IInv, Shape, Stop, workerVars, Stages
<1>2. WorkerKeepsBody'  BY DEF IInv, Shape, Stop, workerVars, WorkerKeepsBody
<1>3. QueueOK'  BY DEF IInv, Stop, workerVars, QueueOK
<1>4. LateOK'  BY DEF IInv, Shape, Stop, workerVars, LateOK
<1>5. Admitted' = Admitted  BY DEF IInv, Shape, Stop, Admitted
<1> QED  BY <1>1, <1>2, <1>3, <1>4, <1>5, SameAdmitted DEF IInv, Stop

------------------------------------------------------------------------------
(* The worker: the coroutines' variables do not change.                     *)

\* A step of a worker that is on a thread, and does not touch the queue.
LEMMA ThreadKeeps ==
    ASSUME IInv, NEW r \in Requests, worker[r] \in {"app", "sending"},
           UNCHANGED <<stage, inflight, queue, stop>>,
           NEW w \in {"app", "sending", "ended"}, worker' = [worker EXCEPT ![r] = w],
           Shape', LateOK'
    PROVE  IInv'
<1>1. WorkerKeepsBody'  BY DEF IInv, Shape, WorkerKeepsBody
<1>2. QueueOK'
  <2>1. \A i \in 1..Len(queue) : queue[i] \in Requests /\ queue[i] # r  BY DEF IInv, Shape, QueueOK
  <2> QED  BY <2>1 DEF IInv, Shape, QueueOK
<1>3. AdmitOK'
  <2>1. Admitted' = Admitted  BY DEF Admitted
  <2> QED  BY <2>1, SameAdmitted DEF IInv
<1> QED  BY <1>1, <1>2, <1>3 DEF IInv

LEMMA TakeKeeps == ASSUME IInv, NEW r \in Requests, Take(r) PROVE IInv'
<1>1. PICK w \in {"ended", "app"} : worker' = [worker EXCEPT ![r] = w]  BY DEF Take
<1>2. /\ queue \in Seq(Requests) /\ queue # <<>> /\ r = queue[1]
      /\ queue' = Tail(queue) /\ queue' \in Seq(Requests)
      /\ Len(queue') = Len(queue) - 1 /\ Len(queue) \in Nat /\ Len(queue) >= 1
      /\ \A i \in 1..Len(queue') : queue'[i] = queue[i + 1]
  BY DEF IInv, Shape, Take
<1>3. worker[r] = "queued"  BY <1>2 DEF IInv, QueueOK
<1>4. Shape'  BY <1>1, <1>2 DEF IInv, Shape, Take, loopVars
<1>5. WorkerKeepsBody'  BY <1>1, <1>3 DEF IInv, Shape, Take, loopVars, WorkerKeepsBody
<1>6. QueueOK'
  <2>1. \A i \in 1..Len(queue') : i + 1 \in 1..Len(queue) /\ queue[i + 1] # queue[1]
    BY <1>2 DEF IInv, QueueOK
  <2>2. \A i \in 1..Len(queue') : worker'[queue'[i]] = "queued"
    BY <1>1, <1>2, <2>1 DEF IInv, Shape, QueueOK
  <2>3. \A i, j \in 1..Len(queue') : queue'[i] = queue'[j] => i = j
    BY <1>2, <2>1 DEF IInv, QueueOK
  <2> QED  BY <2>2, <2>3 DEF QueueOK
<1>7. LateOK'  BY <1>1 DEF IInv, Shape, Take, LateOK
<1>8. Admitted' = Admitted  BY DEF Take, loopVars, Admitted
<1> QED  BY <1>4, <1>5, <1>6, <1>7, <1>8, SameAdmitted DEF IInv, Take, loopVars

LEMMA CopyKeeps == ASSUME IInv, NEW r \in Requests, Copy(r) PROVE IInv'
<1>1. Shape' /\ WorkerKeepsBody' /\ QueueOK' /\ LateOK'
  BY DEF IInv, Copy, loopVars, Shape, WorkerKeepsBody, QueueOK, LateOK
<1>2. Admitted' = Admitted  BY DEF Copy, loopVars, Admitted
<1> QED  BY <1>1, <1>2, SameAdmitted DEF IInv, Copy, loopVars

\* The application yields, or is exhausted: what comes is sent, none of it late.
LEMMA EmitKeeps ==
    ASSUME IInv, NEW r \in Requests, worker[r] = "app", ~stop[r], Emit(r)
    PROVE  IInv'
<1>0. PICK n \in 1..2 : n = IF chunks[r] = 0 THEN 2 ELSE 1  OBVIOUS
<1>1. outbox' = [outbox EXCEPT ![r] = n]  BY <1>0 DEF Emit
<1>2. Shape'  BY <1>1 DEF IInv, Shape, Emit, loopVars
<1>3. LateOK'  BY <1>1 DEF IInv, Shape, LateOK, Emit, loopVars
<1> QED  BY <1>2, <1>3, ThreadKeeps DEF Emit, loopVars

LEMMA AbortKeeps == ASSUME IInv, NEW r \in Requests, Abort(r) PROVE IInv'
<1>1. Shape'  BY DEF IInv, Shape, Abort, Ended, loopVars
<1>2. LateOK'  BY DEF IInv, Shape, LateOK, Abort, Ended, loopVars
<1> QED  BY <1>1, <1>2, ThreadKeeps DEF Abort, Ended, loopVars

LEMMA SentKeeps == ASSUME IInv, NEW r \in Requests, Sent(r) PROVE IInv'
<1>0. outbox[r] \in 1..2 /\ late[r] \in Nat /\ late[r] + outbox[r] <= 2
  BY DEF IInv, Shape, LateOK, Sent
<1>1. PICK w \in {"app", "sending", "ended"} :
          /\ worker' = [worker EXCEPT ![r] = w]
          /\ w = "sending" => outbox[r] > 1
  BY <1>0 DEF Sent
<1>2. PICK k \in Nat : k = IF stop[r] THEN late[r] + 1 ELSE late[r]  BY <1>0
<1>3. /\ late' = [late EXCEPT ![r] = k]
      /\ k <= late[r] + 1 /\ (~stop[r] => k = late[r])
  BY <1>0, <1>2 DEF Sent
<1>4. PICK n \in 0..1 : n = outbox[r] - 1  BY <1>0
<1>5. outbox' = [outbox EXCEPT ![r] = n]  BY <1>4 DEF Sent
<1>6. Shape'  BY <1>1, <1>3, <1>5 DEF IInv, Shape, Sent, loopVars
<1>7. LateOK'  BY <1>0, <1>1, <1>3, <1>4, <1>5 DEF IInv, Shape, LateOK, Sent
<1> QED  BY <1>1, <1>6, <1>7, ThreadKeeps DEF Sent, loopVars

LEMMA SendFailsKeeps == ASSUME IInv, NEW r \in Requests, SendFails(r) PROVE IInv'
<1>1. Shape'  BY DEF IInv, Shape, SendFails, Ended, loopVars
<1>2. LateOK'  BY DEF IInv, Shape, LateOK, SendFails, Ended, loopVars
<1> QED  BY <1>1, <1>2, ThreadKeeps DEF SendFails, Ended, loopVars

------------------------------------------------------------------------------
(* Sums over a finite set: the library's fold, of which its modules prove   *)
(* nothing.  A counterexample of smallest size stands for the induction.    *)

\* The sum of the library, of a function on a set.
SumOver(f, S) == MapThenSumSet(LAMBDA x : f[x], S)

\* g gives the sums of f over the subsets of S.
AddsUp(g, f, S) ==
    /\ g \in [SUBSET S -> Int]
    /\ g[{}] = 0
    /\ \A T \in SUBSET S : \A x \in S \ T : g[T \cup {x}] = g[T] + f[x]

\* A nonempty set of subsets of a finite set has a smallest one.
LEMMA Smallest ==
    ASSUME NEW S, IsFiniteSet(S), NEW M, M \subseteq SUBSET S, M # {}
    PROVE  \E T \in M : \A U \in M : U \subseteq T => U = T
<1>1. IsWellFoundedOn(StrictSubsetOrdering(S), FiniteSubsetsOf(S))
  BY FS_StrictSubsetOrderingWellFounded
<1>2. M \subseteq FiniteSubsetsOf(S)  BY FS_FiniteSubsetsOfFinite
<1>3. \E T \in M : \A U \in M : ~ (<<U, T>> \in StrictSubsetOrdering(S))
  BY <1>1, <1>2, WFMin
<1> QED  BY <1>3 DEF StrictSubsetOrdering

\* The sums are there: to those over a smaller set the values with one element more are added.
LEMMA AddsUpExists ==
    ASSUME NEW S, IsFiniteSet(S), NEW f, \A x \in S : f[x] \in Int
    PROVE  \E g : AddsUp(g, f, S)
<1> DEFINE M == {T \in SUBSET S : ~ \E g : AddsUp(g, f, T)}
<1> SUFFICES ASSUME M # {} PROVE FALSE  OBVIOUS
<1>1. PICK T \in M : \A U \in M : U \subseteq T => U = T
  <2>1. M \subseteq SUBSET S  OBVIOUS
  <2> HIDE DEF M
  <2> QED  BY <2>1, Smallest
<1>2. CASE T = {}
  <2>1. AddsUp([U \in SUBSET {} |-> 0], f, {})  BY DEF AddsUp
  <2> QED  BY <1>1, <1>2, <2>1
<1>3. CASE T # {}
  <2>1. PICK x \in T : TRUE  BY <1>3
  <2> DEFINE R == T \ {x}
  <2>2. R \notin M /\ R \in SUBSET S  BY <1>1, <2>1
  <2>3. PICK g : AddsUp(g, f, R)  BY <2>2
  <2> DEFINE h == [U \in SUBSET T |-> IF x \in U THEN g[U \ {x}] + f[x] ELSE g[U]]
  <2>4. f[x] \in Int /\ T \subseteq S  BY <2>1
  <2>5. h \in [SUBSET T -> Int]  BY <2>3, <2>4 DEF AddsUp
  <2>6. h[{}] = 0  BY <2>3 DEF AddsUp
  <2>7. ASSUME NEW U \in SUBSET T, NEW y \in T \ U PROVE h[U \cup {y}] = h[U] + f[y]
    <3>1. CASE y = x
      <4>1. U \in SUBSET R /\ (U \cup {y}) \ {x} = U /\ x \in U \cup {y} /\ x \notin U  BY <2>7, <3>1
      <4> QED  BY <4>1, <3>1, <2>3 DEF AddsUp
    <3>2. CASE y # x /\ x \in U
      <4>1. /\ U \ {x} \in SUBSET R /\ y \in R \ (U \ {x})
            /\ (U \cup {y}) \ {x} = (U \ {x}) \cup {y} /\ x \in U \cup {y}
        BY <2>7, <3>2
      <4>2. g[(U \ {x}) \cup {y}] = g[U \ {x}] + f[y] /\ g[U \ {x}] \in Int  BY <4>1, <2>3 DEF AddsUp
      <4>3. f[y] \in Int  BY <2>4, <2>7
      <4>4. h[U \cup {y}] = g[(U \ {x}) \cup {y}] + f[x]  BY <4>1, <2>7
      <4>5. h[U] = g[U \ {x}] + f[x]  BY <3>2, <2>7
      <4> QED  BY <4>2, <4>3, <4>4, <4>5, <2>4
    <3>3. CASE y # x /\ x \notin U
      <4>1. U \in SUBSET R /\ y \in R \ U /\ x \notin U \cup {y}  BY <2>7, <3>3
      <4>2. g[U \cup {y}] = g[U] + f[y]  BY <4>1, <2>3 DEF AddsUp
      <4> QED  BY <4>1, <4>2, <2>7
    <3> QED  BY <3>1, <3>2, <3>3
  <2>8. AddsUp(h, f, T)  BY <2>5, <2>6, <2>7 DEF AddsUp
  <2> QED  BY <2>8, <1>1
<1> QED  BY <1>2, <1>3

\* The fold follows the equation it is defined by, and so do the sums; only one function does.
LEMMA SumIs ==
    ASSUME NEW S, IsFiniteSet(S), NEW f, NEW g,
           \A x \in S : f[x] \in Int, AddsUp(g, f, S)
    PROVE  SumOver(f, S) = g[S]
<1> DEFINE pick(s) == CHOOSE x \in s : TRUE
           Eq(h) == h = [s \in SUBSET S |-> IF s = {} THEN 0 ELSE f[pick(s)] + h[s \ {pick(s)}]]
           it == CHOOSE h : Eq(h)
<1>0. \A s \in SUBSET S : s # {} => pick(s) \in s  OBVIOUS
<1>1. Eq(g)
  <2>1. g = [s \in SUBSET S |-> g[s]]  BY DEF AddsUp
  <2>2. ASSUME NEW s \in SUBSET S, s # {} PROVE g[s] = f[pick(s)] + g[s \ {pick(s)}]
    <3> HIDE DEF pick
    <3>1. pick(s) \in s  BY <1>0, <2>2
    <3>2. s \ {pick(s)} \in SUBSET S /\ pick(s) \in S \ (s \ {pick(s)}) /\ (s \ {pick(s)}) \cup {pick(s)} = s
      BY <3>1
    <3>3. g[s] = g[s \ {pick(s)}] + f[pick(s)] BY <3>2 DEF AddsUp
    <3>4. f[pick(s)] \in Int /\ g[s \ {pick(s)}] \in Int  BY <3>1, <3>2 DEF AddsUp
    <3> QED  BY <3>3, <3>4
  <2>3. g[{}] = 0  BY DEF AddsUp
  <2> HIDE DEF pick
  <2>4. \A s \in SUBSET S : g[s] = IF s = {} THEN 0 ELSE f[pick(s)] + g[s \ {pick(s)}]  BY <2>2, <2>3
  <2> QED  BY <2>1, <2>4
<1>2. Eq(it)
  <2> HIDE DEF Eq
  <2> QED  BY <1>1
<1>3. SumOver(f, S) = it[S]
  BY DEF SumOver, MapThenSumSet, MapThenFoldSet
<1>4. it[S] = g[S]
  <2> DEFINE M == {s \in SUBSET S : it[s] # g[s]}
  <2> SUFFICES ASSUME M # {} PROVE FALSE  OBVIOUS
  <2>1. PICK s \in M : \A U \in M : U \subseteq s => U = s
    <3>1. M \subseteq SUBSET S  OBVIOUS
    <3> HIDE DEF M
    <3> QED  BY <3>1, Smallest
  <2> HIDE DEF it
  <2>2. CASE s = {}
    <3>1. it[s] = 0 /\ g[s] = 0  BY <1>1, <1>2, <2>2
    <3> QED  BY <3>1, <2>1
  <2>3. CASE s # {}
    <3>1. pick(s) \in s /\ s \in SUBSET S  BY <1>0, <2>1, <2>3
    <3> HIDE DEF pick
    <3>2. s \ {pick(s)} \in SUBSET S /\ s \ {pick(s)} # s  BY <3>1
    <3>3. s \ {pick(s)} \notin M  BY <2>1, <3>2
    <3>4. it[s] = f[pick(s)] + it[s \ {pick(s)}] /\ g[s] = f[pick(s)] + g[s \ {pick(s)}]
      BY <1>1, <1>2, <2>3, <3>1
    <3> QED  BY <3>2, <3>3, <3>4, <2>1
  <2> QED  BY <2>2, <2>3
<1> QED  BY <1>3, <1>4

LEMMA SumExists ==
    ASSUME NEW S, IsFiniteSet(S), NEW f, \A x \in S : f[x] \in Int
    PROVE  \E g : AddsUp(g, f, S) /\ \A T \in SUBSET S : SumOver(f, T) = g[T]
<1>1. PICK g : AddsUp(g, f, S)  BY AddsUpExists
<1>2. ASSUME NEW T \in SUBSET S PROVE SumOver(f, T) = g[T]
  <2> DEFINE h == [U \in SUBSET T |-> g[U]]
  <2>1. AddsUp(h, f, T)
    <3>1. h \in [SUBSET T -> Int] /\ h[{}] = 0  BY <1>1 DEF AddsUp
    <3>2. ASSUME NEW U \in SUBSET T, NEW x \in T \ U PROVE h[U \cup {x}] = h[U] + f[x]
      BY <1>1, <1>2, <3>2 DEF AddsUp
    <3> QED  BY <3>1, <3>2 DEF AddsUp
  <2>2. IsFiniteSet(T)  BY FS_Subset
  <2>3. SumOver(f, T) = h[T]
    <3> HIDE DEF h
    <3> QED  BY <2>1, <2>2, SumIs
  <2> QED  BY <2>3
<1> QED  BY <1>1, <1>2

LEMMA SumEmpty == ASSUME NEW f PROVE SumOver(f, {}) = 0
<1>1. PICK g : AddsUp(g, f, {}) /\ SumOver(f, {}) = g[{}]  BY SumExists, FS_EmptySet
<1> QED  BY <1>1 DEF AddsUp

LEMMA SumType ==
    ASSUME NEW S, IsFiniteSet(S), NEW f, \A x \in S : f[x] \in Int
    PROVE  SumOver(f, S) \in Int
<1>1. PICK g : AddsUp(g, f, S) /\ SumOver(f, S) = g[S]  BY SumExists
<1> QED  BY <1>1 DEF AddsUp

LEMMA SumAdd ==
    ASSUME NEW S, IsFiniteSet(S), NEW f, NEW r, r \notin S, \A x \in S \cup {r} : f[x] \in Int
    PROVE  SumOver(f, S \cup {r}) = SumOver(f, S) + f[r]
<1>1. IsFiniteSet(S \cup {r})  BY FS_AddElement
<1>2. PICK g : AddsUp(g, f, S \cup {r}) /\ \A T \in SUBSET (S \cup {r}) : SumOver(f, T) = g[T]
  BY <1>1, SumExists
<1>3. g[S \cup {r}] = g[S] + f[r]  BY <1>2 DEF AddsUp
<1> QED  BY <1>2, <1>3

\* Only the values on the set count.
LEMMA SumSame ==
    ASSUME NEW S, IsFiniteSet(S), NEW f, \A x \in S : f[x] \in Int,
           NEW g, \A x \in S : g[x] = f[x]
    PROVE  SumOver(g, S) = SumOver(f, S)
<1>1. PICK h : AddsUp(h, f, S) /\ SumOver(f, S) = h[S]  BY SumExists
<1>2. AddsUp(h, g, S)  BY <1>1 DEF AddsUp
<1> QED  BY <1>1, <1>2, SumIs

\* A summand more.
LEMMA SumInsert ==
    ASSUME NEW S, IsFiniteSet(S), NEW f, \A x \in S : f[x] \in Int,
           NEW g, NEW r, r \notin S, g[r] \in Int, \A x \in S : g[x] = f[x]
    PROVE  SumOver(g, S \cup {r}) = SumOver(f, S) + g[r]
<1>1. SumOver(g, S) = SumOver(f, S)  BY SumSame
<1>2. \A x \in S \cup {r} : g[x] \in Int  OBVIOUS
<1>3. SumOver(g, S \cup {r}) = SumOver(g, S) + g[r]  BY <1>2, SumAdd
<1> QED  BY <1>1, <1>3

\* A summand less.
LEMMA SumDrop ==
    ASSUME NEW S, IsFiniteSet(S), NEW f, \A x \in S : f[x] \in Int,
           NEW g, NEW r \in S, \A x \in S \ {r} : g[x] = f[x]
    PROVE  SumOver(g, S \ {r}) = SumOver(f, S) - f[r]
<1>1. PICK R : R = S \ {r}  OBVIOUS
<1>2. IsFiniteSet(R) /\ r \notin R /\ \A x \in R \cup {r} : f[x] \in Int
  BY <1>1, FS_RemoveElement
<1>3. SumOver(g, R) = SumOver(f, R)  BY <1>1, <1>2, SumSame
<1>4. SumOver(f, R \cup {r}) = SumOver(f, R) + f[r]  BY <1>2, SumAdd
<1>5. SumOver(f, R) \in Int /\ f[r] \in Int  BY <1>2, SumType
<1>6. SumOver(f, S) = SumOver(f, R) + f[r]
  <2>1. S = R \cup {r}  BY <1>1
  <2> QED  BY <1>4, <2>1
<1>7. SumOver(g, R) = SumOver(f, S) - f[r]  BY <1>3, <1>5, <1>6
<1> QED  BY <1>1, <1>7

\* One summand changes.
LEMMA SumUpdate ==
    ASSUME NEW S, IsFiniteSet(S), NEW f, \A x \in S : f[x] \in Int,
           NEW g, NEW r \in S, g[r] \in Int, \A x \in S \ {r} : g[x] = f[x]
    PROVE  SumOver(g, S) = SumOver(f, S) - f[r] + g[r]
<1>1. PICK R : R = S \ {r}  OBVIOUS
<1>2. IsFiniteSet(R) /\ r \notin R  BY <1>1, FS_RemoveElement
<1>3. SumOver(f, R) = SumOver(f, S) - f[r]  BY <1>1, SumDrop
<1>4. SumOver(g, R \cup {r}) = SumOver(f, R) + g[r]
  <2>1. \A x \in R : f[x] \in Int  BY <1>1
  <2>2. \A x \in R : g[x] = f[x]  BY <1>1
  <2>3. SumOver(g, R) = SumOver(f, R)  BY <1>2, <2>1, <2>2, SumSame
  <2>4. \A x \in R \cup {r} : g[x] \in Int  BY <2>1, <2>2
  <2>5. SumOver(g, R \cup {r}) = SumOver(g, R) + g[r]  BY <1>2, <2>4, SumAdd
  <2> QED  BY <2>3, <2>5
<1>5. S = R \cup {r}  BY <1>1
<1> QED  BY <1>3, <1>4, <1>5

\* Summands that exceed others by at most b.
LEMMA SumBound ==
    ASSUME NEW S, IsFiniteSet(S), NEW f, NEW g, NEW b \in Nat,
           \A x \in S : f[x] \in Int /\ g[x] \in Int /\ f[x] <= g[x] + b
    PROVE  SumOver(f, S) <= SumOver(g, S) + Cardinality(S) * b
<1> DEFINE M == {T \in SUBSET S : ~(SumOver(f, T) <= SumOver(g, T) + Cardinality(T) * b)}
<1> SUFFICES ASSUME M # {} PROVE FALSE  OBVIOUS
<1>1. PICK T \in M : \A U \in M : U \subseteq T => U = T
  <2>1. M \subseteq SUBSET S  OBVIOUS
  <2> HIDE DEF M
  <2> QED  BY <2>1, Smallest
<1>2. CASE T = {}
  <2>1. SumOver(f, {}) = 0 /\ SumOver(g, {}) = 0 /\ Cardinality({}) = 0  BY SumEmpty, FS_EmptySet
  <2>2. SumOver(f, {}) <= SumOver(g, {}) + Cardinality({}) * b  BY <2>1
  <2> QED  BY <1>1, <1>2, <2>2
<1>3. CASE T # {}
  <2>1. PICK x \in T : TRUE  BY <1>3
  <2>2. PICK R : R = T \ {x}  OBVIOUS
  <2>3. /\ T \subseteq S /\ R \subseteq S /\ R \notin M /\ x \notin R /\ T = R \cup {x} /\ x \in S
        /\ IsFiniteSet(R)
    BY <1>1, <2>1, <2>2, FS_Subset
  <2>4. SumOver(f, R) <= SumOver(g, R) + Cardinality(R) * b  BY <2>3
  <2>5. SumOver(f, T) = SumOver(f, R) + f[x] /\ SumOver(g, T) = SumOver(g, R) + g[x]
    <3>1. \A y \in R \cup {x} : f[y] \in Int /\ g[y] \in Int  BY <2>3
    <3> QED  BY <2>3, <3>1, SumAdd
  <2>6. Cardinality(T) = Cardinality(R) + 1 /\ Cardinality(R) \in Nat
    BY <2>3, FS_AddElement, FS_CardinalityType
  <2>7. SumOver(f, R) \in Int /\ SumOver(g, R) \in Int  BY <2>3, SumType
  <2>8. Cardinality(T) * b = Cardinality(R) * b + b  BY <2>6
  <2>9. f[x] \in Int /\ g[x] \in Int /\ f[x] <= g[x] + b  BY <2>3
  <2>10. PICK k \in Int : k = Cardinality(R) * b  BY <2>6
  <2>11. SumOver(f, T) <= SumOver(g, T) + Cardinality(T) * b
    BY <2>4, <2>5, <2>7, <2>8, <2>9, <2>10
  <2> QED  BY <1>1, <2>11
<1> QED  BY <1>2, <1>3

LEMMA SumNat ==
    ASSUME NEW S, IsFiniteSet(S), NEW f, \A x \in S : f[x] \in Nat
    PROVE  SumOver(f, S) \in Nat
<1> DEFINE z == [x \in S |-> 0]
<1>1. SumOver(z, S) = 0
  <2> DEFINE g == [T \in SUBSET S |-> 0]
  <2>1. AddsUp(g, z, S)  BY DEF AddsUp
  <2>2. g[S] = 0 /\ \A x \in S : z[x] \in Int  OBVIOUS
  <2> HIDE DEF g, z
  <2> QED  BY <2>1, <2>2, SumIs
<1>2. SumOver(z, S) <= SumOver(f, S) + Cardinality(S) * 0
  <2>1. \A x \in S : f[x] \in Int /\ z[x] \in Int /\ z[x] <= f[x] + 0  OBVIOUS
  <2> HIDE DEF z
  <2> QED  BY <2>1, SumBound
<1>3. SumOver(f, S) \in Int /\ Cardinality(S) \in Nat  BY SumType, FS_CardinalityType
<1> QED  BY <1>1, <1>2, <1>3

------------------------------------------------------------------------------
(* The bytes.                                                              *)

Sizes ==
    /\ declared \in [Requests -> Declared \cup {NoLength}]
    /\ received \in [Requests -> 0..MaxBody]
    /\ mine     \in [Requests -> Int]
    /\ target   \in [Requests -> Nat]
    /\ free     \in Int

\* What a request holds: as much as it has received, or what is left of twice its length;
\* a declared length that was refused holds nothing.
Held ==
    \A r \in Requests :
        /\ r \notin Admitted => declared[r] = NoLength /\ received[r] = 0
        /\ declared[r] = NoLength => mine[r] = received[r]
        /\ declared[r] # NoLength =>
               /\ received[r] <= declared[r]
               /\ \/ mine[r] + received[r] = 2 * declared[r]
                  \/ stage[r] = "refusing" /\ mine[r] = 0 /\ received[r] = 0
        /\ target[r] <= received[r]

\* What a request may still take from the disk: its reservation but for what the
\* application has copied, and the bytes that are in memory.
Weight == [r \in Requests |-> mine[r] - target[r] + received[r] - OnDisk(received[r])]

Floor == MinFree - MaxInflight * SpoolMax

\* The free space, once every request has taken all it may.
Ahead == free - SumOver(Weight, Admitted)

Accounts ==
    /\ reserved = SumOver(mine, Admitted)
    /\ Ahead >= Floor \/ Ahead >= Capacity

Bytes == Sizes /\ Held /\ Accounts

LEMMA SizeTypes ==
    ASSUME Sizes, NEW r \in Requests
    PROVE  /\ declared[r] \in Nat \cup {NoLength} /\ declared[r] \in Int
           /\ received[r] \in Nat /\ mine[r] \in Int /\ target[r] \in Nat
<1>1. declared[r] \in Declared \cup {NoLength} /\ Declared \subseteq Nat \cup {NoLength}
  BY SpoolAssumption DEF Sizes
<1>2. received[r] \in 0..MaxBody /\ mine[r] \in Int /\ target[r] \in Nat /\ MaxBody \in Nat
  BY SpoolAssumption DEF Sizes
<1>3. received[r] \in Nat  BY <1>2
<1>4. declared[r] \in Nat \cup {NoLength}  BY <1>1
<1>5. declared[r] \in Int  BY <1>4 DEF NoLength
<1> QED  BY <1>2, <1>3, <1>4, <1>5

\* Each reservation covers the copy that is still to be made, and is exceeded by no more
\* than what fits in memory.
LEMMA WeightBounds ==
    ASSUME Sizes, Held
    PROVE  \A r \in Requests :
               /\ mine[r] \in Nat /\ Weight[r] \in Nat
               /\ Weight[r] <= mine[r] + SpoolMax
<1> SUFFICES ASSUME NEW r \in Requests
             PROVE  /\ mine[r] \in Nat /\ Weight[r] \in Nat
                    /\ Weight[r] <= mine[r] + SpoolMax
  OBVIOUS
<1>1. declared[r] \in Nat \cup {NoLength} /\ received[r] \in Nat /\ mine[r] \in Int /\ target[r] \in Nat
  BY SizeTypes
<1>2. received[r] <= mine[r] \/ (mine[r] = 0 /\ received[r] = 0)
  BY <1>1 DEF Held
<1>3. target[r] <= received[r]  BY DEF Held
<1>4. PICK d \in Nat : d = OnDisk(received[r])  BY <1>1 DEF OnDisk
<1>5. d <= received[r] /\ received[r] - d <= SpoolMax  BY <1>1, <1>4, SpoolAssumption DEF OnDisk
<1>6. Weight[r] = mine[r] - target[r] + received[r] - d  BY <1>4 DEF Weight
<1> QED  BY <1>1, <1>2, <1>3, <1>4, <1>5, <1>6, SpoolAssumption

LEMMA SumBounds ==
    ASSUME Bytes, AdmitOK
    PROVE  /\ reserved \in Nat
           /\ SumOver(Weight, Admitted) \in Nat
           /\ SumOver(Weight, Admitted) <= reserved + MaxInflight * SpoolMax
<1>1. IsFiniteSet(Admitted) /\ Admitted \subseteq Requests  BY DEF AdmitOK, Admitted
<1>2. \A r \in Admitted : /\ mine[r] \in Nat /\ Weight[r] \in Nat
                           /\ Weight[r] <= mine[r] + SpoolMax
  BY <1>1, WeightBounds DEF Bytes
<1>3. SumOver(mine, Admitted) \in Nat /\ SumOver(Weight, Admitted) \in Nat  BY <1>1, <1>2, SumNat
<1>4. SumOver(Weight, Admitted) <= SumOver(mine, Admitted) + Cardinality(Admitted) * SpoolMax
  <2>1. \A r \in Admitted : mine[r] \in Int /\ Weight[r] \in Int  BY <1>2
  <2> QED  BY <1>1, <1>2, <2>1, SumBound, SpoolAssumption
<1>5. Cardinality(Admitted) \in Nat /\ Cardinality(Admitted) <= MaxInflight
  BY <1>1, FS_CardinalityType DEF AdmitOK
<1>6. /\ Cardinality(Admitted) * SpoolMax <= MaxInflight * SpoolMax
      /\ Cardinality(Admitted) * SpoolMax \in Nat /\ MaxInflight * SpoolMax \in Nat
  BY <1>5, SpoolAssumption
<1>7. PICK c, m \in Nat : c = Cardinality(Admitted) * SpoolMax /\ m = MaxInflight * SpoolMax  BY <1>6
<1>8. reserved = SumOver(mine, Admitted)  BY DEF Bytes, Accounts
<1> QED  BY <1>3, <1>4, <1>6, <1>7, <1>8

\* What passes _reserve_spool_bytes is there even when all the rest has been taken.
LEMMA FitsAhead ==
    ASSUME Bytes, AdmitOK, NEW n \in Nat, Fits(n)
    PROVE  Ahead - n >= Floor
<1>1. free \in Int /\ MinFree \in Nat  BY SpoolAssumption DEF Bytes, Sizes
<1>2. MaxInflight * SpoolMax \in Nat  BY SpoolAssumption
<1>3. PICK m \in Nat : m = MaxInflight * SpoolMax  BY <1>2
<1> QED  BY <1>1, <1>3, SumBounds DEF Fits, Ahead, Floor

\* A step that moves no bytes.
LEMMA BytesStay ==
    ASSUME Bytes, Admitted' = Admitted,
           UNCHANGED <<declared, received, mine, target, reserved, free>>,
           \A r \in Requests : stage[r] = "refusing" => stage'[r] = "refusing"
    PROVE  Bytes'
<1>1. Sizes' /\ Held'  BY DEF Bytes, Sizes, Held
<1>2. Weight' = Weight  BY DEF Weight
<1>3. Accounts'  BY <1>2 DEF Bytes, Accounts, Ahead
<1> QED  BY <1>1, <1>3 DEF Bytes

LEMMA BytesArrive ==
    ASSUME IInv, Bytes, NEW r \in Requests, NEW d \in Declared, Arrive(r, d)
    PROVE  Bytes'
<1>0. PICK n \in Nat, s \in {"refusing", "receiving"} :
          /\ stage' = [stage EXCEPT ![r] = s]
          /\ mine' = [mine EXCEPT ![r] = n] /\ reserved' = reserved + n
          /\ \/ n = 0 /\ s = "refusing" /\ d > 0
             \/ n = 0 /\ ~(d > 0)
             \/ n = 2 * d /\ d > 0 /\ Fits(n)
  <2>1. d \in Int /\ reserved \in Nat  BY SumBounds, SpoolAssumption DEF IInv, NoLength
  <2>2. mine[r] = 0 /\ mine = [mine EXCEPT ![r] = 0]
    BY DEF Arrive, Admitted, Bytes, Held, Sizes
  <2>3. CASE d > 0 /\ ~Fits(2 * d)  BY <2>1, <2>2, <2>3 DEF Arrive
  <2>4. CASE d > 0 /\ Fits(2 * d)
    <3>1. 2 * d \in Nat  BY <2>1, <2>4
    <3> QED  BY <2>4, <3>1 DEF Arrive
  <2>5. CASE ~(d > 0)  BY <2>1, <2>5 DEF Arrive
  <2> QED  BY <2>3, <2>4, <2>5
<1>1. /\ r \notin Admitted /\ Admitted' = Admitted \cup {r}
      /\ Admitted \subseteq Requests /\ IsFiniteSet(Admitted)
  BY <1>0 DEF IInv, Shape, Arrive, Admitted, AdmitOK
<1>2. received[r] = 0 /\ target[r] = 0  BY <1>1 DEF Bytes, Held, Sizes
<1>3. Sizes'  BY <1>0 DEF Bytes, Sizes, Arrive, workerVars
<1>4. Held'
  <2>1. d \in Nat \cup {NoLength}  BY SpoolAssumption
  <2>2. UNCHANGED <<received, target>> /\ declared' = [declared EXCEPT ![r] = d]  BY DEF Arrive, workerVars
  <2>3. ASSUME NEW q \in Requests, q # r
        PROVE  /\ declared'[q] = declared[q] /\ mine'[q] = mine[q] /\ stage'[q] = stage[q]
               /\ q \in Admitted' <=> q \in Admitted
    BY <1>0, <1>1, <2>2, <2>3 DEF Bytes, Sizes, IInv, Shape
  <2>4. declared'[r] = d /\ mine'[r] = n /\ stage'[r] = s /\ r \in Admitted'
    BY <1>0, <1>1, <2>2 DEF Bytes, Sizes, IInv, Shape
  <2>5. d = NoLength => n = 0  BY <1>0 DEF NoLength
  <2>6. d # NoLength => d \in Nat /\ (n + 0 = 2 * d \/ (s = "refusing" /\ n = 0))
    <3> SUFFICES ASSUME d # NoLength PROVE d \in Nat /\ (n + 0 = 2 * d \/ (s = "refusing" /\ n = 0))
      OBVIOUS
    <3>1. d \in Nat  BY <2>1
    <3>2. CASE ~(d > 0)
      <4>1. d = 0 /\ n = 0  BY <1>0, <3>1, <3>2
      <4> QED  BY <4>1
    <3>3. CASE d > 0
      <4>1. n = 2 * d \/ (s = "refusing" /\ n = 0)  BY <1>0, <3>3
      <4>2. n + 0 = n  OBVIOUS
      <4> QED  BY <3>1, <4>1, <4>2
    <3> QED  BY <3>1, <3>2, <3>3
  <2> QED  BY <1>2, <2>2, <2>3, <2>4, <2>5, <2>6 DEF Bytes, Held
<1>5. Accounts'
  <2>1. (\A q \in Admitted : mine[q] \in Int) /\ (\A q \in Admitted : Weight[q] \in Int)
    BY <1>1, WeightBounds DEF Bytes
  <2>2. /\ \A q \in Admitted : mine'[q] = mine[q]
        /\ \A q \in Admitted : Weight'[q] = Weight[q]
    BY <1>0, <1>1 DEF Bytes, Sizes, Weight, Arrive, workerVars
  <2>3. mine'[r] = n /\ Weight'[r] = n
    <3>1. OnDisk(0) = 0  BY SpoolAssumption DEF OnDisk
    <3>2. mine'[r] = n /\ received'[r] = 0 /\ target'[r] = 0
      BY <1>0, <1>2 DEF Bytes, Sizes, Arrive, workerVars
    <3> QED  BY <3>1, <3>2 DEF Weight
  <2>4. SumOver(mine', Admitted \cup {r}) = SumOver(mine, Admitted) + mine'[r]
    BY <1>1, <2>1, <2>2, <2>3, SumInsert
  <2>5. SumOver(Weight', Admitted \cup {r}) = SumOver(Weight, Admitted) + Weight'[r]
    <3>1. PICK w : w = Weight'  OBVIOUS
    <3>2. w[r] \in Int /\ \A q \in Admitted : w[q] = Weight[q]  BY <2>2, <2>3, <3>1
    <3>3. SumOver(w, Admitted \cup {r}) = SumOver(Weight, Admitted) + w[r]
      BY <1>1, <2>1, <3>2, SumInsert
    <3> QED  BY <3>1, <3>3
  <2>6. SumOver(mine, Admitted) \in Int /\ SumOver(Weight, Admitted) \in Int /\ free \in Int
    BY <1>1, <2>1, SumType DEF Bytes, Sizes
  <2>7. Ahead' = Ahead - n  BY <1>1, <2>3, <2>5, <2>6 DEF Ahead, Arrive
  <2>8. n = 0 \/ Ahead - n >= Floor  BY <1>0, FitsAhead DEF IInv
  <2>9. Ahead \in Int  BY <2>6 DEF Ahead
  <2>10. Ahead' >= Floor \/ Ahead' >= Capacity
    BY <2>7, <2>8, <2>9 DEF Bytes, Accounts
  <2> QED  BY <1>0, <1>1, <2>3, <2>4, <2>6, <2>10 DEF Bytes, Accounts
<1> QED  BY <1>3, <1>4, <1>5 DEF Bytes

LEMMA BytesEnd ==
    ASSUME IInv, Bytes, NEW r \in Requests, r \in Admitted, End(r)
    PROVE  Bytes'
<1>1. Admitted' = Admitted \ {r} /\ Admitted \subseteq Requests /\ IsFiniteSet(Admitted)
  BY DEF IInv, Shape, End, Admitted, AdmitOK
<1>2. Sizes'
  <2>1. OnDisk(received[r]) \in Int  BY SpoolAssumption DEF Bytes, Sizes, OnDisk
  <2> QED  BY <2>1, SpoolAssumption DEF Bytes, Sizes, End
<1>3. Held'
  <2>1. ASSUME NEW q \in Requests, q # r
        PROVE  /\ declared'[q] = declared[q] /\ mine'[q] = mine[q] /\ stage'[q] = stage[q]
               /\ received'[q] = received[q] /\ target'[q] = target[q]
               /\ q \in Admitted' <=> q \in Admitted
    BY <1>1, <2>1 DEF End, Bytes, Sizes, IInv, Shape
  <2>2. declared'[r] = NoLength /\ mine'[r] = 0 /\ received'[r] = 0 /\ target'[r] = 0
    BY DEF End, Bytes, Sizes
  <2> QED  BY <2>1, <2>2 DEF Bytes, Held
<1>4. Accounts'
  <2>1. \A q \in Admitted : mine[q] \in Nat /\ Weight[q] \in Nat
    BY <1>1, WeightBounds DEF Bytes
  <2>2. \A q \in Admitted \ {r} : mine'[q] = mine[q] /\ Weight'[q] = Weight[q]
    BY <1>1 DEF Bytes, Sizes, Weight, End
  <2>3. SumOver(mine', Admitted \ {r}) = SumOver(mine, Admitted) - mine[r]
    BY <1>1, <2>1, <2>2, SumDrop
  <2>4. SumOver(Weight', Admitted \ {r}) = SumOver(Weight, Admitted) - Weight[r]
    BY <1>1, <2>1, <2>2, SumDrop
  <2>5. SumOver(mine, Admitted) \in Int /\ SumOver(Weight, Admitted) \in Int /\ free \in Int
    BY <1>1, <2>1, SumType DEF Bytes, Sizes
  <2>6. PICK d \in Nat : d = OnDisk(received[r])
    BY SpoolAssumption DEF Bytes, Sizes, OnDisk
  <2>7. free' = free + d  BY <2>6 DEF End
  <2>8. Ahead' = Ahead + d + Weight[r] /\ Ahead \in Int
    BY <1>1, <2>1, <2>4, <2>5, <2>6, <2>7 DEF Ahead
  <2>9. Ahead' >= Floor \/ Ahead' >= Capacity
    <3>1. Floor \in Int /\ Capacity \in Int  BY SpoolAssumption DEF Floor
    <3> QED  BY <2>1, <2>6, <2>8, <3>1 DEF Bytes, Accounts
  <2> QED  BY <1>1, <2>3, <2>9 DEF Bytes, Accounts, End
<1> QED  BY <1>2, <1>3, <1>4 DEF Bytes

\* A chunk of a declared length uses up what was reserved; one without a length is
\* reserved as it comes.
LEMMA BytesSpool ==
    ASSUME IInv, Bytes, NEW r \in Requests, stage[r] = "receiving", NEW n \in Nat, received[r] + n <= MaxBody,
           Spool(r, n), UNCHANGED <<declared, target>>,
           Admitted' = Admitted, \A q \in Requests : stage[q] = "refusing" => stage'[q] = "refusing",
           n > 0 => IF declared[r] = NoLength THEN Fits(2 * n) ELSE received[r] + n <= declared[r]
    PROVE  Bytes'
<1>1. r \in Admitted /\ Admitted \subseteq Requests /\ IsFiniteSet(Admitted)
  BY DEF IInv, Admitted, AdmitOK
<1>2. PICK k \in {n, 0 - n} :
          /\ k = IF declared[r] = NoLength THEN n ELSE 0 - n
          /\ mine' = [mine EXCEPT ![r] = mine[r] + k] /\ reserved' = reserved + k
  <2>1. mine[r] \in Int /\ reserved \in Int  BY SumBounds DEF IInv, Bytes, Sizes
  <2>2. PICK h : h = IF declared[r] = NoLength THEN mine[r] + 2 * n ELSE mine[r]  OBVIOUS
  <2>3. mine' = [mine EXCEPT ![r] = h - n] /\ reserved' = reserved - mine[r] + h - n
    BY <2>2 DEF Spool
  <2>4. PICK m \in {n, 0 - n} : m = IF declared[r] = NoLength THEN n ELSE 0 - n  OBVIOUS
  <2>5. h - n = mine[r] + m /\ reserved - mine[r] + h - n = reserved + m
    BY <2>1, <2>2, <2>4
  <2> QED  BY <2>3, <2>4, <2>5
<1>3. PICK d \in Int : d = OnDisk(received[r] + n) - OnDisk(received[r])
  BY SpoolAssumption DEF Bytes, Sizes, OnDisk
<1>4. received' = [received EXCEPT ![r] = received[r] + n] /\ free' = free - d
  BY <1>3 DEF Spool
<1>5. /\ received[r] \in Nat /\ received[r] + n \in 0..MaxBody /\ mine[r] \in Int /\ target[r] \in Nat
      /\ declared[r] \in Int /\ free \in Int
  BY SizeTypes, SpoolAssumption DEF Bytes, Sizes
<1>6. Sizes'  BY <1>2, <1>4, <1>5 DEF Bytes, Sizes
<1>7. Held'
  <2>1. ASSUME NEW q \in Requests, q # r
        PROVE  /\ mine'[q] = mine[q] /\ received'[q] = received[q]
    BY <1>2, <1>4, <2>1 DEF Bytes, Sizes
  <2>2. mine'[r] = mine[r] + k /\ received'[r] = received[r] + n
    BY <1>2, <1>4 DEF Bytes, Sizes
  <2>3. target[r] <= received[r] + n
    <3>1. target[r] <= received[r]  BY DEF Bytes, Held
    <3> QED  BY <1>5, <3>1
  <2>4. declared[r] = NoLength => mine[r] + k = received[r] + n
    BY <1>2 DEF Bytes, Held
  <2>5. declared[r] # NoLength => /\ received[r] + n <= declared[r]
                                  /\ (mine[r] + k) + (received[r] + n) = 2 * declared[r]
    <3> SUFFICES ASSUME declared[r] # NoLength
                 PROVE  /\ received[r] + n <= declared[r]
                        /\ (mine[r] + k) + (received[r] + n) = 2 * declared[r]
      OBVIOUS
    <3>1. received[r] <= declared[r] /\ mine[r] + received[r] = 2 * declared[r]
      BY DEF Bytes, Held
    <3>2. k = 0 - n  BY <1>2
    <3>3. received[r] + n <= declared[r]  BY <1>5, <3>1
    <3> QED  BY <1>5, <3>1, <3>2, <3>3
  <2>6. r \in Admitted'  BY <1>1
  <2> QED  BY <2>1, <2>2, <2>3, <2>4, <2>5, <2>6 DEF Bytes, Held
<1>8. Accounts'
  <2>1. \A q \in Admitted : mine[q] \in Int /\ Weight[q] \in Int
    BY <1>1, WeightBounds DEF Bytes
  <2>2. \A q \in Admitted \ {r} : mine'[q] = mine[q] /\ Weight'[q] = Weight[q]
    BY <1>1, <1>2, <1>4 DEF Bytes, Sizes, Weight
  <2>3. mine'[r] = mine[r] + k /\ received'[r] = received[r] + n
    BY <1>2, <1>4 DEF Bytes, Sizes
  <2>4. Weight'[r] = Weight[r] + k + n - d
    <3>1. PICK a, b \in Int : a = OnDisk(received[r] + n) /\ b = OnDisk(received[r])
      BY <1>5 DEF OnDisk
    <3>2. Weight[r] = mine[r] - target[r] + received[r] - b  BY <3>1 DEF Weight
    <3>3. Weight'[r] = mine'[r] - target[r] + received'[r]
                          - (IF received'[r] > SpoolMax THEN received'[r] ELSE 0)
      BY DEF Weight, OnDisk
    <3>4. a = IF received'[r] > SpoolMax THEN received'[r] ELSE 0  BY <2>3, <3>1 DEF OnDisk
    <3>5. Weight'[r] = mine'[r] - target[r] + received'[r] - a  BY <3>3, <3>4
    <3>6. Weight'[r] = (mine[r] + k) - target[r] + (received[r] + n) - a  BY <2>3, <3>5
    <3>7. d = a - b /\ k \in Int  BY <1>3, <3>1
    <3> QED  BY <1>5, <3>1, <3>2, <3>6, <3>7
  <2>5. SumOver(mine', Admitted) = SumOver(mine, Admitted) + k
    <3>1. SumOver(mine', Admitted) = SumOver(mine, Admitted) - mine[r] + mine'[r]
      <4>1. mine'[r] \in Int  BY <1>2, <1>5, <2>3
      <4> QED  BY <1>1, <2>1, <2>2, <4>1, SumUpdate
    <3>2. SumOver(mine, Admitted) \in Int  BY <1>1, <2>1, SumType
    <3> QED  BY <1>2, <1>5, <2>3, <3>1, <3>2
  <2>6. SumOver(Weight, Admitted) \in Int  BY <1>1, <2>1, SumType
  <2>7. SumOver(Weight', Admitted) = SumOver(Weight, Admitted) + k + n - d
    <3>0. Weight[r] \in Int  BY <1>1, <2>1
    <3>1. Weight'[r] \in Int  BY <1>2, <2>4, <3>0
    <3>2. SumOver(Weight', Admitted) = SumOver(Weight, Admitted) - Weight[r] + Weight'[r]
      BY <1>1, <2>1, <2>2, <3>1, SumUpdate
    <3> QED  BY <1>2, <2>4, <2>6, <3>0, <3>2
  <2>8. Ahead' = Ahead - (k + n) /\ Ahead \in Int
    BY <1>2, <1>4, <1>5, <2>6, <2>7 DEF Ahead
  <2>9. k + n = 0 \/ Ahead - (k + n) >= Floor
    <3>1. CASE declared[r] = NoLength /\ n > 0
      <4>1. Ahead - 2 * n >= Floor
        <5>1. 2 * n \in Nat /\ Fits(2 * n)  BY <3>1
        <5> QED  BY <5>1, FitsAhead DEF IInv
      <4> QED  BY <1>2, <3>1, <4>1
    <3> QED  BY <1>2, <3>1
  <2>10. Ahead' >= Floor \/ Ahead' >= Capacity
    BY <2>8, <2>9 DEF Bytes, Accounts
  <2> QED  BY <1>2, <2>5, <2>10 DEF Bytes, Accounts
<1> QED  BY <1>6, <1>7, <1>8 DEF Bytes

LEMMA BytesChunk ==
    ASSUME IInv, Bytes, NEW r \in Requests, NEW n \in 0..MaxBody, NEW more \in BOOLEAN, Chunk(r, n, more)
    PROVE  Bytes'
<1>1. Admitted' = Admitted /\ \A q \in Requests : stage[q] = "refusing" => stage'[q] = "refusing"
  BY DEF IInv, Shape, Admitted, Chunk, Refuse
<1>2. CASE Refuse(r)
  <2>1. UNCHANGED <<declared, received, mine, target, reserved, free>>
    BY <1>2 DEF Refuse, workerVars
  <2> QED  BY <1>1, <2>1, BytesStay
<1>3. CASE Spool(r, n) /\ ~Refuse(r)
  <2>1. /\ stage[r] = "receiving" /\ received[r] + n <= MaxBody /\ UNCHANGED <<declared, target>>
        /\ n > 0 /\ declared[r] # NoLength => ~(received[r] + n > declared[r])
        /\ n > 0 /\ declared[r] = NoLength => Fits(2 * n)
    BY <1>3 DEF Chunk
  <2>2. /\ n \in Nat /\ received[r] \in Int /\ declared[r] \in Int
    BY SizeTypes, SpoolAssumption DEF Bytes
  <2>3. n > 0 => IF declared[r] = NoLength THEN Fits(2 * n) ELSE received[r] + n <= declared[r]
    BY <2>1, <2>2
  <2> QED  BY <1>1, <1>3, <2>1, <2>2, <2>3, BytesSpool
<1> QED  BY <1>2, <1>3 DEF Chunk

\* The application copies what was reserved for the copy.
LEMMA BytesCopy ==
    ASSUME IInv, Bytes, NEW r \in Requests, Copy(r)
    PROVE  Bytes'
<1>1. /\ r \in Admitted /\ Admitted \subseteq Requests /\ IsFiniteSet(Admitted)
      /\ Admitted' = Admitted
  BY DEF IInv, Shape, WorkerKeepsBody, Admitted, AdmitOK, Copy, loopVars
<1>2. target[r] \in Nat /\ free \in Int  BY DEF Bytes, Sizes
<1>3. /\ target' = [target EXCEPT ![r] = target[r] + 1] /\ free' = free - 1
      /\ UNCHANGED <<declared, received, mine, reserved, stage>>
  BY DEF Copy, loopVars
<1>4. Sizes'  BY <1>2, <1>3 DEF Bytes, Sizes
<1>5. Held'
  <2>1. target[r] < received[r] /\ received[r] \in Int
    BY SpoolAssumption DEF Copy, Bytes, Sizes
  <2>2. target'[r] = target[r] + 1 /\ \A q \in Requests : q # r => target'[q] = target[q]
    BY <1>3 DEF Bytes, Sizes
  <2>3. \A q \in Requests : target'[q] <= received[q]  BY <1>2, <2>1, <2>2 DEF Bytes, Held
  <2> QED  BY <1>1, <1>3, <2>3 DEF Bytes, Held
<1>6. Accounts'
  <2>1. PICK w : w = Weight'  OBVIOUS
  <2>2. (\A q \in Admitted : Weight[q] \in Int) /\ \A q \in Admitted \ {r} : w[q] = Weight[q]
    BY <1>1, <1>3, <2>1, WeightBounds DEF Bytes, Sizes, Weight
  <2>3. w[r] = Weight[r] - 1
    <3>1. PICK d \in Int : d = OnDisk(received[r])  BY SpoolAssumption DEF Bytes, Sizes, OnDisk
    <3>2. Weight[r] = mine[r] - target[r] + received[r] - d  BY <3>1 DEF Weight
    <3>3. w[r] = mine[r] - (target[r] + 1) + received[r] - d
      BY <1>3, <2>1, <3>1 DEF Weight, Bytes, Sizes
    <3>4. mine[r] \in Int /\ received[r] \in Int  BY SpoolAssumption DEF Bytes, Sizes
    <3> QED  BY <1>2, <3>1, <3>2, <3>3, <3>4
  <2>4. SumOver(w, Admitted) = SumOver(Weight, Admitted) - 1
    <3>1. Weight[r] \in Int /\ w[r] \in Int  BY <1>1, <2>2, <2>3
    <3>2. SumOver(w, Admitted) = SumOver(Weight, Admitted) - Weight[r] + w[r]
      BY <1>1, <2>2, <3>1, SumUpdate
    <3>3. SumOver(Weight, Admitted) \in Int  BY <1>1, <2>2, SumType
    <3> QED  BY <2>3, <3>1, <3>2, <3>3
  <2>5. Ahead' = Ahead
    <3>1. SumOver(Weight, Admitted) \in Int  BY <1>1, <2>2, SumType
    <3> QED  BY <1>1, <1>2, <1>3, <2>1, <2>4, <3>1 DEF Ahead
  <2> QED  BY <1>1, <1>3, <2>5 DEF Bytes, Accounts
<1> QED  BY <1>4, <1>5, <1>6 DEF Bytes

LEMMA BytesKeep == ASSUME IInv, Bytes, [Next]_vars PROVE Bytes'
<1>1. ASSUME NEW r \in Requests, Busy(r) PROVE Bytes'
  <2>1. Admitted' = Admitted /\ \A q \in Requests : stage[q] = "refusing" => stage'[q] = "refusing"
    BY <1>1 DEF IInv, Shape, Admitted, Busy
  <2> QED  BY <1>1, <2>1, BytesStay DEF Busy, workerVars
<1>2. ASSUME NEW r \in Requests, Stop(r) PROVE Bytes'
  <2>1. Admitted' = Admitted /\ \A q \in Requests : stage[q] = "refusing" => stage'[q] = "refusing"
    BY <1>2 DEF IInv, Shape, Admitted, Stop
  <2> QED  BY <1>2, <2>1, BytesStay DEF Stop, workerVars
<1>3. ASSUME NEW r \in Requests, Coroutine(r) PROVE Bytes'
  <2>1. CASE Refused(r) \/ GiveUp(r) \/ WorkerDone(r)
    BY <2>1, BytesEnd DEF Refused, GiveUp, WorkerDone, Admitted
  <2> QED  BY <1>3, <2>1, BytesChunk DEF Coroutine, Receive
<1>4. ASSUME NEW r \in Requests, Work(r) PROVE Bytes'
  <2>1. CASE Copy(r)  BY <2>1, BytesCopy
  <2>2. CASE UNCHANGED <<loopVars, target, free>>
    <3>1. Admitted' = Admitted  BY <2>2 DEF loopVars, Admitted
    <3> QED  BY <2>2, <3>1, BytesStay DEF loopVars
  <2>3. Copy(r) \/ UNCHANGED <<loopVars, target, free>>
    BY <1>4 DEF Work, Take, Yield, Exhausted, Abort, Sent, SendFails, Emit, Ended
  <2> QED  BY <2>1, <2>2, <2>3
<1>5. CASE UNCHANGED vars
  <2>1. Admitted' = Admitted  BY <1>5 DEF vars, loopVars, Admitted
  <2> QED  BY <1>5, <2>1, BytesStay DEF vars, loopVars, workerVars
<1> QED  BY <1>1, <1>2, <1>3, <1>4, <1>5, BytesArrive DEF Next

\* What the response is made of.
Output == chunks \in [Requests -> 0..MaxChunks] /\ finished \subseteq Requests

LEMMA OutputKeeps == ASSUME Output, [Next]_vars PROVE Output'
<1>1. CASE UNCHANGED <<chunks, finished>>  BY <1>1 DEF Output
<1>2. ASSUME NEW r \in Requests, End(r) PROVE Output'
  BY <1>2, SpoolAssumption DEF Output, End
<1>3. ASSUME NEW r \in Requests, Yield(r) PROVE Output'
  BY <1>3, SpoolAssumption DEF Output, Yield
<1>4. ASSUME NEW r \in Requests, Exhausted(r) PROVE Output'
  BY <1>4 DEF Output, Exhausted
<1>5. ASSUME NEW r \in Requests, Coroutine(r) PROVE Output'
  <2>1. \/ End(r) \/ UNCHANGED <<chunks, finished>>
    BY <1>5 DEF Coroutine, Receive, Refused, GiveUp, WorkerDone, Chunk, Refuse, workerVars
  <2> QED  BY <1>1, <1>2, <2>1
<1>6. ASSUME NEW r \in Requests, Work(r) PROVE Output'
  <2>1. \/ Yield(r) \/ Exhausted(r) \/ UNCHANGED <<chunks, finished>>
    BY <1>6 DEF Work, Take, Copy, Abort, Sent, SendFails, Ended
  <2> QED  BY <1>1, <1>3, <1>4, <2>1
<1>7. ASSUME NEW r \in Requests, Busy(r) \/ Stop(r) \/ \E d \in Declared : Arrive(r, d) PROVE Output'
  BY <1>1, <1>7 DEF Busy, Stop, Arrive, workerVars
<1>8. CASE UNCHANGED vars  BY <1>1, <1>8 DEF vars, workerVars
<1> QED  BY <1>5, <1>6, <1>7, <1>8 DEF Next

------------------------------------------------------------------------------
(* The calls.                                                               *)

\* A call that waits for a thread is in the queue, and who waits for a worker has one.
Listed ==
    \A r \in Requests :
        /\ worker[r] = "queued" => \E i \in 1..Len(queue) : queue[i] = r
        /\ stage[r] \in {"waiting", "draining"} => worker[r] # "none"

\* The last chunk puts the call at the end of the queue; no other chunk moves one.
LEMMA ChunkLists ==
    ASSUME IInv, Listed, NEW r \in Requests, NEW n \in 0..MaxBody, NEW more \in BOOLEAN,
           Chunk(r, n, more)
    PROVE  Listed'
<1>1. \/ /\ UNCHANGED <<worker, queue>>
         /\ stage' = stage \/ stage' = [stage EXCEPT ![r] = "refusing"]
      \/ /\ stage'  = [stage EXCEPT ![r] = "waiting"]
         /\ worker' = [worker EXCEPT ![r] = "queued"]
         /\ queue'  = Append(queue, r)
  BY DEF Chunk, Refuse, workerVars
<1>2. CASE UNCHANGED <<worker, queue>>  BY <1>1, <1>2 DEF IInv, Shape, Listed
<1>3. CASE queue' = Append(queue, r) /\ worker' = [worker EXCEPT ![r] = "queued"]
  <2>1. /\ Len(queue') = Len(queue) + 1 /\ Len(queue) \in Nat
        /\ \A i \in 1..Len(queue) : queue'[i] = queue[i]
        /\ queue'[Len(queue) + 1] = r
    BY <1>3 DEF IInv, Shape
  <2>2. \A q \in Requests : worker'[q] = "queued" => \E i \in 1..Len(queue') : queue'[i] = q
    BY <1>3, <2>1 DEF IInv, Shape, Listed
  <2>3. \A q \in Requests : stage'[q] \in {"waiting", "draining"} => worker'[q] # "none"
    BY <1>1, <1>3 DEF IInv, Shape, Listed
  <2> QED  BY <2>2, <2>3 DEF Listed
<1> QED  BY <1>1, <1>2, <1>3

\* The thread that takes the head of the queue leaves the others in it.
LEMMA TakeLists == ASSUME IInv, Listed, NEW r \in Requests, Take(r) PROVE Listed'
<1>1. PICK w \in {"ended", "app"} : worker' = [worker EXCEPT ![r] = w]  BY DEF Take
<1>2. /\ r = queue[1] /\ Len(queue) \in Nat /\ Len(queue) >= 1
      /\ Len(queue') = Len(queue) - 1
      /\ \A i \in 1..Len(queue') : queue'[i] = queue[i + 1]
  BY DEF IInv, Shape, Take
<1>3. ASSUME NEW q \in Requests, worker'[q] = "queued"
      PROVE  \E i \in 1..Len(queue') : queue'[i] = q
  <2>1. q # r /\ worker[q] = "queued"  BY <1>1, <1>3 DEF IInv, Shape
  <2>2. PICK i \in 1..Len(queue) : queue[i] = q  BY <2>1 DEF Listed
  <2>3. i - 1 \in 1..Len(queue') /\ (i - 1) + 1 = i  BY <1>2, <2>1, <2>2
  <2> QED  BY <1>2, <2>2, <2>3
<1>4. \A q \in Requests : stage'[q] \in {"waiting", "draining"} => worker'[q] # "none"
  BY <1>1 DEF IInv, Shape, Listed, Take, loopVars
<1> QED  BY <1>3, <1>4 DEF Listed

LEMMA ListedKeeps == ASSUME IInv, Listed, [Next]_vars PROVE Listed'
<1> USE DEF IInv, Shape
<1>1. ASSUME NEW r \in Requests, End(r) PROVE Listed'
  BY <1>1 DEF Listed, End
<1>2. ASSUME NEW r \in Requests, Coroutine(r) PROVE Listed'
  BY <1>1, <1>2, ChunkLists DEF Coroutine, Receive, GiveUp, Refused, WorkerDone
<1>3. ASSUME NEW r \in Requests, NEW w \in {"app", "sending", "ended"},
             worker' = [worker EXCEPT ![r] = w], UNCHANGED <<stage, queue>>
      PROVE  Listed'
  BY <1>3 DEF Listed
<1>4. ASSUME NEW r \in Requests, Work(r) PROVE Listed'
  <2>1. CASE Yield(r) \/ Exhausted(r)  BY <1>3, <2>1 DEF Yield, Exhausted, Emit, loopVars
  <2>2. CASE Abort(r) \/ SendFails(r)  BY <1>3, <2>2 DEF Abort, SendFails, Ended, loopVars
  <2>3. CASE Sent(r)  BY <1>3, <2>3 DEF Sent, loopVars
  <2>4. CASE Copy(r)  BY <2>4 DEF Listed, Copy, loopVars
  <2> QED  BY <1>4, <2>1, <2>2, <2>3, <2>4, TakeLists DEF Work
<1>5. ASSUME NEW r \in Requests, Busy(r) \/ Stop(r) PROVE Listed'
  BY <1>5 DEF Listed, Busy, Stop, workerVars
<1>6. ASSUME NEW r \in Requests, NEW d \in Declared, Arrive(r, d) PROVE Listed'
  BY <1>6 DEF Listed, Arrive, workerVars
<1>7. CASE UNCHANGED vars  BY <1>7 DEF Listed, vars, loopVars, workerVars
<1> QED  BY <1>2, <1>4, <1>5, <1>6, <1>7 DEF Next

------------------------------------------------------------------------------
(* The theorems.                                                           *)

\* The inductive invariant of PooledWSGIApp's coroutines and worker threads holds always.
THEOREM Invariance == Spec => []IInv
<1>1. Init => IInv
  <2> SUFFICES ASSUME Init PROVE IInv  OBVIOUS
  <2>1. Shape /\ WorkerKeepsBody /\ QueueOK /\ LateOK
    BY DEF Init, Shape, Stages, WorkerKeepsBody, QueueOK, LateOK
  <2>2. Admitted = {}  BY DEF Init, Admitted
  <2>3. AdmitOK  BY <2>2, FS_EmptySet, SpoolAssumption DEF Init, AdmitOK
  <2> QED  BY <2>1, <2>3 DEF IInv
<1>2. IInv /\ [Next]_vars => IInv'
  <2> SUFFICES ASSUME IInv, [Next]_vars PROVE IInv'  OBVIOUS
  <2>1. CASE UNCHANGED vars
    <3>1. Shape' /\ WorkerKeepsBody' /\ QueueOK' /\ LateOK'
      BY <2>1 DEF vars, loopVars, workerVars, IInv, Shape, WorkerKeepsBody, QueueOK, LateOK
    <3>2. Admitted' = Admitted  BY <2>1 DEF vars, loopVars, Admitted
    <3> QED  BY <2>1, <3>1, <3>2, SameAdmitted DEF vars, loopVars, IInv
  <2>2. ASSUME NEW r \in Requests, NEW d \in Declared, Arrive(r, d) PROVE IInv'
    BY <2>2, ArriveKeeps
  <2>3. ASSUME NEW r \in Requests, Coroutine(r) PROVE IInv'
    BY <2>3, ChunkKeeps, EndsKeep DEF Coroutine, Receive
  <2>4. ASSUME NEW r \in Requests, Work(r) PROVE IInv'
    <3>1. CASE Yield(r) \/ Exhausted(r)  BY <3>1, EmitKeeps DEF Yield, Exhausted
    <3>2. CASE Take(r) \/ Copy(r) \/ Abort(r) \/ Sent(r) \/ SendFails(r)
      BY <3>2, TakeKeeps, CopyKeeps, AbortKeeps, SentKeeps, SendFailsKeeps
    <3> QED  BY <2>4, <3>1, <3>2 DEF Work
  <2> QED  BY <2>1, <2>2, <2>3, <2>4, BusyKeeps, StopKeeps DEF Next
<1> QED  BY <1>1, <1>2, PTL DEF Spec

\* A thread or a queued call never outlives its request, its spool file and its reservation
\* (_drain_worker, file_server.py:352).
THEOREM KeepsBody == Spec => []WorkerKeepsBody
<1>1. IInv => WorkerKeepsBody  BY DEF IInv
<1> QED  BY <1>1, Invariance, PTL

\* A request that waits for its worker has one call, in the queue, on a thread or ended
\* (run_in_executor and _run_wsgi_app, file_server.py).
THEOREM CalledOnce == Spec => []OneCall
<1>1. Init => Listed  BY DEF Init, Listed
<1>2. IInv /\ Listed /\ [Next]_vars => Listed'  BY ListedKeeps
<1>3. IInv /\ Listed => OneCall
  <2> SUFFICES ASSUME IInv, Listed, NEW r \in Requests, stage[r] \in {"waiting", "draining"}
               PROVE  \/ /\ worker[r] = "queued"
                         /\ \E i \in DOMAIN queue : {k \in DOMAIN queue : queue[k] = r} = {i}
                      \/ /\ worker[r] \in {"app", "sending", "ended"}
                         /\ {k \in DOMAIN queue : queue[k] = r} = {}
    BY DEF OneCall
  <2>1. DOMAIN queue = 1..Len(queue)  BY DEF IInv, Shape
  <2>2. CASE worker[r] = "queued"  BY <2>1, <2>2 DEF IInv, QueueOK, Listed
  <2>3. CASE worker[r] # "queued"
    <3>1. worker[r] \in {"app", "sending", "ended"}  BY <2>3 DEF IInv, Shape, Listed
    <3>2. {k \in DOMAIN queue : queue[k] = r} = {}  BY <2>1, <2>3 DEF IInv, QueueOK
    <3> QED  BY <3>1, <3>2
  <2> QED  BY <2>2, <2>3
<1> QED  BY <1>1, <1>2, <1>3, Invariance, PTL DEF Spec

\* After a disconnect or a cancellation a worker sends at most two messages more
\* (stop_event, file_server.py:463-500).
THEOREM StopsInTime == Spec => []StopsSoon
<1>1. IInv => StopsSoon  BY DEF IInv, LateOK, StopsSoon
<1> QED  BY <1>1, Invariance, PTL

\* _inflight_requests is the number of admitted requests, and at most its limit
\* (file_server.py:341).
THEOREM Admission == Spec => [](inflight = Cardinality(Admitted) /\ inflight <= MaxInflight)
<1>1. IInv => inflight = Cardinality(Admitted) /\ inflight <= MaxInflight  BY DEF IInv, AdmitOK
<1> QED  BY <1>1, Invariance, PTL

\* And so do the accounts of the bytes (_reserve_spool_bytes and every place that gives
\* back, file_server.py:387-409) and what a worker has still to send and to copy.
THEOREM ByteInvariance == Spec => [](Bytes /\ Output)
<1>1. Init => Bytes /\ Output
  <2> SUFFICES ASSUME Init PROVE Bytes /\ Output  OBVIOUS
  <2>1. Sizes /\ Held /\ Output  BY SpoolAssumption DEF Init, Sizes, Held, Output, Admitted
  <2>2. Admitted = {}  BY DEF Init, Admitted
  <2>3. Ahead = Capacity - 0 /\ reserved = SumOver(mine, Admitted)  BY <2>2, SumEmpty DEF Init, Ahead
  <2>4. Ahead >= Capacity  BY <2>3, SpoolAssumption
  <2> QED  BY <2>1, <2>3, <2>4 DEF Bytes, Accounts
<1>2. IInv /\ Bytes /\ Output /\ [Next]_vars => (Bytes /\ Output)'  BY BytesKeep, OutputKeeps
<1> QED  BY <1>1, <1>2, Invariance, PTL DEF Spec

\* The types, with the counters: neither of them is ever negative, and the admissions are
\* never more than max_inflight_requests.
THEOREM TypeCorrect == Spec => []TypeOK
<1>1. IInv /\ Bytes /\ Output => TypeOK
  <2> SUFFICES ASSUME IInv, Bytes, Output PROVE TypeOK  OBVIOUS
  <2>1. mine \in [Requests -> Nat]  BY WeightBounds DEF Bytes, Sizes
  <2>2. target \in [Requests -> 0..MaxBody]
    <3>1. \A r \in Requests : target[r] \in 0..MaxBody
      <4> SUFFICES ASSUME NEW r \in Requests PROVE target[r] \in 0..MaxBody  OBVIOUS
      <4>1. target[r] \in Nat /\ received[r] \in 0..MaxBody /\ target[r] <= received[r]
        BY DEF Bytes, Sizes, Held
      <4> QED  BY <4>1, SpoolAssumption
    <3> QED  BY <3>1 DEF Bytes, Sizes
  <2>3. inflight \in 0..MaxInflight  BY FS_CardinalityType, SpoolAssumption DEF IInv, AdmitOK
  <2>4. reserved \in Nat  BY SumBounds DEF IInv
  <2> QED  BY <2>1, <2>2, <2>3, <2>4 DEF TypeOK, IInv, Shape, Bytes, Sizes, Output
<1> QED  BY <1>1, Invariance, ByteInvariance, PTL

\* _inflight_requests and _reserved_spool_bytes are what the admitted requests hold, on
\* every way out of a request (file_server.py:341, 387-409).
THEOREM Balance == Spec => []AccountsBalance
<1>1. IInv /\ Bytes => AccountsBalance
  <2> SUFFICES ASSUME IInv, Bytes PROVE AccountsBalance  OBVIOUS
  <2>1. inflight = Cardinality(Admitted)  BY DEF IInv, AdmitOK
  <2>2. reserved = SumOver(mine, Admitted)  BY DEF Bytes, Accounts
  <2>3. \A r \in Requests \ Admitted : mine[r] = 0  BY DEF Bytes, Held
  <2> QED  BY <2>1, <2>2, <2>3 DEF AccountsBalance, SumOver
<1> QED  BY <1>1, Invariance, ByteInvariance, PTL

\* _reserve_spool_bytes keeps the floor but for what is in memory (file_server.py:387).
THEOREM FloorKept == Spec => []FloorNearlyKept
<1>1. IInv /\ Bytes => FloorNearlyKept
  <2> SUFFICES ASSUME IInv, Bytes PROVE FloorNearlyKept  OBVIOUS
  <2>1. MaxInflight * SpoolMax \in Nat  BY SpoolAssumption
  <2>2. Floor \in Int /\ Capacity \in Int /\ free \in Int
    BY <2>1, SpoolAssumption DEF Floor, Bytes, Sizes
  <2>3. free >= Ahead /\ Ahead \in Int  BY <2>2, SumBounds DEF IInv, Ahead
  <2>4. Ahead >= Floor \/ Ahead >= Capacity  BY DEF Bytes, Accounts
  <2>5. free < Capacity => free >= Floor  BY <2>2, <2>3, <2>4
  <2> QED  BY <2>5 DEF FloorNearlyKept, Floor
<1> QED  BY <1>1, Invariance, ByteInvariance, PTL
===============================================================================
