------------------------------ MODULE SpoolBridge ------------------------------
(***************************************************************************)
(* PooledWSGIApp of ns_hpc/file_server.py: the bridge from the ASGI server *)
(* to the WebDAV application.  A request is admitted, its body is spooled  *)
(* to disk against a reservation of free space, and a worker thread runs   *)
(* the application on it, until it is finished or the client is gone.      *)
(*                                                                         *)
(* The requests run on one event loop, a step from one await to the next;  *)
(* worker threads run beside it.  Bytes are counted in some unit.  Nothing *)
(* else writes to the disk, and the application writes at most one copy of *)
(* the body (PUT).                                                         *)
(***************************************************************************)
EXTENDS Integers, Sequences, FiniteSets, FiniteSetsExt

CONSTANTS
    Requests,
    MaxInflight,   \* max_inflight_requests
    MaxWorkers,    \* max_workers
    MinFree,       \* min_spool_free_bytes
    SpoolMax,      \* max_size of the SpooledTemporaryFile: so much stays in memory
    Capacity,      \* free bytes at the start
    Declared,      \* the Content-Lengths sent; NoLength for none
    MaxBody,       \* bound: bytes of a body
    MaxChunks      \* bound: chunks of a response

NoLength == -1

ASSUME SpoolAssumption ==
    /\ MaxInflight \in Nat \ {0} /\ MaxWorkers \in Nat \ {0}
    /\ MinFree \in Nat /\ SpoolMax \in Nat /\ Capacity \in Nat
    /\ MaxBody \in Nat /\ MaxChunks \in Nat
    /\ Declared \subseteq Nat \cup {NoLength}

VARIABLES
    stage,     \* stage[r]: where the ASGI coroutine of r is
    declared,  \* declared[r]: declared_length
    received,  \* received[r]: received_bytes, all of them in the spool file
    mine,      \* mine[r]: request_reserved_bytes
    stop,      \* stop[r]: stop_event
    worker,    \* worker[r]: the call of _run_wsgi_app for r
    queue,     \* calls that wait for a thread of the executor
    outbox,    \* outbox[r]: messages to send before the worker looks at stop_event again
    chunks,    \* chunks[r]: chunks the application produced
    finished,  \* requests whose application has produced all its output
    late,      \* late[r]: ghost, messages sent although stop_event was set
    target,    \* target[r]: bytes of the body the application has copied
    inflight,  \* _inflight_requests
    reserved,  \* _reserved_spool_bytes
    free       \* shutil.disk_usage(spool).free

loopVars   == <<stage, declared, received, mine, inflight, reserved>>
workerVars == <<worker, queue, outbox, chunks, finished, late, target>>
vars       == <<loopVars, workerVars, stop, free>>

Stages == {"new", "refused", "receiving", "refusing", "waiting", "draining", "done"}
Admitted == {r \in Requests : stage[r] \in {"receiving", "refusing", "waiting", "draining"}}

TypeOK ==
    /\ stage    \in [Requests -> Stages]
    /\ declared \in [Requests -> Declared \cup {NoLength}]
    /\ received \in [Requests -> 0..MaxBody]
    /\ mine     \in [Requests -> Nat]
    /\ stop     \in [Requests -> BOOLEAN]
    /\ worker   \in [Requests -> {"none", "queued", "app", "sending", "ended"}]
    /\ queue    \in Seq(Requests)
    /\ outbox   \in [Requests -> 0..2]
    /\ chunks   \in [Requests -> 0..MaxChunks]
    /\ finished \subseteq Requests
    /\ late     \in [Requests -> Nat]
    /\ target   \in [Requests -> 0..MaxBody]
    /\ inflight \in 0..MaxInflight
    /\ reserved \in Nat
    /\ free     \in Int

Init ==
    /\ stage    = [r \in Requests |-> "new"]
    /\ declared = [r \in Requests |-> NoLength]
    /\ received = [r \in Requests |-> 0]
    /\ mine     = [r \in Requests |-> 0]
    /\ stop     = [r \in Requests |-> FALSE]
    /\ worker   = [r \in Requests |-> "none"]
    /\ queue    = <<>>
    /\ outbox   = [r \in Requests |-> 0]
    /\ chunks   = [r \in Requests |-> 0]
    /\ finished = {}
    /\ late     = [r \in Requests |-> 0]
    /\ target   = [r \in Requests |-> 0]
    /\ inflight = 0 /\ reserved = 0 /\ free = Capacity

\* SpooledTemporaryFile: n bytes are in memory until they are more than max_size.
OnDisk(n) == IF n > SpoolMax THEN n ELSE 0

\* Fault: what other requests have reserved is not looked at.
FaultFits(n) == free >= n + MinFree

\* _reserve_spool_bytes succeeds.
Fits(n) == free >= reserved + n + MinFree

------------------------------------------------------------------------------
(* The ASGI coroutine.                                                      *)

\* Not admitted: 503.
Busy(r) ==
    /\ stage[r] = "new" /\ inflight >= MaxInflight
    /\ stage' = [stage EXCEPT ![r] = "refused"]
    /\ UNCHANGED <<declared, received, mine, inflight, reserved, workerVars, stop, free>>

\* Admitted, with the header d; a declared length is reserved twice, for the spool file
\* and for the copy of the application, or refused with 507.
Arrive(r, d) ==
    /\ stage[r] = "new" /\ inflight < MaxInflight
    /\ inflight' = inflight + 1
    /\ declared' = [declared EXCEPT ![r] = d]
    /\ IF d > 0 /\ ~Fits(2 * d)
       THEN stage' = [stage EXCEPT ![r] = "refusing"] /\ UNCHANGED <<mine, reserved>>
       ELSE LET n == IF d > 0 THEN 2 * d ELSE 0
            IN  /\ stage'    = [stage EXCEPT ![r] = "receiving"]
                /\ mine'     = [mine EXCEPT ![r] = n]
                /\ reserved' = reserved + n
    /\ UNCHANGED <<received, workerVars, stop, free>>

\* The `finally` clauses of _handle_request and __call__: the reservation, the spool
\* file and the admission are given back, and what was local to the request is gone.
End(r) ==
    /\ stage'    = [stage EXCEPT ![r] = "done"]
    /\ mine'     = [mine EXCEPT ![r] = 0]
    /\ reserved' = reserved - mine[r]
    /\ inflight' = inflight - 1
    /\ free'     = free + OnDisk(received[r])
    /\ declared' = [declared EXCEPT ![r] = NoLength]
    /\ received' = [received EXCEPT ![r] = 0]
    /\ stop'     = [stop EXCEPT ![r] = FALSE]
    /\ chunks'   = [chunks EXCEPT ![r] = 0]
    /\ finished' = finished \ {r}
    /\ late'     = [late EXCEPT ![r] = 0]
    /\ target'   = [target EXCEPT ![r] = 0]
    /\ UNCHANGED <<worker, queue, outbox>>

\* Fault: the early answer returns before the `try` that gives the admission back.
FaultRefused(r) ==
    /\ stage[r] = "refusing"
    /\ stage'    = [stage EXCEPT ![r] = "done"]
    /\ reserved' = reserved - mine[r]
    /\ mine'     = [mine EXCEPT ![r] = 0]
    /\ free'     = free + OnDisk(received[r])
    /\ received' = [received EXCEPT ![r] = 0]
    /\ UNCHANGED <<declared, inflight, workerVars, stop>>

\* The answer 400 or 507 is sent.
Refused(r) == stage[r] = "refusing" /\ End(r)

Refuse(r) ==
    /\ stage' = [stage EXCEPT ![r] = "refusing"]
    /\ UNCHANGED <<declared, received, mine, inflight, reserved, workerVars, stop, free>>

\* Fault: what comes without a Content-Length is spooled and not reserved.
FaultSpool(r, n) ==
    /\ received' = [received EXCEPT ![r] = @ + n]
    /\ mine'     = [mine EXCEPT ![r] = @ - n]
    /\ reserved' = reserved - n
    /\ free'     = free - (OnDisk(received[r] + n) - OnDisk(received[r]))

\* A chunk of n bytes goes to the spool file: its half of the reservation is used up.
Spool(r, n) ==
    LET held == IF declared[r] = NoLength THEN mine[r] + 2 * n ELSE mine[r]
    IN  /\ received' = [received EXCEPT ![r] = @ + n]
        /\ mine'     = [mine EXCEPT ![r] = held - n]
        /\ reserved' = reserved - mine[r] + held - n
        /\ free'     = free - (OnDisk(received[r] + n) - OnDisk(received[r]))

\* http.request with n bytes; after the last one the application is queued and the
\* coroutine waits for it and for a disconnect.
Chunk(r, n, more) ==
    /\ stage[r] = "receiving"
    /\ received[r] + n <= MaxBody
    /\ IF \/ n > 0 /\ declared[r] # NoLength /\ received[r] + n > declared[r]
          \/ n > 0 /\ declared[r] = NoLength /\ ~Fits(2 * n)
       THEN Refuse(r)
       ELSE /\ Spool(r, n)
            /\ IF more
               THEN UNCHANGED <<stage, worker, queue>>
               ELSE /\ stage'  = [stage EXCEPT ![r] = "waiting"]
                    /\ worker' = [worker EXCEPT ![r] = "queued"]
                    /\ queue'  = Append(queue, r)
            /\ UNCHANGED <<declared, outbox, chunks, finished, late, target, inflight, stop>>

\* While the body comes in: the client leaves, the coroutine is cancelled, the message
\* is not one of HTTP, or the disk refuses the write.
GiveUp(r) == stage[r] = "receiving" /\ End(r)

\* The client leaves, or the coroutine is cancelled, while the worker is busy; from here
\* on only the end of the worker counts (_drain_worker), further cancels do not.
Stop(r) ==
    /\ stage[r] = "waiting"
    /\ stop'  = [stop EXCEPT ![r] = TRUE]
    /\ stage' = [stage EXCEPT ![r] = "draining"]
    /\ UNCHANGED <<declared, received, mine, inflight, reserved, workerVars, free>>

\* Fault: a coroutine that is cancelled or disconnected does not wait for its worker.
FaultWorkerDone(r) ==
    /\ stage[r] = "draining" \/ (stage[r] = "waiting" /\ worker[r] = "ended")
    /\ End(r)

WorkerDone(r) ==
    /\ stage[r] \in {"waiting", "draining"}
    /\ worker[r] = "ended"
    /\ End(r)

------------------------------------------------------------------------------
(* The worker thread, _run_wsgi_app.                                        *)

OnThread == {r \in Requests : worker[r] \in {"app", "sending"}}

\* Fault: the future of a call that was stopped in the queue is never completed.
FaultTake(r) ==
    /\ queue # <<>> /\ r = Head(queue)
    /\ Cardinality(OnThread) < MaxWorkers
    /\ queue'  = Tail(queue)
    /\ worker' = [worker EXCEPT ![r] = IF stop[r] THEN @ ELSE "app"]
    /\ UNCHANGED <<loopVars, outbox, chunks, finished, late, target, stop, free>>

\* A thread takes the oldest call; one that was stopped meanwhile calls nothing.
Take(r) ==
    /\ queue # <<>> /\ r = Head(queue)
    /\ Cardinality(OnThread) < MaxWorkers
    /\ queue'  = Tail(queue)
    /\ worker' = [worker EXCEPT ![r] = IF stop[r] THEN "ended" ELSE "app"]
    /\ UNCHANGED <<loopVars, outbox, chunks, finished, late, target, stop, free>>

\* The application copies a block of the body; reading raises once stopped.
Copy(r) ==
    /\ worker[r] = "app" /\ ~stop[r]
    /\ target[r] < received[r]
    /\ target' = [target EXCEPT ![r] = @ + 1]
    /\ free'   = free - 1
    /\ UNCHANGED <<loopVars, worker, queue, outbox, chunks, finished, late, stop>>

\* stop_event is not set: what comes next is sent, the response start before the first.
Emit(r) ==
    /\ worker' = [worker EXCEPT ![r] = "sending"]
    /\ outbox' = [outbox EXCEPT ![r] = IF chunks[r] = 0 THEN 2 ELSE 1]
    /\ UNCHANGED <<loopVars, queue, late, target, stop, free>>

\* The application yields or writes a chunk.
Yield(r) ==
    /\ worker[r] = "app" /\ ~stop[r]
    /\ chunks[r] < MaxChunks
    /\ chunks' = [chunks EXCEPT ![r] = @ + 1]
    /\ Emit(r)
    /\ UNCHANGED finished

\* Fault: there is no look at stop_event before the closing chunk.
FaultExhausted(r) ==
    /\ worker[r] = "app"
    /\ finished' = finished \cup {r}
    /\ Emit(r)
    /\ UNCHANGED chunks

\* The application's iterator is exhausted: the closing empty chunk.
Exhausted(r) ==
    /\ worker[r] = "app" /\ ~stop[r]
    /\ finished' = finished \cup {r}
    /\ Emit(r)
    /\ UNCHANGED chunks

Ended(r) ==
    /\ worker' = [worker EXCEPT ![r] = "ended"]
    /\ UNCHANGED <<loopVars, queue, chunks, finished, target, stop, free>>

\* The application raises, or the worker sees that stop_event is set.
Abort(r) ==
    /\ worker[r] = "app"
    /\ Ended(r) /\ UNCHANGED <<outbox, late>>

\* sync_send returns: the client took the message, or is gone and it was dropped.
Sent(r) ==
    /\ worker[r] = "sending"
    /\ outbox' = [outbox EXCEPT ![r] = @ - 1]
    /\ late'   = [late EXCEPT ![r] = IF stop[r] THEN @ + 1 ELSE @]
    /\ worker' = [worker EXCEPT ![r] = IF outbox[r] > 1 THEN "sending"
                                       ELSE IF r \in finished THEN "ended" ELSE "app"]
    /\ UNCHANGED <<loopVars, queue, chunks, finished, target, stop, free>>

\* sync_send raises: the iterator is closed, the exception passed to the coroutine.
SendFails(r) ==
    /\ worker[r] = "sending"
    /\ outbox' = [outbox EXCEPT ![r] = 0]
    /\ Ended(r) /\ UNCHANGED late

------------------------------------------------------------------------------
Receive(r) == \/ \E n \in 0..MaxBody, more \in BOOLEAN : Chunk(r, n, more)
              \/ GiveUp(r)

Work(r) == \/ Take(r) \/ Copy(r) \/ Yield(r) \/ Exhausted(r)
           \/ Abort(r) \/ Sent(r) \/ SendFails(r)

Coroutine(r) == Receive(r) \/ Refused(r) \/ WorkerDone(r)

Next == \E r \in Requests :
          \/ Busy(r) \/ \E d \in Declared : Arrive(r, d)
          \/ Coroutine(r) \/ Stop(r) \/ Work(r)

Spec == Init /\ [][Next]_vars

\* The event loop and the threads make progress; a client goes on sending or leaves, and
\* takes what is sent to it or leaves; the application's response is finite.
LiveSpec == Spec /\ \A r \in Requests : WF_vars(Coroutine(r)) /\ WF_vars(Work(r))

------------------------------------------------------------------------------
(* Properties that hold.                                                    *)

\* The shared counters are exactly what the admitted requests hold: nothing leaks on any
\* of the ways out of a request, and the limit is kept.
AccountsBalance ==
    /\ inflight = Cardinality(Admitted)
    /\ reserved = MapThenSumSet(LAMBDA r : mine[r], Admitted)
    /\ \A r \in Requests \ Admitted : mine[r] = 0

\* A queued or running call has its request, with spool file and reservation, behind it.
WorkerKeepsBody ==
    \A r \in Requests :
        worker[r] \in {"queued", "app", "sending"} => stage[r] \in {"waiting", "draining"}

\* A request that waits for its worker has one call: in the executor's queue, once, or on
\* a thread, or ended.  None is forgotten or run twice, wherever a stop finds it.
OneCall ==
    \A r \in Requests :
        LET places == {i \in DOMAIN queue : queue[i] = r}
        IN  stage[r] \in {"waiting", "draining"} =>
                \/ worker[r] = "queued" /\ \E i \in DOMAIN queue : places = {i}
                \/ worker[r] \in {"app", "sending", "ended"} /\ places = {}

\* A stopped worker sends at most two messages more: the ones of the last look at
\* stop_event, a response start and a chunk.
StopsSoon == \A r \in Requests : late[r] <= 2

\* However full the disk was, the requests never bring the free space below the floor by
\* more than the bodies in memory can: _reserve_spool_bytes counts these neither as used
\* nor as reserved.
FloorNearlyKept == free < Capacity => free >= MinFree - MaxInflight * SpoolMax

\* Every admitted request ends, whatever order disconnects, cancels and the worker's own
\* end come in, also when all threads are busy.
AllEnd == \A r \in Requests : r \in Admitted ~> stage[r] = "done"
==============================================================================
