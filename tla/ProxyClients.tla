----------------------------- MODULE ProxyClients -----------------------------
(***************************************************************************)
(* The proxied MCP servers of ns_hpc/proxy.py: ProxyManager keeps, per     *)
(* proxy and instance, a ProxiedMCPClient that holds one connection to a   *)
(* server process inside the sandbox.  Tool calls (server.py,              *)
(* _make_proxy_handler) connect on demand and use it; an idle monitor per  *)
(* client closes it; archive_instance sweeps an instance (stop_all), the   *)
(* end of the server sweeps everything (close_all).                        *)
(*                                                                         *)
(* One event loop runs all of it: a step here runs from one await to the   *)
(* next.  The call h creates at most one client and one connection, and    *)
(* both are named h.                                                       *)
(***************************************************************************)
EXTENDS Naturals, FiniteSets

CONSTANTS
    Proxies,      \* the keys of config.proxied_mcp
    Instances,
    Calls,        \* bound: the tool calls ever made
    IdleTimeout,  \* idle_timeout > 0
    Sweepers      \* the sweeps that may happen: instances archived, and Shutdown

Shutdown == "shutdown"
Inner    == "inner"
Nil      == "nil"

ASSUME ProxyAssumption ==
    /\ IdleTimeout \in BOOLEAN
    /\ IsFiniteSet(Proxies) /\ IsFiniteSet(Instances)
    /\ {Shutdown, Inner} \cap Instances = {} /\ Nil \notin Calls
    /\ Sweepers \subseteq Instances \cup {Shutdown}

Keys  == Proxies \X Instances
NoKey == <<"none", "none">>

VARIABLES
    pc,       \* pc[h]: where the tool call h is
    key,      \* key[h]: the <<proxy, instance>> it names
    via,      \* via[h]: the client get_or_start gave it
    uses,     \* uses[h]: the connection its call_tool runs on
    link,     \* link[h]: state of the connection that h opened
    made,     \* clients that exist (named by the call that made them)
    closed,   \* clients with _closed
    conn,     \* conn[c]: _client, a connection or Nil
    dying,    \* dying[c]: the connection close() took out of c and awaits, or Nil
    recent,   \* clients used since their monitor last woke (_last_used)
    monitor,  \* monitor[c]: the idle task
    reg,      \* reg[k]: ProxyManager._clients[proxy][instance], or Nil
    present,  \* proxies with an inner dict in _clients
    sweep,    \* sweep[s]: progress of a stop_all or of close_all
    walk      \* walk[s]: the iterator of s over _clients; walk[Inner]: close_all's
              \* over the inner dict of sweep[Shutdown].proxy

callVars   == <<pc, key, via, uses>>
clientVars == <<made, closed, conn, dying, recent, monitor>>
sweepVars  == <<sweep, walk>>
vars       == <<callVars, link, clientVars, reg, present, sweepVars>>

\* client: the one whose close() is awaited; targets: ghost, the clients that were
\* registered when the sweep began.
NoSweep == [pc |-> "idle", proxy |-> Nil, client |-> Nil, targets |-> {}]

\* A dict iterator: the keys it yielded, the size of the dict when it was made, and
\* the keys that left the dict since.
Walk(keys) == [seen |-> {}, size |-> Cardinality(keys), left |-> {}]

\* The size of no inner dict: the iterator's own dict was emptied and dropped.
Detached == Cardinality(Instances) + 1

TypeOK ==
    /\ pc      \in [Calls -> {"new", "connecting", "calling", "done"}]
    /\ key     \in [Calls -> Keys \cup {NoKey}]
    /\ via     \in [Calls -> Calls \cup {Nil}]
    /\ uses    \in [Calls -> Calls \cup {Nil}]
    /\ link    \in [Calls -> {"none", "connecting", "open", "lost"}]
    /\ made    \subseteq Calls /\ closed \subseteq made /\ recent \subseteq made
    /\ conn    \in [Calls -> Calls \cup {Nil}]
    /\ dying   \in [Calls -> Calls \cup {Nil}]
    /\ monitor \in [Calls -> {"none", "asleep", "closing"}]
    /\ reg     \in [Keys -> Calls \cup {Nil}]
    /\ present \subseteq Proxies
    /\ sweep   \in [Sweepers -> [pc : {"idle", "next", "await", "done", "raised"},
                                 proxy : Proxies \cup {Nil}, client : Calls \cup {Nil},
                                 targets : SUBSET Calls]]
    /\ walk    \in [Sweepers \cup {Inner} -> [seen : SUBSET (Proxies \cup Instances),
                                             left : SUBSET (Proxies \cup Instances),
                                             size : Nat]]

Init ==
    /\ pc      = [h \in Calls |-> "new"]
    /\ key     = [h \in Calls |-> NoKey]
    /\ via     = [h \in Calls |-> Nil]
    /\ uses    = [h \in Calls |-> Nil]
    /\ link    = [h \in Calls |-> "none"]
    /\ made    = {} /\ closed = {} /\ recent = {}
    /\ conn    = [c \in Calls |-> Nil]
    /\ dying   = [c \in Calls |-> Nil]
    /\ monitor = [c \in Calls |-> "none"]
    /\ reg     = [k \in Keys |-> Nil]
    /\ present = {}
    /\ sweep   = [s \in Sweepers |-> NoSweep]
    /\ walk    = [s \in Sweepers \cup {Inner} |-> Walk({})]

\* A sweep that is between two awaits holds the event loop.
Turn == \A s \in Sweepers : sweep[s].pc # "next"

\* _active_calls of the client c, and the inner dict of the proxy p.
ActiveCalls(c) == {h \in Calls : pc[h] = "calling" /\ via[h] = c}
ByInstance(p)  == {i \in Instances : reg[<<p, i>>] # Nil}

\* The key k leaves its inner dict, which close_all may be iterating over.
WalkedOver(k) == /\ Shutdown \in Sweepers /\ sweep[Shutdown].proxy = k[1]
                 /\ reg[k] # Nil
Popped(k, w)  == IF WalkedOver(k) THEN [w EXCEPT ![Inner].left = @ \cup {k[2]}] ELSE w

\* _remove_client, the on_idle_close of every client of the key k.  An inner dict that
\* is empty now leaves _clients; w is walk as the caller leaves it.
RemoveClient(k, w) ==
    LET p       == k[1]
        empties == p \in present /\ ByInstance(p) \subseteq {k[2]}
        dropped == [s \in DOMAIN w |->
                      IF s # Inner THEN [w[s] EXCEPT !.left = @ \cup {p}]
                      ELSE IF WalkedOver(k) THEN [w[s] EXCEPT !.size = Detached]
                      ELSE w[s]]
    IN  /\ reg'     = [reg EXCEPT ![k] = Nil]
        /\ present' = IF empties THEN present \ {p} ELSE present
        /\ walk'    = IF empties THEN dropped ELSE Popped(k, w)

------------------------------------------------------------------------------
(* A tool call.                                                             *)

\* call_tool after ensure_connected returned the client's connection n.
UseConnection(h, n) ==
    /\ pc'   = [pc EXCEPT ![h] = "calling"]
    /\ uses' = [uses EXCEPT ![h] = n]

\* get_or_start: the registered client unless it is closed, else a new one with an
\* idle monitor; then ensure_connected returns at once or starts to connect.
Call(h, k) ==
    LET fresh == reg[k] = Nil \/ reg[k] \in closed
        c     == IF fresh THEN h ELSE reg[k]
    IN  /\ pc[h] = "new" /\ Turn
        /\ key'     = [key EXCEPT ![h] = k]
        /\ via'     = [via EXCEPT ![h] = c]
        /\ reg'     = [reg EXCEPT ![k] = c]
        /\ present' = present \cup {k[1]}
        /\ made'    = made \cup {c}
        /\ monitor' = [monitor EXCEPT ![c] = IF fresh /\ IdleTimeout THEN "asleep" ELSE @]
        /\ IF conn[c] # Nil
           THEN UseConnection(h, conn[c]) /\ UNCHANGED link
           ELSE /\ pc'   = [pc EXCEPT ![h] = "connecting"]
                /\ link' = [link EXCEPT ![h] = "connecting"]
                /\ UNCHANGED uses
        /\ UNCHANGED <<closed, conn, dying, recent, sweepVars>>

\* __aenter__ returned: the connection replaces whatever _client was.  call_tool
\* asks ensure_connected again, which refuses a client closed in the meantime.
Connected(h) ==
    LET c == via[h]
    IN  /\ pc[h] = "connecting" /\ Turn
        /\ link'   = [link EXCEPT ![h] = "open"]
        /\ conn'   = [conn EXCEPT ![c] = h]
        /\ recent' = recent \cup {c}
        /\ IF c \in closed
           THEN pc' = [pc EXCEPT ![h] = "done"] /\ UNCHANGED uses
           ELSE UseConnection(h, h)
        /\ UNCHANGED <<key, via, made, closed, dying, monitor, reg, present, sweepVars>>

\* __aenter__ raised: audited and passed on; the client stays registered.
ConnectFails(h) ==
    /\ pc[h] = "connecting" /\ Turn
    /\ pc'   = [pc EXCEPT ![h] = "done"]
    /\ link' = [link EXCEPT ![h] = "lost"]
    /\ UNCHANGED <<key, via, uses, clientVars, reg, present, sweepVars>>

\* Fault: the time of the last use is kept per call and not on the client.
FaultReturn(h) ==
    /\ pc[h] = "calling" /\ Turn
    /\ pc'     = [pc EXCEPT ![h] = "done"]
    /\ uses'   = [uses EXCEPT ![h] = Nil]
    /\ recent' = recent \cup {h}
    /\ UNCHANGED <<key, via, link, made, closed, conn, dying, monitor,
                   reg, present, sweepVars>>

\* The remote tool answers or fails; `finally` refreshes _last_used.
Return(h) ==
    /\ pc[h] = "calling" /\ Turn
    /\ pc'     = [pc EXCEPT ![h] = "done"]
    /\ uses'   = [uses EXCEPT ![h] = Nil]
    /\ recent' = recent \cup {via[h]}
    /\ UNCHANGED <<key, via, link, made, closed, conn, dying, monitor,
                   reg, present, sweepVars>>

------------------------------------------------------------------------------
(* The idle monitor of the client c.                                        *)

\* It wakes every idle_timeout seconds; calls in flight or a use since the last time
\* put the matter off.
StayAwake(c) ==
    /\ monitor[c] = "asleep" /\ Turn
    /\ c \in recent \/ ActiveCalls(c) # {}
    /\ recent' = recent \ {c}
    /\ UNCHANGED <<callVars, link, made, closed, conn, dying, monitor,
                   reg, present, sweepVars>>

\* close() up to its await: the client is closed for good and its connection taken out.
Close(c) ==
    /\ closed' = closed \cup {c}
    /\ conn'   = [conn EXCEPT ![c] = Nil]
    /\ dying'  = [dying EXCEPT ![c] = conn[c]]
    /\ UNCHANGED <<callVars, link, made, recent>>

\* `await client.close()` returned; then on_idle_close removes the client's key.
Closed(c) ==
    /\ link'  = [link EXCEPT ![dying[c]] = "lost"]
    /\ dying' = [dying EXCEPT ![c] = Nil]
    /\ RemoveClient(key[c], walk)
    /\ UNCHANGED <<callVars, made, closed, conn, recent>>

\* `await client.close()` raised: the process is gone, on_idle_close is not called.
CloseFailed(c) ==
    /\ link'  = [link EXCEPT ![dying[c]] = "lost"]
    /\ dying' = [dying EXCEPT ![c] = Nil]
    /\ UNCHANGED <<callVars, made, closed, conn, recent, reg, present, walk>>

\* Fault: the monitor looks at the time of the last use only.
FaultIdleClose(c) ==
    /\ monitor[c] = "asleep" /\ Turn
    /\ c \notin recent
    /\ Close(c)
    /\ IF conn[c] = Nil
       THEN monitor' = [monitor EXCEPT ![c] = "none"] /\ RemoveClient(key[c], walk)
       ELSE monitor' = [monitor EXCEPT ![c] = "closing"] /\ UNCHANGED <<reg, present, walk>>
    /\ UNCHANGED sweep

\* Fault: the monitor leaves a client that is not connected alone.
FaultIdleUnconnected(c) ==
    /\ monitor[c] = "asleep" /\ Turn
    /\ c \notin recent /\ ActiveCalls(c) = {} /\ conn[c] # Nil
    /\ Close(c)
    /\ monitor' = [monitor EXCEPT ![c] = "closing"]
    /\ UNCHANGED <<reg, present, sweepVars>>

\* The monitor closes its client; without a connection there is nothing to await.
IdleClose(c) ==
    /\ monitor[c] = "asleep" /\ Turn
    /\ c \notin recent /\ ActiveCalls(c) = {}
    /\ Close(c)
    /\ IF conn[c] = Nil
       THEN monitor' = [monitor EXCEPT ![c] = "none"] /\ RemoveClient(key[c], walk)
       ELSE monitor' = [monitor EXCEPT ![c] = "closing"] /\ UNCHANGED <<reg, present, walk>>
    /\ UNCHANGED sweep

IdleClosed(c) ==
    /\ monitor[c] = "closing" /\ Turn
    /\ monitor' = [monitor EXCEPT ![c] = "none"]
    /\ Closed(c) \/ CloseFailed(c)
    /\ UNCHANGED sweep

------------------------------------------------------------------------------
(* Sweeps.  Each iterates over dicts that close() itself shrinks, and other *)
(* coroutines change while it awaits.  A dict iterator raises RuntimeError  *)
(* at its next step, the last one included, if the size is not what it was; *)
(* if keys came and went it "may fail to iterate over all entries" (Python  *)
(* library reference, dictionary views), and meets again one that came back.*)

Raises(s, keys)    == Cardinality(keys) # walk[s].size
Exhausted(s, keys) == keys \subseteq walk[s].seen \/ walk[s].left # {}
Ahead(s, keys)     == keys \ (walk[s].seen \ walk[s].left)
Yielded(s, key1)   == [walk EXCEPT ![s].seen = @ \cup {key1}]

Registered(s) == {reg[k] : k \in {k \in Keys : s \in {k[2], Shutdown}}} \ {Nil}

SweepBegin(s) ==
    /\ sweep[s].pc = "idle" /\ Turn
    /\ sweep' = [sweep EXCEPT ![s] = [NoSweep EXCEPT !.pc = "next",
                                                    !.targets = Registered(s)]]
    /\ walk'  = [walk EXCEPT ![s] = Walk(present)]
    /\ UNCHANGED <<callVars, link, clientVars, reg, present>>

\* The sweep s, its iterators now at w, awaits close() of the open client c, whose idle
\* task is cancelled.  Without a connection the sweep just goes on.
SweepClose(s, c, w) ==
    /\ Close(c)
    /\ monitor' = [monitor EXCEPT ![c] = "none"]
    /\ IF conn[c] = Nil
       THEN RemoveClient(key[c], w) /\ UNCHANGED sweep
       ELSE /\ sweep' = [sweep EXCEPT ![s].pc = "await", ![s].client = c]
            /\ IF s = Shutdown
               THEN walk' = w /\ UNCHANGED reg
               ELSE walk' = Popped(key[c], w) /\ reg' = [reg EXCEPT ![key[c]] = Nil]
            /\ UNCHANGED present

SweepClosed(s) ==
    /\ sweep[s].pc = "await" /\ Turn
    /\ \/ /\ Closed(sweep[s].client)
          /\ sweep' = [sweep EXCEPT ![s].pc = "next", ![s].client = Nil]
       \/ /\ CloseFailed(sweep[s].client)
          /\ sweep' = [sweep EXCEPT ![s].pc = "raised", ![s].client = Nil, ![s].proxy = Nil]
    /\ UNCHANGED monitor

SweepEnd(s, how) ==
    /\ sweep' = [sweep EXCEPT ![s].pc = how, ![s].proxy = Nil]
    /\ UNCHANGED <<callVars, link, clientVars>>

\* Fault: a client with a call in flight is dropped from the registry but not closed.
FaultStopVisit(s, p) ==
    LET k == <<p, s>>
        w == Yielded(s, p)
    IN  IF reg[k] # Nil /\ reg[k] \notin closed /\ ActiveCalls(reg[k]) = {}
        THEN SweepClose(s, reg[k], w)
        ELSE /\ reg' = [reg EXCEPT ![k] = Nil] /\ walk' = Popped(k, w)
             /\ UNCHANGED <<callVars, link, clientVars, present, sweep>>

\* stop_all: pop the instance's client of one proxy after the other, and close it;
\* close() does nothing for a closed client.
StopVisit(s, p) ==
    LET k == <<p, s>>
        w == Yielded(s, p)
    IN  IF reg[k] # Nil /\ reg[k] \notin closed
        THEN SweepClose(s, reg[k], w)
        ELSE /\ reg' = [reg EXCEPT ![k] = Nil] /\ walk' = Popped(k, w)
             /\ UNCHANGED <<callVars, link, clientVars, present, sweep>>

StopNext(s) ==
    /\ s # Shutdown /\ sweep[s].pc = "next"
    /\ \/ Raises(s, present) /\ SweepEnd(s, "raised") /\ UNCHANGED <<reg, present, walk>>
       \/ /\ ~Raises(s, present) /\ Exhausted(s, present)
          /\ SweepEnd(s, "done") /\ UNCHANGED <<reg, present, walk>>
       \/ ~Raises(s, present) /\ \E p \in Ahead(s, present) : StopVisit(s, p)

\* close_all: the outer iteration, ending in _clients.clear(), and the inner one.
CloseNextDict ==
    /\ sweep[Shutdown].proxy = Nil
    /\ \/ /\ Raises(Shutdown, present)
          /\ SweepEnd(Shutdown, "raised") /\ UNCHANGED <<reg, present, walk>>
       \/ /\ ~Raises(Shutdown, present) /\ Exhausted(Shutdown, present)
          /\ SweepEnd(Shutdown, "done")
          /\ reg'  = [k \in Keys |-> Nil] /\ present' = {}
          /\ walk' = [s \in DOMAIN walk |->
                       IF s = Inner THEN walk[s] ELSE [walk[s] EXCEPT !.left = @ \cup present]]
       \/ /\ ~Raises(Shutdown, present)
          /\ \E p \in Ahead(Shutdown, present) :
               /\ sweep' = [sweep EXCEPT ![Shutdown].proxy = p]
               /\ walk'  = [Yielded(Shutdown, p) EXCEPT ![Inner] = Walk(ByInstance(p))]
          /\ UNCHANGED <<callVars, link, clientVars, reg, present>>

CloseNextClient ==
    LET p    == sweep[Shutdown].proxy
        held == ByInstance(p)
    IN  /\ p # Nil
        /\ \/ /\ Raises(Inner, held)
              /\ SweepEnd(Shutdown, "raised") /\ UNCHANGED <<reg, present, walk>>
           \/ /\ ~Raises(Inner, held) /\ Exhausted(Inner, held)
              /\ sweep' = [sweep EXCEPT ![Shutdown].proxy = Nil]
              /\ UNCHANGED <<callVars, link, clientVars, reg, present, walk>>
           \/ /\ ~Raises(Inner, held)
              /\ \E i \in Ahead(Inner, held) :
                   IF reg[<<p, i>>] \in closed
                   THEN /\ walk' = Yielded(Inner, i)
                        /\ UNCHANGED <<callVars, link, clientVars, reg, present, sweep>>
                   ELSE SweepClose(Shutdown, reg[<<p, i>>], Yielded(Inner, i))

CloseNext == /\ Shutdown \in Sweepers /\ sweep[Shutdown].pc = "next"
             /\ CloseNextDict \/ CloseNextClient

------------------------------------------------------------------------------
Monitor(c) == StayAwake(c) \/ IdleClose(c) \/ IdleClosed(c)

Sweep(s) == SweepBegin(s) \/ StopNext(s) \/ SweepClosed(s)

Next ==
    \/ \E h \in Calls : \E k \in Keys : Call(h, k)
    \/ \E h \in Calls : Connected(h) \/ ConnectFails(h) \/ Return(h) \/ Monitor(h)
    \/ \E s \in Sweepers : Sweep(s)
    \/ CloseNext

Spec == Init /\ [][Next]_vars

\* asyncio runs code that does not wait to its next await, wakes a monitor whose timer is
\* due (strong fairness: a sweep may hold the loop for a moment) and ends the close of a
\* connection that the monitor waits for.  Nothing is assumed of the proxied server: a
\* connection may never come up, a tool may never answer.
Running(s) == IF s = Shutdown THEN CloseNext ELSE StopNext(s)
LiveSpec   == /\ Spec
              /\ \A s \in Sweepers : WF_vars(Running(s))
              /\ \A c \in Calls : SF_vars(Monitor(c))

------------------------------------------------------------------------------
(* Properties that hold.                                                    *)

\* A tool call in flight runs on an open connection: the idle monitor never cuts it
\* off, even when its client has left the registry or got a second connection; only
\* a sweep of its instance or of the server does.
CallsKeepConnection ==
    \A h \in Calls :
        pc[h] = "calling" /\ link[uses[h]] # "open"
        => \E s \in Sweepers \cap {key[h][2], Shutdown} : sweep[s].pc # "idle"

\* Once the calls stop, every client is closed, unless a call on it never returns: also
\* a client that never connected, or that _remove_client dropped from the registry.
IdleClientsClose ==
    \A c \in Calls : c \in made ~> c \in closed \/ ActiveCalls(c) # {}

\* A stop_all that returns has closed every client its instance had when it began,
\* whatever was connected, called or swept meanwhile, if no proxy left _clients during
\* it.  The one client it may miss had replaced a closed one, whose _remove_client then
\* took the new one out of the registry.
StopMeansStopped ==
    \A s \in Sweepers \ {Shutdown} :
        sweep[s].pc = "done" /\ walk[s].left = {} =>
            \A c \in sweep[s].targets \ closed : \E d \in closed : key[d] = key[c]

------------------------------------------------------------------------------
(* A statement of the source's own comments that the code does not keep.    *)

\* stop_all: "Close all proxied MCPs running in the given instance"; close_all: "Close
\* every proxied MCP connection".  The step of the iteration that follows a close which
\* emptied an inner dict (stop_all) or left it smaller (close_all) raises.
SweepsClose ==
    \A s \in Sweepers :
        sweep[s].pc \in {"done", "raised"} => sweep[s].targets \subseteq closed
==============================================================================
