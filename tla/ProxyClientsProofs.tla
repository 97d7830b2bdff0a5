--------------------------- MODULE ProxyClientsProofs ---------------------------
(***************************************************************************)
(* Safety of the proxied servers, for any proxies, instances, tool calls    *)
(* and sweeps: the types, the connection of a call in flight, and what a    *)
(* stop_all that returns has closed.                                        *)
(***************************************************************************)
EXTENDS ProxyClients, FiniteSetTheorems, TLAPS

\* A sweep that may close clients of the key k has begun.
Swept(k) == \E s \in Sweepers \cap {k[2], Shutdown} : sweep[s].pc # "idle"

\* Clients and calls have keys, and the registry lists a client under its own.
KeysOK ==
    /\ \A c \in made : pc[c] # "new"
    /\ \A h \in Calls : pc[h] # "new" =>
           key[h] \in Keys /\ via[h] \in made /\ key[via[h]] = key[h]
    /\ \A k \in Keys : reg[k] # Nil => reg[k] \in made /\ key[reg[k]] = k

\* A connection belongs to the client of the call that opened it.
LinksOK ==
    /\ \A h \in Calls : pc[h] = "connecting" => link[h] = "connecting"
    /\ \A c \in Calls : conn[c] # Nil =>
           /\ pc[conn[c]] \in {"calling", "done"} /\ via[conn[c]] = c
           /\ c \notin closed => link[conn[c]] = "open"
    /\ \A c \in Calls : dying[c] # Nil =>
           pc[dying[c]] \in {"calling", "done"} /\ via[dying[c]] = c /\ c \in closed

\* A client with a call in flight is closed by a sweep only, and no other close cuts the
\* connection the call runs on.
CutOK ==
    /\ \A h \in Calls : pc[h] = "calling" /\ via[h] \in closed => Swept(key[h])
    /\ \A h \in Calls : pc[h] = "calling" =>
           /\ uses[h] \in Calls /\ pc[uses[h]] \in {"calling", "done"}
           /\ via[uses[h]] = via[h]
           /\ link[uses[h]] = "open" \/ Swept(key[h])

CallInv == KeysOK /\ LinksOK /\ CutOK

\* Whoever awaits a close has closed the client.
AwaitOK ==
    /\ \A c \in Calls : monitor[c] = "asleep" => c \in made
    /\ \A c \in Calls : monitor[c] = "closing" => c \in closed
    /\ \A s \in Sweepers : sweep[s].pc = "await" => sweep[s].client \in closed

\* An inner dict that holds a client is in _clients.
DictsOK == \A k \in Keys : reg[k] # Nil => k[1] \in present

Replaced(c) == \E d \in closed : key[d] = key[c]
Missed(s)   == {c \in sweep[s].targets \ closed : ~Replaced(c)}

\* What a stop_all has yet to close is in dicts its iterator has yet to yield.
SweepOK(s) ==
    /\ \A c \in sweep[s].targets : c \in made /\ key[c][2] = s
    /\ walk[s].left = {} /\ sweep[s].pc \in {"next", "await"} =>
           \A c \in Missed(s) :
               reg[key[c]] = c /\ key[c][1] \in present \ walk[s].seen
    /\ walk[s].left = {} /\ sweep[s].pc = "done" => Missed(s) = {}

SweepsOK == \A s \in Sweepers \ {Shutdown} : SweepOK(s)

IInv == TypeOK /\ CallInv /\ AwaitOK /\ DictsOK /\ SweepsOK

------------------------------------------------------------------------------
(* Helpers.                                                                *)

Walks == [seen : SUBSET (Proxies \cup Instances), left : SUBSET (Proxies \cup Instances), size : Nat]

Records == [pc : {"idle", "next", "await", "done", "raised"}, proxy : Proxies \cup {Nil},
            client : Calls \cup {Nil}, targets : SUBSET Calls]

LEMMA WalkType ==
    ASSUME NEW keys, keys \subseteq Proxies \/ keys \subseteq Instances
    PROVE  Walk(keys) \in Walks
<1>1. IsFiniteSet(keys)  BY FS_Subset, ProxyAssumption
<1>2. Cardinality(keys) \in Nat  BY <1>1, FS_CardinalityType
<1> QED  BY <1>2 DEF Walk, Walks

LEMMA DetachedType == Detached \in Nat
BY FS_CardinalityType, ProxyAssumption DEF Detached

LEMMA KeyParts == \A k \in Keys : k[1] \in Proxies /\ k[2] \in Instances /\ k = <<k[1], k[2]>>
BY DEF Keys

LEMMA Names == Inner \notin Sweepers /\ Shutdown \notin Instances /\ Inner # Shutdown /\ Nil \notin Calls
BY ProxyAssumption DEF Inner, Shutdown

LEMMA PoppedType ==
    ASSUME TypeOK, NEW w \in [Sweepers \cup {Inner} -> Walks], NEW k \in Keys
    PROVE  /\ Popped(k, w) \in [Sweepers \cup {Inner} -> Walks]
           /\ \A s \in Sweepers : Popped(k, w)[s] = w[s]
<1>1. k[2] \in Instances  BY KeyParts
<1>2. [w EXCEPT ![Inner].left = @ \cup {k[2]}] \in [Sweepers \cup {Inner} -> Walks]
  BY <1>1 DEF Walks
<1> QED  BY <1>2, Names DEF Popped

\* What leaves the registry leaves marks in the iterators.
LEMMA Removes ==
    ASSUME TypeOK, DictsOK, NEW w \in [Sweepers \cup {Inner} -> Walks], NEW k \in Keys,
           RemoveClient(k, w)
    PROVE  /\ reg' = [reg EXCEPT ![k] = Nil] /\ present' \subseteq present
           /\ walk' \in [Sweepers \cup {Inner} -> Walks]
           /\ \A s \in Sweepers : /\ walk'[s].seen = w[s].seen /\ w[s].left \subseteq walk'[s].left
                                  /\ present' = present \/ walk'[s].left # {}
           /\ DictsOK'
<1> DEFINE p == k[1]
           empties == p \in present /\ ByInstance(p) \subseteq {k[2]}
<1>0. p \in Proxies /\ k[2] \in Instances /\ k = <<p, k[2]>>  BY KeyParts
<1>1. reg' = [reg EXCEPT ![k] = Nil]  BY DEF RemoveClient
<1>2. present' = IF empties THEN present \ {p} ELSE present  BY DEF RemoveClient
<1>3. CASE ~empties
  <2>1. walk' = Popped(k, w)  BY <1>3 DEF RemoveClient
  <2>2. DictsOK'  BY <1>1, <1>2, <1>3 DEF DictsOK, TypeOK
  <2> QED  BY <1>1, <1>2, <1>3, <2>1, <2>2, PoppedType
<1>4. CASE empties
  <2>1. walk' = [s \in DOMAIN w |->
                   IF s # Inner THEN [w[s] EXCEPT !.left = @ \cup {p}]
                   ELSE IF WalkedOver(k) THEN [w[s] EXCEPT !.size = Detached] ELSE w[s]]
    BY <1>4 DEF RemoveClient
  <2>2. walk' \in [Sweepers \cup {Inner} -> Walks]
    <3>1. \A s \in DOMAIN w : /\ [w[s] EXCEPT !.left = @ \cup {p}] \in Walks
                              /\ [w[s] EXCEPT !.size = Detached] \in Walks /\ w[s] \in Walks
      BY <1>0, DetachedType DEF Walks
    <3> HIDE DEF p
    <3> QED  BY <2>1, <3>1
  <2>3. \A s \in Sweepers : walk'[s] = [w[s] EXCEPT !.left = @ \cup {p}]  BY <2>1, Names
  <2>4. \A s \in Sweepers : /\ walk'[s].seen = w[s].seen
                            /\ w[s].left \subseteq walk'[s].left /\ walk'[s].left # {}
    <3> SUFFICES ASSUME NEW s \in Sweepers
                 PROVE  /\ walk'[s].seen = w[s].seen
                        /\ w[s].left \subseteq walk'[s].left /\ walk'[s].left # {}
      OBVIOUS
    <3>1. PICK v \in Walks : v = w[s]  OBVIOUS
    <3>2. walk'[s] = [v EXCEPT !.left = @ \cup {p}]  BY <2>3, <3>1
    <3>3. walk'[s].seen = v.seen /\ walk'[s].left = v.left \cup {p}  BY <3>2 DEF Walks
    <3> QED  BY <3>1, <3>3
  <2>5. DictsOK'
    <3> SUFFICES ASSUME NEW l \in Keys, reg'[l] # Nil PROVE l[1] \in present'  BY DEF DictsOK
    <3>1. l # k /\ reg[l] # Nil /\ l[1] \in present  BY <1>1 DEF TypeOK, DictsOK
    <3>2. CASE l[1] = p
      <4>1. l[2] \in ByInstance(p)  BY <3>1, <3>2, KeyParts DEF ByInstance
      <4> QED  BY <1>4, <4>1, <3>1, <3>2, <1>0, KeyParts
    <3> QED  BY <3>1, <3>2, <1>2, <1>4
  <2> QED  BY <1>1, <1>2, <1>4, <2>2, <2>4, <2>5
<1> QED  BY <1>3, <1>4

LEMMA SweptStays ==
    ASSUME NEW k, Swept(k), \A s \in Sweepers : sweep[s].pc # "idle" => sweep'[s].pc # "idle"
    PROVE  Swept(k)'
BY DEF Swept

\* A step that makes no call: clients are closed, connections end, the registry shrinks.
LEMMA ShrinkKeeps ==
    ASSUME TypeOK, CallInv, UNCHANGED <<callVars, made>>, closed \subseteq closed',
           \A s \in Sweepers : sweep[s].pc # "idle" => sweep'[s].pc # "idle",
           \A k \in Keys : reg'[k] \in {reg[k], Nil},
           \A h \in Calls : pc[h] = "calling" /\ via[h] \in closed' \ closed => Swept(key[h])',
           \A c \in Calls : conn'[c] \in {conn[c], Nil},
           \A c \in Calls : dying'[c] \in {dying[c], Nil} \/ (dying'[c] = conn[c] /\ c \in closed'),
           \A h \in Calls : \/ link'[h] = link[h]
                            \/ link'[h] = "lost" /\ \E d \in closed : dying[d] = h
    PROVE  CallInv'
<1> USE DEF callVars
<1>0. \A h \in Calls : link'[h] = link[h] \/ (pc[h] \in {"calling", "done"} /\ via[h] \in closed)
  BY Names DEF TypeOK, CallInv, LinksOK
<1>1. KeysOK'  BY DEF CallInv, KeysOK
<1>2. LinksOK'
  <2>1. \A h \in Calls : pc'[h] = "connecting" => link'[h] = "connecting"
    BY <1>0 DEF CallInv, LinksOK
  <2>2. \A c \in Calls : conn'[c] # Nil =>
           /\ pc'[conn'[c]] \in {"calling", "done"} /\ via'[conn'[c]] = c
           /\ c \notin closed' => link'[conn'[c]] = "open"
    BY <1>0 DEF TypeOK, CallInv, LinksOK
  <2>3. \A c \in Calls : dying'[c] # Nil =>
           pc'[dying'[c]] \in {"calling", "done"} /\ via'[dying'[c]] = c /\ c \in closed'
    BY DEF TypeOK, CallInv, LinksOK
  <2> QED  BY <2>1, <2>2, <2>3 DEF LinksOK
<1>3. CutOK'
  <2>0. \A k : Swept(k) => Swept(k)'  BY SweptStays
  <2>1. \A h \in Calls : pc'[h] = "calling" /\ via'[h] \in closed' => Swept(key[h])'
    BY <2>0 DEF CallInv, CutOK
  <2>2. \A h \in Calls : pc'[h] = "calling" =>
           /\ uses'[h] \in Calls /\ pc'[uses'[h]] \in {"calling", "done"}
           /\ via'[uses'[h]] = via'[h]
           /\ link'[uses'[h]] = "open" \/ Swept(key[h])'
    BY <1>0, <2>0 DEF CallInv, CutOK
  <2> QED  BY <2>1, <2>2 DEF CutOK
<1> QED  BY <1>1, <1>2, <1>3 DEF CallInv

\* A step that the stop_all s does not take.
LEMMA OthersKeep ==
    ASSUME TypeOK, KeysOK, NEW s \in Sweepers, SweepOK(s),
           sweep'[s].targets = sweep[s].targets,
           sweep'[s].pc = sweep[s].pc \/ (sweep[s].pc \in {"next", "await"} /\ sweep'[s].pc # "done")
               \/ sweep'[s].pc = "raised",
           walk'[s].seen = walk[s].seen, walk[s].left \subseteq walk'[s].left,
           made \subseteq made', closed \subseteq closed', \A c \in made : key'[c] = key[c],
           walk'[s].left # {} \/
               /\ present \subseteq present'
               /\ \A k \in Keys : \/ reg[k] = Nil \/ reg'[k] = reg[k] \/ reg[k] \in closed'
                                  \/ \E d \in closed' : d \in made /\ key[d] = k
    PROVE  SweepOK(s)'
<1>1. \A c \in sweep'[s].targets : c \in made' /\ key'[c][2] = s  BY DEF SweepOK
<1>2. sweep[s].targets \subseteq made  BY DEF SweepOK
<1>3. Missed(s)' \subseteq Missed(s)
  BY <1>2 DEF Missed, Replaced, TypeOK
<1>4. ASSUME walk'[s].left = {}, sweep'[s].pc \in {"next", "await"}, NEW c \in Missed(s)'
      PROVE  reg'[key'[c]] = c /\ key'[c][1] \in present' \ walk'[s].seen
  <2>1. walk[s].left = {} /\ sweep[s].pc \in {"next", "await"} /\ c \in Missed(s)  BY <1>3, <1>4
  <2>2. reg[key[c]] = c /\ key[c][1] \in present \ walk[s].seen  BY <2>1 DEF SweepOK
  <2>3. c \in made /\ key'[c] = key[c] /\ c \notin closed'  BY <1>2, <1>4 DEF Missed
  <2>4. key[c] \in Keys  BY <2>3 DEF KeysOK, TypeOK
  <2>5. c # Nil  BY <2>3, Names DEF TypeOK
  <2>6. ~\E d \in closed' : d \in made /\ key[d] = key[c]  BY <1>4, <2>3 DEF Missed, Replaced
  <2> QED  BY <1>4, <2>2, <2>3, <2>4, <2>5, <2>6
<1>5. walk'[s].left = {} /\ sweep'[s].pc = "done" => Missed(s)' = {}
  BY <1>3 DEF SweepOK
<1> QED  BY <1>1, <1>4, <1>5 DEF SweepOK

------------------------------------------------------------------------------
(* Tool calls.                                                             *)

\* A step that changes neither the registry nor a sweep, and closes nothing.
LEMMA SweepsRest ==
    ASSUME IInv, UNCHANGED <<reg, present, sweepVars, closed, made, key>>
    PROVE  DictsOK' /\ SweepsOK'
<1>1. DictsOK'  BY DEF IInv, DictsOK
<1>2. ASSUME NEW s \in Sweepers \ {Shutdown} PROVE SweepOK(s)'
  BY OthersKeep DEF IInv, CallInv, SweepsOK, sweepVars
<1> QED  BY <1>1, <1>2 DEF SweepsOK

LEMMA CallKeeps == ASSUME IInv, NEW h \in Calls, NEW k \in Keys, Call(h, k) PROVE IInv'
<1> DEFINE fresh == reg[k] = Nil \/ reg[k] \in closed
<1>1. PICK c : c = IF fresh THEN h ELSE reg[k]  OBVIOUS
<1>2. pc[h] = "new" /\ h \in Calls \ made  BY DEF Call, IInv, TypeOK, CallInv, KeysOK
<1>3. /\ c \in Calls /\ (fresh => c = h)
      /\ ~fresh => c \in made \ closed /\ key[c] = k /\ c # h /\ reg[k] = c
  BY <1>1, <1>2 DEF IInv, TypeOK, CallInv, KeysOK
<1>4. /\ key' = [key EXCEPT ![h] = k] /\ via' = [via EXCEPT ![h] = c]
      /\ reg' = [reg EXCEPT ![k] = c] /\ present' = present \cup {k[1]}
      /\ made' = made \cup {c} /\ UNCHANGED <<closed, conn, dying, recent, sweepVars>>
  BY <1>1 DEF Call
<1>5. PICK m \in {"none", "asleep", "closing"} :
          monitor' = [monitor EXCEPT ![c] = m] /\ m \in {"asleep", monitor[c]}
  <2>1. monitor' = [monitor EXCEPT ![c] = IF fresh /\ IdleTimeout THEN "asleep" ELSE monitor[c]]
    BY <1>1 DEF Call
  <2>2. CASE fresh /\ IdleTimeout  BY <2>1, <2>2
  <2>3. CASE ~(fresh /\ IdleTimeout)  BY <2>1, <2>3, <1>3 DEF IInv, TypeOK
  <2> QED  BY <2>2, <2>3
<1>6. \/ /\ conn[c] # Nil /\ pc' = [pc EXCEPT ![h] = "calling"]
         /\ uses' = [uses EXCEPT ![h] = conn[c]] /\ UNCHANGED link
      \/ /\ conn[c] = Nil /\ pc' = [pc EXCEPT ![h] = "connecting"]
         /\ link' = [link EXCEPT ![h] = "connecting"] /\ UNCHANGED uses
  BY <1>1 DEF Call, UseConnection
<1>7. conn[c] # Nil =>
          /\ c \in made \ closed /\ conn[c] \in Calls \ {h}
          /\ pc[conn[c]] \in {"calling", "done"} /\ via[conn[c]] = c /\ link[conn[c]] = "open"
  BY <1>2, <1>3 DEF IInv, TypeOK, CallInv, KeysOK, LinksOK
<1>8. TypeOK'
  <2>1. k[1] \in Proxies  BY KeyParts
  <2>2. /\ pc' \in [Calls -> {"new", "connecting", "calling", "done"}]
        /\ uses' \in [Calls -> Calls \cup {Nil}]
        /\ link' \in [Calls -> {"none", "connecting", "open", "lost"}]
    BY <1>6, <1>7 DEF IInv, TypeOK
  <2>3. /\ key' \in [Calls -> Keys \cup {NoKey}] /\ via' \in [Calls -> Calls \cup {Nil}]
        /\ made' \subseteq Calls /\ closed' \subseteq made' /\ recent' \subseteq made'
        /\ reg' \in [Keys -> Calls \cup {Nil}] /\ present' \subseteq Proxies
    BY <1>3, <1>4, <2>1 DEF IInv, TypeOK
  <2>4. monitor' \in [Calls -> {"none", "asleep", "closing"}]  BY <1>5 DEF IInv, TypeOK
  <2> QED  BY <1>4, <2>2, <2>3, <2>4 DEF IInv, TypeOK, sweepVars
<1>9. KeysOK'
  <2>1. pc'[h] # "new" /\ \A g \in Calls \ {h} : pc'[g] = pc[g] /\ key'[g] = key[g] /\ via'[g] = via[g]
    BY <1>4, <1>6 DEF IInv, TypeOK
  <2>2. key'[h] = k /\ via'[h] = c /\ key'[c] = k  BY <1>3, <1>4 DEF IInv, TypeOK
  <2>3. \A l \in Keys \ {k} : reg'[l] = reg[l]  BY <1>4 DEF IInv, TypeOK
  <2>4. reg'[k] = c  BY <1>4 DEF IInv, TypeOK
  <2> QED  BY <1>2, <1>3, <1>4, <2>1, <2>2, <2>3, <2>4 DEF IInv, TypeOK, CallInv, KeysOK
<1>10. LinksOK'
  <2>1. \A g \in Calls \ {h} : pc'[g] = pc[g] /\ link'[g] = link[g] /\ via'[g] = via[g]
    BY <1>4, <1>6 DEF IInv, TypeOK
  <2>2. pc'[h] = "connecting" => link'[h] = "connecting"  BY <1>6 DEF IInv, TypeOK
  <2>3. \A d \in Calls : conn[d] # h /\ dying[d] # h
    BY <1>2, Names DEF IInv, TypeOK, CallInv, LinksOK
  <2> QED  BY <1>4, <2>1, <2>2, <2>3 DEF IInv, TypeOK, CallInv, LinksOK
<1>11. CutOK'
  <2>1. \A g \in Calls \ {h} : pc'[g] = pc[g] /\ link'[g] = link[g] /\ via'[g] = via[g]
                               /\ uses'[g] = uses[g] /\ key'[g] = key[g]
    BY <1>4, <1>6 DEF IInv, TypeOK
  <2>2. \A x : Swept(x) <=> Swept(x)'  BY <1>4 DEF Swept, sweepVars
  <2>3. pc'[h] = "calling" => /\ via'[h] = c /\ c \notin closed /\ uses'[h] = conn[c]
                              /\ conn[c] \in Calls \ {h} /\ pc[conn[c]] \in {"calling", "done"}
                              /\ via[conn[c]] = c /\ link[conn[c]] = "open"
    BY <1>4, <1>6, <1>7 DEF IInv, TypeOK
  <2>4. \A g \in Calls \ {h} : pc[g] = "calling" => uses[g] # h
    BY <1>2 DEF IInv, TypeOK, CallInv, CutOK
  <2>5. \A g \in Calls : pc'[g] = "calling" /\ via'[g] \in closed' => Swept(key[g])
    BY <1>4, <2>1, <2>3 DEF IInv, CallInv, CutOK
  <2>6. \A g \in Calls : pc'[g] = "calling" =>
           /\ uses'[g] \in Calls /\ pc'[uses'[g]] \in {"calling", "done"}
           /\ via'[uses'[g]] = via'[g]
           /\ link'[uses'[g]] = "open" \/ (g # h /\ Swept(key[g]))
    BY <2>1, <2>3, <2>4 DEF IInv, CallInv, CutOK
  <2>7. \A g \in Calls \ {h} : Swept(key[g]) => Swept(key[g])'
    BY <1>4, <2>1 DEF Swept, sweepVars
  <2>8. \A g \in Calls : pc'[g] = "calling" /\ via'[g] \in closed' => g # h
    BY <1>4, <2>3
  <2> QED  BY <2>5, <2>6, <2>7, <2>8 DEF CutOK
<1>12. AwaitOK'  BY <1>3, <1>4, <1>5 DEF IInv, TypeOK, AwaitOK, sweepVars
<1>13. DictsOK'  BY <1>4, KeyParts DEF IInv, TypeOK, DictsOK
<1>14. SweepsOK'
  <2> SUFFICES ASSUME NEW s \in Sweepers \ {Shutdown} PROVE SweepOK(s)'  BY DEF SweepsOK
  <2>1. \A d \in made : key'[d] = key[d]  BY <1>2, <1>4 DEF IInv, TypeOK
  <2>2. \A l \in Keys : reg[l] = Nil \/ reg'[l] = reg[l] \/ reg[l] \in closed'
    BY <1>3, <1>4 DEF IInv, TypeOK
  <2> QED  BY <1>4, <2>1, <2>2, OthersKeep DEF IInv, CallInv, SweepsOK, sweepVars
<1> QED  BY <1>8, <1>9, <1>10, <1>11, <1>12, <1>13, <1>14 DEF IInv, CallInv

LEMMA ConnectedKeeps == ASSUME IInv, NEW h \in Calls, Connected(h) PROVE IInv'
<1>1. PICK c : c = via[h]  OBVIOUS
<1>2. pc[h] = "connecting" /\ link[h] = "connecting" /\ c \in made /\ key[c] = key[h]
  BY <1>1 DEF Connected, IInv, CallInv, KeysOK, LinksOK
<1>3. /\ link' = [link EXCEPT ![h] = "open"] /\ conn' = [conn EXCEPT ![c] = h]
      /\ recent' = recent \cup {c}
      /\ UNCHANGED <<key, via, made, closed, dying, monitor, reg, present, sweepVars>>
      /\ \/ c \in closed /\ pc' = [pc EXCEPT ![h] = "done"] /\ UNCHANGED uses
         \/ /\ c \notin closed /\ pc' = [pc EXCEPT ![h] = "calling"]
            /\ uses' = [uses EXCEPT ![h] = h]
  BY <1>1 DEF Connected, UseConnection
<1>4. TypeOK'
  <2>1. pc' \in [Calls -> {"new", "connecting", "calling", "done"}]
        /\ uses' \in [Calls -> Calls \cup {Nil}]
    BY <1>3 DEF IInv, TypeOK
  <2> QED  BY <1>2, <1>3, <2>1 DEF IInv, TypeOK, sweepVars
<1>5. /\ pc'[h] \in {"calling", "done"} /\ link'[h] = "open"
      /\ \A g \in Calls \ {h} : pc'[g] = pc[g] /\ link'[g] = link[g] /\ uses'[g] = uses[g]
  BY <1>3 DEF IInv, TypeOK
<1>6. KeysOK'  BY <1>2, <1>3, <1>5 DEF IInv, TypeOK, CallInv, KeysOK
<1>7. LinksOK'
  <2>1. conn'[c] = h /\ \A d \in Calls \ {c} : conn'[d] = conn[d]  BY <1>2, <1>3 DEF IInv, TypeOK
  <2>2. \A d \in Calls : conn[d] # h /\ dying[d] # h
    BY <1>2, Names DEF IInv, TypeOK, CallInv, LinksOK
  <2> QED  BY <1>1, <1>3, <1>5, <2>1, <2>2 DEF IInv, TypeOK, CallInv, LinksOK
<1>8. CutOK'
  <2>1. pc'[h] = "calling" => c \notin closed /\ uses'[h] = h  BY <1>3 DEF IInv, TypeOK
  <2>2. \A g \in Calls : Swept(key[g]) => Swept(key[g])'  BY <1>3 DEF Swept, sweepVars
  <2>3. \A g \in Calls \ {h} : pc[g] = "calling" => uses[g] # h
    BY <1>2 DEF IInv, TypeOK, CallInv, CutOK
  <2> QED  BY <1>1, <1>3, <1>5, <2>1, <2>2, <2>3 DEF IInv, CallInv, CutOK
<1>9. AwaitOK'  BY <1>3 DEF IInv, AwaitOK, sweepVars
<1> QED  BY <1>3, <1>4, <1>6, <1>7, <1>8, <1>9, SweepsRest DEF IInv, CallInv

\* A tool call ends.
LEMMA EndCallKeeps ==
    ASSUME IInv, NEW h \in Calls, ConnectFails(h) \/ Return(h)
    PROVE  IInv'
<1>1. /\ pc[h] \in {"connecting", "calling"} /\ pc' = [pc EXCEPT ![h] = "done"]
      /\ pc[h] = "connecting" => link' = [link EXCEPT ![h] = "lost"] /\ UNCHANGED uses
      /\ pc[h] = "calling" => uses' = [uses EXCEPT ![h] = Nil] /\ UNCHANGED link
      /\ recent' \subseteq recent \cup {via[h]}
      /\ UNCHANGED <<key, via, made, closed, conn, dying, monitor, reg, present, sweepVars>>
  BY DEF ConnectFails, Return, clientVars, sweepVars
<1>2. via[h] \in made  BY <1>1 DEF IInv, CallInv, KeysOK
<1>3. TypeOK'
  <2>1. link' \in [Calls -> {"none", "connecting", "open", "lost"}]
        /\ uses' \in [Calls -> Calls \cup {Nil}]
    BY <1>1 DEF IInv, TypeOK
  <2> QED  BY <1>1, <1>2, <2>1 DEF IInv, TypeOK, sweepVars
<1>4. /\ pc'[h] = "done" /\ (link'[h] = link[h] \/ pc[h] = "connecting")
      /\ \A g \in Calls \ {h} : pc'[g] = pc[g] /\ link'[g] = link[g] /\ uses'[g] = uses[g]
  BY <1>1 DEF IInv, TypeOK
<1>5. KeysOK'  BY <1>1, <1>4 DEF IInv, TypeOK, CallInv, KeysOK
<1>6. LinksOK'  BY <1>1, <1>4 DEF IInv, TypeOK, CallInv, LinksOK
<1>7. CutOK'
  <2>1. \A g \in Calls : Swept(key[g]) => Swept(key[g])'  BY <1>1 DEF Swept, sweepVars
  <2> QED  BY <1>1, <1>4, <2>1 DEF IInv, CallInv, CutOK
<1>8. AwaitOK'  BY <1>1 DEF IInv, AwaitOK, sweepVars
<1> QED  BY <1>1, <1>3, <1>5, <1>6, <1>7, <1>8, SweepsRest DEF IInv, CallInv

------------------------------------------------------------------------------
(* The idle monitor, and the end of a close.                                *)

LEMMA StayAwakeKeeps == ASSUME IInv, NEW c \in Calls, StayAwake(c) PROVE IInv'
<1>1. TypeOK'  BY DEF StayAwake, callVars, sweepVars, IInv, TypeOK
<1>2. CallInv'
  BY DEF StayAwake, callVars, sweepVars, IInv, CallInv, KeysOK, LinksOK, CutOK, Swept
<1>3. AwaitOK'  BY DEF StayAwake, sweepVars, IInv, AwaitOK
<1> QED  BY <1>1, <1>2, <1>3, SweepsRest DEF StayAwake, callVars, IInv

\* close() was called for a client that no call uses, or by a sweep.
LEMMA CloseFacts ==
    ASSUME TypeOK, NEW c \in made, Close(c)
    PROVE  /\ UNCHANGED <<callVars, link, made, recent>> /\ closed' = closed \cup {c}
           /\ closed' \subseteq made
           /\ conn' \in [Calls -> Calls \cup {Nil}] /\ dying' \in [Calls -> Calls \cup {Nil}]
           /\ \A d \in Calls : /\ conn'[d] \in {conn[d], Nil}
                               /\ \/ dying'[d] \in {dying[d], Nil}
                                  \/ dying'[d] = conn[d] /\ d \in closed'
BY DEF Close, TypeOK

\* The registry and the iterators after a client of the key k was removed: what a sweep
\* has not yet reached is unchanged.
LEMMA RemoveOthers ==
    ASSUME IInv, NEW k \in Keys, NEW d \in closed', d \in made, key[d] = k,
           NEW w \in [Sweepers \cup {Inner} -> Walks], RemoveClient(k, w),
           UNCHANGED <<made, key>>, closed \subseteq closed',
           NEW s \in Sweepers \ {Shutdown}, w[s] = walk[s],
           sweep'[s].targets = sweep[s].targets,
           sweep'[s].pc = sweep[s].pc \/ sweep'[s].pc = "raised"
               \/ (sweep[s].pc \in {"next", "await"} /\ sweep'[s].pc # "done")
    PROVE  SweepOK(s)'
<1>1. /\ reg' = [reg EXCEPT ![k] = Nil]
      /\ walk'[s].seen = walk[s].seen /\ walk[s].left \subseteq walk'[s].left
      /\ present' = present \/ walk'[s].left # {}
  BY Removes DEF IInv
<1>2. \A l \in Keys : reg'[l] = reg[l] \/ l = k  BY <1>1 DEF IInv, TypeOK
<1> QED  BY <1>1, <1>2, OthersKeep DEF IInv, CallInv, SweepsOK

LEMMA IdleCloseKeeps == ASSUME IInv, NEW c \in Calls, IdleClose(c) PROVE IInv'
<1>1. c \in made /\ key[c] \in Keys
  BY DEF IdleClose, IInv, TypeOK, AwaitOK, CallInv, KeysOK
<1>2. /\ UNCHANGED <<callVars, link, made, recent, sweep>> /\ closed' = closed \cup {c}
      /\ closed' \subseteq made
      /\ conn' \in [Calls -> Calls \cup {Nil}] /\ dying' \in [Calls -> Calls \cup {Nil}]
      /\ \A d \in Calls : /\ conn'[d] \in {conn[d], Nil}
                          /\ \/ dying'[d] \in {dying[d], Nil}
                             \/ dying'[d] = conn[d] /\ d \in closed'
  BY <1>1, CloseFacts DEF IdleClose, IInv
<1>3. \A h \in Calls : pc[h] = "calling" => via[h] # c  BY DEF IdleClose, ActiveCalls
<1>4. /\ \E m \in {"none", "closing"} : monitor' = [monitor EXCEPT ![c] = m]
      /\ UNCHANGED <<reg, present, walk>> \/ RemoveClient(key[c], walk)
  BY DEF IdleClose
<1>5. walk \in [Sweepers \cup {Inner} -> Walks]  BY DEF IInv, TypeOK, Walks
<1>6. /\ reg' = reg \/ reg' = [reg EXCEPT ![key[c]] = Nil]
      /\ present' \subseteq present /\ walk' \in [Sweepers \cup {Inner} -> Walks]
      /\ DictsOK'
  <2>1. CASE UNCHANGED <<reg, present, walk>>  BY <2>1, <1>5 DEF IInv, DictsOK
  <2>2. CASE RemoveClient(key[c], walk)  BY <2>2, <1>1, <1>5, Removes DEF IInv
  <2> QED  BY <1>4, <2>1, <2>2
<1>7. TypeOK'
  BY <1>2, <1>4, <1>6 DEF IInv, TypeOK, callVars, Walks
<1>8. CallInv'
  <2>1. \A k \in Keys : reg'[k] \in {reg[k], Nil}  BY <1>6 DEF IInv, TypeOK
  <2> QED  BY <1>2, <1>3, <2>1, ShrinkKeeps DEF IInv
<1>9. AwaitOK'  BY <1>2, <1>4 DEF IInv, TypeOK, AwaitOK
<1>10. SweepsOK'
  <2> SUFFICES ASSUME NEW s \in Sweepers \ {Shutdown} PROVE SweepOK(s)'  BY DEF SweepsOK
  <2>1. CASE UNCHANGED <<reg, present, walk>>
    BY <1>2, <2>1, OthersKeep DEF IInv, CallInv, SweepsOK, callVars
  <2>2. CASE RemoveClient(key[c], walk)
    BY <1>1, <1>2, <1>5, <2>2, RemoveOthers DEF callVars
  <2> QED  BY <1>4, <2>1, <2>2
<1> QED  BY <1>6, <1>7, <1>8, <1>9, <1>10 DEF IInv

\* The awaited close of the client c has ended; sweep' is what the one that awaited makes of it.
LEMMA ClosedKeeps ==
    ASSUME IInv, NEW c \in closed, Closed(c) \/ CloseFailed(c),
           monitor' \in [Calls -> {"none", "asleep", "closing"}],
           \A d \in Calls : monitor'[d] \in {monitor[d], "none"},
           sweep' \in [Sweepers -> Records],
           \A s \in Sweepers :
               \/ sweep'[s] = sweep[s]
               \/ /\ sweep[s].pc = "await" /\ sweep'[s].pc \in {"next", "raised"}
                  /\ sweep'[s].targets = sweep[s].targets
    PROVE  IInv'
<1>1. c \in made /\ key[c] \in Keys  BY DEF IInv, TypeOK, CallInv, KeysOK
<1>2. /\ UNCHANGED <<callVars, made, closed, conn, recent>>
      /\ link' = [link EXCEPT ![dying[c]] = "lost"] /\ dying' = [dying EXCEPT ![c] = Nil]
      /\ UNCHANGED <<reg, present, walk>> \/ RemoveClient(key[c], walk)
  BY DEF Closed, CloseFailed
<1>3. walk \in [Sweepers \cup {Inner} -> Walks]  BY DEF IInv, TypeOK, Walks
<1>4. /\ reg' = reg \/ reg' = [reg EXCEPT ![key[c]] = Nil]
      /\ present' \subseteq present /\ walk' \in [Sweepers \cup {Inner} -> Walks]
      /\ DictsOK'
  <2>1. CASE UNCHANGED <<reg, present, walk>>  BY <2>1, <1>3 DEF IInv, DictsOK
  <2>2. CASE RemoveClient(key[c], walk)  BY <2>2, <1>1, <1>3, Removes DEF IInv
  <2> QED  BY <1>2, <2>1, <2>2
<1>5. TypeOK'
  BY <1>2, <1>4 DEF IInv, TypeOK, callVars, Walks, Records
<1>6. CallInv'
  <2>1. \A k \in Keys : reg'[k] \in {reg[k], Nil}  BY <1>4 DEF IInv, TypeOK
  <2>2. ASSUME NEW h \in Calls
        PROVE  link'[h] = link[h] \/ (link'[h] = "lost" /\ \E d \in closed : dying[d] = h)
    <3>1. CASE h = dying[c]  BY <1>2, <3>1 DEF IInv, TypeOK
    <3>2. CASE h # dying[c]  BY <1>2, <3>2 DEF IInv, TypeOK
    <3> QED  BY <3>1, <3>2
  <2>3. \A d \in Calls : dying'[d] \in {dying[d], Nil}  BY <1>2 DEF IInv, TypeOK
  <2> QED  BY <1>2, <2>1, <2>2, <2>3, ShrinkKeeps DEF IInv
<1>7. AwaitOK'  BY <1>2 DEF IInv, AwaitOK
<1>8. SweepsOK'
  <2> SUFFICES ASSUME NEW s \in Sweepers \ {Shutdown} PROVE SweepOK(s)'  BY DEF SweepsOK
  <2>1. CASE UNCHANGED <<reg, present, walk>>
    BY <1>2, <2>1, OthersKeep DEF IInv, CallInv, SweepsOK, callVars
  <2>2. CASE RemoveClient(key[c], walk)
    BY <1>1, <1>2, <1>3, <2>2, RemoveOthers DEF callVars
  <2> QED  BY <1>2, <2>1, <2>2
<1> QED  BY <1>4, <1>5, <1>6, <1>7, <1>8 DEF IInv

LEMMA IdleClosedKeeps == ASSUME IInv, NEW c \in Calls, IdleClosed(c) PROVE IInv'
<1>1. c \in closed  BY DEF IdleClosed, IInv, AwaitOK
<1>2. /\ monitor' = [monitor EXCEPT ![c] = "none"] /\ sweep' = sweep
      /\ Closed(c) \/ CloseFailed(c)
  BY DEF IdleClosed
<1> QED  BY <1>1, <1>2, ClosedKeeps DEF IInv, TypeOK, Records

LEMMA SweepClosedKeeps == ASSUME IInv, NEW s \in Sweepers, SweepClosed(s) PROVE IInv'
<1>1. sweep[s].pc = "await" /\ sweep[s].client \in closed  BY DEF SweepClosed, IInv, AwaitOK
<1>2. /\ UNCHANGED monitor
      /\ Closed(sweep[s].client) \/ CloseFailed(sweep[s].client)
      /\ \/ sweep' = [sweep EXCEPT ![s].pc = "next", ![s].client = Nil]
         \/ sweep' = [sweep EXCEPT ![s].pc = "raised", ![s].client = Nil, ![s].proxy = Nil]
  BY DEF SweepClosed
<1>3. PICK q : /\ sweep' = [sweep EXCEPT ![s] = q]
               /\ q \in [pc : {"next", "raised"}, proxy : Proxies \cup {Nil},
                         client : {Nil}, targets : {sweep[s].targets}]
  <2>0. sweep \in [Sweepers -> Records]  BY DEF IInv, TypeOK, Records
  <2>1. CASE sweep' = [sweep EXCEPT ![s].pc = "next", ![s].client = Nil]
    <3>1. sweep' = [sweep EXCEPT ![s] = [sweep[s] EXCEPT !.pc = "next", !.client = Nil]]
      BY <2>0, <2>1 DEF Records
    <3>2. [sweep[s] EXCEPT !.pc = "next", !.client = Nil] \in
              [pc : {"next", "raised"}, proxy : Proxies \cup {Nil},
               client : {Nil}, targets : {sweep[s].targets}]
      BY <2>0 DEF Records
    <3> QED  BY <3>1, <3>2
  <2>2. CASE sweep' = [sweep EXCEPT ![s].pc = "raised", ![s].client = Nil, ![s].proxy = Nil]
    <3>1. sweep' = [sweep EXCEPT ![s] = [sweep[s] EXCEPT !.pc = "raised", !.client = Nil, !.proxy = Nil]]
      BY <2>0, <2>2 DEF Records
    <3>2. [sweep[s] EXCEPT !.pc = "raised", !.client = Nil, !.proxy = Nil] \in
              [pc : {"next", "raised"}, proxy : Proxies \cup {Nil},
               client : {Nil}, targets : {sweep[s].targets}]
      BY <2>0 DEF Records
    <3> QED  BY <3>1, <3>2
  <2> QED  BY <1>2, <2>1, <2>2
<1>4. sweep' \in [Sweepers -> Records]  BY <1>3 DEF IInv, TypeOK, Records
<1>5. ASSUME NEW t \in Sweepers
      PROVE  \/ sweep'[t] = sweep[t]
             \/ /\ sweep[t].pc = "await" /\ sweep'[t].pc \in {"next", "raised"}
                /\ sweep'[t].targets = sweep[t].targets
  <2>1. CASE t = s
    <3>1. sweep'[t] = q  BY <1>3, <2>1 DEF IInv, TypeOK
    <3> QED  BY <1>1, <1>3, <2>1, <3>1
  <2>2. CASE t # s  BY <1>3, <2>2 DEF IInv, TypeOK
  <2> QED  BY <2>1, <2>2
<1>6. /\ monitor' \in [Calls -> {"none", "asleep", "closing"}]
      /\ \A d \in Calls : monitor'[d] \in {monitor[d], "none"}
  BY <1>2 DEF IInv, TypeOK
<1>7. Closed(sweep[s].client) \/ CloseFailed(sweep[s].client)  BY <1>2
<1> QED  BY <1>1, <1>4, <1>5, <1>6, <1>7, ClosedKeeps

------------------------------------------------------------------------------
(* Sweeps.                                                                 *)

\* What the sweep s may be, between two closes: the iterators move, nothing is closed.
LEMMA BookKeeping ==
    ASSUME IInv, UNCHANGED <<callVars, link, clientVars>>,
           NEW s \in Sweepers, NEW q \in Records, q.pc \notin {"idle", "await"},
           sweep' = [sweep EXCEPT ![s] = q],
           \A k \in Keys : reg'[k] \in {reg[k], Nil}, reg' \in [Keys -> Calls \cup {Nil}],
           present' \subseteq Proxies, DictsOK', walk' \in [Sweepers \cup {Inner} -> Walks]
    PROVE  TypeOK' /\ CallInv' /\ AwaitOK' /\ DictsOK'
<1>1. \A t \in Sweepers : sweep'[t] = IF t = s THEN q ELSE sweep[t]  BY DEF IInv, TypeOK
<1>2. sweep' \in [Sweepers -> Records]  BY DEF IInv, TypeOK, Records
<1>3. TypeOK'  BY <1>2 DEF IInv, TypeOK, Records, Walks, callVars, clientVars
<1>4. \A t \in Sweepers : sweep'[t].pc \in {"idle", "await"} => sweep'[t] = sweep[t]
  BY <1>1
<1>5. CallInv'
  <2>1. \A t \in Sweepers : sweep[t].pc # "idle" => sweep'[t].pc # "idle"  BY <1>4
  <2> QED  BY <2>1, ShrinkKeeps DEF IInv, clientVars
<1>6. AwaitOK'  BY <1>4 DEF IInv, AwaitOK, clientVars
<1> QED  BY <1>3, <1>5, <1>6

LEMMA SweepBeginKeeps == ASSUME IInv, NEW s \in Sweepers, SweepBegin(s) PROVE IInv'
<1>1. PICK q : q = [NoSweep EXCEPT !.pc = "next", !.targets = Registered(s)]  OBVIOUS
<1>2. /\ UNCHANGED <<callVars, link, clientVars, reg, present>>
      /\ sweep' = [sweep EXCEPT ![s] = q] /\ walk' = [walk EXCEPT ![s] = Walk(present)]
  BY <1>1 DEF SweepBegin
<1>3. Registered(s) \subseteq Calls  BY DEF Registered, IInv, TypeOK
<1>4. q \in Records /\ q.pc = "next" /\ q.targets = Registered(s)
  BY <1>1, <1>3 DEF NoSweep, Records
<1>5. Walk(present) \in Walks  BY WalkType DEF IInv, TypeOK
<1>6. walk' \in [Sweepers \cup {Inner} -> Walks]  BY <1>2, <1>5 DEF IInv, TypeOK, Walks
<1>7. TypeOK' /\ CallInv' /\ AwaitOK' /\ DictsOK'
  <2>1. DictsOK'  BY <1>2 DEF IInv, DictsOK
  <2>2. present' \subseteq Proxies /\ reg' \in [Keys -> Calls \cup {Nil}]
    BY <1>2 DEF IInv, TypeOK
  <2> QED  BY <1>2, <1>4, <1>6, <2>1, <2>2, BookKeeping
<1>8. ASSUME NEW t \in Sweepers \ {Shutdown} PROVE SweepOK(t)'
  <2>1. CASE t # s
    <3>1. sweep'[t] = sweep[t] /\ walk'[t] = walk[t]  BY <1>2, <2>1, Names DEF IInv, TypeOK
    <3> QED  BY <1>2, <3>1, OthersKeep DEF IInv, CallInv, SweepsOK, callVars, clientVars
  <2>2. CASE t = s
    <3>1. sweep'[s] = q /\ walk'[s] = Walk(present)  BY <1>2, Names DEF IInv, TypeOK
    <3>2. walk'[s].seen = {}  BY <3>1 DEF Walk
    <3>3. \A c \in Registered(s) :
              c \in made /\ key[c] \in Keys /\ key[c][2] = s /\ reg[key[c]] = c
              /\ key[c][1] \in present
      BY <2>2 DEF Registered, IInv, TypeOK, CallInv, KeysOK, DictsOK
    <3>4. \A c \in sweep'[s].targets : /\ c \in made' /\ key'[c][2] = s /\ reg'[key'[c]] = c
                                       /\ key'[c][1] \in present' \ walk'[s].seen
      BY <1>2, <1>4, <3>1, <3>2, <3>3 DEF callVars, clientVars
    <3>5. sweep'[s].pc # "done"  BY <1>4, <3>1
    <3> QED  BY <2>2, <3>4, <3>5 DEF SweepOK, Missed
  <2> QED  BY <2>1, <2>2
<1> QED  BY <1>7, <1>8 DEF IInv, SweepsOK

\* A sweep closes the client c that is registered under k.
LEMMA SweepCloseKeeps ==
    ASSUME IInv, NEW s \in Sweepers, sweep[s].pc = "next",
           NEW k \in Keys, s \in {k[2], Shutdown}, reg[k] # Nil, reg[k] \notin closed,
           NEW w \in [Sweepers \cup {Inner} -> Walks],
           \A t \in Sweepers \ {s} : w[t] = walk[t],
           SweepClose(s, reg[k], w)
    PROVE  /\ TypeOK' /\ CallInv' /\ AwaitOK' /\ DictsOK'
           /\ \A t \in Sweepers \ {s, Shutdown} : SweepOK(t)'
           /\ UNCHANGED <<made, key>> /\ closed' = closed \cup {reg[k]}
           /\ sweep'[s].pc \in {"next", "await"} /\ sweep'[s].targets = sweep[s].targets
           /\ walk'[s].seen = w[s].seen /\ w[s].left \subseteq walk'[s].left
           /\ present' = present \/ walk'[s].left # {}
           /\ \A l \in Keys \ {k} : reg'[l] = reg[l]
<1>1. PICK c \in Calls : c = reg[k]  BY DEF IInv, TypeOK
<1>2. c \in made /\ key[c] = k  BY <1>1 DEF IInv, CallInv, KeysOK
<1>3. /\ UNCHANGED <<callVars, link, made, recent>> /\ closed' = closed \cup {c}
      /\ closed' \subseteq made
      /\ conn' \in [Calls -> Calls \cup {Nil}] /\ dying' \in [Calls -> Calls \cup {Nil}]
      /\ \A d \in Calls : /\ conn'[d] \in {conn[d], Nil}
                          /\ \/ dying'[d] \in {dying[d], Nil}
                             \/ dying'[d] = conn[d] /\ d \in closed'
  BY <1>1, <1>2, CloseFacts DEF SweepClose, IInv
<1>4. monitor' = [monitor EXCEPT ![c] = "none"]  BY <1>1 DEF SweepClose
<1>5. \/ RemoveClient(k, w) /\ UNCHANGED sweep
      \/ /\ sweep' = [sweep EXCEPT ![s].pc = "await", ![s].client = c]
         /\ UNCHANGED present
         /\ \/ walk' = w /\ UNCHANGED reg
            \/ walk' = Popped(k, w) /\ reg' = [reg EXCEPT ![k] = Nil]
  BY <1>1, <1>2 DEF SweepClose
<1>6. PICK q \in Records : /\ sweep' = [sweep EXCEPT ![s] = q]
                           /\ q.targets = sweep[s].targets
                           /\ q = sweep[s] \/ (q.pc = "await" /\ q.client = c)
  <2>0. sweep \in [Sweepers -> Records]  BY DEF IInv, TypeOK, Records
  <2>1. CASE UNCHANGED sweep
    <3>1. sweep' = [sweep EXCEPT ![s] = sweep[s]] /\ sweep[s] \in Records  BY <2>0, <2>1
    <3> QED  BY <3>1
  <2>2. CASE sweep' = [sweep EXCEPT ![s].pc = "await", ![s].client = c]
    <3>1. sweep' = [sweep EXCEPT ![s] = [sweep[s] EXCEPT !.pc = "await", !.client = c]]
      BY <2>0, <2>2 DEF Records
    <3>2. PICK q : q = [sweep[s] EXCEPT !.pc = "await", !.client = c]  OBVIOUS
    <3>3. q \in Records /\ q.targets = sweep[s].targets /\ q.pc = "await" /\ q.client = c
      BY <2>0, <3>2 DEF Records
    <3> QED  BY <3>1, <3>2, <3>3
  <2> QED  BY <1>5, <2>1, <2>2
<1>7. \A t \in Sweepers : sweep'[t] = IF t = s THEN q ELSE sweep[t]
  BY <1>6 DEF IInv, TypeOK
<1>8. /\ reg' = reg \/ reg' = [reg EXCEPT ![k] = Nil]
      /\ present' \subseteq present /\ walk' \in [Sweepers \cup {Inner} -> Walks]
      /\ DictsOK'
      /\ \A t \in Sweepers : /\ walk'[t].seen = w[t].seen /\ w[t].left \subseteq walk'[t].left
                             /\ present' = present \/ walk'[t].left # {}
  <2>1. CASE RemoveClient(k, w)  BY <2>1, Removes DEF IInv
  <2>2. CASE walk' = w /\ UNCHANGED <<reg, present>>  BY <2>2 DEF IInv, DictsOK
  <2>3. CASE walk' = Popped(k, w) /\ reg' = [reg EXCEPT ![k] = Nil] /\ UNCHANGED present
    <3>1. DictsOK'  BY <2>3 DEF IInv, TypeOK, DictsOK
    <3> QED  BY <2>3, <3>1, PoppedType DEF IInv
  <2> QED  BY <1>5, <2>1, <2>2, <2>3
<1>9. \A l \in Keys : reg'[l] \in {reg[l], Nil} /\ (l # k => reg'[l] = reg[l])
  BY <1>8 DEF IInv, TypeOK
<1>10. TypeOK'
  <2>1. /\ sweep' \in [Sweepers -> Records] /\ monitor' \in [Calls -> {"none", "asleep", "closing"}]
        /\ present' \subseteq Proxies /\ reg' \in [Keys -> Calls \cup {Nil}]
        /\ walk' \in [Sweepers \cup {Inner} -> Walks]
    BY <1>4, <1>6, <1>8 DEF IInv, TypeOK, Records
  <2> QED  BY <1>3, <2>1 DEF IInv, TypeOK, Records, Walks, callVars
<1>11. CallInv'
  <2>1. \A t \in Sweepers : sweep[t].pc # "idle" => sweep'[t].pc # "idle"  BY <1>6, <1>7
  <2>2. sweep'[s].pc # "idle"  BY <1>6, <1>7
  <2>3. ASSUME NEW h \in Calls, pc[h] = "calling", via[h] \in closed' \ closed
        PROVE  Swept(key[h])'
    <3>1. key[h] = k /\ key' = key
      BY <1>2, <1>3, <2>3 DEF IInv, CallInv, KeysOK, callVars
    <3> QED  BY <2>2, <3>1 DEF Swept
  <2> QED  BY <1>3, <1>9, <2>1, <2>3, ShrinkKeeps DEF IInv
<1>12. AwaitOK'
  <2>1. \A t \in Sweepers : sweep'[t].pc = "await" => sweep'[t].client \in closed'
    BY <1>3, <1>6, <1>7 DEF IInv, AwaitOK
  <2> QED  BY <1>3, <1>4, <2>1 DEF IInv, TypeOK, AwaitOK
<1>13. \A t \in Sweepers \ {s, Shutdown} : SweepOK(t)'
  <2> SUFFICES ASSUME NEW t \in Sweepers \ {s, Shutdown} PROVE SweepOK(t)'  OBVIOUS
  <2>1. /\ sweep'[t] = sweep[t] /\ walk'[t].seen = walk[t].seen
        /\ walk[t].left \subseteq walk'[t].left
        /\ present' = present \/ walk'[t].left # {}
    BY <1>7, <1>8
  <2>2. \A l \in Keys : reg'[l] = reg[l] \/ reg[l] \in closed'  BY <1>1, <1>3, <1>9
  <2> QED  BY <1>3, <2>1, <2>2, OthersKeep DEF IInv, CallInv, SweepsOK, callVars
<1>14. sweep'[s].pc \in {"next", "await"} /\ sweep'[s].targets = sweep[s].targets
  BY <1>6, <1>7
<1> QED  BY <1>1, <1>3, <1>8, <1>9, <1>10, <1>11, <1>12, <1>13, <1>14 DEF callVars

\* stop_all goes to the next proxy: what it had to close there is closed, or was replaced.
LEMMA StopVisitKeeps ==
    ASSUME IInv, NEW s \in Sweepers \ {Shutdown}, sweep[s].pc = "next",
           NEW p \in present, StopVisit(s, p)
    PROVE  IInv'
<1>1. s \in Instances /\ p \in Proxies /\ Inner \notin Sweepers
  BY ProxyAssumption, Names DEF IInv, TypeOK
<1>2. PICK k \in Keys : k = <<p, s>>  BY <1>1 DEF Keys
<1>3. k[1] = p /\ k[2] = s  BY <1>2
<1>4. PICK w : w = Yielded(s, p)  OBVIOUS
<1>5. /\ w \in [Sweepers \cup {Inner} -> Walks]
      /\ \A t \in Sweepers \ {s} : w[t] = walk[t]
      /\ w[s].seen = walk[s].seen \cup {p} /\ w[s].left = walk[s].left
  <2>1. walk \in [Sweepers \cup {Inner} -> Walks]  BY DEF IInv, TypeOK, Walks
  <2>2. w = [walk EXCEPT ![s] = [walk[s] EXCEPT !.seen = @ \cup {p}]]
    BY <1>4, <2>1 DEF Yielded, Walks
  <2>3. PICK v : v = [walk[s] EXCEPT !.seen = @ \cup {p}]  OBVIOUS
  <2>4. v \in Walks /\ v.seen = walk[s].seen \cup {p} /\ v.left = walk[s].left
    BY <1>1, <2>1, <2>3 DEF Walks
  <2> QED  BY <2>1, <2>2, <2>3, <2>4
<1>6. /\ TypeOK' /\ CallInv' /\ AwaitOK' /\ DictsOK'
      /\ \A t \in Sweepers \ {s, Shutdown} : SweepOK(t)'
      /\ UNCHANGED <<made, key>> /\ closed \subseteq closed'
      /\ sweep'[s].pc \in {"next", "await"} /\ sweep'[s].targets = sweep[s].targets
      /\ walk'[s].seen = w[s].seen /\ w[s].left \subseteq walk'[s].left
      /\ present' = present \/ walk'[s].left # {}
      /\ reg[k] = Nil \/ reg[k] \in closed'
      /\ \A l \in Keys \ {k} : reg'[l] = reg[l]
  <2>1. CASE reg[k] # Nil /\ reg[k] \notin closed
    <3>1. SweepClose(s, reg[k], w)  BY <1>2, <1>4, <2>1 DEF StopVisit
    <3>2. s \in {k[2], Shutdown} /\ reg[k] # Nil /\ reg[k] \notin closed  BY <1>3, <2>1
    <3>3. closed' = closed \cup {reg[k]}  BY <1>5, <3>1, <3>2, SweepCloseKeeps
    <3> QED  BY <1>5, <3>1, <3>2, <3>3, SweepCloseKeeps
  <2>2. CASE reg[k] = Nil \/ reg[k] \in closed
    <3>1. /\ reg' = [reg EXCEPT ![k] = Nil] /\ walk' = Popped(k, w)
          /\ UNCHANGED <<callVars, link, clientVars, present, sweep>>
      BY <1>2, <1>4, <2>2 DEF StopVisit
    <3>2. /\ walk' \in [Sweepers \cup {Inner} -> Walks]
          /\ \A t \in Sweepers : walk'[t] = w[t]
      BY <1>5, <3>1, PoppedType DEF IInv
    <3>3. /\ \A l \in Keys : reg'[l] \in {reg[l], Nil} /\ (l # k => reg'[l] = reg[l])
          /\ reg' \in [Keys -> Calls \cup {Nil}] /\ present' \subseteq Proxies
          /\ sweep[s] \in Records /\ sweep' = [sweep EXCEPT ![s] = sweep[s]]
      BY <3>1 DEF IInv, TypeOK, Records
    <3>4. DictsOK'  BY <3>1, <3>3 DEF IInv, DictsOK
    <3>5. TypeOK' /\ CallInv' /\ AwaitOK'  BY <3>1, <3>2, <3>3, <3>4, BookKeeping
    <3>6. ASSUME NEW t \in Sweepers \ {s, Shutdown} PROVE SweepOK(t)'
      <4>1. \A l \in Keys : reg[l] = Nil \/ reg'[l] = reg[l] \/ reg[l] \in closed'
        BY <2>2, <3>1, <3>3 DEF clientVars
      <4> QED  BY <1>5, <3>1, <3>2, <4>1, OthersKeep DEF IInv, CallInv, SweepsOK, callVars, clientVars
    <3> QED  BY <1>5, <2>2, <3>1, <3>2, <3>3, <3>4, <3>5, <3>6 DEF callVars, clientVars
  <2> QED  BY <2>1, <2>2
<1>7. SweepOK(s)'
  <2>0. SweepOK(s)  BY DEF IInv, SweepsOK
  <2>1. \A c \in sweep'[s].targets : c \in made' /\ key'[c][2] = s  BY <1>6, <2>0 DEF SweepOK
  <2>2. Missed(s)' \subseteq Missed(s)  BY <1>6, <2>0 DEF Missed, Replaced
  <2>3. ASSUME walk'[s].left = {}, NEW c \in Missed(s)'
        PROVE  reg'[key'[c]] = c /\ key'[c][1] \in present' \ walk'[s].seen
    <3>1. c \in sweep[s].targets /\ c \in made /\ key[c][2] = s /\ c \notin closed' /\ key'[c] = key[c]
      BY <1>6, <2>0, <2>3 DEF Missed, SweepOK
    <3>2. key[c] \in Keys /\ c # Nil  BY <3>1, Names DEF IInv, TypeOK, CallInv, KeysOK
    <3>3. reg[key[c]] = c /\ key[c][1] \in present \ walk[s].seen
      BY <1>5, <1>6, <2>0, <2>2, <2>3 DEF SweepOK
    <3>4. key[c] # k  BY <1>6, <3>1, <3>2, <3>3
    <3>5. key[c][1] # p  BY <1>2, <3>1, <3>2, <3>4, KeyParts
    <3> QED  BY <1>5, <1>6, <2>3, <3>1, <3>2, <3>3, <3>4, <3>5
  <2> QED  BY <1>6, <2>1, <2>3 DEF SweepOK
<1> QED  BY <1>6, <1>7 DEF IInv, SweepsOK

\* A sweep returns or raises: for a stop_all, only if nothing it missed is left in the dicts.
LEMMA SweepEndKeeps ==
    ASSUME IInv, NEW s \in Sweepers, NEW how \in {"done", "raised"}, SweepEnd(s, how),
           \/ UNCHANGED <<reg, present, walk>>
           \/ /\ reg' = [k \in Keys |-> Nil] /\ present' = {}
              /\ walk' = [t \in DOMAIN walk |->
                            IF t = Inner THEN walk[t] ELSE [walk[t] EXCEPT !.left = @ \cup present]],
           s # Shutdown /\ how = "done" =>
               UNCHANGED <<reg, present, walk>> /\ sweep[s].pc = "next" /\ Exhausted(s, present)
    PROVE  IInv'
<1>1. UNCHANGED <<callVars, link, clientVars>>  BY DEF SweepEnd
<1>2. PICK q \in Records : /\ sweep' = [sweep EXCEPT ![s] = q]
                           /\ q.targets = sweep[s].targets /\ q.pc = how
  <2>0. sweep \in [Sweepers -> Records]  BY DEF IInv, TypeOK, Records
  <2>1. PICK q : q = [sweep[s] EXCEPT !.pc = how, !.proxy = Nil]  OBVIOUS
  <2>2. q \in Records /\ q.targets = sweep[s].targets /\ q.pc = how  BY <2>0, <2>1 DEF Records
  <2>3. sweep' = [sweep EXCEPT ![s] = q]  BY <2>0, <2>1 DEF SweepEnd, Records
  <2> QED  BY <2>2, <2>3
<1>3. \A t \in Sweepers : sweep'[t] = IF t = s THEN q ELSE sweep[t]  BY <1>2 DEF IInv, TypeOK
<1>4. walk \in [Sweepers \cup {Inner} -> Walks]  BY DEF IInv, TypeOK, Walks
<1>5. /\ \A k \in Keys : reg'[k] \in {reg[k], Nil}
      /\ reg' \in [Keys -> Calls \cup {Nil}] /\ present' \subseteq Proxies
      /\ DictsOK' /\ walk' \in [Sweepers \cup {Inner} -> Walks]
      /\ \A t \in Sweepers : /\ walk'[t].seen = walk[t].seen /\ walk[t].left \subseteq walk'[t].left
                             /\ UNCHANGED <<reg, present>> \/ present \subseteq walk'[t].left
  <2>1. CASE UNCHANGED <<reg, present, walk>>  BY <1>4, <2>1 DEF IInv, TypeOK, DictsOK
  <2>2. CASE /\ reg' = [k \in Keys |-> Nil] /\ present' = {}
             /\ walk' = [t \in DOMAIN walk |->
                           IF t = Inner THEN walk[t] ELSE [walk[t] EXCEPT !.left = @ \cup present]]
    <3>1. \A t \in DOMAIN walk :
              /\ [walk[t] EXCEPT !.left = @ \cup present] \in Walks /\ walk[t] \in Walks
              /\ [walk[t] EXCEPT !.left = @ \cup present].seen = walk[t].seen
              /\ [walk[t] EXCEPT !.left = @ \cup present].left = walk[t].left \cup present
      BY <1>4 DEF IInv, TypeOK, Walks
    <3>2. walk' \in [Sweepers \cup {Inner} -> Walks]  BY <1>4, <2>2, <3>1
    <3>3. \A t \in Sweepers : walk'[t] = [walk[t] EXCEPT !.left = @ \cup present]
      BY <1>4, <2>2, Names
    <3>4. \A t \in Sweepers : walk'[t].seen = walk[t].seen /\ walk'[t].left = walk[t].left \cup present
      BY <1>4, <3>1, <3>3
    <3> QED  BY <2>2, <3>2, <3>4 DEF IInv, TypeOK, DictsOK
  <2> QED  BY <2>1, <2>2
<1>6. TypeOK' /\ CallInv' /\ AwaitOK' /\ DictsOK'
  BY <1>1, <1>2, <1>5, BookKeeping
<1>7. ASSUME NEW t \in Sweepers \ {Shutdown} PROVE SweepOK(t)'
  <2>1. CASE t # s \/ how = "raised"
    <3>1. /\ sweep'[t].targets = sweep[t].targets
          /\ sweep'[t].pc = sweep[t].pc \/ sweep'[t].pc = "raised"
      BY <1>2, <1>3, <2>1
    <3>2. walk'[t].left # {} \/ (/\ present \subseteq present'
                                 /\ \A k \in Keys : reg[k] = Nil \/ reg'[k] = reg[k])
      BY <1>5 DEF IInv, DictsOK
    <3> QED  BY <1>1, <1>5, <3>1, <3>2, OthersKeep DEF IInv, CallInv, SweepsOK, callVars, clientVars
  <2>2. CASE t = s /\ how = "done"
    <3>1. UNCHANGED <<reg, present, walk, made, key, closed>> /\ sweep[s].pc = "next" /\ Exhausted(s, present)
      BY <1>1, <2>2 DEF callVars, clientVars
    <3>2. sweep'[s].pc = "done" /\ sweep'[s].targets = sweep[s].targets  BY <1>2, <1>3, <2>2
    <3>3. SweepOK(s)  BY <2>2 DEF IInv, SweepsOK
    <3>4. Missed(s)' = Missed(s)  BY <3>1, <3>2 DEF Missed, Replaced
    <3>5. walk[s].left = {} => Missed(s) = {}  BY <3>1, <3>3 DEF SweepOK, Exhausted
    <3> QED  BY <2>2, <3>1, <3>2, <3>3, <3>4, <3>5 DEF SweepOK
  <2> QED  BY <2>1, <2>2
<1> QED  BY <1>6, <1>7 DEF IInv, SweepsOK

LEMMA StopNextKeeps == ASSUME IInv, NEW s \in Sweepers, StopNext(s) PROVE IInv'
<1>1. s # Shutdown /\ sweep[s].pc = "next"  BY DEF StopNext
<1>2. CASE SweepEnd(s, "raised") /\ UNCHANGED <<reg, present, walk>>  BY <1>2, SweepEndKeeps
<1>3. CASE Exhausted(s, present) /\ SweepEnd(s, "done") /\ UNCHANGED <<reg, present, walk>>
  BY <1>1, <1>3, SweepEndKeeps
<1>4. CASE \E p \in Ahead(s, present) : StopVisit(s, p)  BY <1>1, <1>4, StopVisitKeeps DEF Ahead
<1> QED  BY <1>2, <1>3, <1>4 DEF StopNext

\* Only the iterators of close_all, and the proxy it is at, change.
LEMMA WalkOnKeeps ==
    ASSUME IInv, Shutdown \in Sweepers, sweep[Shutdown].pc = "next",
           UNCHANGED <<callVars, link, clientVars, reg, present>>,
           NEW p \in Proxies \cup {Nil}, sweep' = [sweep EXCEPT ![Shutdown].proxy = p],
           walk' \in [Sweepers \cup {Inner} -> Walks],
           \A s \in Sweepers \ {Shutdown} : walk'[s] = walk[s]
    PROVE  IInv'
<1>1. PICK q \in Records : sweep' = [sweep EXCEPT ![Shutdown] = q] /\ q.pc = "next"
  <2>0. sweep \in [Sweepers -> Records]  BY DEF IInv, TypeOK, Records
  <2>1. PICK q : q = [sweep[Shutdown] EXCEPT !.proxy = p]  OBVIOUS
  <2>2. q \in Records /\ q.pc = "next"  BY <2>0, <2>1 DEF Records
  <2>3. sweep' = [sweep EXCEPT ![Shutdown] = q]  BY <2>0, <2>1 DEF Records
  <2> QED  BY <2>2, <2>3
<1>2. TypeOK' /\ CallInv' /\ AwaitOK' /\ DictsOK'
  <2>1. /\ \A k \in Keys : reg'[k] \in {reg[k], Nil}
        /\ reg' \in [Keys -> Calls \cup {Nil}] /\ present' \subseteq Proxies
    BY DEF IInv, TypeOK
  <2>2. DictsOK'  BY DEF IInv, DictsOK
  <2> QED  BY <1>1, <2>1, <2>2, BookKeeping
<1>3. ASSUME NEW s \in Sweepers \ {Shutdown} PROVE SweepOK(s)'
  <2>1. sweep'[s] = sweep[s]  BY <1>1 DEF IInv, TypeOK
  <2> QED  BY <2>1, OthersKeep DEF IInv, CallInv, SweepsOK, callVars, clientVars
<1> QED  BY <1>2, <1>3 DEF IInv, SweepsOK

LEMMA InnerYielded ==
    ASSUME IInv, NEW i \in Instances
    PROVE  /\ Yielded(Inner, i) \in [Sweepers \cup {Inner} -> Walks]
           /\ \A s \in Sweepers : Yielded(Inner, i)[s] = walk[s]
<1>1. walk \in [Sweepers \cup {Inner} -> Walks]  BY DEF IInv, TypeOK, Walks
<1>2. [walk EXCEPT ![Inner].seen = @ \cup {i}] \in [Sweepers \cup {Inner} -> Walks]
  BY <1>1 DEF Walks
<1> QED  BY <1>2, Names DEF Yielded

LEMMA CloseNextDictKeeps ==
    ASSUME IInv, Shutdown \in Sweepers, sweep[Shutdown].pc = "next", CloseNextDict
    PROVE  IInv'
<1>1. CASE SweepEnd(Shutdown, "raised") /\ UNCHANGED <<reg, present, walk>>
  BY <1>1, SweepEndKeeps
<1>2. CASE /\ SweepEnd(Shutdown, "done")
           /\ reg' = [k \in Keys |-> Nil] /\ present' = {}
           /\ walk' = [s \in DOMAIN walk |->
                         IF s = Inner THEN walk[s] ELSE [walk[s] EXCEPT !.left = @ \cup present]]
  BY <1>2, SweepEndKeeps
<1>3. CASE /\ \E p \in Ahead(Shutdown, present) :
                /\ sweep' = [sweep EXCEPT ![Shutdown].proxy = p]
                /\ walk'  = [Yielded(Shutdown, p) EXCEPT ![Inner] = Walk(ByInstance(p))]
           /\ UNCHANGED <<callVars, link, clientVars, reg, present>>
  <2>1. PICK p \in Proxies :
            /\ sweep' = [sweep EXCEPT ![Shutdown].proxy = p]
            /\ walk'  = [Yielded(Shutdown, p) EXCEPT ![Inner] = Walk(ByInstance(p))]
    BY <1>3 DEF Ahead, IInv, TypeOK
  <2>2. walk \in [Sweepers \cup {Inner} -> Walks]  BY DEF IInv, TypeOK, Walks
  <2>3. Yielded(Shutdown, p) \in [Sweepers \cup {Inner} -> Walks]
    <3>1. [walk EXCEPT ![Shutdown].seen = @ \cup {p}] \in [Sweepers \cup {Inner} -> Walks]
      BY <2>2 DEF Walks
    <3> QED  BY <3>1 DEF Yielded
  <2>4. Walk(ByInstance(p)) \in Walks  BY WalkType DEF ByInstance
  <2>5. walk' \in [Sweepers \cup {Inner} -> Walks]  BY <2>1, <2>3, <2>4
  <2>6. \A s \in Sweepers \ {Shutdown} : walk'[s] = walk[s]
    BY <2>1, <2>2, Names DEF Yielded
  <2> QED  BY <1>3, <2>1, <2>5, <2>6, WalkOnKeeps
<1> QED  BY <1>1, <1>2, <1>3 DEF CloseNextDict

LEMMA CloseNextClientKeeps ==
    ASSUME IInv, Shutdown \in Sweepers, sweep[Shutdown].pc = "next", CloseNextClient
    PROVE  IInv'
<1> DEFINE p == sweep[Shutdown].proxy
<1>1. p \in Proxies  BY DEF CloseNextClient, IInv, TypeOK
<1>2. CASE SweepEnd(Shutdown, "raised") /\ UNCHANGED <<reg, present, walk>>
  BY <1>2, SweepEndKeeps
<1>3. CASE /\ sweep' = [sweep EXCEPT ![Shutdown].proxy = Nil]
           /\ UNCHANGED <<callVars, link, clientVars, reg, present, walk>>
  BY <1>3, WalkOnKeeps DEF IInv, TypeOK, Walks
<1>4. ASSUME NEW i \in Ahead(Inner, ByInstance(p)),
             IF reg[<<p, i>>] \in closed
             THEN /\ walk' = Yielded(Inner, i)
                  /\ UNCHANGED <<callVars, link, clientVars, reg, present, sweep>>
             ELSE SweepClose(Shutdown, reg[<<p, i>>], Yielded(Inner, i))
      PROVE  IInv'
  <2>1. i \in Instances /\ reg[<<p, i>>] # Nil  BY DEF Ahead, ByInstance
  <2>2. PICK k \in Keys : k = <<p, i>>  BY <1>1, <2>1 DEF Keys
  <2>3. PICK w : w = Yielded(Inner, i)  OBVIOUS
  <2>4. w \in [Sweepers \cup {Inner} -> Walks] /\ \A s \in Sweepers : w[s] = walk[s]
    BY <2>1, <2>3, InnerYielded
  <2>5. CASE reg[k] \in closed
    <3>1. walk' = w /\ UNCHANGED <<callVars, link, clientVars, reg, present, sweep>>
      BY <1>4, <2>2, <2>3, <2>5
    <3>2. sweep' = [sweep EXCEPT ![Shutdown].proxy = p]  BY <3>1 DEF IInv, TypeOK
    <3> QED  BY <1>1, <2>4, <3>1, <3>2, WalkOnKeeps
  <2>6. CASE reg[k] \notin closed
    <3>1. SweepClose(Shutdown, reg[k], w)  BY <1>4, <2>2, <2>3, <2>6
    <3>2. reg[k] # Nil /\ Shutdown \in {k[2], Shutdown}  BY <2>1, <2>2
    <3>3. TypeOK' /\ CallInv' /\ AwaitOK' /\ DictsOK'
      BY <2>4, <2>6, <3>1, <3>2, SweepCloseKeeps
    <3>4. \A t \in Sweepers \ {Shutdown} : SweepOK(t)'
      BY <2>4, <2>6, <3>1, <3>2, SweepCloseKeeps
    <3> QED  BY <3>3, <3>4 DEF IInv, SweepsOK
  <2> QED  BY <2>5, <2>6
<1> QED  BY <1>2, <1>3, <1>4 DEF CloseNextClient

------------------------------------------------------------------------------
(* The theorems.                                                           *)

\* The inductive invariant of ProxyManager and its clients holds always.
THEOREM Invariance == Spec => []IInv
<1>1. Init => IInv
  <2> SUFFICES ASSUME Init PROVE IInv  OBVIOUS
  <2>1. TypeOK
    <3>1. Walk({}) \in Walks  BY WalkType
    <3>2. walk \in [Sweepers \cup {Inner} -> Walks]  BY <3>1 DEF Init
    <3>3. sweep \in [Sweepers -> Records]  BY DEF Init, NoSweep, Records
    <3> QED  BY <3>2, <3>3 DEF Init, TypeOK, Walks, Records
  <2>2. CallInv  BY DEF Init, CallInv, KeysOK, LinksOK, CutOK
  <2>3. AwaitOK /\ DictsOK  BY DEF Init, AwaitOK, DictsOK, NoSweep
  <2>4. SweepsOK  BY DEF Init, SweepsOK, SweepOK, Missed, NoSweep
  <2> QED  BY <2>1, <2>2, <2>3, <2>4 DEF IInv
<1>2. IInv /\ [Next]_vars => IInv'
  <2> SUFFICES ASSUME IInv, [Next]_vars PROVE IInv'  OBVIOUS
  <2>1. CASE UNCHANGED vars
    <3>1. TypeOK' /\ CallInv' /\ AwaitOK'
      BY <2>1 DEF vars, callVars, clientVars, sweepVars, IInv, TypeOK, CallInv, KeysOK,
                  LinksOK, CutOK, Swept, AwaitOK
    <3> QED  BY <2>1, <3>1, SweepsRest DEF vars, callVars, clientVars, IInv
  <2>2. ASSUME NEW h \in Calls, NEW k \in Keys, Call(h, k) PROVE IInv'
    BY <2>2, CallKeeps
  <2>3. ASSUME NEW h \in Calls, Connected(h) \/ ConnectFails(h) \/ Return(h) PROVE IInv'
    BY <2>3, ConnectedKeeps, EndCallKeeps
  <2>4. ASSUME NEW c \in Calls, Monitor(c) PROVE IInv'
    BY <2>4, StayAwakeKeeps, IdleCloseKeeps, IdleClosedKeeps DEF Monitor
  <2>5. ASSUME NEW s \in Sweepers, Sweep(s) PROVE IInv'
    BY <2>5, SweepBeginKeeps, StopNextKeeps, SweepClosedKeeps DEF Sweep
  <2>6. CASE CloseNext  BY <2>6, CloseNextDictKeeps, CloseNextClientKeeps DEF CloseNext
  <2> QED  BY <2>1, <2>2, <2>3, <2>4, <2>5, <2>6 DEF Next
<1> QED  BY <1>1, <1>2, PTL DEF Spec

\* The variables of ProxyManager, its clients and the iterations over them keep their types.
THEOREM Types == Spec => []TypeOK
<1>1. IInv => TypeOK  BY DEF IInv
<1> QED  BY <1>1, Invariance, PTL

\* Neither the idle monitor nor another client's close cuts off a tool call
\* (_active_calls, proxy.py:161): only a sweep of its instance or of the server does.
THEOREM CallKeepsConnection == Spec => []CallsKeepConnection
<1>1. IInv => CallsKeepConnection
  BY DEF IInv, CallInv, CutOK, CallsKeepConnection, Swept
<1> QED  BY <1>1, Invariance, PTL

\* A stop_all that returns while no proxy left _clients has closed what was registered for
\* its instance when it began (proxy.py:258), or what it missed had replaced a closed client.
THEOREM StopStops == Spec => []StopMeansStopped
<1>1. IInv => StopMeansStopped
  BY DEF IInv, SweepsOK, SweepOK, Missed, Replaced, StopMeansStopped
<1> QED  BY <1>1, Invariance, PTL
===============================================================================
