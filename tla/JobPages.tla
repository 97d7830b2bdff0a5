-------------------------------- MODULE JobPages --------------------------------
(***************************************************************************)
(* list_jobs (ns_hpc/server.py): a client walks through the pages of the    *)
(* jobs, newest first, while jobs are submitted.  Each page is cut from the *)
(* list as it then is, and the clock that stamps the jobs may be set back,  *)
(* so that a new job may come before or behind what has been shown.         *)
(***************************************************************************)
EXTENDS Naturals, FiniteSets

CONSTANTS
    Listed,     \* bound: the jobs that may be submitted
    Stamps,     \* bound: values of created_at; no two jobs have the same
    Limits      \* bound: the limits that a request may have

ASSUME PagesAssumption ==
    IsFiniteSet(Listed) /\ Stamps \subseteq Nat /\ Limits \subseteq Nat \ {0}

VARIABLES
    entries,    \* the jobs of the manager
    created,    \* created[j]: the created_at of a job
    offset,     \* the offset of the next request
    old,        \* the jobs there were when the walk began
    shown,      \* the jobs that the client has been shown
    walk        \* "new", "pages", "done"

pages == <<entries, created, offset, old, shown, walk>>

PagesTypeOK ==
    /\ entries \subseteq Listed /\ old \subseteq entries /\ shown \subseteq entries
    /\ created \in [entries -> Stamps] /\ offset \in Nat
    /\ walk \in {"new", "pages", "done"}

PagesInit ==
    /\ entries \in SUBSET Listed
    /\ created \in [entries -> Stamps]
    /\ \A i, j \in entries : created[i] = created[j] => i = j
    /\ offset = 0 /\ old = {} /\ shown = {} /\ walk = "new"

\* The index of a job in the sorted list.
Newer(j) == {i \in entries : created[i] > created[j]}
Index(j) == Cardinality(Newer(j))

\* Fault: the next page begins behind an entry that was not on this one.
FaultPage(limit) ==
    /\ walk # "done"
    /\ old'    = IF walk = "new" THEN entries ELSE old
    /\ shown'  = shown \cup {j \in entries : Index(j) \in offset..(offset + limit - 1)}
    /\ offset' = offset + limit + 1
    /\ walk'   = IF offset + limit >= Cardinality(entries) THEN "done" ELSE "pages"
    /\ UNCHANGED <<entries, created>>

\* The client goes on until a page reaches the total that comes with it.
Page(limit) ==
    /\ walk # "done"
    /\ old'    = IF walk = "new" THEN entries ELSE old
    /\ shown'  = shown \cup {j \in entries : Index(j) \in offset..(offset + limit - 1)}
    /\ offset' = offset + limit
    /\ walk'   = IF offset + limit >= Cardinality(entries) THEN "done" ELSE "pages"
    /\ UNCHANGED <<entries, created>>

SubmitNew(j, stamp) ==
    /\ j \notin entries /\ \A i \in entries : created[i] # stamp
    /\ entries' = entries \cup {j}
    /\ created' = [i \in entries \cup {j} |-> IF i = j THEN stamp ELSE created[i]]
    /\ UNCHANGED <<offset, old, shown, walk>>

PagesNext ==
    \/ \E limit \in Limits : Page(limit)
    \/ \E j \in Listed, stamp \in Stamps : SubmitNew(j, stamp)

PagesSpec == PagesInit /\ [][PagesNext]_pages

\* A walk through the pages shows every job there was when it began, whatever is submitted
\* meanwhile and however the clock is set: jobs move to later pages only.
PagesShowAll == walk = "done" => old \subseteq shown

\* The inductive invariant: what has not been shown is not before the offset.
PagesIInv ==
    /\ PagesTypeOK
    /\ PagesShowAll
    /\ walk = "pages" => \A j \in old \ shown : Index(j) >= offset
    /\ walk = "new" => offset = 0
==============================================================================
