-------------------------------- MODULE Lookups --------------------------------
(***************************************************************************)
(* What the program computes without changing anything: the end of a job's  *)
(* output, the answer to a request on the WebDAV tree, the configuration    *)
(* from its layers and the warnings about one file; beside a client that    *)
(* walks through the pages of jobs.                                         *)
(***************************************************************************)
EXTENDS JobPages, JobOutput, DavTree, ConfigLayers

CONSTANTS
    Outputs,       \* bound: output files
    Sizes,         \* bound: numbers of lines and of bytes
    States,        \* bound: states of the instances and the extras
    Requests,      \* bound: paths of requests
    Names,         \* bound: names that are looked up below a path
    Defaults,      \* the built-in configuration
    ConfigFiles    \* bound: what a configuration file may be

ASSUME LookupsAssumption ==
    /\ Outputs \subseteq Seq(Bytes) /\ Sizes \subseteq Nat
    /\ \A state \in States : StateOK(state)
    /\ Requests \subseteq Seq(STRING)
    /\ Defaults \in Tables /\ ConfigFiles \subseteq AnyFile

VARIABLE lookup    \* the operation that was asked for, and its input

Init == PagesInit /\ lookup = [of |-> "nothing"]

Fresh == walk = "new" /\ entries = {} /\ lookup.of = "nothing"

Ask(question) == lookup' = question /\ UNCHANGED pages

AskTail(data, n, maxBytes) == Ask([of |-> "tail", data |-> data, n |-> n, maxBytes |-> maxBytes])

Request(state, path, method) ==
    Ask([of |-> "dav", state |-> state, path |-> path, method |-> method])

AskConfig(user, explicit) ==
    Ask([of |-> "config", layers |-> <<Defaults, Content(user), Content(explicit)>>,
         result |-> LoadConfig(Defaults, user, explicit)])

AskWarnings(file) ==
    Ask([of |-> "warn", data |-> Content(file), warned |-> WarnUnknown(Content(file))])

Next ==
    \/ lookup.of = "nothing" /\ PagesNext /\ UNCHANGED lookup
    \/ /\ Fresh
       /\ \/ \E data \in Outputs, n, maxBytes \in Sizes : AskTail(data, n, maxBytes)
          \/ \E state \in States, path \in Requests, method \in Methods : Request(state, path, method)
          \/ \E user, explicit \in ConfigFiles : AskConfig(user, explicit)
          \/ \E file \in ConfigFiles : AskWarnings(file)

Spec == Init /\ [][Next]_<<pages, lookup>>

------------------------------------------------------------------------------
(* What each answer promises; the properties are defined beside the         *)
(* operations, and the names here state them of every answer.               *)

\* "Read the last n lines of a file, reading at most max_bytes" (job_manager.py:107): wherever
\* the window of _tail_file cuts the file, the last n lines are whole if they fit.
TailIsLast == lookup.of = "tail" => EndsTheFile(lookup.data, lookup.n, lookup.maxBytes)

\* get_member_names and get_resource_inst (file_server.py:653) agree on what is below a
\* virtual collection, although each reads the instances in its own way.
TreeAgrees == lookup.of = "dav" => AgreesBelow(lookup.state, lookup.path, Names)

\* No request is given a file outside its mount, a mount point to remove, a read-only file to
\* write, or a file of an archived instance (file_server.py:510, 687, 697, 747).
ServedIsAllowed == lookup.of = "dav" => MayServe(lookup.state, lookup.path, lookup.method)

\* "highest priority last ... dict values are merged recursively" (config.py:208-214): every
\* path of load_config's result is what the last layer that has the path says, unless a later
\* layer put a leaf above it.
LayersWin == lookup.of = "config" => LastWins(lookup.layers, lookup.result)

\* "unrecognized config key ... will be ignored" (config.py:188): _warn_unknown_keys names
\* exactly the keys that validation has no place for, at every depth.
WarnsOfIgnored == lookup.of = "warn" => WarnsOf(lookup.data, lookup.warned)
==============================================================================
