-------------------------------- MODULE DavTree --------------------------------
(***************************************************************************)
(* SandboxDavProvider (ns_hpc/file_server.py): what a request on a path of  *)
(* the WebDAV tree is answered with, in a given state of the instances.     *)
(*                                                                         *)
(*   /                                 virtual: instances and the extras    *)
(*   /instances                        virtual: the active instances        *)
(*   /instances/{id}                   virtual: workspace, output           *)
(*   /instances/{id}/{mount}/...       files of the instance                *)
(*   /{extra}/...                      files of a configured directory      *)
(*                                                                         *)
(* A state is a record: meta[id] says what metadata.json is, mounts is the  *)
(* set of <<id, mount>> directories that exist, ro[extra] whether a         *)
(* configured extra is read-only.  Below every mount lies the same small    *)
(* directory, with a link within it and one out of it; the segments of a    *)
(* path are names, as clients send them.                                    *)
(***************************************************************************)
EXTENDS Naturals, Sequences, SequencesExt

Readers == {"GET", "PROPFIND"}          \* and HEAD, OPTIONS
Movers  == {"DELETE", "MOVE", "COPY"}
Methods == Readers \cup Movers \cup {"PUT"}

------------------------------------------------------------------------------
(* The files below a mount; a location is a path of the host.               *)

Root  == <<"base", "root">>
Away  == <<"base", "away">>
Links == [in |-> Append(Root, "dir"), out |-> Away]
Files == {Append(Root, "file"), Append(Away, "file"), Root \o <<"dir", "file">>}
Folders == {Root, Away, Append(Root, "dir")}
Nowhere == <<>>

\* One step of the kernel's path walk.
Enter(at, name) ==
    IF at = Root /\ name \in DOMAIN Links THEN Links[name]
    ELSE IF at \in Folders /\ Append(at, name) \in Files \cup Folders THEN Append(at, name)
    ELSE Nowhere

Walk(relative) == FoldLeft(Enter, Root, relative)
Exists(relative) == Walk(relative) # Nowhere

Within(place) == IsPrefix(Root, place)

\* Fault: the path is taken as it is written.
FaultValidated(relative) == Within(Root \o relative)

\* _validate_within_root: the closest parent that exists is resolved, the rest appended.
Validated(relative) ==
    LET there == {n \in 0..Len(relative) : Exists(SubSeq(relative, 1, n))}
        n     == CHOOSE n \in there : \A m \in there : m <= n
    IN  Within(Walk(SubSeq(relative, 1, n)) \o SubSeq(relative, n + 1, Len(relative)))

------------------------------------------------------------------------------
(* _resolve, get_resource_inst and the virtual collections.                 *)

Mounts == {"workspace", "output"}

Loaded(state, id) == id \in DOMAIN state.meta /\ state.meta[id] # "none"
Active(state, id) == Loaded(state, id) /\ state.meta[id] # "archived"

None     == [kind |-> "none"]           \* 404
Refused  == [kind |-> "refused"]        \* 403 and 405
Failure  == [kind |-> "error"]          \* an exception
File(place) == [kind |-> "file", place |-> place]

\* _resolve_instance_path reads the metadata itself: it must be there and parse.
FaultResolves(state, id, mount) == Loaded(state, id) /\ mount \in Mounts
Resolves(state, id, mount) ==
    Loaded(state, id) /\ state.meta[id] = "live" /\ mount \in Mounts

\* A path below a mount that _resolve has found.
Below(relative, readonly, there, method) ==
    IF there /\ ~Validated(relative) THEN Failure
    ELSE IF readonly /\ method \notin Readers THEN Refused
    ELSE IF ~there \/ ~Exists(relative) THEN None
    ELSE IF relative = <<>> /\ method \in Movers THEN Refused      \* ProtectedFolderResource
    ELSE File(Walk(relative))

\* The virtual collections: what they list, and that they stay where they are.
Collection(names, method) ==
    IF method \in Movers THEN Refused ELSE [kind |-> "virtual", names |-> names]

VirtualRoot(state, method) == Collection({"instances"} \cup DOMAIN state.ro, method)

\* Fault: every instance is listed.
FaultInstanceList(state, method) ==
    Collection({id \in DOMAIN state.meta : Loaded(state, id)}, method)

VirtualInstanceList(state, method) ==
    Collection({id \in DOMAIN state.meta : Active(state, id)}, method)

VirtualInstanceMounts(state, id, method) ==
    Collection({mount \in Mounts : <<id, mount>> \in state.mounts}, method)

\* get_resource_inst
Answer(state, path, method) ==
    IF path = <<>> THEN VirtualRoot(state, method)
    ELSE IF path[1] = "instances" THEN
        IF Len(path) = 1 THEN VirtualInstanceList(state, method)
        ELSE IF Len(path) = 2
        THEN IF Active(state, path[2]) THEN VirtualInstanceMounts(state, path[2], method) ELSE None
        ELSE IF Resolves(state, path[2], path[3])
        THEN Below(SubSeq(path, 4, Len(path)), FALSE, <<path[2], path[3]>> \in state.mounts, method)
        ELSE None
    ELSE IF path[1] \in DOMAIN state.ro
    THEN Below(Tail(path), state.ro[path[1]], TRUE, method)
    ELSE None

------------------------------------------------------------------------------
\* What metadata.json may be, and the read-only flags of the extras.
StateOK(state) ==
    /\ \A id \in DOMAIN state.meta : state.meta[id] \in {"none", "live", "archived", "broken"}
    /\ \A extra \in DOMAIN state.ro : state.ro[extra] \in BOOLEAN

\* A virtual collection lists exactly the names that have a resource below it, which
\* wsgidav relies on when it lists a collection: except that the mounts of an instance
\* whose metadata does not parse are listed and not found (file_server.py:611).
AgreesBelow(state, path, names) ==
    LET listing == Answer(state, path, "PROPFIND")
    IN  listing.kind = "virtual" =>
            \A name \in names \cup listing.names :
                \/ name \in listing.names <=> Answer(state, Append(path, name), "PROPFIND") # None
                \/ Len(path) = 2 /\ state.meta[path[2]] = "broken"

\* "resolves outside root" (file_server.py:529), "read-only mount", "Cannot delete mount
\* point", "archived return 404": what a request is given to work on lies within the mount,
\* is no mount point if the request would remove it, is not read-only if it would
\* write, and does not belong to an archived instance.
MayServe(state, path, method) ==
    LET answer == Answer(state, path, method)
    IN  answer.kind = "file" =>
            /\ IsPrefix(Root, answer.place)
            /\ method \in Movers => answer.place # Root
            /\ method \notin Readers => path[1] = "instances" \/ ~state.ro[path[1]]
            /\ path[1] = "instances" => state.meta[path[2]] \notin {"archived", "none"}
==============================================================================
