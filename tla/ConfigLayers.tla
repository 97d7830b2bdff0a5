------------------------------ MODULE ConfigLayers ------------------------------
(***************************************************************************)
(* load_config (ns_hpc/config.py): built-in defaults, the user's file and an *)
(* explicit file are merged table by table, and keys that the Config model  *)
(* has no field for are warned of.                                          *)
(*                                                                         *)
(* A table says of every key whether it holds a leaf, a table or Nothing.   *)
(* The operators recurse into tables that are less deep, so they are        *)
(* functions on the tables of a bounded depth.                              *)
(***************************************************************************)
EXTENDS Naturals, Sequences, SequencesExt

CONSTANTS
    Keys, Values,
    Depth,         \* bound: how deep tables nest
    Classes,       \* the pydantic models, of which TopClass is Config
    TopClass,
    Fields         \* Fields[class][key]: the annotation of a field, or Nothing

Nothing  == [nothing |-> TRUE]
Table(t) == [table |-> t]
Leaf(v)  == [leaf |-> v]

IsTable(node) == "table" \in DOMAIN node

\* Levels[n]: the tables that nest at most n deep.
Levels[n \in 0..Depth] ==
    IF n = 0 THEN {} ELSE [Keys -> {Nothing} \cup [leaf : Values] \cup [table : Levels[n - 1]]]

Tables == Levels[Depth]
Nodes  == [leaf : Values] \cup [table : Tables]

Given(table)  == {k \in Keys : table[k] # Nothing}
Nested(table) == {k \in Keys : IsTable(table[k])}

Model(class) == [model |-> class]     \* a nested pydantic model
Each(class)  == [each |-> class]      \* dict[str, SomeModel]
Plain        == [plain |-> TRUE]      \* any other annotation

IsModel(type) == "model" \in DOMAIN type
IsEach(type)  == "each" \in DOMAIN type

Types == {Nothing, Plain} \cup [model : Classes] \cup [each : Classes]

\* A file that is missing is skipped; one that cannot be read or parsed counts as empty.
Missing    == [file |-> "missing"]
Unreadable == [file |-> "unreadable"]
AnyFile    == {Missing, Unreadable} \cup [table : Tables]

ASSUME ConfigAssumption ==
    /\ Depth \in Nat \ {0}
    /\ TopClass \in Classes /\ Fields \in [Classes -> [Keys -> Types]]

------------------------------------------------------------------------------
Merge[both \in Tables \X Tables] ==
    LET base     == both[1]
        override == both[2]
    IN  [k \in Keys |->
            IF IsTable(base[k]) /\ IsTable(override[k])
            THEN Table(Merge[<<base[k].table, override[k].table>>])
            ELSE IF override[k] # Nothing THEN override[k] ELSE base[k]]

\* Fault: a table replaces the table below it.
FaultDeepMerge(base, override) ==
    [k \in Keys |-> IF override[k] # Nothing THEN override[k] ELSE base[k]]

DeepMerge(base, override) == Merge[<<base, override>>]

Content(file) == IF IsTable(file) THEN file.table ELSE [k \in Keys |-> Nothing]

LoadConfig(defaults, user, explicit) ==
    DeepMerge(DeepMerge(defaults, Content(user)), Content(explicit))

\* The paths of the keys that are warned of, in a part of the data that belongs to a class.
Warnings[part \in Tables \X Classes \X Seq(Keys)] ==
    LET data   == part[1]
        type   == Fields[part[2]]
        prefix == part[3]
        Inside(k) ==
            IF IsModel(type[k]) THEN Warnings[<<data[k].table, type[k].model, Append(prefix, k)>>]
            ELSE IF IsEach(type[k])
            THEN UNION {Warnings[<<data[k].table[e].table, type[k].each, Append(Append(prefix, k), e)>>] :
                        e \in Nested(data[k].table)}
            ELSE {}
    IN  {Append(prefix, k) : k \in {k \in Given(data) : type[k] = Nothing}}
        \cup UNION {Inside(k) : k \in Nested(data)}

\* Fault: nested tables are not looked into.
FaultWarnUnknown(data) == {<<k>> : k \in {k \in Given(data) : Fields[TopClass][k] = Nothing}}

WarnUnknown(data) == Warnings[<<data, TopClass, <<>>>>]

------------------------------------------------------------------------------
(* What the layering promises, path by path.                                *)

\* Said[table]: the node at each of the table's paths.
Said[table \in Tables] ==
    [path \in {<<k>> : k \in Given(table)}
                  \cup UNION {{<<k>> \o p : p \in DOMAIN Said[table[k].table]} : k \in Nested(table)} |->
        IF Len(path) = 1 THEN table[path[1]] ELSE Said[table[path[1]].table][Tail(path)]]

Paths(table) == DOMAIN Said[table]

LeafAbove(table, path) ==
    \E p \in Paths(table) : IsStrictPrefix(p, path) /\ ~IsTable(Said[table][p])

\* "highest priority last" (config.py:208), "dict values are merged recursively": a path has
\* what the last layer with that path says, unless a later one put a leaf above it.
LastWins(layers, result) ==
    \A path \in Paths(result) \cup UNION {Paths(layers[i]) : i \in DOMAIN layers} :
        \E last \in DOMAIN layers :
            /\ path \in Paths(layers[last])
            /\ \A j \in DOMAIN layers : j > last => path \notin Paths(layers[j])
            /\ path \in Paths(result) <=> \A j \in DOMAIN layers : j > last => ~LeafAbove(layers[j], path)
            /\ path \in Paths(result) =>
                   \/ Said[result][path] = Said[layers[last]][path]
                   \/ IsTable(Said[result][path]) /\ IsTable(Said[layers[last]][path])

\* The annotation of the node at a path, step by step down from the Config model.
FieldOf(type, k) ==
    IF IsModel(type) THEN Fields[type.model][k]
    ELSE IF IsEach(type) THEN Model(type.each)
    ELSE Plain

TypeAt(top, path) ==
    LET types[n \in 0..Len(path)] == IF n = 0 THEN top ELSE FieldOf(types[n - 1], path[n])
    IN  types[Len(path)]

\* "unrecognized config key ... will be ignored" (config.py:188): exactly the keys that the
\* validated Config has no place for are warned of, at whatever depth.
WarnsOf(data, warned) ==
    warned = {path \in Paths(data) : TypeAt(Model(TopClass), path) = Nothing}
==============================================================================
