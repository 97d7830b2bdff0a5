------------------------------- MODULE MCLookups -------------------------------
(* Small inputs for the lookups: see the section on bounds in README.md.         *)
EXTENDS Lookups

T(f) == Table([k \in Keys |-> IF k \in DOMAIN f THEN f[k] ELSE Nothing])
L(v) == Leaf(v)

\* The fields: a plain one, a nested model, a dict of models within a model.
MCFields ==
    [Config |-> [k \in Keys |-> CASE k = "plain" -> Plain [] k = "model" -> Model("Nested") [] OTHER -> Nothing],
     Nested |-> [k \in Keys |-> CASE k = "key" -> Plain [] k = "each" -> Each("Entry") [] OTHER -> Nothing],
     Entry  |-> [k \in Keys |-> IF k = "key" THEN Plain ELSE Nothing]]

MCDefaults == T([plain |-> L("default"),
                 model |-> T([key  |-> L("default"),
                              each |-> T([one |-> T([key |-> L("default")])])])]).table

\* What a file may say: at each place a leaf, a table, or nothing, and keys without a field.
OneOf(keys, nodes) == UNION {[ks -> nodes] : ks \in SUBSET keys}
Inner  == {T(f) : f \in OneOf({"key", "extra"}, {L("file")})}
Dicts  == {T(f) : f \in OneOf({"one", "two"}, Inner \cup {L("file")})}
Models == {T(f) : f \in {[each |-> d] : d \in Dicts}
                        \cup {[key |-> L("file"), each |-> L("file")], [key |-> T([key |-> L("file")])],
                              [extra |-> T([key |-> L("file")])], <<>>}}
MCConfigFiles ==
    {Missing, Unreadable}
        \cup {T([model |-> m]) : m \in Models \cup {L("file")}}
        \cup {T([plain |-> T([key |-> L("file")]), extra |-> T([key |-> L("file")])]), T([plain |-> L("file")])}

MCOutputs == UNION {[1..n -> Bytes] : n \in 0..5}
MCSizes   == 0..5

MCStates == {[meta |-> meta, mounts |-> mounts, ro |-> [open |-> FALSE, closed |-> TRUE]] :
                meta   \in [{"i1", "i2"} -> {"none", "live", "archived", "broken"}],
                mounts \in SUBSET {<<"i1", "workspace">>, <<"i1", "output">>}}

Relatives == UNION {[1..n -> {"dir", "file", "in", "out", "new"}] : n \in 0..2}
Tops == {<<"instances", "i1", "workspace">>, <<"instances", "i1", "output">>, <<"instances", "i1", "other">>,
         <<"open">>, <<"closed">>, <<"nothing">>}
MCRequests == {<<>>, <<"instances">>, <<"instances", "i1">>, <<"instances", "i3">>}
                  \cup {top \o relative : top \in Tops, relative \in Relatives}
MCNames    == {"instances", "i1", "i3", "workspace", "output", "open", "closed", "nothing"}
==============================================================================
