----------------------------- MODULE MCInstances -----------------------------
(* The instance of Instances for TLC: see the .cfg file. *)
EXTENDS Instances, TLC

\* Whoever acts may do anything.
AnyOne == [a \in Actors |-> {"create", "submit", "ask", "archive", "describe"}]

Symmetry == Permutations(Dirs) \cup Permutations(Handlers)
==============================================================================
