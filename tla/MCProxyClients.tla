---------------------------- MODULE MCProxyClients ----------------------------
(* Instances of ProxyClients for TLC: see the .cfg files. *)
EXTENDS ProxyClients, TLC

CONSTANTS i1, i2

\* An archived instance, or that and the end of the server.
ArchiveOne == {i1}
EndToo     == {i1, Shutdown}

CallSymmetry  == Permutations(Calls)
ProxySymmetry == CallSymmetry \cup Permutations(Proxies)
==============================================================================
