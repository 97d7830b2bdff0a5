---------------------------- MODULE MCSpoolBridge ----------------------------
(* The instance of SpoolBridge for TLC: see the .cfg file. *)
EXTENDS SpoolBridge

\* No Content-Length, or one that the body may reach, exceed or fall short of.
Lengths == {NoLength, 1}
==============================================================================
