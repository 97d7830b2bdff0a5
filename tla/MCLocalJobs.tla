------------------------------ MODULE MCLocalJobs ------------------------------
(* Instances of LocalJobs for TLC: see the .cfg files. *)
EXTENDS LocalJobs, TLC

\* Requests are interchangeable: a client's identity is never looked at.
TaskSymmetry == Permutations(Tasks)
================================================================================
