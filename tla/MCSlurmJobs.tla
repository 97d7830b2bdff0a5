------------------------------ MODULE MCSlurmJobs ------------------------------
(* Instances of SlurmJobs for TLC: see the .cfg files. *)
EXTENDS SlurmJobs, TLC

TaskSymmetry == Permutations(Tasks)
================================================================================
