---------------------------- MODULE MCRecordWrite ----------------------------
(* The instance of RecordWrite for TLC: see the .cfg file.  One load is    *)
(* enough: loads change nothing that a save or another load looks at.      *)
EXTENDS RecordWrite
==============================================================================
