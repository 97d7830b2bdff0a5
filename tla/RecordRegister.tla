---------------------------- MODULE RecordRegister ----------------------------
(***************************************************************************)
(* What LocalJobs and SlurmJobs assume of one record on disk: a register.  *)
(* A save replaces the whole record at once, a load finds the record of    *)
(* some moment, or none.  The promise ends (`broken`) once two processes   *)
(* save the same job at the same time: nothing is said of what follows.    *)
(***************************************************************************)
CONSTANTS Saves, Loads,
          Nothing,       \* no record
          Unread         \* a load that has not looked yet

VARIABLES value,         \* the save whose record is on disk, or Nothing
          got,           \* got[l]: what the load l found
          broken

Init == /\ value  = Nothing
        /\ got    = [l \in Loads |-> Unread]
        /\ broken = FALSE

Save(s) == value' = s /\ UNCHANGED <<got, broken>>

Load(l) == /\ got[l] = Unread
           /\ got' = [got EXCEPT ![l] = value]
           /\ UNCHANGED <<value, broken>>

Break == broken' = TRUE

Next == \/ \E s \in Saves : Save(s)
        \/ \E l \in Loads : Load(l)
        \/ Break

Spec == Init /\ [][Next]_<<value, got, broken>>
==============================================================================
