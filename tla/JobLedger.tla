------------------------------ MODULE JobLedger ------------------------------
(***************************************************************************)
(* What the job records under <instance>/.ns_hpc_jobs promise a reader who *)
(* sees nothing else: one durable status per job, and the truth of how the *)
(* command ended.  A record appears as "running", may settle on an ended   *)
(* status, and an ended record may be replaced by another ended one (the   *)
(* managers of several processes do that to each other) but never returns  *)
(* to "running" or vanishes; "completed" is written only over a command    *)
(* that did exit 0.  LocalJobs and SlurmJobs implement this ledger.        *)
(***************************************************************************)
CONSTANT Jobs

VARIABLES ledger,  \* ledger[j]: the status on disk
          truth    \* truth[j]: how the command of j really ended, or "none"

Ended    == {"completed", "failed", "cancelled"}
Status   == {"absent", "running"} \cup Ended
Outcome  == {"none", "ok", "err", "sig"}

LedgerInit == /\ ledger = [j \in Jobs |-> "absent"]
              /\ truth  = [j \in Jobs |-> "none"]

\* A command ends once, in one way.
CommandEnds(j) == /\ truth[j] = "none"
                  /\ \E c \in Outcome \ {"none"} : truth' = [truth EXCEPT ![j] = c]
                  /\ UNCHANGED ledger

\* What one record may become: recorded once, then settled, never unsettled.
MayBecome(j, s) ==
    \/ s = ledger[j]
    \/ ledger[j] = "absent" /\ s = "running"
    \/ ledger[j] # "absent" /\ s = "completed" /\ truth[j] = "ok"
    \/ ledger[j] # "absent" /\ s \in {"failed", "cancelled"}

\* One call may settle several records: list_jobs saves every job it found finished.
Write == /\ ledger' \in [Jobs -> Status]
         /\ \A j \in Jobs : MayBecome(j, ledger'[j])
         /\ UNCHANGED truth

LedgerNext == Write \/ \E j \in Jobs : CommandEnds(j)

LedgerSpec == LedgerInit /\ [][LedgerNext]_<<ledger, truth>>
==============================================================================
