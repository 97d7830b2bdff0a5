\* The server and a CLI command on one Slurm job.
SPECIFICATION Spec
CONSTANTS
    Managers = {server, cli}
    Commands = {cli}
    Jobs = {j1}
    Tasks = {t1, t2}
    MaxStarts = 2
    NotFoundLimit = 2
SYMMETRY TaskSymmetry
INVARIANTS IInv RecordTruth ReportDurable
PROPERTIES ImplementsLedger
CHECK_DEADLOCK FALSE
