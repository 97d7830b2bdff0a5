\* The server and a CLI command work on the same record: one job, two requests at a time,
\* two starts.  No symmetry, for two of the properties are liveness.
SPECIFICATION LiveSpec
CONSTANTS
    Managers = {server, cli}
    Commands = {cli}
    Jobs = {j1}
    Tasks = {t1, t2}
    MaxStarts = 2
    ProcCheck = TRUE
INVARIANTS IInv RecordTruth CancelledIsStopped ReportDurable
PROPERTIES NoResurrection OverwriteOnlyByInFlight NothingLeftRunning ImplementsLedger
           RequestsReturn NonDetachedEnds
CHECK_DEADLOCK FALSE
