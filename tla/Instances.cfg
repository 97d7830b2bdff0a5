\* Three tool calls and a command, each any one operation, on one name, which comes to
\* stand for two instances; one job.
SPECIFICATION Spec
CONSTANTS
    Handlers = {h1, h2, h3}
    Commands = {c1}
    Dirs = {d1, d2}
    MaxJobs = 1
    May <- AnyOne
    ProcCheck = TRUE
    None = None
SYMMETRY Symmetry
INVARIANTS IInv ArchivedIsIdle JobsStayHome NameUsable OutputIsOwn
CHECK_DEADLOCK FALSE
