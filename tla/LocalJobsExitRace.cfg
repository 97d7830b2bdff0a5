\* FailureIsNoSuccess does not hold of the code: see the README.
SPECIFICATION Spec
CONSTANTS
    Managers = {server, cli}
    Commands = {cli}
    Jobs = {j1}
    Tasks = {t1, t2}
    MaxStarts = 2
    ProcCheck = TRUE
SYMMETRY TaskSymmetry
PROPERTY FailureIsNoSuccess
CHECK_DEADLOCK FALSE
