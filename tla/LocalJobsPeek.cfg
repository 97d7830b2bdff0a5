\* DetachFalseKills does not hold of the code: see the README.
SPECIFICATION Spec
CONSTANTS
    Managers = {server, cli}
    Commands = {cli}
    Jobs = {j1}
    Tasks = {t1}
    MaxStarts = 2
    ProcCheck = TRUE
PROPERTY DetachFalseKills
CHECK_DEADLOCK FALSE
