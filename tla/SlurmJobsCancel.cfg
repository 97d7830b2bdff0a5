\* CancelledIsKilled does not hold of the code: see the README.
SPECIFICATION Spec
CONSTANTS
    Managers = {server}
    Commands = {}
    Jobs = {j1}
    Tasks = {t1}
    MaxStarts = 1
    NotFoundLimit = 2
INVARIANT CancelledIsKilled
CHECK_DEADLOCK FALSE
