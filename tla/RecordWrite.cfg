\* Two processes save one job, and may die while they do; a constructor loads it.
SPECIFICATION Spec
CONSTANTS
    Processes = {server, cli}
    Loads = {l1}
    MaxSaves = 2
    Blocks = 2
    NoFile = NoFile
    NotRead = NotRead
INVARIANTS IInv LoadsAreWhole SavesSucceed
PROPERTIES ImplementsRegister
CHECK_DEADLOCK FALSE
