\* SweepsClose does not hold of the code: see the README.
SPECIFICATION Spec
CONSTANTS
    i1 = i1
    i2 = i2
    Proxies = {p1, p2}
    Instances = {i1}
    Calls = {h1, h2}
    IdleTimeout = FALSE
    Sweepers <- ArchiveOne
INVARIANTS SweepsClose
CHECK_DEADLOCK FALSE
