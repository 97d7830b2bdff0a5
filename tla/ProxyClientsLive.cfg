\* The idle monitors of two instances, of which one may be archived.
SPECIFICATION LiveSpec
CONSTANTS
    i1 = i1
    i2 = i2
    Proxies = {p1}
    Instances = {i1, i2}
    Calls = {h1, h2, h3}
    IdleTimeout = TRUE
    Sweepers <- ArchiveOne
INVARIANTS CallsKeepConnection
PROPERTIES IdleClientsClose
CHECK_DEADLOCK FALSE
