\* An archive of one of two instances racing the end of the server.
SPECIFICATION Spec
CONSTANTS
    i1 = i1
    i2 = i2
    Proxies = {p1, p2}
    Instances = {i1, i2}
    Calls = {h1, h2, h3}
    IdleTimeout = FALSE
    Sweepers <- EndToo
SYMMETRY ProxySymmetry
INVARIANTS TypeOK StopMeansStopped
CHECK_DEADLOCK FALSE
