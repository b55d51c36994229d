SPECIFICATION Spec
CONSTANTS
    Peers = {proxy, local}
    Loopback = {local}
    TrustProxy = TRUE
    Proxies = {proxy, local}
    NoHeader = NoHeader
    Threads = {t1, t2}
    MaxRequests = 2
    Window = 2
    MaxDelay = 1
    MaxTime = 4
INVARIANTS NeverTooMany
PROPERTIES RefusesOnlyFull IdleClientsGo
SYMMETRY Symmetry
CHECK_DEADLOCK FALSE
