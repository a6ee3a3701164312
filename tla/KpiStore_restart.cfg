SPECIFICATION Spec
CONSTANTS
    v1 = v1
    gen = gen
    o1 = o1
    o2 = o2
    h1 = h1
    h2 = h2
    NoRow = NoRow
    Vnf <- MCVnf
    Probe <- MCProbe
    Client <- MCClient
    Reports <- MCReports
    Handler <- MCHandler
    ReadOrder <- MCReadOrder
    Timeout = 1
    MaxRetries = 2
    MaxTime = 4
    Horizon = 3
    MaxPosts = 3
    MaxRestarts = 1
SYMMETRY HandlerSymmetry
PROPERTIES
    StaleUntilFirstUpdate
