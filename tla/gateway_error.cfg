SPECIFICATION FairSpec
CONSTANTS
    p1 = p1
    p2 = p2
    c1 = c1
    c2 = c2
    ip1 = ip1
    ip2 = ip2
    NoPath = NoPath
    NoEntry = NoEntry
    NoConfig = NoConfig
    Paths = {p1, p2}
    MaxTime = 3
    MaxRetries = 2
    Connections = {c1, c2}
    Clients = {ip1, ip2}
    ClientOf <- MCClientOf
    MaxTls = 1
    MaxPerMinute = 2
    Window = 2
    Worlds <- Served
PROPERTY
    FailureStopsBoth
CHECK_DEADLOCK FALSE
