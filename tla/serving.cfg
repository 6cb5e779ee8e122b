SPECIFICATION FairSpec
CONSTANTS
    q1 = q1
    q2 = q2
    q3 = q3
    auth = auth
    data = data
    spare = spare
    router = router
    ip1 = ip1
    verify = verify
    query = query
    write = write
    route = route
    own = own
    NoCapability = NoCapability
    NoHandle = NoHandle
    NoEntry = NoEntry
    NoRoute = NoRoute
    Requests = {q1, q2, q3}
    Calls <- RequestCalls
    Plugins = {auth, data, spare, router}
    Instances = {1, 2}
    Versions = {1, 2}
    Capabilities = {verify, query, write, route, own}
    AuthVerify = verify
    DataQuery = query
    DataWrite = write
    HttpRoute = route
    HostCapabilities = {own}
    Offers <- MCOffers
    Scenarios <- MCScenarios
    Routes <- MCRoutes
    CounterSize = 2
    AuthTimeout = 1
    DefaultTimeout = 2
    MaxLag = 1
    Clients = {ip1}
    MaxPerMinute = 1
    Window = 3
INVARIANTS
    TypeOK
    ProtectedNeedsVerdict
    ServedAsAsked
    DeadlineHonoured
    RoundRobinEven
CHECK_DEADLOCK FALSE
PROPERTIES
    KeepsPromise
    SuppliedInOrder
    AnswersInTheEnd
