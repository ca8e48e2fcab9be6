CONSTANTS
    a = a
    b = b
    c = c
    d = d
    unknown = unknown
    s1 = s1
    s2 = s2
    s3 = s3
    Name = {a, b, c, d, unknown}
    Split <- MCSplit
    Target = {a, b, c, d}
    Pod <- MCPod
    Cluster <- MCCluster
    Condition <- MCCondition
    AnyPort = AnyPort
    Joined <- MCJoined
    HTTPEntryPoints = 2
    RequestKind <- MCRequestKind
    Proxy = Proxy
    None = None

SPECIFICATION RoutingSpec
CONSTRAINT BuildsConfig
CHECK_DEADLOCK FALSE
INVARIANTS TypeOK AcyclicSplitsAreKept IncomingIsAllowedEverywhere CallableSplitsHaveNoLoop
INVARIANTS ServedAsAllowed AllowedIsServed ServedByItsEnds NoRequestReturns NoRequestStrays
