CONSTANTS
    a = a
    b = b
    c = c
    d = d
    unknown = unknown
    s1 = s1
    s2 = s2
    s3 = s3
    Name = {a, b, c, d, unknown}
    Split <- MCSplit
    Target = {a, b, c, d}
    Pod <- MCPod
    Cluster <- BackendPorts
    Condition <- MCCondition
    AnyPort = AnyPort
    Joined <- MCJoined
    HTTPEntryPoints = 2
    RequestKind <- MCRequestKind
    Proxy = Proxy
    None = None

SPECIFICATION RoutingSpec
CHECK_DEADLOCK FALSE
INVARIANT AllowedIsServed
