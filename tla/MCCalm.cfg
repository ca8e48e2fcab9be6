CONSTANTS
    s1 = s1
    s2 = s2
    Service = {s1, s2}
    Port = {1, 2}
    ServiceVersion <- FittingVersions
    Claim <- MCClaim
    Key <- MCKey
    NoClaim = NoClaim
    Absent = Absent
    RefreshKey = refresh
    MinHTTPPort = 1
    MaxHTTPPort = 1
    MinTCPPort = 11
    MaxTCPPort = 14
    MinUDPPort = 21
    MaxUDPPort = 22
    MaxRetries = 1
    ListerLag = FALSE
    Tombstones = FALSE
    MaxChanges = 4
    MaxFaults = 0
    MaxCrashes = 1

SPECIFICATION Spec
CHECK_DEADLOCK FALSE
SYMMETRY ServiceSymmetry
INVARIANTS ShadowPortsAreMapped ExclusiveTargets QuietRoutesLeadHome
PROPERTY ImplementsAllocation
