CONSTANTS
    s1 = s1
    s2 = s2
    Service = {s1, s2}
    Port = {1, 2}
    ServiceVersion <- PlainVersions
    Claim <- MCClaim
    Key <- MCKey
    NoClaim = NoClaim
    Absent = Absent
    RefreshKey = refresh
    MinHTTPPort = 1
    MaxHTTPPort = 1
    MinTCPPort = 11
    MaxTCPPort = 12
    MinUDPPort = 21
    MaxUDPPort = 21
    MaxRetries = 1
    ListerLag = TRUE
    Tombstones = TRUE
    MaxChanges = 3
    MaxFaults = 1
    MaxCrashes = 1

SPECIFICATION Spec
CHECK_DEADLOCK FALSE
SYMMETRY ServiceSymmetry
INVARIANTS OneMeshPortPerClaim WorkIsQueuedOnce NoServiceForgotten
