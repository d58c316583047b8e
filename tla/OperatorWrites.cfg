SPECIFICATION Spec
CONSTANTS
    None = None
    udp = udp
    tcp = tcp
    u = u
    v = v
    Carriers = {udp, tcp}
    Uids = {u, v}
    Carries <- SharedUid
    s1 = s1
    s2 = s2
    Submitters = {s1, s2}
    Requests <- SomeRequests
    Fleet <- SomeFleet
    Raised <- SomeAlerts
    MaxCommands = 2
    MaxTime = 1
    MaxBegun = 3
    MaxFailures = 1
SYMMETRY Alike
INVARIANTS
    TypeOK
    StoreAgreesWithGraph
    RevisionsAreReal
    ListedAreWritten
    TwinsAgree
    NoEcho
CHECK_DEADLOCK FALSE
