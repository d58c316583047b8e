SPECIFICATION FairSpec
CONSTANTS
    None = None
    o1 = o1
    o2 = o2
    m1 = m1
    m2 = m2
    m3 = m3
    Subject <- AboutOne
    Sender <- Senders
    Alike <- LooksLike
    Vehicles = {1}
    Metrics = {"battery"}
    Operators = {o1, o2}
    Alerts = {a}
    Commands = {c, d}
    Markers = {k}
    Messages = {m1, m2, m3}
    MaxTime = 0
    GraphFacts = 6
    LensFacts = 5
    MaxFacts = 7
    MaxLater = 1
    MaxServer = 5
INVARIANTS
    TypeOK
    EdgesJoinNodes
    CompleteUnlessMissed
    PendingMeansAbsent
    OwnOnceMaterialized
PROPERTY
    Answered
