SPECIFICATION FairSpec
CONSTANTS
    None = None
    a = a
    b = b
    c = c
    Nodes <- ThreeNodes
    Links <- RelayLinks
    Cells = {1}
    Entities = {1, 2}
    Origin <- OwnedByA
    Items <- RelayItems
    InOrder = FALSE
    MaxItems = 0
    MaxTime = 2
    MaxRestarts = 1
INVARIANTS
    TypeOK
    OnlyPublishedSummaries
    EmptyDiffMeansCaughtUp
PROPERTIES
    ImplementsRegisters
    Converges
