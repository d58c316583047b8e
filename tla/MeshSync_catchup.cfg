SPECIFICATION FairSpec
CONSTANTS
    None = None
    a = a
    b = b
    c = c
    Nodes <- ThreeNodes
    Links <- LineLinks
    Cells = {1}
    Entities = {1, 2, 3, 4}
    Origin <- OwnedByA
    Items <- CatchUpItems
    InOrder = TRUE
    MaxItems = 1
    MaxTime = 1
    MaxRestarts = 0
PROPERTIES
    OnlyMissingOrNewer
    Converges
