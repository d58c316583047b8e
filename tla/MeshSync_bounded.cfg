SPECIFICATION FairSpec
CONSTANTS
    None = None
    a = a
    b = b
    c = c
    Nodes <- TwoNodes
    Links <- CrossedLink
    Cells = {1}
    Entities = {1, 2}
    Origin <- OwnedByA
    Items <- CrossedItems
    InOrder = TRUE
    MaxItems = 1
    MaxTime = 1
    MaxRestarts = 0
PROPERTY Converges
