SPECIFICATION FairSpec
CONSTANTS
    None = None
    Subject <- AboutOne
    Sender <- FromOperator
    Vehicles = {1}
    Metrics = {"battery"}
    Operators = {o}
    Alerts = {a}
    Commands = {c, d}
    Markers = {}
    Messages = {m}
    Interval = 1
    MaxCommands = 1
    MaxTime = 1
    MaxFaults = 1
INVARIANTS
    TypeOK
PROPERTIES
    FactsArrive
    PublishesInOrder
    CommandsArriveOrAgeOut
