SPECIFICATION FairSpec
CONSTANTS
    None = None
    Subject <- AboutOne
    Sender <- FromOperator
    Vehicles = {1}
    Metrics = {"battery", "altitude"}
    Operators = {}
    Alerts = {}
    Commands = {}
    Markers = {}
    Messages = {}
    Interval = 1
    MaxCommands = 1
    MaxTime = 4
    MaxFaults = 1
PROPERTIES
    ReadingsCatchUp
