SPECIFICATION Spec
CONSTANTS
    None = None
    Subject <- AboutOne
    Sender <- FromOperator
    Vehicles = {1}
    Metrics = {"battery"}
    Operators = {}
    Alerts = {}
    Commands = {}
    Markers = {}
    Messages = {}
    Interval = 1
    MaxCommands = 1
    MaxTime = 3
    MaxFaults = 1
INVARIANT
    ObservationsSpaced
