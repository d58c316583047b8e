SPECIFICATION Spec
CONSTANTS
    Calls = {one, two}
    Requests <- SomeRequests
    Systems = {"uav", "rover"}
    Shared = {"uav", "rover"}
    AllowedProfiles = {"simulator-readback-v1"}
    AllowedVerbs = {"request-autopilot-version"}
    MaxAttempts = 2
    Byte = 2
    MaxGates = 1
    None = None
INVARIANTS
    TypeOK
    OnlyClearedFrames
    RetriesTellApart
    AcceptedOnEvidence
    ViewsCarryEvidence
PROPERTIES
    SilentOnceTaken
