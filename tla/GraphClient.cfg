SPECIFICATION Spec
CONSTANTS
    Writers = {projector, monitor}
    Entities = {vehicle}
    MaxCalls = 2
    MaxPurges = 2
    None = None
SYMMETRY Symmetric
INVARIANTS
    TypeOK
    NotFoundOnlyIfLostMeanwhile
PROPERTY ImplementsGraphWrites
CHECK_DEADLOCK FALSE
