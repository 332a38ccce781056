SPECIFICATION FairSpec
CONSTANTS
    power = power
    stage = stage
    DataInputs = {power}
    ConfigInputs = {stage}
    None = None
    MaxReadings = 2
    MaxDisturbances = 3
    MaxLate = 2
INVARIANTS
    TypeOK
    NoTaskOutlivesPush
    PushComplete
PROPERTIES
    MirrorRefinement
    Catches
