SPECIFICATION Spec
CONSTANTS
    SpatialLayers = 2
    TemporalLayers = 2
    Base <- MCBase
    Skew <- MCSkew
    Preferable <- MCPreferable
    Scores = {0, 5, 10}
    Rates <- MCRates
    MaxBitrate = 1
    CleanAfter = 1
    MaxTime = 1
    TsModulus = 4
INVARIANTS
    TypeOK
    TargetIsLive
    IdleHasNoLayers
    TargetIsBest
    OffsetIsSkew
PROPERTIES
    SwitchesCleanly
    SwitchCompletes
