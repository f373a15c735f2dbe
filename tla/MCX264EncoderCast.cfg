\* Parameter strings whose numbers fit an i32; three pushes.
CONSTANTS
    Junk = Junk
    NoEntry = NoEntry
    NoValue = NoValue
    None = None
    ParamValues <- MCParamValuesWide
    Bits <- MCBits
    MaxPushes = 0
SPECIFICATION Spec
INVARIANT FramerateMatchesFps
CHECK_DEADLOCK FALSE
