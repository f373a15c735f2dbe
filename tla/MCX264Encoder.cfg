\* Parameter strings whose numbers fit an i32 (and two that do not parse); three pushes.
CONSTANTS
    Junk = Junk
    NoEntry = NoEntry
    NoValue = NoValue
    None = None
    ParamValues <- MCParamValues
    Bits <- MCBits
    MaxPushes = 3
SPECIFICATION Spec
INVARIANT TypeOK
INVARIANT HeaderOnceFirst
CHECK_DEADLOCK FALSE
