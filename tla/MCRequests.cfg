CONSTANTS
    Slots = {s1}
    Inputs <- MCInputs
    Nil = Nil
    Confs <- AllConfs
    Bytes <- PayloadBytes
    MinChunk = 2
    MaxLine = 3
    MaxRead = 2
    None = None
SPECIFICATION MCSpec
INVARIANTS  OnlyVerified DecodesExactly PartsExact
CHECK_DEADLOCK FALSE
