CONSTANTS
    None = None
    Bad = Bad
    Padded = {" s"}
    AccessKeys = {"a1", "a2"}
    Secrets = {"s1", "s2", "", " s"}
    FileTokens = {"t1", "t2", ""}
    FileExpiries = {1}
    MaxEntries = 2
    MaxClock = 2
    Creds <- MCCreds
    NameOrder <- MCNameOrder
    DayLength = 3
    MaxSkew = 1
    MaxPresignedExpires = 2
    Paths = {"GET /k", "PUT /k"}
    Bodies = {"b1", "b2"}
    Tokens = {"t1", "t2"}
    Expiries = {1, 2}
    Allowed = {"a1"}
    MaxTime = 4
    StartTimes = {1}
    Ahead = {0, 2}
    Leaves <- MCLeaves
SPECIFICATION MCSpec
INVARIANTS OnlyAuthentic AcceptsConforming TextSound LookupsSound
PROPERTIES KeysDerived
CHECK_DEADLOCK FALSE
