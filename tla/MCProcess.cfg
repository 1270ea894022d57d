CONSTANTS
    Corrupt = Corrupt
    Absent = Absent
    Firsts = {"a", "b"}
    Seconds = {"x", "y"}
    Hashes = {"h"}
    EntryKinds = {"dir", "file", "odd"}
    Metas = {Corrupt, 1, 2}
    Modes = {"BestEffort", "Strict"}
    Cap = 2
    MaxMarkers = 1
    MaxScanFaults = 2
    None = None
    Proxies = {"p1", "p2"}
    Pids = {1}
    Tasks = {"t1"}
    Strangers <- AllStrangers
    MaxNames = 1
    MaxFaults = 2
    Callers = {"t1", "t2"}
    Depth = 3
    MaxMeddling = 2
    MaxActive = 2
SPECIFICATION MCSpec
INVARIANTS ScanSound TmpFilesKept DirsShared ServesAsConfigured
PROPERTIES NamesSafe WorkEnds
CHECK_DEADLOCK FALSE
