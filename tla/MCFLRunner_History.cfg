SPECIFICATION Spec
CONSTANTS
    TTL = 1
    MaxEntries = 2
    Faults = {"crash", "write"}
    Tasks = {"a", "b"}
    Configs <- MCConfigs
    Devices <- MCDevices
    EetAnswers <- MCEetAnswers
    MaxRuns = 3
    Budget = 4
    MaxTime = 3
INVARIANTS
    HistoryIsTrustworthy
CHECK_DEADLOCK FALSE
