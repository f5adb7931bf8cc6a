CONSTANTS
    Files <- MCFiles
    Configs <- MCConfigs
    Task = {"a", "b"}
    Waits <- MCWaits
SPECIFICATION Spec
INVARIANTS CommandsInTime CausalOrder LogComplete NeverAhead
PROPERTIES WaitsOnTime TimeGoesOn
CHECK_DEADLOCK FALSE
