CONSTANTS
    Services = {s1}
    ReadyModules = {"ingester"}
    StatusEndpoints = {"version", "config", "metrics"}
    OverridesLoaded = TRUE
SPECIFICATION Spec
INVARIANT StatusAlwaysAnswered
CHECK_DEADLOCK FALSE
