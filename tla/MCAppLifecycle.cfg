CONSTANTS
    Services = {s1, s2}
    ReadyModules = {"ingester", "frontend"}
    StatusEndpoints = {"version", "config", "runtime_config"}
    OverridesLoaded = TRUE
SPECIFICATION Spec
PROPERTY ShutdownCompletes
CHECK_DEADLOCK FALSE
