\* Two goroutines change the settings and the topology of a Channel that is lost; an attempt
\* to reconnect fails.  Nobody is obliged to call, so the system may stop.
SPECIFICATION FairSpec
CONSTANTS
    builder = builder
    other = other
    q = q
    named = named
    logs = logs
    topic = topic
    Callers <- MCCallers
    Operations <- MCOperations
    Foreign <- MCForeign
    ServerNamed <- MCServerNamed
    Fragile <- MCFragile
    MaxOps = 4
    MaxLosses = 1
    MaxFailures = 1
CHECK_DEADLOCK FALSE
INVARIANTS
    TypeOK
    SettingsRestored
    TopologyRestored
PROPERTY ReconnectionEnds
