\* One goroutine builds a topology and removes one exchange binding.
SPECIFICATION Spec
CONSTANTS
    builder = builder
    other = other
    q = q
    named = named
    logs = logs
    topic = topic
    Callers <- MCCallers
    Operations <- MCRebinding
    Foreign <- MCForeign
    ServerNamed <- MCServerNamed
    Fragile <- MCFragile
    MaxOps = 5
    MaxLosses = 1
    MaxFailures = 0
CHECK_DEADLOCK FALSE
INVARIANT BindingsReplayed
