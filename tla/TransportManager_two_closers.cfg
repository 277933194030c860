\* Two calls of Close race.
SPECIFICATION Spec
CONSTANTS
    Callers = {p1}
    Closers = {c1, c2}
    DialSubs = {}
    DisconnectSubs = {}
    CloseSubs = {closeSub}
    MaxTransports = 1
    ChanCap = 1
    HasParent = FALSE
    NoOne = NoOne
INVARIANTS
    CloseHandlerCalledOnce
