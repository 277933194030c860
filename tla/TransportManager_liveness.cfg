\* A connection: a caller, one Close, a close subscriber; streadway may not tell of a loss.
SPECIFICATION FairSpec
CONSTANTS
    Callers = {p1}
    Closers = {c1}
    DialSubs = {}
    DisconnectSubs = {}
    CloseSubs = {closeSub}
    MaxTransports = 2
    ChanCap = 1
    HasParent = FALSE
    NoOne = NoOne
PROPERTIES
    OpReturns
    CloseTerminates
    SubscribersReleased
    RedialersEnd
