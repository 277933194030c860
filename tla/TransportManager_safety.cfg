\* A channel: two callers, one Close, a parent that may close, a subscriber of each kind.
SPECIFICATION Spec
CONSTANTS
    Callers = {p1, p2}
    Closers = {c1}
    DialSubs = {dialSub}
    DisconnectSubs = {discSub}
    CloseSubs = {closeSub}
    MaxTransports = 2
    ChanCap = 1
    HasParent = TRUE
    NoOne = NoOne
SYMMETRY Symmetry
INVARIANTS
    TypeOK
    TransportStableDuringOp
    ErrorOfCurrentTransport
    WatchedWhileOpen
    NoTransportAfterClose
    NoSubscriberLeftBehind
    NoSendOnClosed
PROPERTIES
    ImplementsRobustTransport
