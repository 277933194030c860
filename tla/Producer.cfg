\* Three orders and queues of one place, with and without confirmations.
\* A producer that was shut down does nothing more, so the system may stop.
SPECIFICATION FairSpec
CONSTANTS
    Orders = {o1, o2, o3}
    QueueCapacity = 1
    MaxCancelled = 1
    None = None
CHECK_DEADLOCK FALSE
INVARIANTS
    TypeOK
    AnswersTrue
    AcceptedOrdersAnswered
PROPERTY RunEnds
