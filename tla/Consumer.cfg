\* Two processors that share one place for a worker; one of them needs no acknowledgements.
\* A consumer that was shut down does nothing more, so the system may stop.
SPECIFICATION FairSpec
CONSTANTS
    Processors = {p1, p2}
    AutoAck = {p2}
    Deliveries = {1, 2}
    MaxWorkers = 1
    MaxEmpty = 1
    None = None
CHECK_DEADLOCK FALSE
INVARIANTS
    TypeOK
    WorkersBounded
    DeliveriesSettled
    ErrorReported
 
