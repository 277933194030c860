\* Two goroutines acknowledge the deliveries of a consumer and of Get, in any way.
\* Nobody is obliged to acknowledge or to deliver, so the system may stop.
SPECIFICATION Spec
CONSTANTS
    Ackers = {a1, a2}
    Multiples = {TRUE, FALSE}
    MaxDeliveries = 3
    MaxEmptyGets = 1
    MaxLegs = 3
SYMMETRY AckerSymmetry
CHECK_DEADLOCK FALSE
INVARIANTS
    TypeOK
    TagsNotDoubled
PROPERTIES
    OrphansReported
    OnlyOrphansReported
