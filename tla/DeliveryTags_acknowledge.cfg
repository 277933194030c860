\* One acknowledgement on the second streadway channel.
SPECIFICATION Spec
CONSTANTS
    Ackers = {a1}
    Multiples = {FALSE}
    MaxDeliveries = 3
    MaxEmptyGets = 0
    MaxLegs = 2
CHECK_DEADLOCK FALSE
INVARIANT AckReachesItsDelivery
