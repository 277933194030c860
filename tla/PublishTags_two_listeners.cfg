\* Two listeners, each of which should be told of the publications that were lost.
SPECIFICATION Spec
CONSTANTS
    l1 = l1
    l2 = l2
    Listeners = {l1, l2}
    Publishers = 1
    MaxPublish = 2
    MaxLegs = 2
    Programs <- TwoListeners
INVARIANTS
    AllListenersTold
CHECK_DEADLOCK FALSE
