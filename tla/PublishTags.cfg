\* One listener over three streadway channels, with three publications or, with two,
\* callers that close, overlap or come late; and two listeners over two channels.
SPECIFICATION FairSpec
CONSTANTS
    l1 = l1
    l2 = l2
    Listeners = {l1, l2}
    Publishers = 1
    MaxPublish = 3
    MaxLegs = 3
    Programs <- MCPrograms
INVARIANTS
    TypeOK
    Unbroken
    TagNamesPublication
    LastListenerTold
PROPERTIES
    EveryPublicationAnswered
CHECK_DEADLOCK FALSE
