\* A relay that keeps up and one whose caller may stop reading.
SPECIFICATION FairSpec
CONSTANTS
    Relays = {fast, slow}
    SlowRelays = {slow}
    Consumers = {fast, slow}
    RefusedRelays = {}
    MaxLegs = 3
INVARIANTS
    TypeOK
    OldLegsOver
    ListeningWhenReady
PROPERTIES
    NoLegMissed
    ReconnectEnds
    RelaysShutDown
