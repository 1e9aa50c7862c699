CONSTANTS
    a = a
    b = b
    Uninit = Uninit
    CAP = 2
    MaxPush = 7
    Item <- MCItem
SPECIFICATION FairSpec
INVARIANTS
    TypeOK
    RaceFree
    UnreadIntact
    OwnerLenInRange
PROPERTIES
    ImplementsFairFifo
    AllDelivered
