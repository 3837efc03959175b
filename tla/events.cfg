SPECIFICATION FairSpec
CONSTANTS
    w1 = w1
    w2 = w2
    paid = paid
    canceled = canceled
    Null = Null
    Worker = {w1, w2}
    Partition = {paid, canceled}
    MaxMessages <- MCMaxMessages
    MaxFaults = 2
INVARIANTS
    TypeOK
    CommittedWasBegun
    RedeliveriesBounded
    LossBounded
PROPERTIES
    EventuallyHandled
CHECK_DEADLOCK FALSE
