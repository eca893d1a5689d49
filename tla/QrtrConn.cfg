\* One reader, one writer, one closer: safety, and blocked calls come back.
SPECIFICATION FairSpec
CONSTANTS
    Readers = {r1}
    Writers = {w1}
    Closers = {c1}
    Packets <- MCPackets
    BufLen = 1
    MaxPackets = 2
    MaxSets = 2
    MaxTime = 2
INVARIANTS
    NoUseAfterClose
    NoMissedWakeUp
    RecvNeverBlocks
    InOrderAndNoneLost
PROPERTIES
    CloseReturns
    ReadEnds
    LeaseSpec
