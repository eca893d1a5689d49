\* Both transports: calls in any order, answers late, stream cut, sync.
SPECIFICATION Spec
CONSTANTS
    Slots = {1, 2}
    Channels = {1}
    TxnMod = 4
    Attempts = 2
    MaxCalls = 2
    MaxSyncs = 1
INVARIANTS
    TypeOK
    AnswersMatch
    FailuresMatch
    ConnectMeansReady
    ChannelIsOpen
    ClientIDReturned
CHECK_DEADLOCK FALSE
