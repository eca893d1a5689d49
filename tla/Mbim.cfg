\* Calls, a Disconnect beside them, answers in fragments, late or cut.
SPECIFICATION Spec
CONSTANTS
    Slots = {0, 1}
    Channels = {1}
    MaxControlTransfer = 4096
    APDUSizes = {4096, 8172, 8173}
    MaxFragments = 3
    Attempts = 2
    MaxCalls = 2
    MaxIndications = 1
INVARIANTS
    AnswerIsWhole
    CommandIsWhole
    ConnectMeansReady
PROPERTIES
    DisconnectReturns
CHECK_DEADLOCK FALSE
