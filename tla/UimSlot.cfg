\* QRTR or QMUX without syncs, two calls: is the desired slot active?
SPECIFICATION Spec
CONSTANTS
    Slots = {1, 2}
    Channels = {1}
    TxnMod = 65536
    Attempts = 10
    MaxCalls = 2
    MaxSyncs = 0
INVARIANTS
    DesiredSlotActive
CHECK_DEADLOCK FALSE
