\* One exchange of the client beside one Disconnect, on one socket.
SPECIFICATION FairSpec
PROPERTIES
    DisconnectReturns
CHECK_DEADLOCK FALSE
