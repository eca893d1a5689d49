\* One call after another, failures anywhere.
SPECIFICATION Spec
CONSTANTS
    MSS = 2
    Lengths <- MCLengths
    Channels <- MCChannels
    Announced = {0, 1, 255}
    MaxPieces = 3
INVARIANTS
    WholeCommand
    FlaggedLast
    WholeAnswer
    OnOurChannel
CHECK_DEADLOCK FALSE
