\* Calls in any order, answers late, cut, refused or lost.
SPECIFICATION Spec
CONSTANTS
    Channels = {1, 2}
    MaxCalls = 3
INVARIANTS
    AnswersMatch
    ChannelsRestored
    ChannelIsOpen
CHECK_DEADLOCK FALSE
