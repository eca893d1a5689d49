\* Two readers of one card: calls in any order, every PC/SC call may fail.
SPECIFICATION Spec
CONSTANTS
    Readers = {r1, r2}
    Channels = {1}
    MaxCalls = 4
INVARIANTS
    LibraryInUse
    HandlesAccounted
CHECK_DEADLOCK FALSE
