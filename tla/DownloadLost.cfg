\* One call, HTTP legs that may be lost but never malformed.
SPECIFICATION Spec
CONSTANTS
    Segments = 2
    Replies = {"ok", "rejected", "unreachable"}
    MaxCalls = 1
INVARIANTS
    NeverPanics
CHECK_DEADLOCK FALSE
