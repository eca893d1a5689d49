\* Two calls with the same activation code, every leg failing in every way.
SPECIFICATION Spec
CONSTANTS
    Segments = 3
    Replies = {"ok", "rejected", "unreachable", "noStatus"}
    MaxCalls = 2
INVARIANTS
    InstalledWithConsent
    CanceledInTime
    NoSessionForgotten
    CardCanceledFirst
    NilErrorMeansSettled
PROPERTY
    OrderSpec
CHECK_DEADLOCK FALSE
