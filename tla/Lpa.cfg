\* Requests in any order, answers late, refused or lost, a client that restarts.
SPECIFICATION Spec
CONSTANTS
    Profiles = {p1}
    NoProfile = NoProfile
    Filters = {{}, {"enable"}}
    MaxCalls = 3
    MaxMade = 2
INVARIANTS
    OwnKind
    SuccessMeansDone
PROPERTY
    OutboxSpec
