\* One account, two sessions, two events: the second poster loads before the first commits.
\* MaxRows ends a behaviour: when every account is full no caller has a post left to make.
CHECK_DEADLOCK FALSE
SPECIFICATION Spec
CONSTANTS
    a1 = a1
    a2 = a2
    s1 = s1
    s2 = s2
    e1 = e1
    e2 = e2
    Accounts <- OneAccount
    Sessions <- TwoSessions
    Events <- TwoEvents
    EventDelta <- EventAmounts
    Transfers = {1}
    Deposits = {0, 3}
    FloorBuffer = 1
    MaxRows = 2
    NoSession = NoSession
    NoEvent = NoEvent
    NoAccount = NoAccount
SYMMETRY Symmetry
INVARIANT NoLostUpdate
