\* A resume between the load and the commit of a tick, on a date that a cadence already passed.
SPECIFICATION Spec
CONSTANTS
    w1 = w1
    w2 = w2
    c1 = c1
    c2 = c2
    Workers = {w1, w2}
    Callers = {c1}
    Instructions = {1}
    Period = 2
    Ttl = 1
    MaxPerTick = 1
    MaxActive = 2
    MaxDay = 3
    MaxCalls = 3
    MaxFaults = 0
INVARIANTS
    OneOutcomePerDueDate
\* After the last day, with every instruction run or ended, nothing is left to do.
CHECK_DEADLOCK FALSE
