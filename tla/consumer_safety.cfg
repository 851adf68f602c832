\* Two consumers (a rolling restart), a rule matched twice, a poison entry, one fault.
SPECIFICATION Spec
CONSTANTS
    c1 = c1
    c2 = c2
    r1 = r1
    Consumers <- TwoConsumers
    Rules <- OneRule
    Entries <- PoisonEntries
    EventOf <- PoisonEvents
    KindOf <- PoisonKinds
    Matches <- PoisonMatches
    BatchCount = 2
    MaxDeliveries = 2
    MaxFaults = 1
    MaxPauses = 1
    Nobody = Nobody
SYMMETRY Symmetry
INVARIANTS
    AckedMeansHandled
    DeliveredIsPendingOrAcked
    OneRunPerWindow
