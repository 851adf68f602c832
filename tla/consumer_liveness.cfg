\* One consumer that may crash: a repeated event, an unknown customer, a poison entry.
SPECIFICATION FairSpec
CONSTANTS
    c1 = c1
    c2 = c2
    r1 = r1
    Consumers <- OneConsumer
    Rules <- OneRule
    Entries <- MixedEntries
    EventOf <- MixedEvents
    KindOf <- MixedKinds
    Matches <- MixedMatches
    BatchCount = 2
    MaxDeliveries = 3
    MaxFaults = 2
    MaxPauses = 0
    Nobody = Nobody
PROPERTY EventuallyAcked
