\* Two requests at once on an email proposal and a handoff, fairly scheduled.
SPECIFICATION FairSpec
CONSTANTS
    r1 = r1
    r2 = r2
    r3 = r3
    pEmail = pEmail
    pOffer = pOffer
    h1 = h1
    amy = amy
    raj = raj
    Requests <- TwoRequests
    Staff = {amy}
    Proposals <- OneProposal
    Handoffs = {h1}
    Channel <- Channels
    MaxNotes = 1
    MaxLandings = 2
    MaxFaults = 1
    Nobody = Nobody
PROPERTY RequestsEnd
\* Once everything is decided and the notes are written no request is left to start.
CHECK_DEADLOCK FALSE
