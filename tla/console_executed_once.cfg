\* Two approvals of one proposal at once.
SPECIFICATION Spec
CONSTANTS
    r1 = r1
    r2 = r2
    r3 = r3
    pEmail = pEmail
    pOffer = pOffer
    h1 = h1
    amy = amy
    raj = raj
    Requests <- TwoRequests
    Staff = {amy, raj}
    Proposals <- BothProposals
    Handoffs = {h1}
    Channel <- Channels
    MaxNotes = 1
    MaxLandings = 2
    MaxFaults = 1
    Nobody = Nobody
INVARIANT ExecutedOnce
