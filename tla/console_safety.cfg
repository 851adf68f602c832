\* Two requests at once on an email proposal, an offer and a handoff; one may be aborted.
SPECIFICATION Spec
CONSTANTS
    r1 = r1
    r2 = r2
    r3 = r3
    pEmail = pEmail
    pOffer = pOffer
    h1 = h1
    amy = amy
    raj = raj
    Requests <- TwoRequests
    Staff = {amy}
    Proposals <- BothProposals
    Handoffs = {h1}
    Channel <- Channels
    MaxNotes = 1
    MaxLandings = 2
    MaxFaults = 1
    Nobody = Nobody
SYMMETRY Symmetry
INVARIANTS
    TypeOK
    ChainLinear
    LogTellsStatus
    LandingsAudited
\* Once everything is decided and the notes are written no request is left to start.
CHECK_DEADLOCK FALSE
