\* Sessions: 2 requests, 2 chains of 3 jtis.  Sign-in: 4 requests for one email.
\* Passkeys: 2 ceremonies, 2 requests.  Limiter: 2 clients.  Chat: 2 turns, 2 tool
\* calls in all.  Identity: 10 numbers.  Products: 2 products, 3 profiles, 2 approvers.  Memory: 2 customers, 3 rows.
\* One fault in each.
SPECIFICATION AllSpec
CONSTANTS
    b1 = b1
    r1 = r1
    r2 = r2
    e1 = e1
    q1 = q1
    q2 = q2
    q3 = q3
    q4 = q4
    o1 = o1
    Areas = {"sessions", "signin", "passkeys", "limiter", "chat", "identity", "products", "memory"}
    Browsers = {b1}
    Requests = {r1, r2}
    MaxLogins = 2
    MaxRotations = 2
    MaxFaults = 1
    Emails = {e1}
    SignIns = {q1, q2, q3, q4}
    Codes = {o1}
    Credentials = {1}
    Challenges = {1, 2}
    NoChallenge = 0
    Limit = 1
    Rearms = TRUE
    Turns = {1, 2}
    MaxTools = 2
    Self = 10
    None = 0
    Bags <- ThreadBags
    Bodies <- Counting
    Length = 12
    MaxVerifies = 2
    Catalog <- Shelf
    NotInCatalog = "other"
    Profiles <- People
    Unset = 0
    Applications = {1}
    Offers = {2}
    Approvers = {1, 2}
    MaxAttempts = 2
    MaxCached = 1
    Customers = {"ana", "ben"}
    Facts = {"fact"}
    Writers = {1, 2}
    Pruners = {1, 2}
    KeepRecent = 1
    Cap = 1
    EveryNTurns = 2
    MaxMemories = 3
    MaxForgets = 1
INVARIANTS
    TypesOK
    OneSessionPerChain
    RevokedChainStaysOut
    CodeNotWasted
    WelcomedOnce
    ChallengeSignsInOnce
    RepliesWereCommitted
    
    
    SlipsRefused
    
    OnlyTheOutrankedFade
PROPERTIES
    RefusalsEnd
CHECK_DEADLOCK FALSE
