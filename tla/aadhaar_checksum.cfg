\* Applicants who type the number whose check digit the helper of kyc.py computed.
SPECIFICATION AllSpec
CONSTANTS
    b1 = b1
    r1 = r1
    r2 = r2
    e1 = e1
    q1 = q1
    q2 = q2
    q3 = q3
    q4 = q4
    o1 = o1
    Areas = {"identity"}
    Browsers = {b1}
    Requests = {r1, r2}
    MaxLogins = 2
    MaxRotations = 2
    MaxFaults = 1
    Emails = {e1}
    SignIns = {q1, q2, q3, q4}
    Codes = {o1}
    Credentials = {1}
    Challenges = {1, 2}
    NoChallenge = 0
    Limit = 1
    Rearms = TRUE
    Turns = {1, 2}
    MaxTools = 2
    Self = 10
    None = 0
    Bags <- ThreadBags
    Bodies <- Counting
    Length = 12
    MaxVerifies = 2
    Catalog <- Shelf
    NotInCatalog = "other"
    Profiles <- People
    Unset = 0
    Applications = {1}
    Offers = {2}
    Approvers = {1, 2}
    MaxAttempts = 2
    MaxCached = 1
    Customers = {"ana", "ben"}
    Facts = {"fact"}
    Writers = {1, 2}
    Pruners = {1, 2}
    KeepRecent = 1
    Cap = 1
    EveryNTurns = 2
    MaxMemories = 3
    MaxForgets = 1
INVARIANT AgreesWithVerhoeff
CHECK_DEADLOCK FALSE
