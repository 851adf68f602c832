---------------------------- MODULE RateLimiter ----------------------------
(***************************************************************************)
(* One bucket of a fixed-window request limiter in Redis: the rate_limit   *)
(* dependency (app/core/ratelimit.py) and the per-email counter of the OTP *)
(* route (app/api/v1/auth.py), which does not look at the TTL again.       *)
(* INCR, TTL and EXPIRE are separate commands, and the process may stop    *)
(* between them.                                                           *)
(***************************************************************************)
EXTENDS Naturals, FiniteSetsExt

CONSTANTS
    Clients,        \* requests of one identity at the same time
    Limit,          \* a positive number
    Rearms,         \* TRUE: rate_limit.  FALSE: _bump_and_check_otp_rate_limit
    MaxCrashes      \* bound: requests that stop between two commands

VARIABLES
    count,          \* the counter, 0 when the key does not exist; above Limit all are alike
    armed,          \* the key has a TTL
    client,         \* where each request is and the count its INCR returned
    crashes

bucket == <<count, armed>>
vars   == <<bucket, client, crashes>>

Idle == [at |-> "idle", seen |-> 0]

Init ==
    /\ count = 0 /\ armed = FALSE
    /\ client = [c \in Clients |-> Idle]
    /\ crashes = 0

\* Variant: only the request that opens the window stamps it.
SecondCommandOnce(n) == IF n = 1 THEN "stamp" ELSE "judge"

\* The command after INCR.
SecondCommand(n) ==
    CASE n = 1            -> "stamp"
      [] n # 1 /\ Rearms  -> "ttl"
      [] OTHER            -> "judge"

Incr(c) ==
    /\ client[c].at = "idle"
    /\ count' = Min({count + 1, Limit + 1})
    /\ client' = [client EXCEPT ![c] = [at |-> SecondCommand(count'), seen |-> count']]
    /\ UNCHANGED <<armed, crashes>>

\* Variant: EXPIRE makes the key it does not find.
StampAnyway(c) ==
    /\ client[c].at = "stamp"
    /\ armed' = TRUE
    /\ client' = [client EXCEPT ![c].at = "judge"]
    /\ UNCHANGED <<count, crashes>>

\* EXPIRE does nothing to a key that is gone.
Stamp(c) ==
    /\ client[c].at = "stamp"
    /\ armed' = (count > 0)
    /\ client' = [client EXCEPT ![c].at = "judge"]
    /\ UNCHANGED <<count, crashes>>

\* A TTL below zero is a key whose EXPIRE was lost, or one that has just expired.
Ttl(c) ==
    /\ client[c].at = "ttl"
    /\ client' = [client EXCEPT ![c].at = IF armed THEN "judge" ELSE "stamp"]
    /\ UNCHANGED <<bucket, crashes>>

\* RateLimitExceeded for a count over the limit, else the route runs.
Admitted(c) == client[c].seen <= Limit

Judge(c) ==
    /\ client[c].at = "judge"
    /\ client' = [client EXCEPT ![c] = Idle]
    /\ UNCHANGED <<bucket, crashes>>

WindowEnds ==
    /\ armed
    /\ count' = 0 /\ armed' = FALSE
    /\ UNCHANGED <<client, crashes>>

Crash(c) ==
    /\ client[c] # Idle /\ crashes < MaxCrashes
    /\ client' = [client EXCEPT ![c] = Idle]
    /\ crashes' = crashes + 1
    /\ UNCHANGED bucket

Serve(c) == Incr(c) \/ Stamp(c) \/ Ttl(c) \/ Judge(c)
Next == WindowEnds \/ \E c \in Clients : Serve(c) \/ Crash(c)
Spec == Init /\ [][Next]_vars

\* Somebody keeps asking, and Redis expires what has a TTL.
Fairness == WF_vars(WindowEnds) /\ \A c \in Clients : WF_vars(Serve(c))
FairSpec == Spec /\ Fairness

TypeOK ==
    /\ count \in 0 .. Limit + 1 /\ armed \in BOOLEAN
    /\ armed => count > 0
    /\ client \in [Clients -> [at : {"idle", "stamp", "ttl", "judge"}, seen : 0 .. Limit + 1]]
    /\ crashes \in 0 .. MaxCrashes

\* "The bucket can never get stuck counting forever": whatever commands a crash
\* lost, callers that keep asking after a refusal are admitted again.
RefusalsEnd ==
    (\E c \in Clients : client[c].at = "judge" /\ ~Admitted(c))
        ~> (\E c \in Clients : client[c].at = "judge" /\ Admitted(c))
=============================================================================
