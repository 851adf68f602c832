------------------------------ MODULE Sessions ------------------------------
(***************************************************************************)
(* The refresh sessions of one user (app/core/security.py) and the routes  *)
(* that rotate, list and revoke them (app/api/v1/auth.py).  A sign-in      *)
(* starts a chain; every rotation consumes the chain's jti in Redis and    *)
(* sets the next one.  Each Redis command is a step, a request may stop    *)
(* between two, and answers reach the browser's cookie jar in any order.   *)
(*                                                                         *)
(* The access token is stateless and short-lived: the requests below carry *)
(* a valid one where they need it.                                         *)
(***************************************************************************)
EXTENDS Integers, FiniteSets

CONSTANTS
    Browsers,
    Requests,
    MaxLogins,      \* bound: chains
    MaxRotations,   \* bound: rotations of a chain
    MaxFaults       \* bound: requests that stop half-way

ASSUME SessionsAssumption ==
    MaxLogins \in Nat /\ MaxRotations \in Nat /\ MaxFaults \in Nat /\ Browsers # {}

VARIABLES
    live,       \* session keys in Redis, with the generation created_at dates from
    jar,        \* browser -> the refresh token in its cookie
    logins,     \* chains so far
    issued,     \* chain -> its generations so far
    request,    \* what each request is doing
    revoked,    \* chains whose session a DELETE of a revocation has removed
    faults

redis == <<live, logins, issued>>
vars  == <<redis, jar, request, revoked, faults>>

Chains  == 1 .. MaxLogins
Token   == [chain : 0 .. MaxLogins, gen : 0 .. MaxRotations]
NoToken == [chain |-> 0, gen |-> 0]
Unread  == -1

Quiet == [at |-> "idle", browser |-> CHOOSE b \in Browsers : TRUE, token |-> NoToken,
          since |-> Unread, cookies |-> "keep"]

Init ==
    /\ live = {}
    /\ jar = [b \in Browsers |-> NoToken]
    /\ logins = 0
    /\ issued = [ch \in Chains |-> 0]
    /\ request = [r \in Requests |-> Quiet]
    /\ revoked = {}
    /\ faults = 0

IsLive(t) == \E x \in live : x.chain = t.chain /\ x.gen = t.gen
Without(t) == {x \in live : x.chain # t.chain \/ x.gen # t.gen}

(***************************************************************************)
(* create_session                                                          *)
(***************************************************************************)

\* SET of a fresh jti, kept with the created_at it was given or the present time.
CreateSession(r, b, t, since) ==
    /\ live' = live \cup {[chain |-> t.chain, gen |-> t.gen,
                           since |-> IF since = Unread THEN t.gen ELSE since]}
    /\ request' = [request EXCEPT ![r] = [at |-> "answer", browser |-> b, token |-> t,
                                          since |-> Unread, cookies |-> "set"]]

\* The end of google_callback, passkey_login_complete and otp_verify.
SignIn(r, b) ==
    /\ request[r].at = "idle" /\ logins < MaxLogins
    /\ logins' = logins + 1
    /\ CreateSession(r, b, [chain |-> logins', gen |-> 0], Unread)
    /\ UNCHANGED <<issued, jar, revoked, faults>>

(***************************************************************************)
(* refresh_session and rotate_session                                      *)
(***************************************************************************)

Start(r, b, at, t) ==
    /\ request[r].at = "idle"
    /\ request' = [request EXCEPT ![r] = [Quiet EXCEPT !.at = at, !.browser = b, !.token = t]]
    /\ UNCHANGED <<redis, jar, revoked, faults>>

AskRefresh(r, b) == jar[b] # NoToken /\ issued[jar[b].chain] < MaxRotations /\ Start(r, b, "get", jar[b])

\* GET of the old metadata, only to carry created_at forward.
GetOld(r) ==
    /\ request[r].at = "get"
    /\ LET t == request[r].token
           found == {x.since : x \in {y \in live : y.chain = t.chain /\ y.gen = t.gen}} IN
       request' = [request EXCEPT ![r].at = "delete",
                                  ![r].since = IF found = {} THEN Unread ELSE CHOOSE s \in found : TRUE]
    /\ UNCHANGED <<redis, jar, revoked, faults>>

Refused(r) == [request EXCEPT ![r].at = "answer", ![r].cookies = "clear"]

\* Variant: any valid refresh token is rotated, whatever DELETE answers.
ConsumeAny(r) ==
    /\ request[r].at = "delete"
    /\ live' = Without(request[r].token)
    /\ request' = [request EXCEPT ![r].at = "issue"]
    /\ UNCHANGED <<logins, issued, jar, revoked, faults>>

\* DELETE decides: one request gets a jti; any other is a SessionError.
Consume(r) ==
    /\ request[r].at = "delete"
    /\ live' = Without(request[r].token)
    /\ request' = IF IsLive(request[r].token)
                  THEN [request EXCEPT ![r].at = "issue"]
                  ELSE Refused(r)
    /\ UNCHANGED <<logins, issued, jar, revoked, faults>>

CarriedSince(r) == request[r].since

Issue(r) ==
    /\ request[r].at = "issue"
    /\ LET ch == request[r].token.chain IN
       /\ issued[ch] < MaxRotations
       /\ issued' = [issued EXCEPT ![ch] = @ + 1]
       /\ CreateSession(r, request[r].browser, [chain |-> ch, gen |-> issued'[ch]], CarriedSince(r))
    /\ UNCHANGED <<logins, jar, revoked, faults>>

(***************************************************************************)
(* logout and revoke_session_route                                         *)
(***************************************************************************)

AskLogout(r, b) ==
    /\ jar[b] # NoToken
    /\ request[r].at = "idle"
    /\ request' = [request EXCEPT ![r] = [Quiet EXCEPT !.at = "revoke", !.browser = b,
                                                       !.token = jar[b], !.cookies = "clear"]]
    /\ UNCHANGED <<redis, jar, revoked, faults>>

\* list_sessions found exactly one session with the suffix; revoking one's own is a logout.
AskRevoke(r, b, x) ==
    /\ request[r].at = "idle" /\ x \in live
    /\ LET t == [chain |-> x.chain, gen |-> x.gen] IN
       request' = [request EXCEPT ![r] =
            [Quiet EXCEPT !.at = "revoke", !.browser = b, !.token = t,
                          !.cookies = IF t = jar[b] THEN "clear" ELSE "keep"]]
    /\ UNCHANGED <<redis, jar, revoked, faults>>

\* revoke_session: a DELETE, which may find nothing.
Revoke(r) ==
    /\ request[r].at = "revoke"
    /\ revoked' = revoked \cup (IF IsLive(request[r].token) THEN {request[r].token.chain} ELSE {})
    /\ live' = Without(request[r].token)
    /\ request' = [request EXCEPT ![r].at = "answer"]
    /\ UNCHANGED <<logins, issued, jar, faults>>

(***************************************************************************)
(* Answers, faults, expiry                                                 *)
(***************************************************************************)

\* set_session_cookies and clear_session_cookies, when the answer arrives.
Answer(r) ==
    /\ request[r].at = "answer"
    /\ LET q == request[r] IN
       jar' = [jar EXCEPT ![q.browser] = CASE q.cookies = "set"   -> q.token
                                           [] q.cookies = "clear" -> NoToken
                                           [] OTHER               -> @]
    /\ request' = [request EXCEPT ![r] = Quiet]
    /\ UNCHANGED <<redis, revoked, faults>>

\* The process stops: what Redis was told stays, the browser hears nothing.
Stop(r) ==
    /\ request[r].at # "idle" /\ faults < MaxFaults
    /\ request' = [request EXCEPT ![r] = Quiet]
    /\ faults' = faults + 1
    /\ UNCHANGED <<redis, jar, revoked>>

\* The key's TTL is the refresh token's lifetime.
Expire(x) ==
    /\ x \in live
    /\ live' = live \ {x}
    /\ UNCHANGED <<logins, issued, jar, request, revoked, faults>>

Next ==
    \/ \E r \in Requests, b \in Browsers :
          SignIn(r, b) \/ AskRefresh(r, b) \/ AskLogout(r, b) \/ \E x \in live : AskRevoke(r, b, x)
    \/ \E r \in Requests : GetOld(r) \/ Consume(r) \/ Issue(r) \/ Revoke(r) \/ Answer(r) \/ Stop(r)
    \/ \E x \in live : Expire(x)

Spec == Init /\ [][Next]_vars

(***************************************************************************)
(* Properties                                                              *)
(***************************************************************************)

Session == [chain : Chains, gen : 0 .. MaxRotations, since : 0 .. MaxRotations]

TypeOK ==
    /\ live \subseteq Session
    /\ jar \in [Browsers -> Token]
    /\ logins \in 0 .. MaxLogins
    /\ issued \in [Chains -> 0 .. MaxRotations]
    /\ request \in [Requests -> [at : {"idle", "get", "delete", "issue", "revoke", "answer"},
                                 browser : Browsers, token : Token,
                                 since : 0 .. MaxRotations \cup {Unread},
                                 cookies : {"keep", "set", "clear"}]]
    /\ revoked \subseteq Chains
    /\ faults \in 0 .. MaxFaults

Issuers(ch) == {r \in Requests : request[r].at = "issue" /\ request[r].token.chain = ch}

\* A chain never forks: concurrent refreshes with one token, or with a token and
\* its successor, leave at most one session, counting the one about to be set.
OneSessionPerChain == \A ch \in Chains :
    /\ \A x, y \in live : x.chain = ch /\ y.chain = ch => x = y
    /\ \A r, s \in Issuers(ch) : r = s
    /\ Issuers(ch) # {} => ~\E x \in live : x.chain = ch

\* A revocation that removed the session's key ends the chain: no rotation in
\* flight brings it back.
RevokedChainStaysOut == \A ch \in revoked :
    Issuers(ch) = {} /\ ~\E x \in live : x.chain = ch

=============================================================================
