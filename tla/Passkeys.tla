------------------------------ MODULE Passkeys ------------------------------
(***************************************************************************)
(* Passkey ceremonies of one signed-up user (app/api/v1/auth.py):          *)
(* registration, deletion and sign-in.  A registration challenge lives     *)
(* under the user's one Redis key, a sign-in challenge under its own.  A   *)
(* ceremony begins with a challenge and completes with an assertion made   *)
(* for it; assertions may be delivered twice and in any order.             *)
(***************************************************************************)
EXTENDS Naturals, FiniteSets

CONSTANTS
    Credentials,    \* authenticators, by credential id
    Challenges,     \* the challenges of a behaviour, each generated once
    Requests,
    NoChallenge,    \* model value: the registration key is empty
    MaxFaults       \* bound: requests that stop half-way

VARIABLES
    used,           \* challenges generated so far
    pending,        \* webauthn:reg:{user}
    open,           \* webauthn:authch:{challenge} keys
    stored,         \* committed credentials: id -> sign_count, or Absent
    signed,         \* authenticator -> the count it last signed with
    assertions,     \* [kind, challenge, credential, count] made by authenticators
    request,
    accepted,       \* sign-ins answered with a session: [request, challenge]
    faults

redis == <<used, pending, open>>
vars  == <<redis, stored, signed, assertions, request, accepted, faults>>

MaxCount == Cardinality(Challenges)
Absent   == MaxCount + 1

Assertion == [kind : {"register", "login"}, challenge : Challenges, credential : Credentials,
              count : 0 .. MaxCount]
AnAssertion == [kind |-> "login", challenge |-> CHOOSE x \in Challenges : TRUE,
                credential |-> CHOOSE k \in Credentials : TRUE, count |-> 0]
Quiet == [at |-> "idle", with |-> AnAssertion, expected |-> NoChallenge]

Init ==
    /\ used = {} /\ pending = NoChallenge /\ open = {}
    /\ stored = [k \in Credentials |-> Absent]
    /\ signed = [k \in Credentials |-> 0]
    /\ assertions = {}
    /\ request = [r \in Requests |-> Quiet]
    /\ accepted = {}
    /\ faults = 0

(***************************************************************************)
(* passkey_register_begin, passkey_login_begin, and the two TTLs           *)
(***************************************************************************)

RegisterBegin(x) ==
    /\ x \notin used
    /\ used' = used \cup {x} /\ pending' = x
    /\ UNCHANGED <<open, stored, signed, assertions, request, accepted, faults>>

LoginBegin(x) ==
    /\ x \notin used
    /\ used' = used \cup {x} /\ open' = open \cup {x}
    /\ UNCHANGED <<pending, stored, signed, assertions, request, accepted, faults>>

ChallengeExpires ==
    /\ \/ pending # NoChallenge /\ pending' = NoChallenge /\ UNCHANGED open
       \/ \E x \in open : open' = open \ {x} /\ UNCHANGED pending
    /\ UNCHANGED <<used, stored, signed, assertions, request, accepted, faults>>

\* The authenticator (external): its counter grows with every use.  A browser
\* offers a registration only to an authenticator that is not registered.
Assert(kind, x, k) ==
    /\ x \in used /\ (kind = "register" => stored[k] = Absent)
    /\ ~\E a \in assertions : a.challenge = x /\ a.credential = k
    /\ signed[k] < MaxCount
    /\ signed' = [signed EXCEPT ![k] = @ + 1]
    /\ assertions' = assertions \cup {[kind |-> kind, challenge |-> x, credential |-> k,
                                       count |-> signed'[k]]}
    /\ UNCHANGED <<redis, stored, request, accepted, faults>>

Receive(r, a) ==
    /\ request[r].at = "idle" /\ a \in assertions
    /\ request' = [request EXCEPT ![r] = [Quiet EXCEPT !.at = IF a.kind = "login" THEN "consume" ELSE "get",
                                                       !.with = a]]
    /\ UNCHANGED <<redis, stored, signed, assertions, accepted, faults>>

(***************************************************************************)
(* passkey_register_complete                                               *)
(***************************************************************************)

\* GET, and 400 when there is no pending registration.
GetPending(r) ==
    /\ request[r].at = "get"
    /\ request' = IF pending = NoChallenge THEN [request EXCEPT ![r] = Quiet]
                  ELSE [request EXCEPT ![r].at = "forget", ![r].expected = pending]
    /\ UNCHANGED <<redis, stored, signed, assertions, accepted, faults>>

\* DELETE, then verify_registration_response against what the GET returned.
ForgetPending(r) ==
    /\ request[r].at = "forget"
    /\ pending' = NoChallenge
    /\ request' = IF request[r].with.challenge # request[r].expected THEN [request EXCEPT ![r] = Quiet]
                  ELSE [request EXCEPT ![r].at = "insert"]
    /\ UNCHANGED <<used, open, stored, signed, assertions, accepted, faults>>

\* INSERT and commit; the unique credential_id refuses a second copy.
InsertCredential(r) ==
    /\ request[r].at = "insert"
    /\ LET a == request[r].with IN
       stored' = [stored EXCEPT ![a.credential] = IF @ = Absent THEN a.count ELSE @]
    /\ request' = [request EXCEPT ![r] = Quiet]
    /\ UNCHANGED <<redis, signed, assertions, accepted, faults>>

\* passkey_credentials_delete
DeleteCredential(k) ==
    /\ stored[k] # Absent
    /\ stored' = [stored EXCEPT ![k] = Absent]
    /\ UNCHANGED <<redis, signed, assertions, request, accepted, faults>>

(***************************************************************************)
(* passkey_login_complete                                                  *)
(***************************************************************************)

\* Variant: the challenge is read and left to its TTL.
ReadChallenge(r) ==
    /\ request[r].at = "consume"
    /\ request' = IF request[r].with.challenge \in open THEN [request EXCEPT ![r].at = "select"]
                  ELSE [request EXCEPT ![r] = Quiet]
    /\ UNCHANGED <<redis, stored, signed, assertions, accepted, faults>>

\* The DELETE that finds the key consumes the challenge for everybody else.
ConsumeChallenge(r) ==
    /\ request[r].at = "consume"
    /\ open' = open \ {request[r].with.challenge}
    /\ request' = IF request[r].with.challenge \in open THEN [request EXCEPT ![r].at = "select"]
                  ELSE [request EXCEPT ![r] = Quiet]
    /\ UNCHANGED <<used, pending, stored, signed, assertions, accepted, faults>>

\* 401 for an unknown credential and for a count that did not grow.
SelectCredential(r) ==
    /\ request[r].at = "select"
    /\ LET c == stored[request[r].with.credential] IN
       request' = IF c = Absent \/ request[r].with.count <= c THEN [request EXCEPT ![r] = Quiet]
                  ELSE [request EXCEPT ![r].at = "session"]
    /\ UNCHANGED <<redis, stored, signed, assertions, accepted, faults>>

\* create_session and the answer; the new count is committed after it.
LoginAnswer(r) ==
    /\ request[r].at = "session"
    /\ accepted' = accepted \cup {[request |-> r, challenge |-> request[r].with.challenge,
                                   count |-> request[r].with.count]}
    /\ request' = [request EXCEPT ![r].at = "commit"]
    /\ UNCHANGED <<redis, stored, signed, assertions, faults>>

\* An UPDATE of a credential deleted meanwhile matches no row and rolls back.
CommitCount(r) ==
    /\ request[r].at = "commit"
    /\ LET a == request[r].with IN
       stored' = [stored EXCEPT ![a.credential] = IF @ = Absent THEN @ ELSE a.count]
    /\ request' = [request EXCEPT ![r] = Quiet]
    /\ UNCHANGED <<redis, signed, assertions, accepted, faults>>

Stop(r) ==
    /\ request[r].at # "idle" /\ faults < MaxFaults
    /\ request' = [request EXCEPT ![r] = Quiet]
    /\ faults' = faults + 1
    /\ UNCHANGED <<redis, stored, signed, assertions, accepted>>

Next ==
    \/ \E x \in Challenges : RegisterBegin(x) \/ LoginBegin(x)
    \/ \E kind \in {"register", "login"}, x \in Challenges, k \in Credentials : Assert(kind, x, k)
    \/ \E k \in Credentials : DeleteCredential(k)
    \/ \E r \in Requests, a \in assertions : Receive(r, a)
    \/ \E r \in Requests :
          \/ GetPending(r) \/ ForgetPending(r) \/ InsertCredential(r)
          \/ ConsumeChallenge(r) \/ SelectCredential(r) \/ LoginAnswer(r) \/ CommitCount(r) \/ Stop(r)
    \/ ChallengeExpires

Spec == Init /\ [][Next]_vars

TypeOK ==
    /\ used \subseteq Challenges /\ open \subseteq used
    /\ pending \in used \cup {NoChallenge}
    /\ stored \in [Credentials -> 0 .. Absent]
    /\ signed \in [Credentials -> 0 .. MaxCount]
    /\ assertions \subseteq Assertion
    /\ request \in [Requests ->
         [at : {"idle", "get", "forget", "insert", "consume", "select", "session", "commit"},
          with : Assertion, expected : Challenges \cup {NoChallenge}]]
    /\ accepted \subseteq [request : Requests, challenge : Challenges, count : 0 .. MaxCount]
    /\ faults \in 0 .. MaxFaults

\* An assertion delivered again, or at once to two processes, opens one session:
\* a challenge signs in once.
ChallengeSignsInOnce == \A x \in Challenges :
    Cardinality({r \in Requests : request[r].at \in {"select", "session"}
                                  /\ request[r].with.challenge = x})
    + Cardinality({y \in accepted : y.challenge = x}) <= 1
=============================================================================
