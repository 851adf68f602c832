------------------------------- MODULE SignIn -------------------------------
(***************************************************************************)
(* First and later sign-ins by email code or Google (app/api/v1/auth.py),  *)
(* for one Google account per email.  Every request runs in one database   *)
(* transaction (get_db) which FastAPI commits after the answer is sent;    *)
(* the session it creates lives in Redis and is not part of the            *)
(* transaction.                                                            *)
(*                                                                         *)
(* users.email, users.google_sub and customers.user_id are unique: an      *)
(* INSERT waits for an uncommitted one and fails if that one commits.      *)
(***************************************************************************)
EXTENDS Naturals, FiniteSets

CONSTANTS
    Emails,
    Requests,       \* each request of a behaviour, used once
    Codes,          \* one-time codes, the order being that of creation
    MaxFaults       \* bound: requests that stop before their commit

VARIABLES
    user,           \* committed users: "none", or whether a google_sub is linked
    customers,      \* emails whose user has a committed customer profile
    code,           \* code -> where it is and the email it was made for
    sessions,       \* [request, email]: sessions set in Redis
    welcomes,       \* email -> welcome mails sent
    request,
    faults

database == <<user, customers, code>>
vars     == <<database, sessions, welcomes, request, faults>>

Code   == [state : {"unused", "mailed", "valid", "expired", "consumed"}, email : Emails]
Kinds  == {"send", "otp", "google"}
AnEmail == CHOOSE e \in Emails : TRUE

\* What a request is about and what its transaction has written so far.
NewRequest(kind, e, at, uses) ==
    [kind |-> kind, email |-> e, at |-> at, uses |-> uses, links |-> FALSE, created |-> FALSE,
     profile |-> FALSE, mailed |-> FALSE]

Init ==
    /\ user = [e \in Emails |-> "none"]
    /\ customers = {}
    /\ code = [c \in Codes |-> [state |-> "unused", email |-> AnEmail]]
    /\ sessions = {}
    /\ welcomes = [e \in Emails |-> 0]
    /\ request = [r \in Requests |-> NewRequest("otp", AnEmail, "new", {})]
    /\ faults = 0

Open(r) == request[r].at \notin {"new", "done", "refused", "lost"}

Move(r, at) == request' = [request EXCEPT ![r].at = at]

(***************************************************************************)
(* otp_send, past the rate limits (module RateLimiter)                     *)
(***************************************************************************)

\* The code is mailed while its row is still uncommitted.
OtpSend(r, e, c) ==
    /\ request[r].at = "new" /\ code[c].state = "unused"
    /\ code' = [code EXCEPT ![c] = [state |-> "mailed", email |-> e]]
    /\ request' = [request EXCEPT ![r] = NewRequest("send", e, "commit", {c})]
    /\ UNCHANGED <<user, customers, sessions, welcomes, faults>>

\* otp_ttl_seconds after it was made.
CodeExpires(c) ==
    /\ code[c].state = "valid"
    /\ code' = [code EXCEPT ![c].state = "expired"]
    /\ UNCHANGED <<user, customers, sessions, welcomes, request, faults>>

(***************************************************************************)
(* otp_verify: match an unconsumed, unexpired code and mark it             *)
(***************************************************************************)

Verifiable(e) == {c \in Codes : code[c].state = "valid" /\ code[c].email = e}

\* Variant: the mark is committed at once.
MarkCommitted(r, e, c) ==
    /\ request[r].at = "new" /\ c \in Verifiable(e)
    /\ code' = [code EXCEPT ![c].state = "consumed"]
    /\ request' = [request EXCEPT ![r] = NewRequest("otp", e, "user", {c})]
    /\ UNCHANGED <<user, customers, sessions, welcomes, faults>>

OtpMatch(r, e, c) ==
    /\ request[r].at = "new" /\ c \in Verifiable(e)
    /\ request' = [request EXCEPT ![r] = NewRequest("otp", e, "user", {c})]
    /\ UNCHANGED <<database, sessions, welcomes, faults>>

\* 400 for a code the database does not know (yet, or any more).
OtpNoMatch(r, e) ==
    /\ request[r].at = "new"
    /\ \E c \in Codes : code[c].state \notin {"unused", "valid"} /\ code[c].email = e
    /\ request' = [request EXCEPT ![r] = NewRequest("otp", e, "refused", {})]
    /\ UNCHANGED <<database, sessions, welcomes, faults>>

(***************************************************************************)
(* google_callback: the state cookie and the id token have been verified   *)
(***************************************************************************)

GoogleCallback(r, e) ==
    /\ request[r].at = "new"
    /\ request' = [request EXCEPT ![r] = NewRequest("google", e, "sub", {})]
    /\ UNCHANGED <<database, sessions, welcomes, faults>>

\* _upsert_user_from_google: by google_sub first.
SelectBySub(r) ==
    /\ request[r].at = "sub"
    /\ Move(r, IF user[request[r].email] = "google" THEN "profile" ELSE "user")
    /\ UNCHANGED <<database, sessions, welcomes, faults>>

(***************************************************************************)
(* _get_or_create_user_by_email, and the rest of the upsert                *)
(***************************************************************************)

Inserting(e) == {s \in Requests : Open(s) /\ request[s].email = e
                                          /\ (request[s].created \/ request[s].links)}

\* SELECT by email: insert, link the Google account (an UPDATE that waits), or use as is.
SelectByEmail(r) ==
    /\ request[r].at = "user"
    /\ Move(r, CASE user[request[r].email] = "none"  -> "insert"
                 [] user[request[r].email] # "none" /\ request[r].kind = "google" -> "link"
                 [] OTHER -> "profile")
    /\ UNCHANGED <<database, sessions, welcomes, faults>>

LinkUser(r) ==
    /\ request[r].at = "link" /\ Inserting(request[r].email) = {}
    /\ request' = [request EXCEPT ![r].at = "profile", ![r].links = TRUE]
    /\ UNCHANGED <<database, sessions, welcomes, faults>>

InsertUser(r) ==
    /\ request[r].at = "insert" /\ Inserting(request[r].email) = {}
    /\ user[request[r].email] = "none"
    /\ request' = [request EXCEPT ![r].at = "profile", ![r].created = TRUE,
                                  ![r].links = (request[r].kind = "google")]
    /\ UNCHANGED <<database, sessions, welcomes, faults>>

\* The unique index refuses the second first sign-in: a 500 that rolls back.
InsertRefused(r) ==
    /\ request[r].at = "insert" /\ Inserting(request[r].email) = {}
    /\ user[request[r].email] # "none"
    /\ Move(r, "refused")
    /\ UNCHANGED <<database, sessions, welcomes, faults>>

(***************************************************************************)
(* The rest of both routes                                                 *)
(***************************************************************************)

\* _ensure_customer_for_user
NeedsProfile(r) == request[r].email \notin customers

EnsureCustomer(r) ==
    /\ request[r].at = "profile"
    /\ request' = [request EXCEPT ![r].at = "session", ![r].profile = NeedsProfile(r)]
    /\ UNCHANGED <<database, sessions, welcomes, faults>>

\* Variant: every sign-in is taken for the first.
SetSessionWelcomeAll(r) ==
    /\ request[r].at = "session"
    /\ sessions' = sessions \cup {[request |-> r, email |-> request[r].email]}
    /\ Move(r, "welcome")
    /\ UNCHANGED <<database, welcomes, faults>>

\* create_session: in Redis, before the commit.
SetSession(r) ==
    /\ request[r].at = "session"
    /\ sessions' = sessions \cup {[request |-> r, email |-> request[r].email]}
    /\ Move(r, IF request[r].created THEN "welcome" ELSE "commit")
    /\ UNCHANGED <<database, welcomes, faults>>

\* _send_welcome_best_effort swallows every failure.
Welcome(r) ==
    /\ request[r].at = "welcome"
    /\ \E sent \in BOOLEAN :
        /\ welcomes' = [welcomes EXCEPT ![request[r].email] = @ + IF sent THEN 1 ELSE 0]
        /\ request' = [request EXCEPT ![r].at = "commit", ![r].mailed = sent]
    /\ UNCHANGED <<database, sessions, faults>>

Writes(r, e) == request[r].email = e /\ request[r].kind # "send"

\* get_db commits what the request wrote; consumed is set whoever set it before.
Commit(r) ==
    /\ request[r].at = "commit"
    /\ user' = [e \in Emails |->
         CASE Writes(r, e) /\ request[r].links -> "google"
           [] Writes(r, e) /\ request[r].created /\ ~request[r].links -> "email"
           [] OTHER -> user[e]]
    /\ customers' = customers \cup {e \in Emails : Writes(r, e) /\ request[r].profile}
    /\ code' = [c \in Codes |->
         IF c \notin request[r].uses THEN code[c]
         ELSE [code[c] EXCEPT !.state = IF request[r].kind = "send" THEN "valid" ELSE "consumed"]]
    /\ Move(r, "done")
    /\ UNCHANGED <<sessions, welcomes, faults>>

\* A failed commit, or the process stops: the transaction is gone, not the session or the mail.
Stop(r) ==
    /\ Open(r) /\ faults < MaxFaults
    /\ Move(r, "lost")
    /\ faults' = faults + 1
    /\ UNCHANGED <<database, sessions, welcomes>>

Next ==
    \/ \E r \in Requests, e \in Emails :
          \/ GoogleCallback(r, e) \/ OtpNoMatch(r, e)
          \/ \E c \in Codes : OtpSend(r, e, c) \/ OtpMatch(r, e, c)
    \/ \E r \in Requests :
          \/ SelectBySub(r) \/ SelectByEmail(r) \/ LinkUser(r) \/ InsertUser(r) \/ InsertRefused(r)
          \/ EnsureCustomer(r) \/ SetSession(r) \/ Welcome(r) \/ Commit(r) \/ Stop(r)
    \/ \E c \in Codes : CodeExpires(c)

Spec == Init /\ [][Next]_vars

(***************************************************************************)
(* Properties                                                              *)
(***************************************************************************)

TypeOK ==
    /\ user \in [Emails -> {"none", "email", "google"}]
    /\ customers \subseteq Emails
    /\ code \in [Codes -> Code]
    /\ sessions \subseteq [request : Requests, email : Emails]
    /\ welcomes \in [Emails -> 0 .. Cardinality(Requests)]
    /\ request \in [Requests ->
         [kind : Kinds, email : Emails, uses : SUBSET Codes,
          at : {"new", "sub", "user", "insert", "link", "profile", "session", "welcome", "commit",
                "done", "refused", "lost"},
          links : BOOLEAN, created : BOOLEAN, profile : BOOLEAN, mailed : BOOLEAN]]
    /\ faults \in 0 .. MaxFaults

\* A code is used up only together with the account it opens: a sign-in that
\* loses the race for the user row, or fails to commit, leaves the code usable.
CodeNotWasted == \A c \in Codes : code[c].state = "consumed" =>
    user[code[c].email] # "none" /\ code[c].email \in customers

\* However many sign-ins race, an account is welcomed once, plus once for every
\* account whose creation was rolled back after the mail.
WelcomedOnce == \A e \in Emails :
    welcomes[e] <= 1 + Cardinality({r \in Requests :
        request[r].email = e /\ request[r].at = "lost" /\ request[r].mailed})
=============================================================================
