--------------------------- MODULE Customer_proofs ---------------------------
(***************************************************************************)
(* Safety theorems about what customers do, for any number of sign-ins,    *)
(* codes, passkeys, turns, tools, agents and faults.  Each is about one    *)
(* area of Customer, and so about every behaviour of that area's module.   *)
(* The types of the areas come last; Onboarding_proofs puts them together. *)
(***************************************************************************)
EXTENDS Customer, FiniteSetTheorems, TLAPS

-----------------------------------------------------------------------------
(* Sessions                                                                *)
(*                                                                         *)
(* A chain is carried by its session in Redis or by the one request that   *)
(* consumed it and has not issued the next token yet.  ChainsBegun says    *)
(* that carriers and revocations belong to chains that have signed in, so  *)
(* that the next sign-in starts a chain nobody carries.  Most steps create *)
(* no carrier (QuietStep); the others are taken one by one.                *)

ChainsBegun ==
    /\ \A x \in live : x.chain \in 1 .. logins
    /\ \A r \in Requests : request[r].at = "issue" => request[r].token.chain \in 1 .. logins
    /\ revoked \subseteq 1 .. logins

\* What a request is doing, of any kind.
SessionRequest == [at : {"idle", "get", "delete", "issue", "revoke", "answer"}, browser : Browsers,
          token : Token, since : 0 .. MaxRotations \cup {Unread}, cookies : {"keep", "set", "clear"}]

Carried == OneSessionPerChain /\ RevokedChainStaysOut /\ ChainsBegun
ChainInv == TypeOK /\ Carried

\* A step that gives no chain a carrier.
QuietStep ==
    /\ live' \subseteq live
    /\ \A r \in Requests : request'[r].at = "issue" =>
           request[r].at = "issue" /\ request'[r].token = request[r].token
    /\ UNCHANGED <<logins, revoked>>

\* Type correctness.
LEMMA QuietTyped == Quiet \in [at : {"idle"}, browser : Browsers, token : Token,
                               since : {Unread}, cookies : {"keep"}]
BY SessionsAssumption DEF Quiet, Token, NoToken, Unread

\* A request turns to something else.
LEMMA RequestTyped ==
    ASSUME TypeOK, NEW r \in Requests, NEW q \in SessionRequest, request' = [request EXCEPT ![r] = q]
    PROVE  request' \in [Requests -> SessionRequest]
BY DEF TypeOK, SessionRequest

LEMMA StartTyped ==
    ASSUME NEW at \in {"get", "revoke"}, NEW b \in Browsers, NEW t \in Token, NEW c \in {"keep", "clear"}
    PROVE  /\ [Quiet EXCEPT !.at = at, !.browser = b, !.token = t] \in SessionRequest
           /\ [Quiet EXCEPT !.at = at, !.browser = b, !.token = t, !.cookies = c] \in SessionRequest
BY QuietTyped DEF SessionRequest

LEMMA SessionsInitTyped == Init => TypeOK
BY SessionsAssumption, QuietTyped DEF Init, TypeOK, Token, NoToken, Unread

LEMMA CreateTyped ==
    ASSUME TypeOK, NEW r \in Requests, NEW b \in Browsers, NEW t \in Token, t.chain \in Chains,
           NEW since \in 0 .. MaxRotations \cup {Unread}, CreateSession(r, b, t, since)
    PROVE  /\ live' \subseteq Session
           /\ request' \in [Requests -> SessionRequest]
<1>1. [chain |-> t.chain, gen |-> t.gen, since |-> IF since = Unread THEN t.gen ELSE since] \in Session
    BY DEF Session, Token
<1>. QED BY <1>1 DEF TypeOK, CreateSession, Unread, SessionRequest

LEMMA SignInTyped ==
    ASSUME TypeOK, NEW r \in Requests, NEW b \in Browsers, SignIn(r, b)
    PROVE  TypeOK'
<1> DEFINE t == [chain |-> logins', gen |-> 0]
<1>1. t \in Token /\ t.chain \in Chains
    BY SessionsAssumption DEF TypeOK, SignIn, Token, Chains
<1>2. CreateSession(r, b, t, Unread)
    BY DEF SignIn
<1>3. logins' \in 0 .. MaxLogins
    BY SessionsAssumption DEF TypeOK, SignIn
<1> HIDE DEF t
<1>. QED BY <1>1, <1>2, <1>3, CreateTyped DEF TypeOK, SignIn, SessionRequest

LEMMA IssueTyped ==
    ASSUME TypeOK, ChainsBegun, NEW r \in Requests, Issue(r)
    PROVE  TypeOK'
<1> DEFINE ch == request[r].token.chain
           t  == [chain |-> ch, gen |-> issued'[ch]]
<1>1. ch \in Chains
    BY SessionsAssumption DEF TypeOK, ChainsBegun, Issue, Chains
<1>2. issued' \in [Chains -> 0 .. MaxRotations] /\ issued'[ch] \in 0 .. MaxRotations
    BY <1>1, SessionsAssumption DEF TypeOK, Issue
<1>3. t \in Token /\ t.chain \in Chains
    BY <1>1, <1>2, SessionsAssumption DEF Token, Chains
<1>4. CreateSession(r, request[r].browser, t, request[r].since)
    BY DEF Issue, CarriedSince
<1>5. request[r].browser \in Browsers /\ request[r].since \in 0 .. MaxRotations \cup {Unread}
    BY DEF TypeOK
<1> HIDE DEF t, ch
<1>. QED BY <1>2, <1>3, <1>4, <1>5, CreateTyped DEF TypeOK, Issue, SessionRequest

LEMMA GetOldTyped ==
    ASSUME TypeOK, NEW r \in Requests, GetOld(r)
    PROVE  TypeOK'
<1> DEFINE t == request[r].token
           found == {x.since : x \in {y \in live : y.chain = t.chain /\ y.gen = t.gen}}
           s == IF found = {} THEN Unread ELSE CHOOSE v \in found : TRUE
<1>1. found \subseteq 0 .. MaxRotations
    BY DEF TypeOK, Session
<1>2. s \in 0 .. MaxRotations \cup {Unread}
    BY <1>1
<1>3. request' = [request EXCEPT ![r].at = "delete", ![r].since = s]
    BY DEF GetOld
<1>4. request' = [request EXCEPT ![r] = [request[r] EXCEPT !.at = "delete", !.since = s]]
    BY <1>3 DEF TypeOK
<1>5. [request[r] EXCEPT !.at = "delete", !.since = s] \in SessionRequest
    BY <1>2 DEF TypeOK, SessionRequest
<1> HIDE DEF s
<1>. QED BY <1>4, <1>5, RequestTyped DEF TypeOK, GetOld, redis, SessionRequest

\* Every step but those that create a session.
LEMMA SessionOtherTyped ==
    ASSUME TypeOK, NEW r \in Requests, NEW b \in Browsers
    PROVE  /\ AskRefresh(r, b) \/ AskLogout(r, b) => TypeOK'
           /\ (\E x \in live : AskRevoke(r, b, x)) => TypeOK'
           /\ Consume(r) \/ Revoke(r) \/ Answer(r) \/ Stop(r) => TypeOK'
<1>1. AskRefresh(r, b) => TypeOK'
    <2>. HAVE AskRefresh(r, b)
    <2>1. [Quiet EXCEPT !.at = "get", !.browser = b, !.token = jar[b]] \in SessionRequest
        BY StartTyped DEF TypeOK
    <2>. QED BY <2>1, RequestTyped DEF TypeOK, AskRefresh, Start, redis, SessionRequest
<1>2. AskLogout(r, b) => TypeOK'
    <2>. HAVE AskLogout(r, b)
    <2>1. [Quiet EXCEPT !.at = "revoke", !.browser = b, !.token = jar[b], !.cookies = "clear"] \in SessionRequest
        BY StartTyped DEF TypeOK
    <2>. QED BY <2>1, RequestTyped DEF TypeOK, AskLogout, redis, SessionRequest
<1>3. ASSUME NEW x \in live, AskRevoke(r, b, x) PROVE TypeOK'
    <2>1. [chain |-> x.chain, gen |-> x.gen] \in Token
        BY SessionsAssumption DEF TypeOK, Session, Token, Chains
    <2>2. \A c \in {"keep", "clear"} : [Quiet EXCEPT !.at = "revoke", !.browser = b,
              !.token = [chain |-> x.chain, gen |-> x.gen], !.cookies = c] \in SessionRequest
        BY <2>1, StartTyped
    <2>. QED BY <1>3, <2>2, RequestTyped DEF TypeOK, AskRevoke, redis, SessionRequest
<1>4. Consume(r) => TypeOK'
    <2>. HAVE Consume(r)
    <2>1. PICK q \in SessionRequest : request' = [request EXCEPT ![r] = q]
        <3>1. [request[r] EXCEPT !.at = "issue"] \in SessionRequest
            BY DEF TypeOK, SessionRequest
        <3>2. [request[r] EXCEPT !.at = "answer", !.cookies = "clear"] \in SessionRequest
            BY DEF TypeOK, SessionRequest
        <3>. QED BY <3>1, <3>2 DEF TypeOK, Consume, Refused
    <2>. QED BY <2>1, RequestTyped DEF TypeOK, Consume, Without, SessionRequest
<1>5. Revoke(r) => TypeOK'
    <2>1. IsLive(request[r].token) => request[r].token.chain \in Chains
        BY DEF TypeOK, IsLive, Session
    <2>. QED BY <2>1 DEF TypeOK, Revoke, Without
<1>6. Answer(r) => TypeOK'
    <2>1. NoToken \in Token
        BY SessionsAssumption DEF NoToken, Token
    <2>. QED BY <2>1, QuietTyped DEF TypeOK, Answer, redis
<1>7. Stop(r) => TypeOK'
    BY QuietTyped, SessionsAssumption DEF TypeOK, Stop, redis
<1>. QED BY <1>1, <1>2, <1>3, <1>4, <1>5, <1>6, <1>7

LEMMA ExpireTyped == ASSUME TypeOK, NEW x \in live, Expire(x) PROVE TypeOK'
BY DEF TypeOK, Expire

LEMMA SessionStepTyped == ChainInv /\ [Next]_vars => TypeOK'
<1>1. CASE UNCHANGED vars
    BY <1>1 DEF ChainInv, TypeOK, vars, redis
<1>2. ASSUME ChainInv, Next PROVE TypeOK'
    <2>. Browsers # {} BY SessionsAssumption
    <2>. QED BY <1>2, SignInTyped, IssueTyped, GetOldTyped, SessionOtherTyped, ExpireTyped DEF Next, ChainInv, Carried
<1>. QED BY <1>1, <1>2
\* Nobody new carries a chain: what held of the carriers still does.
LEMMA QuietCarried == ASSUME Carried, QuietStep PROVE Carried'
<1>1. \A ch \in Chains : Issuers(ch)' \subseteq Issuers(ch)
    BY DEF QuietStep, Issuers
<1>2. OneSessionPerChain'
    BY <1>1 DEF Carried, OneSessionPerChain, QuietStep
<1>3. \A ch \in revoked : Issuers(ch)' = {} /\ ~\E x \in live' : x.chain = ch
    BY DEF Carried, RevokedChainStaysOut, QuietStep, Issuers
<1>. QED BY <1>2, <1>3 DEF Carried, RevokedChainStaysOut, ChainsBegun, QuietStep

\* A sign-in is the first carrier of its chain.
LEMMA SignInCarried ==
    ASSUME ChainInv, NEW r \in Requests, NEW b \in Browsers, SignIn(r, b)
    PROVE  Carried'
<1> DEFINE new == [chain |-> logins + 1, gen |-> 0, since |-> 0]
<1>1. logins \in Nat /\ logins' = logins + 1 /\ revoked' = revoked /\ live' = live \cup {new}
    BY DEF ChainInv, TypeOK, SignIn, CreateSession
<1>2. \A q \in Requests : request'[q].at = "issue" =>
         request[q].at = "issue" /\ request'[q] = request[q]
    BY DEF ChainInv, TypeOK, SignIn, CreateSession
<1>3. \A x \in live : x.chain # logins + 1
    BY <1>1 DEF ChainInv, Carried, ChainsBegun
<1>4. \A ch \in Chains : Issuers(ch)' \subseteq Issuers(ch) /\ (ch = logins + 1 => Issuers(ch) = {})
    BY <1>1, <1>2 DEF ChainInv, Carried, ChainsBegun, Issuers
<1>5. OneSessionPerChain'
    BY <1>1, <1>3, <1>4 DEF ChainInv, Carried, OneSessionPerChain
<1>6. RevokedChainStaysOut'
    <2>1. \A ch \in revoked : ch # logins + 1 /\ Issuers(ch)' = {}
        BY <1>1, <1>2 DEF ChainInv, Carried, ChainsBegun, RevokedChainStaysOut, Issuers
    <2>. QED BY <1>1, <2>1 DEF ChainInv, Carried, RevokedChainStaysOut
<1>7. ChainsBegun'
    BY <1>1, <1>2 DEF ChainInv, Carried, ChainsBegun
<1>. QED BY <1>5, <1>6, <1>7 DEF Carried

\* The request whose DELETE found the session takes the chain over from it.
LEMMA ConsumeCarried ==
    ASSUME ChainInv, NEW r \in Requests, Consume(r)
    PROVE  Carried'
<1>1. CASE ~IsLive(request[r].token)
    <2>1. QuietStep
        BY <1>1 DEF ChainInv, TypeOK, Consume, Refused, Without, QuietStep
    <2>. QED BY <2>1, QuietCarried DEF ChainInv
<1>2. CASE IsLive(request[r].token)
    <2>0. PICK ch : ch = request[r].token.chain
        OBVIOUS
    <2>1. ch \in Chains /\ ch \in 1 .. logins /\ ch \notin revoked /\ Issuers(ch) = {}
        BY <1>2, <2>0 DEF ChainInv, TypeOK, Carried, ChainsBegun, IsLive, Session, OneSessionPerChain, RevokedChainStaysOut
    <2>2. live' \subseteq live /\ ~\E x \in live' : x.chain = ch
        BY <1>2, <2>0, <2>1 DEF ChainInv, Carried, OneSessionPerChain, Consume, Without, IsLive
    <2>3. /\ \A q \in Requests \ {r} : request'[q] = request[q]
          /\ request'[r].at = "issue" /\ request'[r].token = request[r].token
          /\ UNCHANGED <<logins, revoked>>
        BY <1>2 DEF ChainInv, TypeOK, Consume
    <2>4. Issuers(ch)' = {r} /\ \A c \in Chains \cup revoked : c # ch => Issuers(c)' = Issuers(c)
        BY <2>0, <2>1, <2>3 DEF Issuers
    <2>5. OneSessionPerChain'
        BY <2>2, <2>4 DEF ChainInv, Carried, OneSessionPerChain
    <2>6. RevokedChainStaysOut'
        BY <2>1, <2>2, <2>3, <2>4 DEF ChainInv, Carried, RevokedChainStaysOut
    <2>7. ChainsBegun'
        BY <2>0, <2>1, <2>2, <2>3 DEF ChainInv, Carried, ChainsBegun
    <2>. QED BY <2>5, <2>6, <2>7 DEF Carried
<1>. QED BY <1>1, <1>2

\* It hands the chain to the session it sets.
LEMMA IssueCarried ==
    ASSUME ChainInv, NEW r \in Requests, Issue(r)
    PROVE  Carried'
<1>0. PICK ch : ch = request[r].token.chain
    OBVIOUS
<1>1. ch \in 1 .. logins /\ ch \in Chains /\ r \in Issuers(ch)
    BY <1>0, SessionsAssumption DEF ChainInv, TypeOK, Carried, ChainsBegun, Issue, Chains, Issuers
<1>2. (\A s \in Issuers(ch) : s = r) /\ ~\E x \in live : x.chain = ch
    BY <1>1 DEF ChainInv, Carried, OneSessionPerChain
<1>3. PICK new : new.chain = ch /\ live' = live \cup {new}
    BY <1>0 DEF Issue, CreateSession
<1>4. /\ \A q \in Requests \ {r} : request'[q] = request[q]
      /\ request'[r].at = "answer"
      /\ UNCHANGED <<logins, revoked>>
    BY DEF ChainInv, TypeOK, Issue, CreateSession
<1>5. \A c \in Chains \cup revoked : Issuers(c)' = Issuers(c) \ {r}
    BY <1>4 DEF Issuers
<1>6. Issuers(ch)' = {} /\ ch \notin revoked
    BY <1>1, <1>2, <1>5 DEF ChainInv, Carried, RevokedChainStaysOut
<1>7. OneSessionPerChain'
    BY <1>2, <1>3, <1>5, <1>6 DEF ChainInv, Carried, OneSessionPerChain
<1>8. RevokedChainStaysOut'
    BY <1>3, <1>4, <1>5, <1>6 DEF ChainInv, Carried, RevokedChainStaysOut
<1>9. ChainsBegun'
    BY <1>1, <1>3, <1>4 DEF ChainInv, Carried, ChainsBegun
<1>. QED BY <1>7, <1>8, <1>9 DEF Carried

\* A revocation that finds the session leaves the chain without a carrier.
LEMMA RevokeCarried ==
    ASSUME ChainInv, NEW r \in Requests, Revoke(r)
    PROVE  Carried'
<1>0. PICK ch : ch = request[r].token.chain
    OBVIOUS
<1>1. live' \subseteq live /\ logins' = logins
    BY DEF Revoke, Without
<1>2. \A q \in Requests : request'[q].at = "issue" => request[q].at = "issue" /\ request'[q] = request[q]
    BY DEF ChainInv, TypeOK, Revoke
<1>3. \A c : Issuers(c)' \subseteq Issuers(c)
    BY <1>2 DEF Issuers
<1>4. OneSessionPerChain'
    BY <1>1, <1>3 DEF ChainInv, Carried, OneSessionPerChain
<1>5. CASE ~IsLive(request[r].token)
    <2>1. revoked' = revoked
        BY <1>5 DEF Revoke
    <2>. QED BY <1>1, <1>2, <1>3, <1>4, <2>1 DEF ChainInv, Carried, RevokedChainStaysOut, ChainsBegun
<1>6. CASE IsLive(request[r].token)
    <2>1. revoked' = revoked \cup {ch} /\ ch \in Chains /\ ch \in 1 .. logins
        BY <1>0, <1>6 DEF ChainInv, TypeOK, Carried, ChainsBegun, Revoke, IsLive, Session
    <2>2. Issuers(ch) = {} /\ ~\E x \in live' : x.chain = ch
        BY <1>0, <1>6, <2>1 DEF ChainInv, Carried, OneSessionPerChain, Revoke, Without, IsLive
    <2>3. RevokedChainStaysOut'
        BY <1>1, <1>3, <2>1, <2>2 DEF ChainInv, Carried, RevokedChainStaysOut
    <2>. QED BY <1>1, <1>2, <1>4, <2>1, <2>3 DEF ChainInv, Carried, ChainsBegun
<1>. QED BY <1>5, <1>6

LEMMA CarriedStep == ChainInv /\ [Next]_vars => Carried'
<1>. SUFFICES ASSUME ChainInv, [Next]_vars PROVE Carried'
    OBVIOUS
<1>1. CASE UNCHANGED vars
    BY <1>1, QuietCarried DEF ChainInv, QuietStep, vars, redis
<1>2. ASSUME NEW r \in Requests, NEW b \in Browsers,
             AskRefresh(r, b) \/ AskLogout(r, b) \/ \E x \in live : AskRevoke(r, b, x)
      PROVE  Carried'
    <2>1. QuietStep
        <3>1. PICK q : q.at # "issue" /\ request' = [request EXCEPT ![r] = q]
            BY <1>2, QuietTyped DEF AskRefresh, Start, AskLogout, AskRevoke
        <3>2. UNCHANGED <<redis, revoked>>
            BY <1>2 DEF AskRefresh, Start, AskLogout, AskRevoke
        <3>. QED BY <3>1, <3>2 DEF ChainInv, TypeOK, redis, QuietStep
    <2>. QED BY <2>1, QuietCarried DEF ChainInv
<1>3. ASSUME NEW r \in Requests, GetOld(r) \/ Answer(r) \/ Stop(r) PROVE Carried'
    <2>1. QuietStep
        BY <1>3, QuietTyped DEF ChainInv, TypeOK, GetOld, Answer, Stop, redis, QuietStep
    <2>. QED BY <2>1, QuietCarried DEF ChainInv
<1>4. ASSUME NEW x \in live, Expire(x) PROVE Carried'
    <2>1. QuietStep
        BY <1>4 DEF Expire, QuietStep
    <2>. QED BY <2>1, QuietCarried DEF ChainInv
<1>. QED BY <1>1, <1>2, <1>3, <1>4, SignInCarried, ConsumeCarried, IssueCarried, RevokeCarried DEF Next

LEMMA CarriedInit == Init => Carried
BY DEF Init, Carried, OneSessionPerChain, RevokedChainStaysOut, ChainsBegun, Issuers, Quiet

LEMMA ChainsAlways == Spec => []ChainInv
<1>1. Init => ChainInv
    BY SessionsInitTyped, CarriedInit DEF ChainInv
<1>2. ChainInv /\ [Next]_vars => ChainInv'
    BY SessionStepTyped, CarriedStep DEF ChainInv
<1>. QED BY <1>1, <1>2, PTL DEF Spec

\* The state of sessions, cookies and requests keeps its types.
THEOREM SessionsTyped == Spec => []TypeOK
<1>1. ChainInv => TypeOK
    BY DEF ChainInv
<1>. QED BY <1>1, ChainsAlways, PTL

\* rotate_session: concurrent refreshes never fork a chain.
THEOREM ChainsNeverFork == Spec => []OneSessionPerChain
<1>1. ChainInv => OneSessionPerChain
    BY DEF ChainInv, Carried
<1>. QED BY <1>1, ChainsAlways, PTL

\* revoke_session: no rotation in flight brings a revoked chain back.
THEOREM RevocationIsFinal == Spec => []RevokedChainStaysOut
<1>1. ChainInv => RevokedChainStaysOut
    BY DEF ChainInv, Carried
<1>. QED BY <1>1, ChainsAlways, PTL

-----------------------------------------------------------------------------
(* Sign-in                                                                 *)

EntryRequest ==
    [kind : Entry!Kinds, email : Emails, uses : SUBSET Codes,
     at : {"new", "sub", "user", "insert", "link", "profile", "session", "welcome", "commit",
           "done", "refused", "lost"},
     links : BOOLEAN, created : BOOLEAN, profile : BOOLEAN, mailed : BOOLEAN]

EntryTyped ==
    /\ user \in [Emails -> {"none", "email", "google"}]
    /\ customers \subseteq Emails
    /\ code \in [Codes -> Entry!Code]
    /\ welcomes \in [Emails -> Nat]
    /\ signIn \in [SignIns -> EntryRequest]

\* What a request relies on from one of its queries to the next, none of which locks
\* anything: the user row it found or will write, the profile, the code it matched.
FoundInv == \A r \in SignIns :
    /\ signIn[r].kind = "send" => signIn[r].at \in {"commit", "done", "lost"}
    /\ signIn[r].at = "link" => user[signIn[r].email] # "none"
    /\ signIn[r].kind # "send" /\ signIn[r].at \in {"profile", "session", "welcome", "commit"} =>
         user[signIn[r].email] # "none" \/ signIn[r].created \/ signIn[r].links
    /\ signIn[r].kind # "send" /\ signIn[r].at \in {"session", "welcome", "commit"} =>
         signIn[r].email \in customers \/ signIn[r].profile
    /\ signIn[r].kind # "send" =>
         \A c \in signIn[r].uses : code[c].state # "unused" /\ code[c].email = signIn[r].email

\* At most one request that is not rolled back has inserted the user row, and only such
\* a request mails a welcome.
CreatedInv ==
    /\ \A r \in SignIns :
        /\ signIn[r].created => signIn[r].kind # "send"
             /\ signIn[r].at \in {"profile", "session", "welcome", "commit", "done", "lost"}
        /\ signIn[r].created /\ signIn[r].at = "done" => user[signIn[r].email] # "none"
        /\ signIn[r].at = "welcome" => signIn[r].created /\ ~signIn[r].mailed
        /\ signIn[r].mailed => signIn[r].created /\ signIn[r].at \in {"commit", "done", "lost"}
    /\ \A r, s \in SignIns :
        signIn[r].created /\ signIn[s].created /\ signIn[r].email = signIn[s].email
          /\ signIn[r].at # "lost" /\ signIn[s].at # "lost" => r = s

Mailers(e) == {r \in SignIns : signIn[r].email = e /\ signIn[r].mailed}
MailInv == \A e \in Emails : welcomes[e] <= Cardinality(Mailers(e))

EntryInv == EntryTyped /\ FoundInv /\ Entry!CodeNotWasted /\ CreatedInv /\ MailInv

LEMMA EntryConstants == Emails # {} /\ IsFiniteSet(SignIns)
BY CustomerAssumption

LEMMA MailersFinite ==
    ASSUME NEW A, A \subseteq SignIns, NEW B, B \subseteq A
    PROVE  /\ IsFiniteSet(A) /\ Cardinality(A) \in Nat
           /\ Cardinality(B) \in Nat /\ Cardinality(B) <= Cardinality(A)
<1>1. IsFiniteSet(A)
    BY FS_Subset, CustomerAssumption
<1>. QED BY <1>1, FS_Subset, FS_CardinalityType

LEMMA EntryInitInv == ASSUME Entry!Init PROVE EntryInv
<1>. USE EntryConstants DEF Entry!Init, Entry!NewRequest
<1>1. Entry!AnEmail \in Emails
    BY DEF Entry!AnEmail
<1>2. EntryTyped
    BY <1>1 DEF EntryTyped, EntryRequest, Entry!Code, Entry!Kinds
<1>3. FoundInv /\ CreatedInv /\ Entry!CodeNotWasted
    BY <1>1 DEF FoundInv, CreatedInv, Entry!CodeNotWasted
<1>4. MailInv
    <2>1. \A e \in Emails : Cardinality(Mailers(e)) \in Nat
        BY MailersFinite DEF Mailers
    <2>. QED BY <2>1 DEF MailInv
<1>. QED BY <1>2, <1>3, <1>4 DEF EntryInv

\* A request is replaced by another one.
LEMMA EntryRequests ==
    ASSUME EntryTyped, NEW r \in SignIns, NEW v \in EntryRequest, signIn' = [signIn EXCEPT ![r] = v]
    PROVE  signIn' \in [SignIns -> EntryRequest]
BY DEF EntryTyped

LEMMA EntryTypedStep == ASSUME EntryInv, Entry!Next PROVE EntryTyped'
<1>. USE DEF EntryInv
<1>. DEFINE Ats == {"new", "sub", "user", "insert", "link", "profile", "session", "welcome", "commit",
                    "done", "refused", "lost"}
<1>1. \A k \in Entry!Kinds, e \in Emails, at \in Ats, u \in SUBSET Codes :
         Entry!NewRequest(k, e, at, u) \in EntryRequest
    BY DEF Entry!NewRequest, EntryRequest
<1>2. \A v \in EntryRequest, at \in Ats, b \in BOOLEAN, d \in BOOLEAN :
        /\ [v EXCEPT !.at = at] \in EntryRequest
        /\ [v EXCEPT !.at = at, !.links = b] \in EntryRequest
        /\ [v EXCEPT !.at = at, !.profile = b] \in EntryRequest
        /\ [v EXCEPT !.at = at, !.mailed = b] \in EntryRequest
        /\ [v EXCEPT !.at = at, !.created = b, !.links = d] \in EntryRequest
    <2>. TAKE v \in EntryRequest, at \in Ats, b \in BOOLEAN, d \in BOOLEAN
    <2>1. [v EXCEPT !.at = at] \in EntryRequest
        BY DEF EntryRequest
    <2>2. [v EXCEPT !.at = at, !.links = b] \in EntryRequest
        BY DEF EntryRequest
    <2>3. [v EXCEPT !.at = at, !.profile = b] \in EntryRequest
        BY DEF EntryRequest
    <2>4. [v EXCEPT !.at = at, !.mailed = b] \in EntryRequest
        BY DEF EntryRequest
    <2>5. [v EXCEPT !.at = at, !.created = b, !.links = d] \in EntryRequest
        BY DEF EntryRequest
    <2>. QED BY <2>1, <2>2, <2>3, <2>4, <2>5
<1>3. \A r \in SignIns : signIn[r] \in EntryRequest /\ signIn[r].email \in Emails
    BY DEF EntryTyped, EntryRequest
<1>4. ASSUME NEW r \in SignIns, NEW v \in EntryRequest, signIn' = [signIn EXCEPT ![r] = v],
             UNCHANGED <<user, customers, code, welcomes>>
      PROVE  EntryTyped'
    BY <1>4, EntryRequests DEF EntryTyped
<1>5. ASSUME NEW r \in SignIns, NEW at \in Ats, Entry!Move(r, at) PROVE signIn' \in [SignIns -> EntryRequest]
    <2>1. signIn' = [signIn EXCEPT ![r] = [signIn[r] EXCEPT !.at = at]]
        BY <1>5 DEF Entry!Move
    <2>. QED BY <1>2, <1>3, <2>1, EntryRequests
<1>6. ASSUME NEW r \in SignIns, NEW e \in Emails,
             \/ Entry!GoogleCallback(r, e) \/ Entry!OtpNoMatch(r, e)
             \/ \E c \in Codes : Entry!OtpMatch(r, e, c)
      PROVE  EntryTyped'
    <2>1. \E v \in EntryRequest : signIn' = [signIn EXCEPT ![r] = v]
        BY <1>1, <1>6 DEF Entry!GoogleCallback, Entry!OtpNoMatch, Entry!OtpMatch, Entry!Kinds
    <2>. QED BY <1>4, <1>6, <2>1 DEF Entry!GoogleCallback, Entry!OtpNoMatch, Entry!OtpMatch, Entry!database
<1>7. ASSUME NEW r \in SignIns, NEW e \in Emails, NEW c \in Codes, Entry!OtpSend(r, e, c) PROVE EntryTyped'
    <2>1. \E v \in EntryRequest : signIn' = [signIn EXCEPT ![r] = v]
        BY <1>1, <1>7 DEF Entry!OtpSend, Entry!Kinds
    <2>2. signIn' \in [SignIns -> EntryRequest]
        BY <2>1, EntryRequests
    <2>. QED BY <1>7, <2>2 DEF EntryTyped, Entry!OtpSend, Entry!Code
<1>8. ASSUME NEW r \in SignIns,
             \/ Entry!SelectBySub(r) \/ Entry!SelectByEmail(r) \/ Entry!InsertRefused(r)
             \/ Entry!SetSession(r) \/ Entry!Stop(r)
      PROVE  EntryTyped'
    <2>1. signIn' \in [SignIns -> EntryRequest]
        BY <1>5, <1>8 DEF Entry!SelectBySub, Entry!SelectByEmail, Entry!InsertRefused, Entry!SetSession, Entry!Stop
    <2>. QED
        BY <1>8, <2>1 DEF EntryTyped, Entry!SelectBySub, Entry!SelectByEmail, Entry!InsertRefused,
                          Entry!SetSession, Entry!Stop, Entry!database
<1>9. ASSUME NEW r \in SignIns, Entry!LinkUser(r) \/ Entry!EnsureCustomer(r) \/ Entry!InsertUser(r)
      PROVE  EntryTyped'
    <2>1. CASE Entry!LinkUser(r)
        <3>1. signIn' = [signIn EXCEPT ![r] = [signIn[r] EXCEPT !.at = "profile", !.links = TRUE]]
            BY <2>1 DEF Entry!LinkUser
        <3>. QED BY <1>2, <1>3, <1>4, <2>1, <3>1 DEF Entry!LinkUser, Entry!database
    <2>2. CASE Entry!EnsureCustomer(r)
        <3>1. signIn' = [signIn EXCEPT ![r] = [signIn[r] EXCEPT !.at = "session", !.profile = Entry!NeedsProfile(r)]]
            BY <2>2 DEF Entry!EnsureCustomer
        <3>2. Entry!NeedsProfile(r) \in BOOLEAN
            BY DEF Entry!NeedsProfile
        <3>. QED BY <1>2, <1>3, <1>4, <2>2, <3>1, <3>2 DEF Entry!EnsureCustomer, Entry!database
    <2>3. CASE Entry!InsertUser(r)
        <3>1. signIn' = [signIn EXCEPT ![r] = [signIn[r] EXCEPT !.at = "profile", !.created = TRUE,
                                                                !.links = (signIn[r].kind = "google")]]
            BY <2>3 DEF Entry!InsertUser
        <3>. QED BY <1>2, <1>3, <1>4, <2>3, <3>1 DEF Entry!InsertUser, Entry!database
    <2>. QED BY <1>9, <2>1, <2>2, <2>3
<1>10. ASSUME NEW r \in SignIns, Entry!Welcome(r) PROVE EntryTyped'
    <2>1. PICK sent \in BOOLEAN :
            /\ welcomes' = [welcomes EXCEPT ![signIn[r].email] = @ + IF sent THEN 1 ELSE 0]
            /\ signIn' = [signIn EXCEPT ![r].at = "commit", ![r].mailed = sent]
        BY <1>10 DEF Entry!Welcome
    <2>2. signIn' = [signIn EXCEPT ![r] = [signIn[r] EXCEPT !.at = "commit", !.mailed = sent]]
        BY <2>1
    <2>3. signIn' \in [SignIns -> EntryRequest]
        BY <1>2, <1>3, <2>2, EntryRequests
    <2>4. welcomes' \in [Emails -> Nat]
        BY <1>3, <2>1 DEF EntryTyped
    <2>. QED BY <1>10, <2>3, <2>4 DEF EntryTyped, Entry!Welcome, Entry!database
<1>11. ASSUME NEW r \in SignIns, Entry!Commit(r) PROVE EntryTyped'
    <2>1. signIn' \in [SignIns -> EntryRequest]
        BY <1>5, <1>11 DEF Entry!Commit
    <2>2. user' \in [Emails -> {"none", "email", "google"}] /\ customers' \subseteq Emails
        BY <1>11 DEF Entry!Commit, EntryTyped
    <2>3. code' \in [Codes -> Entry!Code]
        BY <1>11 DEF Entry!Commit, EntryTyped, Entry!Code
    <2>. QED BY <1>11, <2>1, <2>2, <2>3 DEF EntryTyped, Entry!Commit
<1>12. ASSUME NEW c \in Codes, Entry!CodeExpires(c) PROVE EntryTyped'
    BY <1>12 DEF EntryTyped, Entry!CodeExpires, Entry!Code
<1>. QED
    BY <1>6, <1>7, <1>8, <1>9, <1>10, <1>11, <1>12 DEF Entry!Next

LEMMA FoundStep == ASSUME EntryInv, Entry!Next PROVE FoundInv' /\ Entry!CodeNotWasted'
<1>. USE DEF EntryInv, EntryTyped, EntryRequest, FoundInv, CreatedInv, Entry!CodeNotWasted, Entry!NewRequest, Entry!Move, Entry!database, Entry!Code, Entry!Kinds
<1>1. ASSUME NEW r \in SignIns, NEW e \in Emails, Entry!GoogleCallback(r, e) \/ Entry!OtpNoMatch(r, e) PROVE FoundInv' /\ Entry!CodeNotWasted'
    <2>1. CASE Entry!GoogleCallback(r, e)
        BY <2>1 DEF Entry!GoogleCallback
    <2>2. CASE Entry!OtpNoMatch(r, e)
        BY <2>2 DEF Entry!OtpNoMatch
    <2>. QED BY <1>1, <2>1, <2>2
<1>2. ASSUME NEW r \in SignIns, NEW e \in Emails, NEW c \in Codes, Entry!OtpSend(r, e, c) PROVE FoundInv' /\ Entry!CodeNotWasted'
    BY <1>2 DEF Entry!OtpSend
<1>3. ASSUME NEW r \in SignIns, NEW e \in Emails, NEW c \in Codes, Entry!OtpMatch(r, e, c) PROVE FoundInv' /\ Entry!CodeNotWasted'
    BY <1>3 DEF Entry!OtpMatch, Entry!Verifiable
<1>4. ASSUME NEW r \in SignIns, Entry!SelectBySub(r) PROVE FoundInv' /\ Entry!CodeNotWasted'
    BY <1>4 DEF Entry!SelectBySub
<1>5. ASSUME NEW r \in SignIns, Entry!SelectByEmail(r) PROVE FoundInv' /\ Entry!CodeNotWasted'
    BY <1>5 DEF Entry!SelectByEmail
<1>6. ASSUME NEW r \in SignIns, Entry!LinkUser(r) PROVE FoundInv' /\ Entry!CodeNotWasted'
    BY <1>6 DEF Entry!LinkUser
<1>7. ASSUME NEW r \in SignIns, Entry!InsertUser(r) PROVE FoundInv' /\ Entry!CodeNotWasted'
    BY <1>7 DEF Entry!InsertUser
<1>8. ASSUME NEW r \in SignIns, Entry!InsertRefused(r) PROVE FoundInv' /\ Entry!CodeNotWasted'
    BY <1>8 DEF Entry!InsertRefused
<1>9. ASSUME NEW r \in SignIns, Entry!EnsureCustomer(r) PROVE FoundInv' /\ Entry!CodeNotWasted'
    BY <1>9 DEF Entry!EnsureCustomer, Entry!NeedsProfile
<1>10. ASSUME NEW r \in SignIns, Entry!SetSession(r) PROVE FoundInv' /\ Entry!CodeNotWasted'
    BY <1>10 DEF Entry!SetSession
<1>11. ASSUME NEW r \in SignIns, Entry!Welcome(r) PROVE FoundInv' /\ Entry!CodeNotWasted'
    BY <1>11 DEF Entry!Welcome
<1>12. ASSUME NEW r \in SignIns, Entry!Commit(r) PROVE FoundInv' /\ Entry!CodeNotWasted'
    BY <1>12 DEF Entry!Commit, Entry!Writes
<1>13. ASSUME NEW r \in SignIns, Entry!Stop(r) PROVE FoundInv' /\ Entry!CodeNotWasted'
    BY <1>13 DEF Entry!Stop, Entry!Open
<1>14. ASSUME NEW c \in Codes, Entry!CodeExpires(c) PROVE FoundInv' /\ Entry!CodeNotWasted'
    BY <1>14 DEF Entry!CodeExpires
<1>. QED
    BY <1>1, <1>2, <1>3, <1>4, <1>5, <1>6, <1>7, <1>8, <1>9, <1>10, <1>11, <1>12, <1>13, <1>14 DEF Entry!Next

LEMMA CreatedStep == ASSUME EntryInv, Entry!Next PROVE CreatedInv'
<1>. USE DEF EntryInv, EntryTyped, EntryRequest, FoundInv, CreatedInv, Entry!NewRequest, Entry!Move, Entry!database, Entry!Kinds
<1>1. ASSUME NEW r \in SignIns, NEW e \in Emails, Entry!GoogleCallback(r, e) \/ Entry!OtpNoMatch(r, e) PROVE CreatedInv'
    <2>1. CASE Entry!GoogleCallback(r, e)
        BY <2>1 DEF Entry!GoogleCallback
    <2>2. CASE Entry!OtpNoMatch(r, e)
        BY <2>2 DEF Entry!OtpNoMatch
    <2>. QED BY <1>1, <2>1, <2>2
<1>2. ASSUME NEW r \in SignIns, NEW e \in Emails, NEW c \in Codes, Entry!OtpSend(r, e, c) PROVE CreatedInv'
    BY <1>2 DEF Entry!OtpSend
<1>3. ASSUME NEW r \in SignIns, NEW e \in Emails, NEW c \in Codes, Entry!OtpMatch(r, e, c) PROVE CreatedInv'
    BY <1>3 DEF Entry!OtpMatch, Entry!Verifiable
<1>4. ASSUME NEW r \in SignIns, Entry!SelectBySub(r) PROVE CreatedInv'
    BY <1>4 DEF Entry!SelectBySub
<1>5. ASSUME NEW r \in SignIns, Entry!SelectByEmail(r) PROVE CreatedInv'
    BY <1>5 DEF Entry!SelectByEmail
<1>6. ASSUME NEW r \in SignIns, Entry!LinkUser(r) PROVE CreatedInv'
    BY <1>6 DEF Entry!LinkUser
<1>7. ASSUME NEW r \in SignIns, Entry!InsertUser(r) PROVE CreatedInv'
    BY <1>7 DEF Entry!InsertUser
<1>8. ASSUME NEW r \in SignIns, Entry!InsertRefused(r) PROVE CreatedInv'
    BY <1>8 DEF Entry!InsertRefused
<1>9. ASSUME NEW r \in SignIns, Entry!EnsureCustomer(r) PROVE CreatedInv'
    BY <1>9 DEF Entry!EnsureCustomer, Entry!NeedsProfile
<1>10. ASSUME NEW r \in SignIns, Entry!SetSession(r) PROVE CreatedInv'
    BY <1>10 DEF Entry!SetSession
<1>11. ASSUME NEW r \in SignIns, Entry!Welcome(r) PROVE CreatedInv'
    BY <1>11 DEF Entry!Welcome
<1>12. ASSUME NEW r \in SignIns, Entry!Commit(r) PROVE CreatedInv'
    BY <1>12 DEF Entry!Commit, Entry!Writes
<1>13. ASSUME NEW r \in SignIns, Entry!Stop(r) PROVE CreatedInv'
    BY <1>13 DEF Entry!Stop, Entry!Open
<1>14. ASSUME NEW c \in Codes, Entry!CodeExpires(c) PROVE CreatedInv'
    BY <1>14 DEF Entry!CodeExpires
<1>. QED
    BY <1>1, <1>2, <1>3, <1>4, <1>5, <1>6, <1>7, <1>8, <1>9, <1>10, <1>11, <1>12, <1>13, <1>14 DEF Entry!Next

\* A mail is counted with the request that sent it.
LEMMA MailStep == ASSUME EntryInv, Entry!Next PROVE MailInv'
<1>. USE DEF EntryInv, EntryTyped, EntryRequest, CreatedInv, Entry!database, Entry!NewRequest, Entry!Move
<1>1. \A e \in Emails : /\ Mailers(e) \subseteq SignIns /\ Mailers(e)' \subseteq SignIns
                        /\ Cardinality(Mailers(e)) \in Nat /\ Cardinality(Mailers(e)') \in Nat
    BY MailersFinite DEF Mailers
<1>2. ASSUME UNCHANGED welcomes, \A e \in Emails : Mailers(e) \subseteq Mailers(e)' PROVE MailInv'
    <2>1. \A e \in Emails : Cardinality(Mailers(e)) <= Cardinality(Mailers(e)')
        BY <1>1, <1>2, MailersFinite
    <2>. QED BY <1>1, <1>2, <2>1 DEF MailInv
<1>3. ASSUME NEW r \in SignIns, NEW e \in Emails,
             \/ Entry!GoogleCallback(r, e) \/ Entry!OtpNoMatch(r, e)
             \/ \E c \in Codes : Entry!OtpMatch(r, e, c) \/ Entry!OtpSend(r, e, c)
      PROVE  MailInv'
    BY <1>2, <1>3 DEF Entry!GoogleCallback, Entry!OtpNoMatch, Entry!OtpMatch, Entry!OtpSend, Mailers
<1>4. ASSUME NEW r \in SignIns,
             \/ Entry!SelectBySub(r) \/ Entry!SelectByEmail(r) \/ Entry!LinkUser(r)
             \/ Entry!InsertUser(r) \/ Entry!InsertRefused(r)
      PROVE  MailInv'
    BY <1>2, <1>4 DEF Entry!SelectBySub, Entry!SelectByEmail, Entry!LinkUser, Entry!InsertUser,
                      Entry!InsertRefused, Mailers
<1>5. ASSUME NEW r \in SignIns, Entry!EnsureCustomer(r) \/ Entry!SetSession(r) \/ Entry!Commit(r) \/ Entry!Stop(r)
      PROVE  MailInv'
    <2>1. UNCHANGED welcomes
        BY <1>5 DEF Entry!EnsureCustomer, Entry!SetSession, Entry!Commit, Entry!Stop
    <2>2. \A s \in SignIns : signIn'[s].email = signIn[s].email /\ signIn'[s].mailed = signIn[s].mailed
        BY <1>5 DEF Entry!EnsureCustomer, Entry!SetSession, Entry!Commit, Entry!Stop
    <2>. QED BY <1>2, <2>1, <2>2 DEF Mailers
<1>6. ASSUME NEW r \in SignIns, Entry!Welcome(r) PROVE MailInv'
    <2>1. PICK sent \in BOOLEAN :
            /\ welcomes' = [welcomes EXCEPT ![signIn[r].email] = @ + IF sent THEN 1 ELSE 0]
            /\ signIn' = [signIn EXCEPT ![r].at = "commit", ![r].mailed = sent]
        BY <1>6 DEF Entry!Welcome
    <2>2. signIn[r].created /\ ~signIn[r].mailed
        BY <1>6 DEF Entry!Welcome
    <2>3. ASSUME NEW e \in Emails PROVE welcomes'[e] <= Cardinality(Mailers(e)')
        <3>1. CASE sent /\ signIn[r].email = e
            <4>1. r \notin Mailers(e) /\ Mailers(e)' = Mailers(e) \cup {r}
                BY <2>1, <2>2, <3>1 DEF Mailers
            <4>2. Cardinality(Mailers(e)') = Cardinality(Mailers(e)) + 1
                BY <1>1, <4>1, MailersFinite, FS_AddElement
            <4>3. welcomes'[e] = welcomes[e] + 1
                BY <2>1, <3>1
            <4>. QED BY <1>1, <4>2, <4>3 DEF MailInv
        <3>2. CASE ~(sent /\ signIn[r].email = e)
            <4>1. Mailers(e)' = Mailers(e) /\ welcomes'[e] = welcomes[e]
                BY <2>1, <2>2, <3>2 DEF Mailers
            <4>. QED BY <4>1 DEF MailInv
        <3>. QED BY <3>1, <3>2
    <2>. QED BY <2>3 DEF MailInv
<1>7. ASSUME NEW c \in Codes, Entry!CodeExpires(c) PROVE MailInv'
    BY <1>2, <1>7 DEF Entry!CodeExpires, Mailers
<1>. QED
    BY <1>3, <1>4, <1>5, <1>6, <1>7 DEF Entry!Next

LEMMA EntryAlways == AllSpec => [](area = "signin" => EntryInv)
<1>1. AllInit => (area = "signin" => EntryInv)
    BY EntryInitInv DEF AllInit
<1>2. (area = "signin" => EntryInv) /\ [AllNext]_allVars => (area = "signin" => EntryInv)'
    <2>. SUFFICES ASSUME area = "signin" => EntryInv, [AllNext]_allVars, area' = "signin" PROVE EntryInv'
        OBVIOUS
    <2>1. area = "signin" /\ (Entry!Next \/ UNCHANGED entryVars)
        BY DEF AllNext, allVars
    <2>2. CASE Entry!Next
        BY <2>1, <2>2, EntryTypedStep, FoundStep, CreatedStep, MailStep DEF EntryInv
    <2>3. CASE UNCHANGED entryVars
        BY <2>1, <2>3 DEF entryVars, EntryInv, EntryTyped, FoundInv, CreatedInv, MailInv, Mailers, Entry!CodeNotWasted
    <2>. QED BY <2>1, <2>2, <2>3
<1>. QED BY <1>1, <1>2, PTL DEF AllSpec

\* A one-time code is used up only together with the account it opens: a sign-in that loses
\* the race for the user row, or fails to commit, leaves it usable (app/api/v1/auth.py).
THEOREM CodesAreNotWasted == AllSpec => []CodeNotWasted
<1>1. (area = "signin" => EntryInv) => CodeNotWasted
    BY DEF EntryInv, CodeNotWasted
<1>. QED BY <1>1, EntryAlways, PTL

\* However many first sign-ins race, an account is welcomed once, and once more for every
\* creation that was rolled back after its mail (app/api/v1/auth.py).
THEOREM AccountsAreWelcomedOnce == AllSpec => []WelcomedOnce
<1>1. ASSUME EntryInv, NEW e \in Emails
      PROVE  welcomes[e] <= 1 + Entry!Cardinality({r \in SignIns :
                 signIn[r].email = e /\ signIn[r].at = "lost" /\ signIn[r].mailed})
    <2>. DEFINE Lost == {r \in SignIns : signIn[r].email = e /\ signIn[r].at = "lost" /\ signIn[r].mailed}
    <2>1. Entry!Cardinality(Lost) = Cardinality(Lost)
        BY DEF Cardinality, Entry!Cardinality, IsFiniteSet, Entry!IsFiniteSet
    <2>2. IsFiniteSet(Lost) /\ Cardinality(Lost) \in Nat /\ Cardinality(Mailers(e)) \in Nat
        BY MailersFinite DEF Mailers
    <2>3. Cardinality(Mailers(e)) <= Cardinality(Lost) + 1
        <3>1. CASE Mailers(e) \subseteq Lost
            BY <2>2, <3>1, MailersFinite
        <3>2. CASE ~(Mailers(e) \subseteq Lost)
            <4>1. PICK r \in Mailers(e) : r \notin Lost
                BY <3>2
            <4>2. Mailers(e) \subseteq Lost \cup {r}
                BY <1>1, <4>1 DEF Mailers, EntryInv, CreatedInv
            <4>3. IsFiniteSet(Lost \cup {r}) /\ Cardinality(Lost \cup {r}) = Cardinality(Lost) + 1
                BY <2>2, <4>1, FS_AddElement
            <4>. QED BY <2>2, <4>2, <4>3, FS_Subset
        <3>. QED BY <3>1, <3>2
    <2>. QED BY <1>1, <2>1, <2>2, <2>3 DEF EntryInv, EntryTyped, MailInv
<1>2. (area = "signin" => EntryInv) => WelcomedOnce
    BY <1>1 DEF WelcomedOnce, Entry!WelcomedOnce
<1>. QED BY <1>2, EntryAlways, PTL

-----------------------------------------------------------------------------
(* Passkeys                                                                *)

CeremonyRequest ==
    [at : {"idle", "get", "forget", "insert", "consume", "select", "session", "commit"},
     with : Passkey!Assertion, expected : Challenges \cup {NoChallenge}]

PasskeyTyped ==
    /\ open \subseteq used /\ used \subseteq Challenges
    /\ pending \in used \cup {NoChallenge}
    /\ signed \in [Credentials -> 0 .. Cardinality(Challenges)]
    /\ assertions \subseteq Passkey!Assertion
    /\ ceremony \in [Requests -> CeremonyRequest]

\* The sign-ins a challenge has got past the DELETE, and those it has been answered with.
Passing(x) == {r \in Requests : ceremony[r].at \in {"select", "session"} /\ ceremony[r].with.challenge = x}
Answered(x) == {y \in accepted : y.challenge = x}

\* A challenge is unused, open, held by one request or answered, one after the other.
ChallengeInv == \A x \in Challenges :
    /\ x \in open \/ x \notin used => Passing(x) = {} /\ Answered(x) = {}
    /\ Passing(x) # {} => Answered(x) = {}
    /\ \A r, s \in Passing(x) : r = s
    /\ \A y, z \in Answered(x) : y = z

PasskeyInv == PasskeyTyped /\ ChallengeInv

LEMMA PasskeyConstants == IsFiniteSet(Challenges) /\ Challenges # {} /\ Credentials # {}
BY CustomerAssumption

LEMMA ChallengesCounted ==
    /\ Cardinality(Challenges) \in Nat
    /\ Passkey!MaxCount = Cardinality(Challenges)
<1>1. Passkey!MaxCount = Cardinality(Challenges)
    BY DEF Passkey!MaxCount, Cardinality, Passkey!Cardinality, IsFiniteSet, Passkey!IsFiniteSet
<1>. QED BY <1>1, FS_CardinalityType, CustomerAssumption

LEMMA QuietCeremony == Passkey!Quiet \in CeremonyRequest
<1>. USE PasskeyConstants, ChallengesCounted
<1>1. (CHOOSE x \in Challenges : TRUE) \in Challenges /\ (CHOOSE k \in Credentials : TRUE) \in Credentials
    OBVIOUS
<1>2. Passkey!AnAssertion \in Passkey!Assertion
    BY <1>1 DEF Passkey!AnAssertion, Passkey!Assertion
<1>. QED BY <1>2 DEF Passkey!Quiet, CeremonyRequest

LEMMA PasskeyTypedStep == ASSUME PasskeyInv, Passkey!Next PROVE PasskeyTyped'
<1>. USE ChallengesCounted, QuietCeremony DEF PasskeyInv, PasskeyTyped, Passkey!redis
<1>1. ASSUME NEW r \in Requests, NEW v \in CeremonyRequest, ceremony' = [ceremony EXCEPT ![r] = v]
      PROVE  ceremony' \in [Requests -> CeremonyRequest]
    BY <1>1
<1>2. \A r \in Requests : ceremony[r] \in CeremonyRequest
    OBVIOUS
<1>3. \A v \in CeremonyRequest :
        /\ \A at \in {"select", "session", "insert", "commit"} : [v EXCEPT !.at = at] \in CeremonyRequest
        /\ \A x \in Challenges : [v EXCEPT !.at = "forget", !.expected = x] \in CeremonyRequest
    BY DEF CeremonyRequest
<1>4. ASSUME NEW x \in Challenges, Passkey!RegisterBegin(x) \/ Passkey!LoginBegin(x) PROVE PasskeyTyped'
    BY <1>4 DEF Passkey!RegisterBegin, Passkey!LoginBegin
<1>5. ASSUME Passkey!ChallengeExpires PROVE PasskeyTyped'
    BY <1>5 DEF Passkey!ChallengeExpires
<1>6. ASSUME NEW kind \in {"register", "login"}, NEW x \in Challenges, NEW k \in Credentials,
             Passkey!Assert(kind, x, k)
      PROVE  PasskeyTyped'
    <2>1. signed' \in [Credentials -> 0 .. Cardinality(Challenges)]
        BY <1>6 DEF Passkey!Assert
    <2>2. [kind |-> kind, challenge |-> x, credential |-> k, count |-> signed'[k]] \in Passkey!Assertion
        BY <2>1 DEF Passkey!Assertion
    <2>. QED BY <1>6, <2>1, <2>2 DEF Passkey!Assert
<1>7. ASSUME NEW r \in Requests, NEW a \in assertions, Passkey!Receive(r, a) PROVE PasskeyTyped'
    <2>. DEFINE v == [Passkey!Quiet EXCEPT !.at = IF a.kind = "login" THEN "consume" ELSE "get", !.with = a]
    <2>1. \A q \in CeremonyRequest, at \in {"consume", "get"}, b \in Passkey!Assertion :
            [q EXCEPT !.at = at, !.with = b] \in CeremonyRequest
        BY DEF CeremonyRequest
    <2>2. v \in CeremonyRequest
        BY <2>1
    <2>3. ceremony' = [ceremony EXCEPT ![r] = v]
        BY <1>7 DEF Passkey!Receive
    <2>. HIDE DEF v
    <2>. QED BY <1>1, <1>7, <2>2, <2>3 DEF Passkey!Receive
<1>8. ASSUME NEW r \in Requests, Passkey!GetPending(r) PROVE PasskeyTyped'
    <2>1. \/ ceremony' = [ceremony EXCEPT ![r] = Passkey!Quiet]
          \/ /\ pending \in Challenges
             /\ ceremony' = [ceremony EXCEPT ![r] = [ceremony[r] EXCEPT !.at = "forget", !.expected = pending]]
        BY <1>8 DEF Passkey!GetPending
    <2>2. ceremony' \in [Requests -> CeremonyRequest]
        BY <1>1, <1>2, <1>3, <2>1
    <2>. QED BY <1>8, <2>2 DEF Passkey!GetPending
<1>9. ASSUME NEW r \in Requests,
             \/ Passkey!ForgetPending(r) \/ Passkey!InsertCredential(r) \/ Passkey!ConsumeChallenge(r)
             \/ Passkey!SelectCredential(r) \/ Passkey!LoginAnswer(r) \/ Passkey!CommitCount(r) \/ Passkey!Stop(r)
      PROVE  PasskeyTyped'
    <2>1. \/ ceremony' = [ceremony EXCEPT ![r] = Passkey!Quiet]
          \/ \E at \in {"select", "session", "insert", "commit"} :
                ceremony' = [ceremony EXCEPT ![r] = [ceremony[r] EXCEPT !.at = at]]
        BY <1>9 DEF Passkey!ForgetPending, Passkey!InsertCredential, Passkey!ConsumeChallenge,
                    Passkey!SelectCredential, Passkey!LoginAnswer, Passkey!CommitCount, Passkey!Stop
    <2>2. ceremony' \in [Requests -> CeremonyRequest]
        BY <1>1, <1>2, <1>3, <2>1
    <2>3. /\ UNCHANGED <<used, signed, assertions>> /\ open' \subseteq open
          /\ pending' \in {pending, NoChallenge}
        BY <1>9 DEF Passkey!ForgetPending, Passkey!InsertCredential, Passkey!ConsumeChallenge,
                    Passkey!SelectCredential, Passkey!LoginAnswer, Passkey!CommitCount, Passkey!Stop
    <2>. QED BY <2>2, <2>3
<1>10. ASSUME NEW k \in Credentials, Passkey!DeleteCredential(k) PROVE PasskeyTyped'
    BY <1>10 DEF Passkey!DeleteCredential
<1>. QED
    BY <1>4, <1>5, <1>6, <1>7, <1>8, <1>9, <1>10 DEF Passkey!Next

\* Only the DELETE that finds the key lets a request pass, and an answer ends the passing.
LEMMA ChallengeStep == ASSUME PasskeyInv, Passkey!Next PROVE ChallengeInv'
<1>. USE QuietCeremony DEF PasskeyInv, PasskeyTyped, ChallengeInv, Passkey!redis, CeremonyRequest
<1>1. ASSUME UNCHANGED accepted, used \subseteq used',
             \A x \in Challenges : x \in open' => x \in open \/ x \notin used,
             \A x \in Challenges : Passing(x)' \subseteq Passing(x)
      PROVE  ChallengeInv'
    BY <1>1 DEF Answered
<1>2. ASSUME NEW x \in Challenges, Passkey!RegisterBegin(x) \/ Passkey!LoginBegin(x) PROVE ChallengeInv'
    BY <1>1, <1>2 DEF Passkey!RegisterBegin, Passkey!LoginBegin, Passing
<1>3. ASSUME Passkey!ChallengeExpires PROVE ChallengeInv'
    BY <1>1, <1>3 DEF Passkey!ChallengeExpires, Passing
<1>4. ASSUME NEW kind, NEW x, NEW k, Passkey!Assert(kind, x, k) PROVE ChallengeInv'
    BY <1>1, <1>4 DEF Passkey!Assert, Passing
<1>5. ASSUME NEW r \in Requests, NEW a \in assertions, Passkey!Receive(r, a) PROVE ChallengeInv'
    BY <1>1, <1>5 DEF Passkey!Receive, Passkey!Quiet, Passing
<1>6. ASSUME NEW r \in Requests,
             \/ Passkey!GetPending(r) \/ Passkey!ForgetPending(r) \/ Passkey!InsertCredential(r)
             \/ Passkey!SelectCredential(r) \/ Passkey!CommitCount(r) \/ Passkey!Stop(r)
      PROVE  ChallengeInv'
    <2>1. \A x \in Challenges : Passing(x)' \subseteq Passing(x)
        BY <1>6 DEF Passkey!GetPending, Passkey!ForgetPending, Passkey!InsertCredential,
                    Passkey!SelectCredential, Passkey!CommitCount, Passkey!Stop, Passkey!Quiet, Passing
    <2>. QED
        BY <1>1, <1>6, <2>1 DEF Passkey!GetPending, Passkey!ForgetPending, Passkey!InsertCredential,
                    Passkey!SelectCredential, Passkey!CommitCount, Passkey!Stop
<1>7. ASSUME NEW r \in Requests, Passkey!ConsumeChallenge(r) PROVE ChallengeInv'
    <2>0. PICK z \in Challenges : z = ceremony[r].with.challenge
        BY DEF Passkey!Assertion
    <2>1. CASE z \in open
        <3>1. /\ open' = open \ {z} /\ UNCHANGED <<used, accepted>>
              /\ ceremony' = [ceremony EXCEPT ![r].at = "select"]
            BY <1>7, <2>0, <2>1 DEF Passkey!ConsumeChallenge
        <3>2. /\ Passing(z)' = Passing(z) \cup {r}
              /\ \A x \in Challenges \ {z} : Passing(x)' = Passing(x)
            BY <1>7, <2>0, <3>1 DEF Passing, Passkey!ConsumeChallenge
        <3>3. \A x \in Challenges : Answered(x)' = Answered(x)
            BY <3>1 DEF Answered
        <3>. QED BY <2>1, <3>1, <3>2, <3>3
    <2>2. CASE z \notin open
        <3>1. \A x \in Challenges : Passing(x)' \subseteq Passing(x)
            BY <1>7, <2>0, <2>2 DEF Passkey!ConsumeChallenge, Passkey!Quiet, Passing
        <3>. QED BY <1>1, <1>7, <2>0, <2>2, <3>1 DEF Passkey!ConsumeChallenge
    <2>. QED BY <2>1, <2>2
<1>8. ASSUME NEW r \in Requests, Passkey!LoginAnswer(r) PROVE ChallengeInv'
    <2>0. PICK z \in Challenges : z = ceremony[r].with.challenge
        BY DEF Passkey!Assertion
    <2>2. r \in Passing(z) /\ Answered(z) = {}
        BY <1>8, <2>0 DEF Passkey!LoginAnswer, Passing
    <2>3. Passing(z)' = {} /\ \A x \in Challenges \ {z} : Passing(x)' = Passing(x)
        BY <1>8, <2>0, <2>2 DEF Passkey!LoginAnswer, Passing
    <2>4. \A y, y2 \in Answered(z)' : y = y2
        BY <1>8, <2>0, <2>2 DEF Passkey!LoginAnswer, Answered
    <2>5. \A x \in Challenges \ {z} : Answered(x)' = Answered(x)
        BY <1>8, <2>0 DEF Passkey!LoginAnswer, Answered
    <2>6. UNCHANGED <<open, used>>
        BY <1>8 DEF Passkey!LoginAnswer
    <2>7. z \in used' /\ z \notin open'
        BY <2>2, <2>6
    <2>8. ASSUME NEW x \in Challenges \ {z}
          PROVE  /\ x \in open' \/ x \notin used' => Passing(x)' = {} /\ Answered(x)' = {}
                 /\ Passing(x)' # {} => Answered(x)' = {}
                 /\ \A a, b \in Passing(x)' : a = b
                 /\ \A a, b \in Answered(x)' : a = b
        BY <2>3, <2>5, <2>6
    <2>9. /\ z \in open' \/ z \notin used' => Passing(z)' = {} /\ Answered(z)' = {}
          /\ Passing(z)' # {} => Answered(z)' = {}
          /\ \A a, b \in Passing(z)' : a = b
          /\ \A a, b \in Answered(z)' : a = b
        BY <2>3, <2>4, <2>6, <2>7
    <2>. QED BY <2>8, <2>9
<1>9. ASSUME NEW k, Passkey!DeleteCredential(k) PROVE ChallengeInv'
    BY <1>1, <1>9 DEF Passkey!DeleteCredential, Passing
<1>. QED
    BY <1>2, <1>3, <1>4, <1>5, <1>6, <1>7, <1>8, <1>9 DEF Passkey!Next

LEMMA PasskeyAlways == AllSpec => [](area = "passkeys" => PasskeyInv)
<1>1. AllInit => (area = "passkeys" => PasskeyInv)
    <2>. SUFFICES ASSUME Passkey!Init PROVE PasskeyInv
        BY DEF AllInit
    <2>. USE ChallengesCounted, QuietCeremony DEF Passkey!Init
    <2>1. PasskeyTyped
        BY DEF PasskeyTyped
    <2>2. \A x \in Challenges : Passing(x) = {} /\ Answered(x) = {}
        BY DEF Passing, Answered, Passkey!Quiet
    <2>. QED BY <2>1, <2>2 DEF PasskeyInv, ChallengeInv
<1>2. (area = "passkeys" => PasskeyInv) /\ [AllNext]_allVars => (area = "passkeys" => PasskeyInv)'
    <2>. SUFFICES ASSUME area = "passkeys" => PasskeyInv, [AllNext]_allVars, area' = "passkeys" PROVE PasskeyInv'
        OBVIOUS
    <2>1. area = "passkeys" /\ (Passkey!Next \/ UNCHANGED passkeyVars)
        BY DEF AllNext, allVars
    <2>2. CASE Passkey!Next
        BY <2>1, <2>2, PasskeyTypedStep, ChallengeStep DEF PasskeyInv
    <2>3. CASE UNCHANGED passkeyVars
        BY <2>1, <2>3 DEF passkeyVars, PasskeyInv, PasskeyTyped, ChallengeInv, Passing, Answered
    <2>. QED BY <2>1, <2>2, <2>3
<1>. QED BY <1>1, <1>2, PTL DEF AllSpec

\* An assertion delivered again, or at once to two processes, opens one session: a challenge
\* signs in once (app/api/v1/auth.py).
THEOREM ChallengesSignInOnce == AllSpec => []ChallengeSignsInOnce
<1>1. ASSUME PasskeyInv, NEW x \in Challenges
      PROVE  Passkey!Cardinality(Passing(x)) + Passkey!Cardinality(Answered(x)) <= 1
    <2>1. ASSUME NEW S, \A a, b \in S : a = b
          PROVE  Passkey!Cardinality(S) \in {0, 1} /\ (S = {} => Passkey!Cardinality(S) = 0)
        <3>1. Passkey!Cardinality(S) = Cardinality(S)
            BY DEF Cardinality, Passkey!Cardinality, IsFiniteSet, Passkey!IsFiniteSet
        <3>2. CASE S = {}
            BY <3>1, <3>2, FS_EmptySet
        <3>3. CASE S # {}
            <4>1. PICK a : S = {a}
                BY <2>1, <3>3
            <4>. QED BY <3>1, <3>3, <4>1, FS_Singleton
        <3>. QED BY <3>2, <3>3
    <2>2. \/ Passing(x) = {} \/ Answered(x) = {}
        BY <1>1 DEF PasskeyInv, ChallengeInv
    <2>3. /\ Passkey!Cardinality(Passing(x)) \in {0, 1} /\ (Passing(x) = {} => Passkey!Cardinality(Passing(x)) = 0)
          /\ Passkey!Cardinality(Answered(x)) \in {0, 1} /\ (Answered(x) = {} => Passkey!Cardinality(Answered(x)) = 0)
        BY <1>1, <2>1 DEF PasskeyInv, ChallengeInv
    <2>. QED BY <2>2, <2>3
<1>2. (area = "passkeys" => PasskeyInv) => ChallengeSignsInOnce
    BY <1>1 DEF ChallengeSignsInOnce, Passkey!ChallengeSignsInOnce, Passing, Answered
<1>. QED BY <1>2, PasskeyAlways, PTL

-----------------------------------------------------------------------------
(* Chat turns                                                              *)

TurnSteps == {"idle", "begin", "supervise", "onboarding", "smalltalk", "service", "synthesize",
              "commit", "rollback", "reply", "title", "titled", "over"}
Stagings  == UNION {[S -> Chat!Stages] : S \in SUBSET Turns}
TurnRow   == [at : TurnSteps, cid : Chat!Ids, state : Chat!Scratch, made : BOOLEAN, opened : Nat,
              leads : Stagings, handoff : BOOLEAN, broken : BOOLEAN, left : BOOLEAN]

ChatTyped ==
    /\ caller \in {Self, None} /\ saved \in Chat!Scratch
    /\ turn \in [Turns -> TurnRow]
    /\ thread \in [owner : Chat!Ids, title : {"none", "generated", "renamed"},
                   asked : SUBSET Turns, answered : SUBSET Turns]
    /\ opened \subseteq Turns /\ accounts \in [Turns -> Nat] /\ leads \in Stagings /\ handoffs \subseteq Turns
    /\ chatFaults \in Nat /\ audited \in BOOLEAN /\ committed \subseteq Turns /\ peak \in Nat

LEMMA Restaged ==
    /\ \A t \in Turns, stage \in Chat!Stages, f \in Stagings : Chat!Put(t, stage, f) \in Stagings
    /\ \A f, g \in Stagings : Chat!Onto(f, g) \in Stagings
    /\ \A f \in Stagings : DOMAIN f \subseteq Turns
<1>1. \A f \in Stagings : DOMAIN f \subseteq Turns
    BY DEF Stagings
<1>2. ASSUME NEW f \in Stagings, NEW g \in Stagings PROVE Chat!Onto(f, g) \in Stagings
    <2>1. PICK S \in SUBSET Turns, T \in SUBSET Turns : f \in [S -> Chat!Stages] /\ g \in [T -> Chat!Stages]
        BY DEF Stagings
    <2>2. Chat!Onto(f, g) \in [S \cup T -> Chat!Stages]
        BY <2>1 DEF Chat!Onto
    <2>. QED BY <2>2 DEF Stagings
<1>3. ASSUME NEW t \in Turns, NEW stage \in Chat!Stages, NEW f \in Stagings
      PROVE  Chat!Put(t, stage, f) \in Stagings
    <2>1. PICK S \in SUBSET Turns : f \in [S -> Chat!Stages]
        BY DEF Stagings
    <2>2. Chat!Put(t, stage, f) \in [{t} \cup S -> Chat!Stages]
        BY <2>1 DEF Chat!Put
    <2>. QED BY <2>2 DEF Stagings
<1>. QED BY <1>1, <1>2, <1>3

LEMMA ChatAssumed ==
    /\ IsFiniteSet(Turns) /\ Self \notin Turns /\ None \notin Turns \cup {Self} /\ MaxTools \in Nat
    /\ Bags \subseteq [fields : SUBSET {"name", "pan"}, kyc : {"open", "verified", "refused"}]
BY CustomerAssumption

LEMMA ChatConstants ==
    /\ Chat!NoTurn \in TurnRow /\ Chat!Fresh \in Chat!Scratch
    /\ \A t \in Turns : t \in Chat!Ids /\ t # None /\ t # Self
    /\ Self \in Chat!Ids /\ None \in Chat!Ids /\ Self # None
    /\ Chat!NoThread.owner = None /\ Chat!NoThread.answered = {}
<1>1. Chat!NoLeads \in Stagings
    <2>1. Chat!NoLeads \in [{} -> Chat!Stages]
        BY DEF Chat!NoLeads
    <2>. QED BY <2>1 DEF Stagings
<1>2. Chat!Fresh \in Chat!Scratch
    BY DEF Chat!Fresh, Chat!Scratch, Chat!Ids
<1>3. Chat!NoTurn \in TurnRow
    BY <1>1, <1>2 DEF Chat!NoTurn, TurnRow, TurnSteps, Chat!Ids
<1>. QED BY <1>2, <1>3, ChatAssumed DEF Chat!Ids, Chat!NoThread

\* What a step of a turn makes of its row.
LEMMA TurnRows ==
    ASSUME NEW v \in TurnRow
    PROVE  /\ \A a \in TurnSteps : [v EXCEPT !.at = a] \in TurnRow
           /\ \A a \in TurnSteps, c \in Chat!Ids : [v EXCEPT !.at = a, !.cid = c] \in TurnRow
           /\ \A a \in TurnSteps, q \in Chat!Scratch : [v EXCEPT !.at = a, !.state = q] \in TurnRow
           /\ \A ls \in Stagings, q \in Chat!Scratch : [v EXCEPT !.leads = ls, !.state = q] \in TurnRow
           /\ \A ls \in Stagings : [v EXCEPT !.leads = ls] \in TurnRow
           /\ \A q \in Chat!Scratch : [v EXCEPT !.state = q] \in TurnRow
           /\ \A c \in Chat!Ids, m \in BOOLEAN, n \in Nat, ls \in Stagings, q \in Chat!Scratch :
                [v EXCEPT !.cid = c, !.made = m, !.opened = n, !.leads = ls, !.state = q] \in TurnRow
           /\ [v EXCEPT !.handoff = TRUE] \in TurnRow
           /\ [v EXCEPT !.broken = TRUE] \in TurnRow
           /\ \A a \in TurnSteps : [v EXCEPT !.at = a, !.broken = TRUE] \in TurnRow
           /\ [v EXCEPT !.left = TRUE] \in TurnRow
<1>. USE DEF TurnRow
<1>1. \A a \in TurnSteps : [v EXCEPT !.at = a] \in TurnRow
    OBVIOUS
<1>2. \A a \in TurnSteps, c \in Chat!Ids : [v EXCEPT !.at = a, !.cid = c] \in TurnRow
    OBVIOUS
<1>3. \A a \in TurnSteps, q \in Chat!Scratch : [v EXCEPT !.at = a, !.state = q] \in TurnRow
    OBVIOUS
<1>4. \A ls \in Stagings, q \in Chat!Scratch : [v EXCEPT !.leads = ls, !.state = q] \in TurnRow
    OBVIOUS
<1>5. \A ls \in Stagings : [v EXCEPT !.leads = ls] \in TurnRow
    OBVIOUS
<1>6. \A q \in Chat!Scratch : [v EXCEPT !.state = q] \in TurnRow
    OBVIOUS
<1>7. \A c \in Chat!Ids, m \in BOOLEAN, n \in Nat, ls \in Stagings, q \in Chat!Scratch :
        [v EXCEPT !.cid = c, !.made = m, !.opened = n, !.leads = ls, !.state = q] \in TurnRow
    OBVIOUS
<1>8. [v EXCEPT !.handoff = TRUE] \in TurnRow
    OBVIOUS
<1>9. [v EXCEPT !.broken = TRUE] \in TurnRow
    OBVIOUS
<1>10. \A a \in TurnSteps : [v EXCEPT !.at = a, !.broken = TRUE] \in TurnRow
    OBVIOUS
<1>11. [v EXCEPT !.left = TRUE] \in TurnRow
    OBVIOUS
<1>. QED BY <1>1, <1>2, <1>3, <1>4, <1>5, <1>6, <1>7, <1>8, <1>9, <1>10, <1>11

LEMMA Scratches ==
    ASSUME NEW q \in Chat!Scratch
    PROVE  /\ \A c \in Chat!Ids : [q EXCEPT !.customer = c] \in Chat!Scratch
           /\ \A l \in Turns : [q EXCEPT !.lead = l] \in Chat!Scratch
           /\ \A f \in SUBSET Chat!Fields : [q EXCEPT !.fields = f] \in Chat!Scratch
           /\ \A k \in {"verified", "refused"} : [q EXCEPT !.kyc = k] \in Chat!Scratch
BY DEF Chat!Scratch

LEMMA ChatTypedStep == ASSUME ChatTyped, Chat!Next PROVE ChatTyped'
<1>. USE ChatConstants DEF ChatTyped, Chat!rows, Chat!history, Chat!Works, Chat!Fails
<1>0. \A t \in Turns : /\ turn[t] \in TurnRow /\ turn[t].state \in Chat!Scratch /\ turn[t].cid \in Chat!Ids
                       /\ turn[t].leads \in Stagings /\ turn[t].opened \in Nat /\ turn[t].made \in BOOLEAN
                       /\ turn[t].state.lead \in Turns \cup {None} /\ turn[t].state.customer \in Chat!Ids
                       /\ turn[t].state.fields \subseteq Chat!Fields
    BY DEF TurnRow, Chat!Scratch
<1>1. ASSUME NEW t \in Turns, NEW v \in TurnRow, turn' = [turn EXCEPT ![t] = v]
      PROVE  turn' \in [Turns -> TurnRow]
    BY <1>1
<1>2. ASSUME NEW t \in Turns, NEW a \in TurnSteps, Chat!Goto(t, a) \/ Chat!Close(t, a)
      PROVE  turn' \in [Turns -> TurnRow]
    <2>1. \/ turn' = [turn EXCEPT ![t] = [turn[t] EXCEPT !.at = a]]
          \/ turn' = [turn EXCEPT ![t] = [Chat!NoTurn EXCEPT !.at = a]]
        BY <1>2 DEF Chat!Goto, Chat!Close
    <2>2. /\ [turn[t] EXCEPT !.at = a] \in TurnRow
          /\ [Chat!NoTurn EXCEPT !.at = a] \in TurnRow
        BY <1>0, TurnRows
    <2>. QED BY <1>1, <2>1, <2>2
<1>3. ASSUME NEW t \in Turns, NEW stage \in Chat!Stages PROVE Chat!Staged(t, stage) \in Stagings
    <2>1. Chat!HasLead(t) => turn[t].state.lead \in Turns
        BY <1>0, Restaged DEF Chat!HasLead
    <2>. QED BY <1>0, <2>1, Restaged DEF Chat!Staged
<1>4. ASSUME NEW owner \in Chat!Ids, NEW kind, NEW t \in Turns
      PROVE  Chat!WithMessage(owner, kind, t) \in [owner : Chat!Ids, title : {"none", "generated", "renamed"},
                                                   asked : SUBSET Turns, answered : SUBSET Turns]
    BY DEF Chat!WithMessage
<1>5. ASSUME NEW t \in Turns, Chat!Ask(t) PROVE ChatTyped'
    <2>1. [Chat!NoTurn EXCEPT !.at = "begin", !.cid = caller] \in TurnRow
        BY TurnRows DEF TurnSteps
    <2>2. turn' \in [Turns -> TurnRow]
        BY <1>1, <1>5, <2>1 DEF Chat!Ask
    <2>3. Chat!Cardinality(Chat!InFlight) = Cardinality(Chat!InFlight) /\ Cardinality(Chat!InFlight) \in Nat
        <3>1. Chat!Cardinality(Chat!InFlight) = Cardinality(Chat!InFlight)
            BY DEF Cardinality, Chat!Cardinality, IsFiniteSet, Chat!IsFiniteSet
        <3>2. Chat!InFlight \subseteq Turns
            BY DEF Chat!InFlight
        <3>. QED BY <3>1, <3>2, ChatAssumed, FS_Subset, FS_CardinalityType
    <2>. QED BY <1>5, <2>2, <2>3 DEF Chat!Ask
<1>6. ASSUME NEW t \in Turns, Chat!Begin(t) PROVE ChatTyped'
    <2>. DEFINE q == IF turn[t].cid = None THEN saved ELSE [saved EXCEPT !.customer = turn[t].cid]
    <2>1. q \in Chat!Scratch
        BY <1>0, Scratches
    <2>2. turn' = [turn EXCEPT ![t] = [turn[t] EXCEPT !.at = "supervise", !.state = q]]
        BY <1>6 DEF Chat!Begin
    <2>3. [turn[t] EXCEPT !.at = "supervise", !.state = q] \in TurnRow
        <3>. HIDE DEF q
        <3>. QED BY <1>0, <2>1, TurnRows DEF TurnSteps
    <2>4. turn' \in [Turns -> TurnRow]
        BY <1>1, <2>2, <2>3
    <2>. QED BY <1>0, <1>4, <1>6, <2>4 DEF Chat!Begin
<1>7. ASSUME NEW t \in Turns, Chat!Supervise(t) PROVE ChatTyped'
    <2>1. turn' \in [Turns -> TurnRow]
        BY <1>2, <1>7 DEF Chat!Supervise, TurnSteps
    <2>. QED BY <1>0, <1>7, <2>1 DEF Chat!Supervise, Chat!Save
<1>8. ASSUME NEW t \in Turns, Chat!CreateLead(t) PROVE ChatTyped'
    <2>. DEFINE ls == Chat!Put(t, "new", turn[t].leads)
                q  == [turn[t].state EXCEPT !.lead = t]
    <2>1. ls \in Stagings /\ q \in Chat!Scratch
        BY <1>0, Restaged, Scratches DEF Chat!Stages
    <2>2. turn' = [turn EXCEPT ![t] = [turn[t] EXCEPT !.leads = ls, !.state = q]]
        BY <1>8 DEF Chat!CreateLead, Chat!Step
    <2>3. [turn[t] EXCEPT !.leads = ls, !.state = q] \in TurnRow
        <3>. HIDE DEF ls, q
        <3>. QED BY <1>0, <2>1, TurnRows
    <2>4. turn' \in [Turns -> TurnRow]
        BY <1>1, <2>2, <2>3
    <2>. QED BY <1>8, <2>4 DEF Chat!CreateLead
<1>9. ASSUME NEW t \in Turns, Chat!Qualify(t) PROVE ChatTyped'
    <2>1. turn' = [turn EXCEPT ![t] = [turn[t] EXCEPT !.leads = Chat!Staged(t, "qualified")]]
        BY <1>9 DEF Chat!Qualify, Chat!Step
    <2>2. [turn[t] EXCEPT !.leads = Chat!Staged(t, "qualified")] \in TurnRow
        BY <1>0, <1>3, TurnRows DEF Chat!Stages
    <2>3. turn' \in [Turns -> TurnRow]
        BY <1>1, <2>1, <2>2
    <2>. QED BY <1>9, <2>3 DEF Chat!Qualify
<1>10. ASSUME NEW t \in Turns, NEW f \in Chat!Fields, Chat!Collect(t, f) PROVE ChatTyped'
    <2>. DEFINE q == [turn[t].state EXCEPT !.fields = turn[t].state.fields \cup {f}]
    <2>1. q \in Chat!Scratch
        BY <1>0, Scratches
    <2>2. turn' = [turn EXCEPT ![t] = [turn[t] EXCEPT !.state = q]]
        BY <1>10 DEF Chat!Collect, Chat!Step
    <2>3. [turn[t] EXCEPT !.state = q] \in TurnRow
        <3>. HIDE DEF q
        <3>. QED BY <1>0, <2>1, TurnRows
    <2>4. turn' \in [Turns -> TurnRow]
        BY <1>1, <2>2, <2>3
    <2>. QED BY <1>10, <2>4 DEF Chat!Collect
<1>11. ASSUME NEW t \in Turns, Chat!Verify(t) PROVE ChatTyped'
    <2>1. PICK k \in {"verified", "refused"} :
            turn' = [turn EXCEPT ![t] = [turn[t] EXCEPT !.state = [turn[t].state EXCEPT !.kyc = k]]]
        BY <1>11 DEF Chat!Verify, Chat!Step
    <2>2. [turn[t] EXCEPT !.state = [turn[t].state EXCEPT !.kyc = k]] \in TurnRow
        BY <1>0, TurnRows, Scratches
    <2>3. turn' \in [Turns -> TurnRow]
        BY <1>1, <2>1, <2>2
    <2>4. chatFaults' \in Nat
        BY <1>11 DEF Chat!Verify
    <2>5. audited' = TRUE \/ audited' = audited \/ \E k2 : audited' = (audited \/ k2 = "verified")
        BY <1>11 DEF Chat!Verify
    <2>6. audited' \in BOOLEAN
        BY <2>5, Zenon
    <2>. QED BY <1>11, <2>3, <2>4, <2>6 DEF Chat!Verify
<1>12. ASSUME NEW t \in Turns, Chat!Open(t) PROVE ChatTyped'
    <2>. DEFINE new == turn[t].cid = None
                c   == IF new THEN t ELSE turn[t].cid
                q   == [turn[t].state EXCEPT !.customer = IF new THEN t ELSE turn[t].state.customer]
    <2>1. q \in Chat!Scratch /\ c \in Chat!Ids
        BY <1>0, Scratches
    <2>2. turn' = [turn EXCEPT ![t] = [turn[t] EXCEPT !.cid = c, !.made = turn[t].made \/ new,
                        !.opened = turn[t].opened + 1, !.leads = Chat!Staged(t, "converted"), !.state = q]]
        BY <1>12 DEF Chat!Open, Chat!Step
    <2>3. [turn[t] EXCEPT !.cid = c, !.made = turn[t].made \/ new, !.opened = turn[t].opened + 1,
                          !.leads = Chat!Staged(t, "converted"), !.state = q] \in TurnRow
        <3>1. (turn[t].made \/ new) \in BOOLEAN /\ turn[t].opened + 1 \in Nat
            BY <1>0
        <3>2. Chat!Staged(t, "converted") \in Stagings
            BY <1>3 DEF Chat!Stages
        <3>. HIDE DEF q, c, new
        <3>. QED BY <1>0, <2>1, <3>1, <3>2, TurnRows
    <2>4. turn' \in [Turns -> TurnRow]
        BY <1>1, <2>2, <2>3
    <2>. QED BY <1>12, <2>4 DEF Chat!Open
<1>13. ASSUME NEW t \in Turns, Chat!RequestHandoff(t) \/ Chat!Break(t) PROVE ChatTyped'
    <2>1. \/ turn' = [turn EXCEPT ![t] = [turn[t] EXCEPT !.handoff = TRUE]]
          \/ turn' = [turn EXCEPT ![t] = [turn[t] EXCEPT !.broken = TRUE]]
        BY <1>13 DEF Chat!RequestHandoff, Chat!Break, Chat!Step
    <2>2. turn' \in [Turns -> TurnRow]
        BY <1>0, <1>1, <2>1, TurnRows
    <2>. QED BY <1>13, <2>2 DEF Chat!RequestHandoff, Chat!Break
<1>14. ASSUME NEW t \in Turns, Chat!Answered(t) \/ Chat!Raise(t) PROVE ChatTyped'
    <2>1. turn' \in [Turns -> TurnRow]
        BY <1>2, <1>14 DEF Chat!Answered, Chat!Raise, TurnSteps
    <2>. QED BY <1>0, <1>14, <2>1 DEF Chat!Answered, Chat!Raise, Chat!Save
<1>15. ASSUME NEW t \in Turns, Chat!Synthesize(t) PROVE ChatTyped'
    <2>1. \/ Chat!Goto(t, "commit")
          \/ turn' = [turn EXCEPT ![t] = [turn[t] EXCEPT !.at = "commit", !.broken = TRUE]]
        BY <1>15 DEF Chat!Synthesize
    <2>2. [turn[t] EXCEPT !.at = "commit", !.broken = TRUE] \in TurnRow
        BY <1>0, TurnRows DEF TurnSteps
    <2>3. turn' \in [Turns -> TurnRow]
        BY <1>1, <1>2, <2>1, <2>2 DEF TurnSteps
    <2>. QED BY <1>0, <1>15, <2>3 DEF Chat!Synthesize, Chat!Save
<1>16. ASSUME NEW t \in Turns, Chat!Commit(t) PROVE ChatTyped'
    <2>1. turn' \in [Turns -> TurnRow]
        BY <1>2, <1>16 DEF Chat!Commit, Chat!Over, Chat!AfterBroken, TurnSteps
    <2>2. accounts' \in [Turns -> Nat] /\ leads' \in Stagings
        BY <1>0, <1>16, Restaged DEF Chat!Commit
    <2>. QED BY <1>16, <2>1, <2>2 DEF Chat!Commit
<1>17. ASSUME NEW t \in Turns, Chat!Rollback(t) \/ Chat!ReadTitle(t) PROVE ChatTyped'
    <2>1. turn' \in [Turns -> TurnRow]
        BY <1>2, <1>17 DEF Chat!Rollback, Chat!ReadTitle, Chat!Over, TurnSteps
    <2>. QED BY <1>17, <2>1 DEF Chat!Rollback, Chat!ReadTitle
<1>18. ASSUME NEW t \in Turns, Chat!Reply(t) PROVE ChatTyped'
    <2>1. turn' \in [Turns -> TurnRow]
        BY <1>2, <1>18 DEF Chat!Reply, TurnSteps
    <2>2. Chat!Owner(t) \in Chat!Ids
        BY <1>0 DEF Chat!Owner
    <2>. QED BY <1>4, <1>18, <2>1, <2>2 DEF Chat!Reply
<1>19. ASSUME NEW t \in Turns, Chat!Leave(t) PROVE ChatTyped'
    <2>1. Chat!Close(t, "over") \/ turn' = [turn EXCEPT ![t] = [turn[t] EXCEPT !.left = TRUE]]
        BY <1>19 DEF Chat!Leave, Chat!Over
    <2>2. turn' \in [Turns -> TurnRow]
        BY <1>0, <1>1, <1>2, <2>1, TurnRows DEF TurnSteps
    <2>. QED BY <1>19, <2>2 DEF Chat!Leave
<1>20. ASSUME NEW t \in Turns, Chat!WriteTitle(t) PROVE ChatTyped'
    <2>1. turn' \in [Turns -> TurnRow]
        BY <1>2, <1>20 DEF Chat!WriteTitle, Chat!Over, TurnSteps
    <2>. QED BY <1>20, <2>1 DEF Chat!WriteTitle
<1>21. ASSUME Chat!Rename \/ Chat!Delete \/ \E t \in Turns : Chat!Resolve(t) PROVE ChatTyped'
    BY <1>21 DEF Chat!Rename, Chat!Delete, Chat!NoThread, Chat!Resolve
<1>. QED
    BY <1>5, <1>6, <1>7, <1>8, <1>9, <1>10, <1>11, <1>12, <1>13, <1>14, <1>15, <1>16, <1>17, <1>18, <1>19,
       <1>20, <1>21 DEF Chat!Next

\* The reply comes after the commit.
ReplyInv ==
    /\ thread.answered \subseteq committed
    /\ \A t \in Turns : turn[t].at = "reply" => t \in committed

\* Nobody is verified, in a run, in what it left for the next, or in what a tool opened on
\* the strength of it, before the trail shows it.
GateInv == audited \/ chatFaults > 0 \/
    /\ saved.kyc # "verified"
    /\ \A t \in Turns : turn[t].state.kyc # "verified" /\ turn[t].opened = 0 /\ accounts[t] = 0

ReplyGateInv == ChatTyped /\ ReplyInv /\ GateInv

LEMMA ReplyStep == ASSUME ReplyGateInv, Chat!Next PROVE ReplyInv'
<1>. USE ChatConstants
     DEF ReplyGateInv, ReplyInv, ChatTyped, TurnRow, Chat!Goto, Chat!Close, Chat!Over, Chat!Step, Chat!Works,
         Chat!Fails, Chat!rows, Chat!history
<1>1. ASSUME NEW t \in Turns, Chat!Ask(t) PROVE ReplyInv'
    BY <1>1 DEF Chat!Ask
<1>2. ASSUME NEW t \in Turns, Chat!Begin(t) PROVE ReplyInv'
    BY <1>2 DEF Chat!Begin, Chat!WithMessage
<1>3. ASSUME NEW t \in Turns,
             \/ Chat!Supervise(t) \/ Chat!CreateLead(t) \/ Chat!Qualify(t) \/ Chat!Verify(t)
             \/ Chat!Open(t) \/ Chat!RequestHandoff(t) \/ (\E f \in Chat!Fields : Chat!Collect(t, f))
      PROVE  ReplyInv'
    <2>1. CASE Chat!Supervise(t)
        BY <2>1 DEF Chat!Supervise
    <2>2. CASE Chat!CreateLead(t)
        BY <2>2 DEF Chat!CreateLead, Chat!Calls
    <2>3. CASE Chat!Qualify(t)
        BY <2>3 DEF Chat!Qualify, Chat!Calls
    <2>4. CASE Chat!Verify(t)
        BY <2>4 DEF Chat!Verify, Chat!Calls
    <2>5. CASE Chat!Open(t)
        BY <2>5 DEF Chat!Open, Chat!Calls
    <2>6. CASE Chat!RequestHandoff(t)
        BY <2>6 DEF Chat!RequestHandoff, Chat!Calls
    <2>7. CASE \E f \in Chat!Fields : Chat!Collect(t, f)
        BY <2>7 DEF Chat!Collect, Chat!Calls
    <2>. QED BY <1>3, <2>1, <2>2, <2>3, <2>4, <2>5, <2>6, <2>7
<1>4. ASSUME NEW t \in Turns,
             Chat!Break(t) \/ Chat!Answered(t) \/ Chat!Raise(t) \/ Chat!Synthesize(t)
      PROVE  ReplyInv'
    BY <1>4 DEF Chat!Break, Chat!Answered, Chat!Raise, Chat!Synthesize
<1>5. ASSUME NEW t \in Turns, Chat!Commit(t) PROVE ReplyInv'
    BY <1>5 DEF Chat!Commit, Chat!AfterBroken
<1>6. ASSUME NEW t \in Turns, Chat!Rollback(t) \/ Chat!Leave(t) \/ Chat!ReadTitle(t) PROVE ReplyInv'
    BY <1>6 DEF Chat!Rollback, Chat!Leave, Chat!ReadTitle
<1>7. ASSUME NEW t \in Turns, Chat!Reply(t) PROVE ReplyInv'
    <2>1. t \in committed /\ committed' = committed
        BY <1>7 DEF Chat!Reply, Chat!At
    <2>2. thread'.answered \subseteq thread.answered \cup {t}
        BY <1>7 DEF Chat!Reply, Chat!WithMessage
    <2>3. \A s \in Turns : turn'[s].at = "reply" => turn[s].at = "reply"
        BY <1>7 DEF Chat!Reply
    <2>. QED BY <2>1, <2>2, <2>3
<1>8. ASSUME NEW t \in Turns, Chat!WriteTitle(t) PROVE ReplyInv'
    BY <1>8 DEF Chat!WriteTitle
<1>9. ASSUME Chat!Rename \/ Chat!Delete \/ \E t \in Turns : Chat!Resolve(t) PROVE ReplyInv'
    BY <1>9 DEF Chat!Rename, Chat!Delete, Chat!Resolve
<1>. QED
    BY <1>1, <1>2, <1>3, <1>4, <1>5, <1>6, <1>7, <1>8, <1>9 DEF Chat!Next

LEMMA GateStep == ASSUME ReplyGateInv, Chat!Next PROVE GateInv'
<1>. USE ChatConstants
     DEF ReplyGateInv, GateInv, ChatTyped, TurnRow, Chat!Scratch, Chat!Goto, Chat!Close, Chat!Over, Chat!Step,
         Chat!Works, Chat!Fails, Chat!rows, Chat!history, Chat!Save
<1>0. Chat!NoTurn.state.kyc = "open" /\ Chat!NoTurn.opened = 0
    BY DEF Chat!NoTurn, Chat!Fresh
<1>1. ASSUME NEW t \in Turns, Chat!Ask(t) PROVE GateInv'
    BY <1>0, <1>1 DEF Chat!Ask
<1>2. ASSUME NEW t \in Turns, Chat!Begin(t) PROVE GateInv'
    BY <1>2 DEF Chat!Begin
<1>3. ASSUME NEW t \in Turns,
             \/ Chat!CreateLead(t) \/ Chat!Qualify(t) \/ Chat!RequestHandoff(t)
             \/ (\E f \in Chat!Fields : Chat!Collect(t, f)) \/ Chat!Break(t) \/ Chat!Raise(t)
      PROVE  GateInv'
    <2>1. CASE Chat!CreateLead(t)
        BY <2>1 DEF Chat!CreateLead
    <2>2. CASE Chat!Qualify(t)
        BY <2>2 DEF Chat!Qualify
    <2>3. CASE Chat!RequestHandoff(t)
        BY <2>3 DEF Chat!RequestHandoff
    <2>4. CASE \E f \in Chat!Fields : Chat!Collect(t, f)
        BY <2>4 DEF Chat!Collect
    <2>5. CASE Chat!Break(t)
        BY <2>5 DEF Chat!Break
    <2>6. CASE Chat!Raise(t)
        BY <2>6 DEF Chat!Raise
    <2>. QED BY <1>3, <2>1, <2>2, <2>3, <2>4, <2>5, <2>6
<1>4. ASSUME NEW t \in Turns, Chat!Verify(t) PROVE GateInv'
    <2>1. PICK k \in {"verified", "refused"} :
            /\ turn' = [turn EXCEPT ![t] = [turn[t] EXCEPT !.state.kyc = k]]
            /\ \/ chatFaults' = chatFaults /\ audited' = (audited \/ k = "verified")
               \/ chatFaults' = chatFaults + 1 /\ audited' = audited
        BY <1>4 DEF Chat!Verify
    <2>2. UNCHANGED <<saved, accounts>>
        BY <1>4 DEF Chat!Verify
    <2>3. CASE audited' \/ chatFaults' > 0
        BY <2>3
    <2>4. CASE ~audited' /\ ~(chatFaults' > 0)
        <3>1. audited' = (audited \/ k = "verified") /\ chatFaults' = chatFaults
            BY <2>1, <2>4
        <3>2. ~audited /\ k # "verified"
            BY <2>4, <3>1, Zenon
        <3>3. saved.kyc # "verified"
              /\ \A s \in Turns : turn[s].state.kyc # "verified" /\ turn[s].opened = 0 /\ accounts[s] = 0
            BY <2>4, <3>1, <3>2
        <3>. QED BY <2>1, <2>2, <3>2, <3>3
    <2>. QED BY <2>3, <2>4
<1>5. ASSUME NEW t \in Turns, Chat!Open(t) PROVE GateInv'
    BY <1>5 DEF Chat!Open, Chat!Gate
<1>6. ASSUME NEW t \in Turns, Chat!Supervise(t) \/ Chat!Answered(t) \/ Chat!Synthesize(t) PROVE GateInv'
    BY <1>6 DEF Chat!Supervise, Chat!Answered, Chat!Synthesize
<1>7. ASSUME NEW t \in Turns, Chat!Commit(t) PROVE GateInv'
    BY <1>0, <1>7 DEF Chat!Commit, Chat!AfterBroken
<1>8. ASSUME NEW t \in Turns,
             Chat!Rollback(t) \/ Chat!Reply(t) \/ Chat!Leave(t) \/ Chat!ReadTitle(t) \/ Chat!WriteTitle(t)
      PROVE  GateInv'
    <2>1. CASE Chat!Rollback(t)
        BY <1>0, <2>1 DEF Chat!Rollback
    <2>2. CASE Chat!Reply(t)
        BY <1>0, <2>2 DEF Chat!Reply
    <2>3. CASE Chat!Leave(t)
        BY <1>0, <2>3 DEF Chat!Leave
    <2>4. CASE Chat!ReadTitle(t)
        BY <1>0, <2>4 DEF Chat!ReadTitle
    <2>5. CASE Chat!WriteTitle(t)
        BY <1>0, <2>5 DEF Chat!WriteTitle
    <2>. QED BY <1>8, <2>1, <2>2, <2>3, <2>4, <2>5
<1>9. ASSUME Chat!Rename \/ Chat!Delete \/ \E t \in Turns : Chat!Resolve(t) PROVE GateInv'
    BY <1>9 DEF Chat!Rename, Chat!Delete, Chat!Resolve
<1>. QED
    BY <1>1, <1>2, <1>3, <1>4, <1>5, <1>6, <1>7, <1>8, <1>9 DEF Chat!Next

LEMMA ChatInit == ASSUME Chat!Init PROVE ReplyGateInv
<1>. USE ChatConstants, ChatAssumed DEF Chat!Init
<1>1. PICK past \in Bags : saved = [fields |-> past.fields, kyc |-> past.kyc, lead |-> None, customer |-> None]
    OBVIOUS
<1>2. saved \in Chat!Scratch
    BY <1>1 DEF Chat!Scratch, Chat!Fields
<1>3. Chat!NoLeads \in Stagings
    BY DEF Chat!NoTurn, TurnRow
<1>4. ChatTyped
    BY <1>2, <1>3 DEF ChatTyped, Chat!NoThread
<1>5. ReplyInv
    BY DEF ReplyInv, Chat!NoTurn
<1>6. GateInv
    <2>1. CASE audited
        BY <2>1 DEF GateInv
    <2>2. CASE ~audited
        <3>1. saved.kyc # "verified"
            BY <2>2
        <3>. QED BY <3>1 DEF GateInv, Chat!NoTurn, Chat!Fresh
    <2>. QED BY <2>1, <2>2
<1>. QED BY <1>4, <1>5, <1>6 DEF ReplyGateInv

LEMMA ReplyGateAlways == AllSpec => [](area = "chat" => ReplyGateInv)
<1>1. AllInit => (area = "chat" => ReplyGateInv)
    BY ChatInit DEF AllInit
<1>2. (area = "chat" => ReplyGateInv) /\ [AllNext]_allVars => (area = "chat" => ReplyGateInv)'
    <2>. SUFFICES ASSUME area = "chat" => ReplyGateInv, [AllNext]_allVars, area' = "chat" PROVE ReplyGateInv'
        OBVIOUS
    <2>1. area = "chat" /\ (Chat!Next \/ UNCHANGED chatVars)
        BY DEF AllNext, allVars
    <2>2. CASE Chat!Next
        BY <2>1, <2>2, ChatTypedStep, ReplyStep, GateStep DEF ReplyGateInv
    <2>3. CASE UNCHANGED chatVars
        BY <2>1, <2>3 DEF chatVars, ReplyGateInv, ChatTyped, ReplyInv, GateInv
    <2>. QED BY <2>1, <2>2, <2>3
<1>. QED BY <1>1, <1>2, PTL DEF AllSpec

\* A reply the customer finds in the history stands for committed work, whatever failed or
\* was cancelled on the way (app/api/v1/chat.py).
THEOREM RepliesStandForCommits == AllSpec => []RepliesWereCommitted
<1>1. (area = "chat" => ReplyGateInv) => RepliesWereCommitted
    BY DEF ReplyGateInv, ReplyInv, RepliesWereCommitted, Chat!RepliesWereCommitted
<1>. QED BY <1>1, ReplyGateAlways, PTL

\* "ENFORCED KYC gate": no account without a verification that succeeded and that the trail
\* shows, across turns, overlapping turns and the checkpoints of failed ones
\* (app/agents/acquisition.py).
THEOREM AccountsAreVerified == AllSpec => []AccountsFollowVerification
<1>1. (area = "chat" => ReplyGateInv) => AccountsFollowVerification
    BY DEF ReplyGateInv, ChatTyped, GateInv, AccountsFollowVerification, Chat!AccountsFollowVerification
<1>. QED BY <1>1, ReplyGateAlways, PTL

\* The turns whose session may still be committed or lose its reply, and those that have
\* asked for a human.
Early  == {t \in Turns : turn[t].at \notin {"idle", "title", "titled", "over"}}
Asking == {t \in Turns : turn[t].handoff}

\* A turn makes a customer only for a prospect, and names it in its state.
MadeInv ==
    /\ caller # None =>
         opened = {} /\ \A t \in Turns : ~turn[t].made /\ (t \in Early => turn[t].cid # None)
    /\ \A t \in Turns :
        /\ turn[t].made => turn[t].state.customer = t
        /\ t \in opened => turn[t].at \in {"reply", "title", "titled", "over"}
        /\ t \in opened /\ turn[t].at = "reply" => turn[t].made
        /\ turn[t].handoff => t \in Early

\* A customer whose turn is through owns the thread, which closes it to more prospects, or
\* its reply was lost; before that its turn is one of those in flight together.
CountInv ==
    /\ thread.owner = None => Cardinality(opened \ Early) <= chatFaults
    /\ Cardinality(opened \cup Chat!InFlight) <= peak + chatFaults
    /\ Cardinality(Chat!InFlight) <= peak
    /\ Cardinality(handoffs \cup Asking) <= peak

OverlapInv == ChatTyped /\ MadeInv /\ CountInv

\* Sets of turns are finite and monotone in size.
LEMMA TurnsCounted ==
    ASSUME NEW A, A \subseteq Turns, NEW B, B \subseteq A
    PROVE  /\ IsFiniteSet(A) /\ Cardinality(A) \in Nat /\ Cardinality(B) \in Nat
           /\ Cardinality(B) <= Cardinality(A)
<1>1. IsFiniteSet(A)
    BY FS_Subset, CustomerAssumption
<1>. QED BY <1>1, FS_Subset, FS_CardinalityType

LEMMA OneTurnMore ==
    ASSUME NEW A, A \subseteq Turns, NEW t \in Turns, NEW B, B \subseteq A \cup {t}
    PROVE  Cardinality(B) <= Cardinality(A) + 1 /\ Cardinality(A) \in Nat /\ Cardinality(B) \in Nat
<1>1. IsFiniteSet(A) /\ Cardinality(A) \in Nat
    BY TurnsCounted
<1>2. Cardinality(A \cup {t}) \in Nat /\ Cardinality(A \cup {t}) <= Cardinality(A) + 1
    <2>1. IsFiniteSet(A \cup {t}) /\ Cardinality(A \cup {t}) = IF t \in A THEN Cardinality(A) ELSE Cardinality(A) + 1
        BY <1>1, FS_AddElement
    <2>. QED BY <1>1, <2>1
<1>3. Cardinality(B) \in Nat /\ Cardinality(B) <= Cardinality(A \cup {t})
    BY TurnsCounted
<1>. QED BY <1>1, <1>2, <1>3

\* Steps that make no customer, no request and no turn more.
LEMMA CountKept ==
    ASSUME OverlapInv, ChatTyped', peak' = peak, chatFaults <= chatFaults',
           opened' \cup Chat!InFlight' \subseteq opened \cup Chat!InFlight,
           Chat!InFlight' \subseteq Chat!InFlight,
           handoffs' \cup Asking' \subseteq handoffs \cup Asking,
           thread'.owner = None => Cardinality(opened' \ Early') <= chatFaults'
    PROVE  CountInv'
<1>. USE DEF OverlapInv, CountInv, ChatTyped
<1>1. /\ opened \cup Chat!InFlight \subseteq Turns /\ Chat!InFlight \subseteq Turns
      /\ handoffs \cup Asking \subseteq Turns
    BY DEF Chat!InFlight, Asking
<1>2. /\ Cardinality(opened' \cup Chat!InFlight') <= Cardinality(opened \cup Chat!InFlight)
      /\ Cardinality(opened' \cup Chat!InFlight') \in Nat /\ Cardinality(opened \cup Chat!InFlight) \in Nat
    BY <1>1, TurnsCounted
<1>3. /\ Cardinality(Chat!InFlight') <= Cardinality(Chat!InFlight)
      /\ Cardinality(Chat!InFlight') \in Nat /\ Cardinality(Chat!InFlight) \in Nat
    BY <1>1, TurnsCounted
<1>4. /\ Cardinality(handoffs' \cup Asking') <= Cardinality(handoffs \cup Asking)
      /\ Cardinality(handoffs' \cup Asking') \in Nat /\ Cardinality(handoffs \cup Asking) \in Nat
    BY <1>1, TurnsCounted
<1>5. Cardinality(opened' \cup Chat!InFlight') <= peak' + chatFaults'
    BY <1>2
<1>. QED BY <1>3, <1>4, <1>5

LEMMA MadeStep == ASSUME OverlapInv, Chat!Next PROVE MadeInv'
<1>. USE ChatConstants
     DEF OverlapInv, MadeInv, ChatTyped, TurnRow, Chat!Scratch, Early, Chat!Goto, Chat!Close, Chat!Over, Chat!Step,
         Chat!Calls, Chat!At, Chat!Works, Chat!Fails, Chat!rows, Chat!history
<1>0. ~Chat!NoTurn.made /\ ~Chat!NoTurn.handoff /\ Chat!NoTurn.cid = None
    BY DEF Chat!NoTurn
<1>1. ASSUME NEW t \in Turns, Chat!Ask(t) PROVE MadeInv'
    BY <1>0, <1>1 DEF Chat!Ask
<1>2. ASSUME NEW t \in Turns, Chat!Begin(t) PROVE MadeInv'
    BY <1>2 DEF Chat!Begin
<1>3. ASSUME NEW t \in Turns, Chat!Supervise(t) PROVE MadeInv'
    BY <1>3 DEF Chat!Supervise
<1>4. ASSUME NEW t \in Turns, Chat!CreateLead(t) PROVE MadeInv'
    BY <1>4 DEF Chat!CreateLead
<1>5. ASSUME NEW t \in Turns, Chat!Qualify(t) PROVE MadeInv'
    BY <1>5 DEF Chat!Qualify
<1>6. ASSUME NEW t \in Turns, NEW f \in Chat!Fields, Chat!Collect(t, f) PROVE MadeInv'
    BY <1>6 DEF Chat!Collect
<1>7. ASSUME NEW t \in Turns, Chat!Verify(t) PROVE MadeInv'
    BY <1>7 DEF Chat!Verify
<1>8. ASSUME NEW t \in Turns, Chat!Open(t) PROVE MadeInv'
    BY <1>8 DEF Chat!Open
<1>9. ASSUME NEW t \in Turns, Chat!RequestHandoff(t) PROVE MadeInv'
    BY <1>9 DEF Chat!RequestHandoff
<1>10. ASSUME NEW t \in Turns, Chat!Break(t) PROVE MadeInv'
    BY <1>10 DEF Chat!Break
<1>11. ASSUME NEW t \in Turns, Chat!Answered(t) PROVE MadeInv'
    BY <1>11 DEF Chat!Answered
<1>12. ASSUME NEW t \in Turns, Chat!Raise(t) PROVE MadeInv'
    BY <1>12 DEF Chat!Raise
<1>13. ASSUME NEW t \in Turns, Chat!Synthesize(t) PROVE MadeInv'
    <2>1. \/ turn' = [turn EXCEPT ![t].at = "commit"]
          \/ turn' = [turn EXCEPT ![t].at = "commit", ![t].broken = TRUE]
        BY <1>13 DEF Chat!Synthesize
    <2>2. turn[t].at = "synthesize" /\ UNCHANGED <<caller, opened>>
        BY <1>13 DEF Chat!Synthesize
    <2>3. CASE turn' = [turn EXCEPT ![t].at = "commit"]
        BY <2>2, <2>3
    <2>4. CASE turn' = [turn EXCEPT ![t].at = "commit", ![t].broken = TRUE]
        BY <2>2, <2>4
    <2>. QED BY <2>1, <2>3, <2>4
<1>14. ASSUME NEW t \in Turns, Chat!Commit(t) PROVE MadeInv'
    <2>1. CASE turn[t].left
        <3>1. /\ turn[t].at = "commit" /\ turn' = [turn EXCEPT ![t] = [Chat!NoTurn EXCEPT !.at = "over"]]
              /\ UNCHANGED <<caller, opened>>
            BY <1>14, <2>1 DEF Chat!Commit
        <3>. QED BY <1>0, <3>1 DEF Chat!NoTurn
    <2>2. CASE ~turn[t].left /\ turn[t].broken
        <3>1. /\ turn[t].at = "commit" /\ turn' = [turn EXCEPT ![t].at = "rollback"]
              /\ UNCHANGED <<caller, opened>>
            BY <1>14, <2>2 DEF Chat!Commit, Chat!AfterBroken
        <3>. QED BY <3>1
    <2>3. CASE ~turn[t].left /\ ~turn[t].broken
        <3>1. /\ turn[t].at = "commit" /\ turn' = [turn EXCEPT ![t].at = "reply"] /\ caller' = caller
              /\ opened' = opened \cup (IF turn[t].made THEN {t} ELSE {})
            BY <1>14, <2>3 DEF Chat!Commit
        <3>2. caller # None => opened' = {}
            BY <3>1
        <3>. QED BY <3>1, <3>2
    <2>. QED BY <2>1, <2>2, <2>3
<1>15. ASSUME NEW t \in Turns, Chat!Rollback(t) PROVE MadeInv'
    BY <1>0, <1>15 DEF Chat!Rollback
<1>16. ASSUME NEW t \in Turns, Chat!Reply(t) PROVE MadeInv'
    BY <1>0, <1>16 DEF Chat!Reply
<1>17. ASSUME NEW t \in Turns, Chat!Leave(t) PROVE MadeInv'
    <2>1. \/ turn' = [turn EXCEPT ![t] = [Chat!NoTurn EXCEPT !.at = "over"]]
          \/ turn' = [turn EXCEPT ![t].left = TRUE]
        BY <1>17 DEF Chat!Leave
    <2>2. UNCHANGED <<caller, opened>>
        BY <1>17 DEF Chat!Leave
    <2>3. CASE turn' = [turn EXCEPT ![t] = [Chat!NoTurn EXCEPT !.at = "over"]]
        BY <1>0, <2>2, <2>3 DEF Chat!NoTurn
    <2>4. CASE turn' = [turn EXCEPT ![t].left = TRUE]
        BY <2>2, <2>4
    <2>. QED BY <2>1, <2>3, <2>4
<1>18. ASSUME NEW t \in Turns, Chat!ReadTitle(t) PROVE MadeInv'
    <2>1. /\ turn[t].at = "title" /\ UNCHANGED <<caller, opened>>
          /\ \E at \in {"titled", "over"} : turn' = [turn EXCEPT ![t].at = at]
        BY <1>18 DEF Chat!ReadTitle
    <2>. QED BY <2>1
<1>19. ASSUME NEW t \in Turns, Chat!WriteTitle(t) PROVE MadeInv'
    BY <1>0, <1>19 DEF Chat!WriteTitle
<1>20. ASSUME Chat!Rename \/ Chat!Delete \/ \E t \in Turns : Chat!Resolve(t) PROVE MadeInv'
    BY <1>20 DEF Chat!Rename, Chat!Delete, Chat!Resolve
<1>. QED
    BY <1>1, <1>2, <1>3, <1>4, <1>5, <1>6, <1>7, <1>8, <1>9, <1>10, <1>11, <1>12, <1>13, <1>14, <1>15, <1>16,
       <1>17, <1>18, <1>19, <1>20 DEF Chat!Next

LEMMA CountStep == ASSUME OverlapInv, Chat!Next PROVE CountInv'
<1>. USE ChatConstants DEF OverlapInv, ChatTyped, Chat!rows, Chat!history, Chat!Works, Chat!Fails
<1>0. ChatTyped'
    BY ChatTypedStep
<1>1. /\ opened \ Early \subseteq Turns /\ Cardinality(opened \ Early) \in Nat
      /\ (opened \ Early)' \subseteq Turns /\ Cardinality((opened \ Early)') \in Nat
      /\ opened \cup Chat!InFlight \subseteq Turns /\ Cardinality(opened \cup Chat!InFlight) \in Nat
      /\ Chat!InFlight \subseteq Turns /\ Cardinality(Chat!InFlight) \in Nat
      /\ handoffs \cup Asking \subseteq Turns /\ Cardinality(handoffs \cup Asking) \in Nat
    <2>1. /\ opened \ Early \subseteq Turns /\ (opened \ Early)' \subseteq Turns
          /\ opened \cup Chat!InFlight \subseteq Turns
          /\ Chat!InFlight \subseteq Turns /\ handoffs \cup Asking \subseteq Turns
        BY <1>0 DEF Chat!InFlight, Asking
    <2>. QED BY <2>1, TurnsCounted
\* A turn goes on: it stays early, and asks for no human.
<1>2. ASSUME NEW t \in Turns, t \in Early, t \in Early',
             \A s \in Turns \ {t} : turn'[s] = turn[s],
             turn'[t].handoff = turn[t].handoff,
             UNCHANGED <<peak, handoffs>>, opened' \subseteq opened \cup {t}, chatFaults <= chatFaults',
             thread'.owner = None => thread.owner = None
      PROVE  CountInv'
    <2>1. Early' = Early /\ Chat!InFlight' = Chat!InFlight /\ Asking' = Asking /\ t \in Chat!InFlight
        BY <1>2 DEF Early, Chat!InFlight, Asking
    <2>2. (opened \ Early)' \subseteq opened \ Early
        BY <1>2, <2>1
    <2>3. Cardinality((opened \ Early)') <= Cardinality(opened \ Early)
        BY <1>1, <2>2, TurnsCounted
    <2>4. thread'.owner = None => Cardinality(opened' \ Early') <= chatFaults'
        BY <1>0, <1>1, <1>2, <2>3 DEF CountInv
    <2>. QED BY <1>0, <1>2, <2>1, <2>4, CountKept
\* A turn is over, or gets to its title.
<1>3. ASSUME NEW t \in Turns, t \in Chat!InFlight, turn'[t].handoff => turn[t].handoff,
             \A s \in Turns \ {t} : turn'[s] = turn[s],
             UNCHANGED <<peak, handoffs, opened>>, chatFaults <= chatFaults',
             thread'.owner = None =>
                /\ thread.owner = None
                /\ t \in opened /\ t \in Early => chatFaults' = chatFaults + 1
      PROVE  CountInv'
    <2>1. Chat!InFlight' \subseteq Chat!InFlight /\ Asking' \subseteq Asking
        BY <1>3 DEF Chat!InFlight, Asking
    <2>2. /\ (opened \ Early)' \subseteq (opened \ Early) \cup {t}
          /\ t \notin opened \/ t \notin Early => (opened \ Early)' \subseteq opened \ Early
        BY <1>3 DEF Early
    <2>3. /\ Cardinality((opened \ Early)') <= Cardinality(opened \ Early) + 1
          /\ t \notin opened \/ t \notin Early => Cardinality((opened \ Early)') <= Cardinality(opened \ Early)
        BY <1>1, <2>2, TurnsCounted, OneTurnMore
    <2>4. thread'.owner = None => Cardinality(opened' \ Early') <= chatFaults'
        BY <1>0, <1>1, <1>3, <2>3 DEF CountInv
    <2>. QED BY <1>0, <1>3, <2>1, <2>4, CountKept
<1>4. ASSUME NEW t \in Turns, Chat!Ask(t) PROVE CountInv'
    <2>1. /\ turn[t].at = "idle" /\ turn' = [turn EXCEPT ![t] = [Chat!NoTurn EXCEPT !.at = "begin", !.cid = caller]]
          /\ thread'.owner = caller /\ UNCHANGED <<handoffs, opened, chatFaults, caller>>
          /\ thread.owner = None \/ caller = Self
        BY <1>4 DEF Chat!Ask, Chat!At, Chat!MayUse
    <2>2. peak' >= Cardinality(Chat!InFlight) + 1 /\ peak' >= peak
        <3>1. Chat!Cardinality(Chat!InFlight) = Cardinality(Chat!InFlight)
            BY DEF Cardinality, Chat!Cardinality, IsFiniteSet, Chat!IsFiniteSet
        <3>. QED BY <1>1, <1>4, <3>1 DEF Chat!Ask
    <2>3. /\ Chat!InFlight' \subseteq Chat!InFlight \cup {t}
          /\ (opened \ Early)' \subseteq opened \ Early
          /\ (handoffs \cup Asking)' \subseteq handoffs \cup Asking
          /\ opened' \cup Chat!InFlight' = (opened \ Early)' \cup Chat!InFlight'
        BY <2>1 DEF Chat!InFlight, Early, Asking, Chat!NoTurn, TurnRow
    <2>4. /\ Cardinality(Chat!InFlight') <= Cardinality(Chat!InFlight) + 1 /\ Cardinality(Chat!InFlight') \in Nat
          /\ Cardinality((opened \ Early)') <= Cardinality(opened \ Early)
          /\ Cardinality((handoffs \cup Asking)') <= Cardinality(handoffs \cup Asking)
          /\ Cardinality((handoffs \cup Asking)') \in Nat
        BY <1>1, <2>3, TurnsCounted, OneTurnMore
    <2>5. Cardinality(opened \ Early) <= chatFaults
        <3>1. CASE thread.owner = None
            BY <3>1 DEF CountInv
        <3>2. CASE caller = Self
            <4>1. opened \ Early = {}
                BY <3>2, ChatAssumed DEF MadeInv
            <4>2. Cardinality(opened \ Early) = 0
                BY <4>1, FS_EmptySet
            <4>. QED BY <4>2
        <3>. QED BY <2>1, <3>1, <3>2
    <2>6. Cardinality(opened' \cup Chat!InFlight') <= peak' + chatFaults'
        <3>1. IsFiniteSet((opened \ Early)') /\ IsFiniteSet(Chat!InFlight')
            BY <1>1, <2>3, ChatAssumed, FS_Subset
        <3>2. Cardinality((opened \ Early)' \cup Chat!InFlight') <= Cardinality((opened \ Early)') + Cardinality(Chat!InFlight')
            <4>1. Cardinality((opened \ Early)' \cap Chat!InFlight') \in Nat
                BY <3>1, FS_Intersection, FS_CardinalityType
            <4>2. Cardinality((opened \ Early)' \cup Chat!InFlight')
                    = Cardinality((opened \ Early)') + Cardinality(Chat!InFlight') - Cardinality((opened \ Early)' \cap Chat!InFlight')
                BY <3>1, FS_Union
            <4>. QED BY <1>1, <2>4, <4>1, <4>2
        <3>3. Cardinality((opened \ Early)' \cup Chat!InFlight') \in Nat
            BY <3>1, FS_Union, FS_CardinalityType
        <3>4. opened' \cup Chat!InFlight' = (opened \ Early)' \cup Chat!InFlight'
            BY <2>3
        <3>5. peak' \in Nat /\ chatFaults' = chatFaults /\ chatFaults \in Nat
            BY <1>0, <2>1
        <3>6. Cardinality((opened \ Early)') <= chatFaults'
            BY <1>1, <2>4, <2>5, <3>5
        <3>7. Cardinality(Chat!InFlight') <= peak'
            BY <1>0, <1>1, <2>2, <2>4, <3>5
        <3>8. \A a, b, c \in Nat : c <= a + b /\ a <= chatFaults' /\ b <= peak' => c <= peak' + chatFaults'
            BY <3>5
        <3>9. Cardinality((opened \ Early)' \cup Chat!InFlight') <= peak' + chatFaults'
            BY <1>1, <2>4, <3>2, <3>3, <3>6, <3>7, <3>8
        <3>. QED BY <3>4, <3>9
    <2>7. peak' \in Nat /\ Cardinality(Chat!InFlight') <= peak'
        BY <1>0, <1>1, <2>2, <2>4
    <2>8. Cardinality(handoffs' \cup Asking') <= peak'
        BY <1>1, <2>2, <2>4, <2>7 DEF CountInv
    <2>9. Cardinality(opened' \ Early') <= chatFaults'
        BY <1>1, <2>1, <2>4, <2>5
    <2>. QED BY <2>6, <2>7, <2>8, <2>9 DEF CountInv
<1>5. ASSUME NEW t \in Turns, Chat!Begin(t) PROVE CountInv'
    <2>1. /\ t \in Early /\ t \in Early' /\ \A s \in Turns \ {t} : turn'[s] = turn[s]
          /\ turn'[t].handoff = turn[t].handoff
        BY <1>5 DEF Chat!Begin, Chat!At, Early, TurnRow
    <2>2. UNCHANGED <<peak, handoffs, opened>> /\ chatFaults <= chatFaults'
        BY <1>5 DEF Chat!Begin
    <2>3. thread'.owner = None => thread.owner = None
        BY <1>5 DEF Chat!Begin, Chat!WithMessage
    <2>. QED BY <1>2, <2>1, <2>2, <2>3
<1>6. ASSUME NEW t \in Turns, Chat!Supervise(t) PROVE CountInv'
    <2>1. /\ t \in Early /\ t \in Early' /\ \A s \in Turns \ {t} : turn'[s] = turn[s]
          /\ turn'[t].handoff = turn[t].handoff
        BY <1>6 DEF Chat!Supervise, Chat!At, Chat!Goto, Early, TurnRow
    <2>2. UNCHANGED <<peak, handoffs, opened, thread>> /\ chatFaults <= chatFaults'
        BY <1>6 DEF Chat!Supervise
    <2>. QED BY <1>2, <2>1, <2>2
<1>7. ASSUME NEW t \in Turns, Chat!CreateLead(t) PROVE CountInv'
    <2>1. /\ t \in Early /\ t \in Early' /\ \A s \in Turns \ {t} : turn'[s] = turn[s]
          /\ turn'[t].handoff = turn[t].handoff
        BY <1>7 DEF Chat!CreateLead, Chat!Calls, Chat!Step, Chat!At, Chat!Goto, Early, TurnRow
    <2>2. UNCHANGED <<peak, handoffs, opened, thread>> /\ chatFaults <= chatFaults'
        BY <1>7 DEF Chat!CreateLead
    <2>. QED BY <1>2, <2>1, <2>2
<1>8. ASSUME NEW t \in Turns, Chat!Qualify(t) PROVE CountInv'
    <2>1. /\ t \in Early /\ t \in Early' /\ \A s \in Turns \ {t} : turn'[s] = turn[s]
          /\ turn'[t].handoff = turn[t].handoff
        BY <1>8 DEF Chat!Qualify, Chat!Calls, Chat!Step, Chat!At, Chat!Goto, Early, TurnRow
    <2>2. UNCHANGED <<peak, handoffs, opened, thread>> /\ chatFaults <= chatFaults'
        BY <1>8 DEF Chat!Qualify
    <2>. QED BY <1>2, <2>1, <2>2
<1>9. ASSUME NEW t \in Turns, NEW f \in Chat!Fields, Chat!Collect(t, f) PROVE CountInv'
    <2>1. /\ t \in Early /\ t \in Early' /\ \A s \in Turns \ {t} : turn'[s] = turn[s]
          /\ turn'[t].handoff = turn[t].handoff
        BY <1>9 DEF Chat!Collect, Chat!Calls, Chat!Step, Chat!At, Chat!Goto, Early, TurnRow
    <2>2. UNCHANGED <<peak, handoffs, opened, thread>> /\ chatFaults <= chatFaults'
        BY <1>9 DEF Chat!Collect
    <2>. QED BY <1>2, <2>1, <2>2
<1>10. ASSUME NEW t \in Turns, Chat!Verify(t) PROVE CountInv'
    <2>1. /\ t \in Early /\ t \in Early' /\ \A s \in Turns \ {t} : turn'[s] = turn[s]
          /\ turn'[t].handoff = turn[t].handoff
        BY <1>10 DEF Chat!Verify, Chat!Calls, Chat!Step, Chat!At, Chat!Goto, Early, TurnRow
    <2>2. UNCHANGED <<peak, handoffs, opened, thread>> /\ chatFaults <= chatFaults'
        BY <1>10 DEF Chat!Verify
    <2>. QED BY <1>2, <2>1, <2>2
<1>11. ASSUME NEW t \in Turns, Chat!Open(t) PROVE CountInv'
    <2>1. /\ t \in Early /\ t \in Early' /\ \A s \in Turns \ {t} : turn'[s] = turn[s]
          /\ turn'[t].handoff = turn[t].handoff
        BY <1>11 DEF Chat!Open, Chat!Calls, Chat!Step, Chat!At, Chat!Goto, Early, TurnRow
    <2>2. UNCHANGED <<peak, handoffs, opened, thread>> /\ chatFaults <= chatFaults'
        BY <1>11 DEF Chat!Open
    <2>. QED BY <1>2, <2>1, <2>2
<1>12. ASSUME NEW t \in Turns, Chat!Break(t) PROVE CountInv'
    <2>1. /\ t \in Early /\ t \in Early' /\ \A s \in Turns \ {t} : turn'[s] = turn[s]
          /\ turn'[t].handoff = turn[t].handoff
        BY <1>12 DEF Chat!Break, Chat!At, Chat!Goto, Early, TurnRow
    <2>2. UNCHANGED <<peak, handoffs, opened, thread>> /\ chatFaults <= chatFaults'
        BY <1>12 DEF Chat!Break
    <2>. QED BY <1>2, <2>1, <2>2
<1>13. ASSUME NEW t \in Turns, Chat!Answered(t) PROVE CountInv'
    <2>1. /\ t \in Early /\ t \in Early' /\ \A s \in Turns \ {t} : turn'[s] = turn[s]
          /\ turn'[t].handoff = turn[t].handoff
        BY <1>13 DEF Chat!Answered, Chat!At, Chat!Goto, Early, TurnRow
    <2>2. UNCHANGED <<peak, handoffs, opened, thread>> /\ chatFaults <= chatFaults'
        BY <1>13 DEF Chat!Answered
    <2>. QED BY <1>2, <2>1, <2>2
<1>14. ASSUME NEW t \in Turns, Chat!Raise(t) PROVE CountInv'
    <2>1. /\ t \in Early /\ t \in Early' /\ \A s \in Turns \ {t} : turn'[s] = turn[s]
          /\ turn'[t].handoff = turn[t].handoff
        BY <1>14 DEF Chat!Raise, Chat!At, Chat!Goto, Early, TurnRow
    <2>2. UNCHANGED <<peak, handoffs, opened, thread>> /\ chatFaults <= chatFaults'
        BY <1>14 DEF Chat!Raise
    <2>. QED BY <1>2, <2>1, <2>2
<1>15. ASSUME NEW t \in Turns, Chat!Synthesize(t) PROVE CountInv'
    <2>1. /\ t \in Early /\ t \in Early' /\ \A s \in Turns \ {t} : turn'[s] = turn[s]
          /\ turn'[t].handoff = turn[t].handoff
        BY <1>15 DEF Chat!Synthesize, Chat!At, Chat!Goto, Early, TurnRow
    <2>2. UNCHANGED <<peak, handoffs, opened, thread>> /\ chatFaults <= chatFaults'
        BY <1>15 DEF Chat!Synthesize
    <2>. QED BY <1>2, <2>1, <2>2
<1>16. ASSUME NEW t \in Turns, Chat!RequestHandoff(t) PROVE CountInv'
    <2>1. /\ t \in Early /\ t \in Early' /\ \A s \in Turns \ {t} : turn'[s] = turn[s]
          /\ handoffs = {}
        BY <1>16 DEF Chat!RequestHandoff, Chat!Calls, Chat!Step, Chat!NoneActive, Early, TurnRow
    <2>2. UNCHANGED <<peak, handoffs, opened, thread, chatFaults>>
        BY <1>16 DEF Chat!RequestHandoff
    <2>3. Early' = Early /\ Chat!InFlight' = Chat!InFlight
        BY <2>1 DEF Early, Chat!InFlight
    <2>4. \A s \in Turns : s \in Asking' => s \in Chat!InFlight
        BY <2>1 DEF MadeInv, Asking, Early, Chat!InFlight
    <2>5. handoffs' \cup Asking' \subseteq Chat!InFlight
        BY <2>1, <2>2, <2>4 DEF Asking
    <2>6. Cardinality(handoffs' \cup Asking') <= Cardinality(Chat!InFlight) /\ Cardinality(handoffs' \cup Asking') \in Nat
        BY <1>1, <2>5, TurnsCounted
    <2>7. Cardinality(handoffs' \cup Asking') <= peak'
        BY <1>1, <2>2, <2>6 DEF CountInv
    <2>. QED BY <2>2, <2>3, <2>7 DEF CountInv
<1>17. ASSUME NEW t \in Turns, Chat!Commit(t) PROVE CountInv'
    <2>1. /\ turn[t].at = "commit" /\ t \in Early /\ t \in Chat!InFlight /\ t \notin opened
          /\ \A s \in Turns \ {t} : turn'[s] = turn[s]
          /\ UNCHANGED <<peak, thread, chatFaults>>
        BY <1>17 DEF Chat!Commit, Chat!At, Chat!Over, Chat!Close, Chat!Goto, Early, Chat!InFlight, MadeInv
    <2>2. CASE turn[t].left
        <3>1. UNCHANGED <<handoffs, opened>> /\ ~turn'[t].handoff
            BY <1>17, <2>2 DEF Chat!Commit, Chat!Over, Chat!Close, Chat!NoTurn
        <3>. QED BY <1>3, <2>1, <3>1
    <2>3. CASE ~turn[t].left /\ turn[t].broken
        <3>1. UNCHANGED <<handoffs, opened>> /\ turn'[t].handoff = turn[t].handoff /\ turn'[t].at = "rollback"
            BY <1>17, <2>3 DEF Chat!Commit, Chat!Goto, Chat!AfterBroken, TurnRow
        <3>2. t \in Early'
            BY <3>1 DEF Early
        <3>. QED BY <1>2, <2>1, <3>1, <3>2
    <2>4. CASE ~turn[t].left /\ ~turn[t].broken
        <3>1. /\ turn' = [turn EXCEPT ![t].at = "reply"]
              /\ opened' = opened \cup (IF turn[t].made THEN {t} ELSE {})
              /\ handoffs' = handoffs \cup (IF turn[t].handoff THEN {t} ELSE {})
            BY <1>17, <2>4 DEF Chat!Commit, Chat!Goto
        <3>2. Early' = Early /\ Chat!InFlight' = Chat!InFlight /\ Asking' = Asking
            BY <2>1, <3>1 DEF Early, Chat!InFlight, Asking, TurnRow
        <3>3. /\ handoffs' \cup Asking' \subseteq handoffs \cup Asking
              /\ opened' \cup Chat!InFlight' \subseteq opened \cup Chat!InFlight
            BY <2>1, <3>1, <3>2 DEF Asking
        <3>4. opened' \ Early' = opened \ Early
            BY <2>1, <3>1, <3>2
        <3>5. thread'.owner = None => Cardinality(opened' \ Early') <= chatFaults'
            BY <2>1, <3>4 DEF CountInv
        <3>. QED BY <1>0, <2>1, <3>2, <3>3, <3>5, CountKept
    <2>. QED BY <2>2, <2>3, <2>4
<1>18. ASSUME NEW t \in Turns, Chat!Rollback(t) \/ Chat!ReadTitle(t) \/ Chat!WriteTitle(t) PROVE CountInv'
    <2>1. turn[t].at \in {"rollback", "title", "titled"}
        BY <1>18 DEF Chat!Rollback, Chat!ReadTitle, Chat!WriteTitle, Chat!At
    <2>2. t \in Chat!InFlight /\ (t \notin opened \/ t \notin Early)
        BY <2>1 DEF Chat!InFlight, Early, MadeInv
    <2>3. /\ \A s \in Turns \ {t} : turn'[s] = turn[s]
          /\ turn'[t].handoff => turn[t].handoff
        BY <1>18 DEF Chat!Rollback, Chat!ReadTitle, Chat!WriteTitle, Chat!Over, Chat!Close, Chat!Goto, Chat!NoTurn, TurnRow
    <2>4. UNCHANGED <<peak, handoffs, opened, chatFaults>> /\ thread'.owner = thread.owner
        BY <1>18 DEF Chat!Rollback, Chat!ReadTitle, Chat!WriteTitle
    <2>. QED BY <1>3, <2>2, <2>3, <2>4
<1>19. ASSUME NEW t \in Turns, Chat!Reply(t) PROVE CountInv'
    <2>1. /\ turn[t].at = "reply" /\ t \in Chat!InFlight /\ ~turn'[t].handoff
          /\ \A s \in Turns \ {t} : turn'[s] = turn[s]
        BY <1>19 DEF Chat!Reply, Chat!At, Chat!Close, Chat!NoTurn, Chat!InFlight
    <2>2. UNCHANGED <<peak, handoffs, opened>>
        BY <1>19 DEF Chat!Reply
    <2>3. t \in opened => Chat!Owner(t) = t /\ Chat!Exists(Chat!Owner(t))
        BY <2>1 DEF MadeInv, Chat!Owner, Chat!Exists
    <2>4. CASE chatFaults' = chatFaults + 1 /\ thread' = thread
        BY <1>3, <2>1, <2>2, <2>4
    <2>5. CASE /\ chatFaults' = chatFaults
               /\ thread' = IF Chat!Exists(Chat!Owner(t)) THEN Chat!WithMessage(Chat!Owner(t), "assistant", t) ELSE thread
        <3>1. thread'.owner = None => thread.owner = None
            BY <2>5 DEF Chat!WithMessage
        <3>2. t \in opened => thread'.owner # None
            BY <2>3, <2>5 DEF Chat!WithMessage
        <3>. QED BY <1>3, <2>1, <2>2, <2>5, <3>1, <3>2
    <2>. QED BY <1>19, <2>4, <2>5 DEF Chat!Reply
<1>20. ASSUME NEW t \in Turns, Chat!Leave(t) PROVE CountInv'
    <2>1. /\ t \in Chat!InFlight /\ (turn'[t].handoff => turn[t].handoff)
          /\ \A s \in Turns \ {t} : turn'[s] = turn[s]
        BY <1>20 DEF Chat!Leave, Chat!Over, Chat!Close, Chat!NoTurn, Chat!InFlight, TurnRow
    <2>2. UNCHANGED <<peak, handoffs, opened, thread>> /\ chatFaults' = chatFaults + 1
        BY <1>20 DEF Chat!Leave
    <2>. QED BY <1>3, <2>1, <2>2
<1>21. ASSUME Chat!Rename \/ Chat!Delete \/ \E t \in Turns : Chat!Resolve(t) PROVE CountInv'
    <2>1. UNCHANGED <<peak, opened, turn, chatFaults>> /\ handoffs' \subseteq handoffs
        BY <1>21 DEF Chat!Rename, Chat!Delete, Chat!Resolve
    <2>2. Early' = Early /\ Asking' = Asking /\ Chat!InFlight' = Chat!InFlight
        BY <2>1 DEF Early, Asking, Chat!InFlight
    <2>3. CASE Chat!Rename \/ \E t \in Turns : Chat!Resolve(t)
        <3>1. thread'.owner = thread.owner
            BY <2>3 DEF Chat!Rename, Chat!Resolve
        <3>2. thread'.owner = None => Cardinality(opened' \ Early') <= chatFaults'
            BY <2>1, <2>2, <3>1 DEF CountInv
        <3>. QED BY <1>0, <2>1, <2>2, <3>2, CountKept
    <2>4. CASE Chat!Delete
        <3>1. opened = {}
            BY <2>4 DEF Chat!Delete, MadeInv
        <3>2. Cardinality(opened' \ Early') = 0
            <4>1. opened' \ Early' = {}
                BY <2>1, <3>1
            <4>. QED BY <4>1, FS_EmptySet
        <3>3. thread'.owner = None => Cardinality(opened' \ Early') <= chatFaults'
            BY <2>1, <3>2
        <3>. QED BY <1>0, <2>1, <2>2, <3>3, CountKept
    <2>. QED BY <1>21, <2>3, <2>4
<1>. QED
    BY <1>4, <1>5, <1>6, <1>7, <1>8, <1>9, <1>10, <1>11, <1>12, <1>13, <1>14, <1>15, <1>16, <1>17, <1>18, <1>19,
       <1>20, <1>21 DEF Chat!Next

LEMMA OverlapInit == ASSUME Chat!Init PROVE OverlapInv
<1>1. ChatTyped
    BY ChatInit DEF ReplyGateInv
<1>2. MadeInv
    BY DEF MadeInv, Early, Chat!Init, Chat!NoTurn
<1>3. opened \ Early = {} /\ opened \cup Chat!InFlight = {} /\ Chat!InFlight = {} /\ handoffs \cup Asking = {}
    BY DEF Chat!Init, Chat!NoTurn, Chat!InFlight, Asking
<1>4. Cardinality({}) = 0 /\ peak = 0 /\ chatFaults = 0
    BY FS_EmptySet DEF Chat!Init
<1>5. CountInv
    BY <1>3, <1>4 DEF CountInv
<1>. QED BY <1>1, <1>2, <1>5 DEF OverlapInv

LEMMA OverlapAlways == AllSpec => [](area = "chat" => OverlapInv)
<1>1. AllInit => (area = "chat" => OverlapInv)
    BY OverlapInit DEF AllInit
<1>2. (area = "chat" => OverlapInv) /\ [AllNext]_allVars => (area = "chat" => OverlapInv)'
    <2>. SUFFICES ASSUME area = "chat" => OverlapInv, [AllNext]_allVars, area' = "chat" PROVE OverlapInv'
        OBVIOUS
    <2>1. area = "chat" /\ (Chat!Next \/ UNCHANGED chatVars)
        BY DEF AllNext, allVars
    <2>2. CASE Chat!Next
        BY <2>1, <2>2, ChatTypedStep, MadeStep, CountStep DEF OverlapInv
    <2>3. CASE UNCHANGED chatVars
        <3>1. Early' = Early /\ Asking' = Asking /\ Chat!InFlight' = Chat!InFlight
            BY <2>3 DEF chatVars, Early, Asking, Chat!InFlight
        <3>. QED BY <2>1, <2>3, <3>1 DEF chatVars, OverlapInv, ChatTyped, MadeInv, CountInv
    <2>. QED BY <2>1, <2>2, <2>3
<1>. QED BY <1>1, <1>2, PTL DEF AllSpec

\* A thread makes no more customers than it ever had turns in flight together, but for the
\* replies that were lost; and no more people of the bank are asked for than that, whoever
\* resolves what was asked (app/agents/acquisition.py, app/agents/tools.py).
THEOREM DuplicatesComeFromOverlap == AllSpec => []DuplicatesNeedOverlap
<1>1. ASSUME OverlapInv PROVE Chat!DuplicatesNeedOverlap
    <2>. USE <1>1 DEF OverlapInv, ChatTyped
    <2>1. /\ Chat!Cardinality(opened) = Cardinality(opened)
          /\ Chat!Cardinality(handoffs) = Cardinality(handoffs)
        BY DEF Cardinality, Chat!Cardinality, IsFiniteSet, Chat!IsFiniteSet
    <2>2. opened \cup Chat!InFlight \subseteq Turns /\ handoffs \cup Asking \subseteq Turns
        BY DEF Chat!InFlight, Asking
    <2>3. /\ Cardinality(opened) <= Cardinality(opened \cup Chat!InFlight)
          /\ Cardinality(opened) \in Nat /\ Cardinality(opened \cup Chat!InFlight) \in Nat
          /\ Cardinality(handoffs) <= Cardinality(handoffs \cup Asking)
          /\ Cardinality(handoffs) \in Nat /\ Cardinality(handoffs \cup Asking) \in Nat
        BY <2>2, TurnsCounted
    <2>. QED BY <2>1, <2>3 DEF CountInv, Chat!DuplicatesNeedOverlap
<1>2. (area = "chat" => OverlapInv) => DuplicatesNeedOverlap
    BY <1>1 DEF DuplicatesNeedOverlap
<1>. QED BY <1>2, OverlapAlways, PTL

-----------------------------------------------------------------------------
(* The agents' memory                                                      *)

Kinds     == Facts \cup {"episodic"}
MemoryRow == [born : Nat, owner : Customers, kind : Kinds]
Writing   == [at : {"idle", "dedup", "commit"}, born : Nat, owner : Customers \cup {"nobody"}, kind : Kinds]

MemoryTyped ==
    /\ rows \cup forgotten \subseteq remembered /\ remembered \subseteq MemoryRow /\ IsFiniteSet(remembered)
    /\ now \in Nat /\ old \in Nat /\ old <= now /\ copies \in Nat
    /\ writer \in [Writers -> Writing]
    /\ \A w \in Writers :
         IF writer[w].at = "idle" THEN writer[w].kind = "episodic" ELSE writer[w].owner \in Customers
    /\ pruner \in [Pruners -> [at : {"idle", "commit"}, victims : SUBSET MemoryRow]]

\* No two transactions begin at the same moment, so rows have their order by created_at.
BornInv ==
    /\ \A m \in remembered : m.born <= now
    /\ \A m, n \in remembered : m.born = n.born => m = n
    /\ \A w \in Writers : writer[w].at # "idle" =>
         writer[w].born <= now /\ \A m \in remembered : m.born # writer[w].born
    /\ \A v, w \in Writers :
         writer[v].at # "idle" /\ writer[w].at # "idle" /\ writer[v].born = writer[w].born => v = w

\* What an episode has to be before it may go; nothing that happens later changes it.
Newer(m) == {n \in remembered : n.kind = "episodic" /\ n.owner = m.owner /\ n.born > m.born}
Outranked(m) ==
    /\ m \in remembered /\ m.kind = "episodic" /\ m.born <= old
    /\ Cardinality(Newer(m)) >= KeepRecent

\* A tick that has chosen its rows is right about them whenever it commits.
FadeInv ==
    /\ \A p \in Pruners : \A m \in pruner[p].victims : Outranked(m)
    /\ \A m \in remembered \ (rows \cup forgotten) : Outranked(m)

\* A fact that is kept, and one about to be, was extracted while it was not yet known.
Kept(c, f)    == {m \in rows : m.owner = c /\ m.kind = f}
Storing(c, f) == {w \in Writers : writer[w].owner = c /\ writer[w].kind = f /\ writer[w].at = "commit"}
FactInv == \A c \in Customers, f \in Facts :
    /\ Cardinality(Kept(c, f)) + Cardinality(Storing(c, f)) <= copies
    /\ Cardinality(Agents!Extracting(c, f)) <= copies

MemoryInv == MemoryTyped /\ BornInv /\ FadeInv /\ FactInv

LEMMA SameCount == ASSUME NEW S PROVE Agents!Cardinality(S) = Cardinality(S)
BY DEF Cardinality, Agents!Cardinality, IsFiniteSet, Agents!IsFiniteSet

LEMMA LargerIsMax ==
    ASSUME NEW a \in Nat, NEW b \in Nat
    PROVE  Agents!Max({a, b}) \in {a, b} /\ Agents!Max({a, b}) >= a /\ Agents!Max({a, b}) >= b
<1>1. \E x \in {a, b} : \A y \in {a, b} : x >= y
    BY DEF Agents!Max
<1>. QED BY <1>1 DEF Agents!Max

LEMMA MemoryConstants == IsFiniteSet(Writers) /\ "episodic" \notin Facts /\ KeepRecent \in Nat
BY CustomerAssumption

LEMMA WritersCounted ==
    ASSUME NEW A, A \subseteq Writers, NEW B, B \subseteq A
    PROVE  /\ IsFiniteSet(A) /\ Cardinality(A) \in Nat /\ Cardinality(B) \in Nat
           /\ Cardinality(B) <= Cardinality(A)
<1>1. IsFiniteSet(A)
    BY FS_Subset, CustomerAssumption
<1>. QED BY <1>1, FS_Subset, FS_CardinalityType

LEMMA RowsCounted ==
    ASSUME MemoryTyped, NEW A, A \subseteq remembered, NEW B, B \subseteq A
    PROVE  /\ IsFiniteSet(A) /\ Cardinality(A) \in Nat /\ Cardinality(B) \in Nat
           /\ Cardinality(B) <= Cardinality(A)
<1>1. IsFiniteSet(A)
    BY FS_Subset DEF MemoryTyped
<1>. QED BY <1>1, FS_Subset, FS_CardinalityType

LEMMA OneMore ==
    ASSUME NEW A, IsFiniteSet(A), NEW x
    PROVE  /\ Cardinality(A \cup {x}) <= Cardinality(A) + 1
           /\ Cardinality(A \cup {x}) \in Nat /\ IsFiniteSet(A \cup {x})
<1>1. IsFiniteSet(A \cup {x}) /\ Cardinality(A \cup {x}) = IF x \in A THEN Cardinality(A) ELSE Cardinality(A) + 1
    BY FS_AddElement
<1>2. Cardinality(A) \in Nat
    BY FS_CardinalityType
<1>. QED BY <1>1, <1>2

LEMMA MemoryInit == ASSUME Agents!Init PROVE MemoryInv
<1>. USE DEF Agents!Init, Agents!NoWrite, Agents!NoPrune, Agents!Episode
<1>1. MemoryTyped
    BY FS_EmptySet DEF MemoryTyped, Writing, Kinds
<1>2. BornInv /\ FadeInv
    BY DEF BornInv, FadeInv
<1>3. FactInv
    <2>. SUFFICES ASSUME NEW c \in Customers, NEW f \in Facts
                  PROVE  /\ Cardinality(Kept(c, f)) + Cardinality(Storing(c, f)) <= copies
                         /\ Cardinality(Agents!Extracting(c, f)) <= copies
        BY DEF FactInv
    <2>1. Kept(c, f) = {} /\ Storing(c, f) = {} /\ Agents!Extracting(c, f) = {}
        BY MemoryConstants DEF Kept, Storing, Agents!Extracting
    <2>2. Cardinality({}) = 0 /\ copies = 0
        BY FS_EmptySet
    <2>. QED BY <2>1, <2>2
<1>. QED BY <1>1, <1>2, <1>3 DEF MemoryInv

\* The steps of module Memory by what they do to the rows and to the transactions.
LEMMA MemoryTypedStep == ASSUME MemoryInv, Agents!Next PROVE MemoryTyped'
<1>. USE DEF MemoryInv, MemoryTyped, Agents!history, Agents!Episode, Agents!Begins
<1>0. Agents!NoWrite \in Writing /\ Agents!NoWrite.at = "idle" /\ Agents!NoWrite.kind = "episodic"
    BY DEF Agents!NoWrite, Writing, Kinds
<1>1. CASE Agents!Age
    BY <1>1 DEF Agents!Age
<1>2. ASSUME NEW c \in Customers, Agents!SkipExtraction(c) PROVE MemoryTyped'
    BY <1>2 DEF Agents!SkipExtraction
<1>3. ASSUME NEW c \in Customers, NEW gone \in SUBSET rows, Agents!Forget(c, gone) PROVE MemoryTyped'
    BY <1>3 DEF Agents!Forget
<1>4. ASSUME NEW c \in Customers, NEW w \in Writers, Agents!Remember(w, c) PROVE MemoryTyped'
    BY <1>4 DEF Agents!Remember, Writing, Kinds
<1>5. ASSUME NEW c \in Customers, NEW w \in Writers, NEW f \in Facts, Agents!Extract(w, c, f) PROVE MemoryTyped'
    <2>1. copies' \in Nat
        <3>1. Cardinality(Agents!Extracting(c, f)) \in Nat
            BY WritersCounted DEF Agents!Extracting
        <3>2. copies' \in {copies, 1 + Cardinality(Agents!Extracting(c, f))}
            BY <1>5, <3>1, SameCount, LargerIsMax DEF Agents!Extract
        <3>. QED BY <3>1, <3>2
    <2>. QED BY <1>5, <2>1 DEF Agents!Extract, Writing, Kinds
<1>6. ASSUME NEW w \in Writers, Agents!Dedup(w) PROVE MemoryTyped'
    <2>1. \/ writer' = [writer EXCEPT ![w] = Agents!NoWrite]
          \/ writer' = [writer EXCEPT ![w] = [writer[w] EXCEPT !.at = "commit"]]
        BY <1>6 DEF Agents!Dedup
    <2>2. writer[w].at = "dedup" /\ UNCHANGED <<rows, now, old, pruner, remembered, forgotten, copies>>
        BY <1>6 DEF Agents!Dedup
    <2>3. writer' \in [Writers -> Writing]
        BY <1>0, <2>1 DEF Writing
    <2>. QED BY <1>0, <2>1, <2>2, <2>3 DEF Writing
<1>7. ASSUME NEW w \in Writers, Agents!EndWrite(w) PROVE MemoryTyped'
    <2>1. /\ writer[w].at = "commit" /\ writer' = [writer EXCEPT ![w] = Agents!NoWrite]
          /\ UNCHANGED <<now, old, pruner, forgotten, copies>>
          /\ \/ rows' = rows \cup {Agents!Row(w)} /\ remembered' = remembered \cup {Agents!Row(w)}
             \/ UNCHANGED <<rows, remembered>>
        BY <1>7 DEF Agents!EndWrite
    <2>2. Agents!Row(w) \in MemoryRow
        BY <2>1 DEF Agents!Row, MemoryRow, Writing
    <2>3. IsFiniteSet(remembered')
        BY <2>1, FS_AddElement
    <2>4. rows' \cup forgotten' \subseteq remembered' /\ remembered' \subseteq MemoryRow
        BY <2>1, <2>2
    <2>5. writer' \in [Writers -> Writing]
        BY <1>0, <2>1
    <2>. QED BY <1>0, <2>1, <2>3, <2>4, <2>5
<1>8. ASSUME NEW p \in Pruners, Agents!Prune(p) PROVE MemoryTyped'
    <2>1. /\ pruner' = [pruner EXCEPT ![p] = [at |-> "commit", victims |-> Agents!Capped(Agents!Stale(rows))]]
          /\ UNCHANGED <<rows, now, old, writer, remembered, forgotten, copies>>
        BY <1>8 DEF Agents!Prune
    <2>2. Agents!Capped(Agents!Stale(rows)) \in SUBSET MemoryRow
        BY DEF Agents!Capped, Agents!Stale
    <2>. QED BY <2>1, <2>2
<1>9. ASSUME NEW p \in Pruners, Agents!EndPrune(p) PROVE MemoryTyped'
    <2>1. /\ pruner' = [pruner EXCEPT ![p] = [at |-> "idle", victims |-> {}]]
          /\ rows' \subseteq rows
          /\ UNCHANGED <<now, old, writer, remembered, forgotten, copies>>
        BY <1>9 DEF Agents!EndPrune, Agents!NoPrune
    <2>. QED BY <2>1
<1>. QED
    BY <1>1, <1>2, <1>3, <1>4, <1>5, <1>6, <1>7, <1>8, <1>9 DEF Agents!Next, Agents!Of

LEMMA BornStep == ASSUME MemoryInv, Agents!Next PROVE BornInv'
<1>. USE DEF MemoryInv, MemoryTyped, BornInv, Writing, MemoryRow, Agents!history, Agents!Begins
<1>1. CASE Agents!Age
    BY <1>1 DEF Agents!Age
<1>2. ASSUME NEW c \in Customers,
             Agents!SkipExtraction(c) \/ \E gone \in SUBSET rows : Agents!Forget(c, gone)
      PROVE  BornInv'
    BY <1>2 DEF Agents!SkipExtraction, Agents!Forget
<1>3. ASSUME NEW c \in Customers, NEW w \in Writers,
             Agents!Remember(w, c) \/ \E f \in Facts : Agents!Extract(w, c, f)
      PROVE  BornInv'
    <2>. DEFINE Begun(at, k) ==
            /\ at \in {"dedup", "commit"}
            /\ writer' = [writer EXCEPT ![w] = [at |-> at, born |-> now + 1, owner |-> c, kind |-> k]]
            /\ now' = now + 1 /\ remembered' = remembered
    <2>1. PICK at, k : Begun(at, k)
        <3>1. CASE Agents!Remember(w, c)
            <4>1. Begun("commit", Agents!Episode)
                BY <3>1 DEF Agents!Remember
            <4>. HIDE DEF Begun
            <4>. QED BY <4>1
        <3>2. ASSUME NEW f \in Facts, Agents!Extract(w, c, f) PROVE \E at, k : Begun(at, k)
            <4>1. Begun("dedup", f)
                BY <3>2 DEF Agents!Extract
            <4>. HIDE DEF Begun
            <4>. QED BY <4>1
        <3>. HIDE DEF Begun
        <3>. QED BY <1>3, <3>1, <3>2
    <2>2. \A v \in Writers \ {w} : writer'[v] = writer[v]
        BY <2>1
    <2>3. writer'[w].born = now + 1
        BY <2>1
    <2>4. \A m \in remembered : m.born \in Nat /\ m.born <= now
        OBVIOUS
    <2>. QED BY <2>1, <2>2, <2>3, <2>4
<1>4. ASSUME NEW w \in Writers, Agents!Dedup(w) PROVE BornInv'
    <2>1. \/ writer' = [writer EXCEPT ![w] = Agents!NoWrite]
          \/ writer' = [writer EXCEPT ![w] = [writer[w] EXCEPT !.at = "commit"]]
        BY <1>4 DEF Agents!Dedup
    <2>2. writer[w].at = "dedup" /\ UNCHANGED <<now, remembered>>
        BY <1>4 DEF Agents!Dedup
    <2>3. \A v \in Writers : writer'[v].at # "idle" => writer[v].at # "idle" /\ writer'[v].born = writer[v].born
        BY <2>1, <2>2 DEF Agents!NoWrite
    <2>. QED BY <2>2, <2>3
<1>5. ASSUME NEW w \in Writers, Agents!EndWrite(w) PROVE BornInv'
    <2>1. /\ writer[w].at = "commit" /\ writer' = [writer EXCEPT ![w] = Agents!NoWrite] /\ now' = now
          /\ remembered' = remembered \cup {Agents!Row(w)} \/ remembered' = remembered
        BY <1>5 DEF Agents!EndWrite
    <2>2. Agents!Row(w).born = writer[w].born
        BY DEF Agents!Row
    <2>3. \A v \in Writers : writer'[v].at # "idle" => v # w /\ writer'[v] = writer[v]
        BY <2>1 DEF Agents!NoWrite
    <2>. QED BY <2>1, <2>2, <2>3
<1>6. ASSUME NEW p \in Pruners, Agents!Prune(p) \/ Agents!EndPrune(p) PROVE BornInv'
    BY <1>6 DEF Agents!Prune, Agents!EndPrune
<1>. QED
    BY <1>1, <1>2, <1>3, <1>4, <1>5, <1>6 DEF Agents!Next, Agents!Of

LEMMA OutrankedStays ==
    ASSUME MemoryTyped, MemoryTyped', remembered \subseteq remembered', old <= old', NEW m, Outranked(m)
    PROVE  Outranked(m)'
<1>1. Newer(m) \subseteq Newer(m)' /\ Newer(m)' \subseteq remembered'
    BY DEF Newer
<1>2. IsFiniteSet(Newer(m)')
    BY <1>1, FS_Subset DEF MemoryTyped
<1>3. /\ Cardinality(Newer(m)) <= Cardinality(Newer(m)')
      /\ Cardinality(Newer(m)) \in Nat /\ Cardinality(Newer(m)') \in Nat
    BY <1>1, <1>2, FS_Subset, FS_CardinalityType
<1>4. Cardinality(Newer(m)') >= KeepRecent
    BY <1>3, MemoryConstants DEF Outranked
<1>5. m.born <= old'
    BY DEF MemoryTyped, MemoryRow, Outranked
<1>. QED BY <1>4, <1>5 DEF Outranked

\* The window of the DELETE ranks a row among those it sees, so at least as many are newer.
LEMMA StaleOutranked == ASSUME MemoryInv, NEW m \in Agents!Stale(rows) PROVE Outranked(m)
<1>. USE DEF MemoryInv, MemoryTyped
<1>1. /\ m \in rows /\ m.kind = "episodic" /\ m.born <= old
      /\ Agents!Cardinality({n \in rows : n.kind = "episodic" /\ n.owner = m.owner /\ n.born >= m.born}) > KeepRecent
    BY DEF Agents!Stale, Agents!Rank, Agents!Episode
<1>. DEFINE S == {n \in rows : n.kind = "episodic" /\ n.owner = m.owner /\ n.born >= m.born}
<1>2. S \subseteq Newer(m) \cup {m}
    BY <1>1 DEF Newer, BornInv, MemoryRow
<1>3. Newer(m) \subseteq remembered /\ m \notin Newer(m)
    BY DEF Newer, MemoryRow
<1>4. IsFiniteSet(Newer(m)) /\ Cardinality(Newer(m)) \in Nat
    BY <1>3, RowsCounted
<1>5. IsFiniteSet(Newer(m) \cup {m}) /\ Cardinality(Newer(m) \cup {m}) = Cardinality(Newer(m)) + 1
    BY <1>3, <1>4, FS_AddElement
<1>6. Cardinality(S) <= Cardinality(Newer(m)) + 1 /\ Cardinality(S) \in Nat
    BY <1>2, <1>5, FS_Subset, FS_CardinalityType
<1>7. Cardinality(S) > KeepRecent
    BY <1>1, SameCount
<1>8. Cardinality(Newer(m)) >= KeepRecent
    BY <1>4, <1>6, <1>7, MemoryConstants
<1>. QED BY <1>1, <1>8 DEF Outranked

LEMMA FadeStep == ASSUME MemoryInv, Agents!Next PROVE FadeInv'
<1>. USE DEF MemoryInv, MemoryTyped, FadeInv, Agents!history, Agents!Begins
<1>0. MemoryTyped'
    BY MemoryTypedStep
<1>1. ASSUME old <= old', remembered \subseteq remembered',
             \A p \in Pruners : \A m \in pruner'[p].victims : Outranked(m),
             \A m \in remembered' \ (rows' \cup forgotten') : Outranked(m)
      PROVE  FadeInv'
    <2>1. \A m : Outranked(m) => Outranked(m)'
        BY <1>0, <1>1, OutrankedStays
    <2>. QED BY <1>1, <2>1
<1>2. CASE Agents!Age
    BY <1>1, <1>2 DEF Agents!Age
<1>3. ASSUME NEW c \in Customers,
             \/ Agents!SkipExtraction(c) \/ \E gone \in SUBSET rows : Agents!Forget(c, gone)
             \/ \E w \in Writers : Agents!Remember(w, c) \/ \E f \in Facts : Agents!Extract(w, c, f)
      PROVE  FadeInv'
    <2>1. /\ UNCHANGED <<old, remembered, pruner>>
          /\ rows \cup forgotten \subseteq rows' \cup forgotten'
        BY <1>3 DEF Agents!SkipExtraction, Agents!Forget, Agents!Remember, Agents!Extract
    <2>. QED BY <1>1, <2>1
<1>4. ASSUME NEW w \in Writers, Agents!Dedup(w) \/ Agents!EndWrite(w) PROVE FadeInv'
    <2>1. /\ UNCHANGED <<old, pruner, forgotten>>
          /\ \/ rows' = rows \cup {Agents!Row(w)} /\ remembered' = remembered \cup {Agents!Row(w)}
             \/ rows' = rows /\ remembered' = remembered
        BY <1>4 DEF Agents!Dedup, Agents!EndWrite
    <2>. QED BY <1>1, <2>1
<1>5. ASSUME NEW p \in Pruners, Agents!Prune(p) PROVE FadeInv'
    <2>1. /\ UNCHANGED <<rows, old, remembered, forgotten>>
          /\ pruner' = [pruner EXCEPT ![p] = [at |-> "commit", victims |-> Agents!Capped(Agents!Stale(rows))]]
        BY <1>5 DEF Agents!Prune
    <2>2. \A m \in Agents!Capped(Agents!Stale(rows)) : Outranked(m)
        BY StaleOutranked DEF Agents!Capped
    <2>. QED BY <1>1, <2>1, <2>2
<1>6. ASSUME NEW p \in Pruners, Agents!EndPrune(p) PROVE FadeInv'
    <2>1. /\ UNCHANGED <<old, remembered, forgotten>>
          /\ pruner' = [pruner EXCEPT ![p] = [at |-> "idle", victims |-> {}]]
          /\ rows \ pruner[p].victims \subseteq rows'
        BY <1>6 DEF Agents!EndPrune, Agents!NoPrune
    <2>. QED BY <1>1, <2>1
<1>. QED
    BY <1>2, <1>3, <1>4, <1>5, <1>6 DEF Agents!Next, Agents!Of

LEMMA FactStep == ASSUME MemoryInv, Agents!Next PROVE FactInv'
<1>. USE DEF MemoryInv, MemoryTyped, Agents!history, Agents!Begins
<1>0. MemoryTyped'
    BY MemoryTypedStep
\* The sizes, as numbers.
<1>1. ASSUME NEW c \in Customers, NEW f \in Facts
      PROVE  /\ Cardinality(Kept(c, f)) \in Nat /\ Cardinality(Kept(c, f)') \in Nat
             /\ Kept(c, f)' \subseteq Kept(c, f) => Cardinality(Kept(c, f)') <= Cardinality(Kept(c, f))
             /\ Cardinality(Storing(c, f)) \in Nat /\ Cardinality(Storing(c, f)') \in Nat
             /\ Storing(c, f)' \subseteq Storing(c, f) => Cardinality(Storing(c, f)') <= Cardinality(Storing(c, f))
             /\ Cardinality(Agents!Extracting(c, f)) \in Nat /\ Cardinality(Agents!Extracting(c, f)') \in Nat
             /\ Agents!Extracting(c, f)' \subseteq Agents!Extracting(c, f) =>
                  Cardinality(Agents!Extracting(c, f)') <= Cardinality(Agents!Extracting(c, f))
    <2>1. Kept(c, f) \subseteq remembered /\ Kept(c, f)' \subseteq remembered'
        BY <1>0 DEF Kept
    <2>2. Cardinality(Kept(c, f)) \in Nat /\ Cardinality(Kept(c, f)') \in Nat
        <3>1. IsFiniteSet(Kept(c, f)) /\ IsFiniteSet(Kept(c, f)')
            BY <1>0, <2>1, FS_Subset
        <3>. QED BY <3>1, FS_CardinalityType
    <2>3. Kept(c, f)' \subseteq Kept(c, f) => Cardinality(Kept(c, f)') <= Cardinality(Kept(c, f))
        BY <2>1, RowsCounted
    <2>4. Storing(c, f) \subseteq Writers /\ Storing(c, f)' \subseteq Writers
        BY DEF Storing
    <2>5. Agents!Extracting(c, f) \subseteq Writers /\ Agents!Extracting(c, f)' \subseteq Writers
        BY DEF Agents!Extracting
    <2>6. /\ Cardinality(Storing(c, f)) \in Nat /\ Cardinality(Storing(c, f)') \in Nat
          /\ Storing(c, f)' \subseteq Storing(c, f) => Cardinality(Storing(c, f)') <= Cardinality(Storing(c, f))
        BY <2>4, WritersCounted
    <2>7. /\ Cardinality(Agents!Extracting(c, f)) \in Nat /\ Cardinality(Agents!Extracting(c, f)') \in Nat
          /\ Agents!Extracting(c, f)' \subseteq Agents!Extracting(c, f) =>
               Cardinality(Agents!Extracting(c, f)') <= Cardinality(Agents!Extracting(c, f))
        BY <2>5, WritersCounted
    <2>. QED BY <2>2, <2>3, <2>6, <2>7
\* Nothing is added.
<1>2. ASSUME NEW c \in Customers, NEW f \in Facts, copies <= copies',
             Kept(c, f)' \subseteq Kept(c, f), Storing(c, f)' \subseteq Storing(c, f),
             Agents!Extracting(c, f)' \subseteq Agents!Extracting(c, f)
      PROVE  /\ Cardinality(Kept(c, f)') + Cardinality(Storing(c, f)') <= copies'
             /\ Cardinality(Agents!Extracting(c, f)') <= copies'
    BY <1>0, <1>1, <1>2 DEF FactInv
<1>3. ASSUME rows' \subseteq rows, UNCHANGED <<writer, copies>> PROVE FactInv'
    <2>1. copies <= copies'
        BY <1>3
    <2>2. \A c \in Customers, f \in Facts :
            /\ Kept(c, f)' \subseteq Kept(c, f) /\ Storing(c, f)' \subseteq Storing(c, f)
            /\ Agents!Extracting(c, f)' \subseteq Agents!Extracting(c, f)
        BY <1>3 DEF Kept, Storing, Agents!Extracting
    <2>. QED BY <1>2, <2>1, <2>2 DEF FactInv
<1>4. CASE \/ Agents!Age \/ \E p \in Pruners : Agents!Prune(p) \/ Agents!EndPrune(p)
           \/ \E c \in Customers : Agents!SkipExtraction(c) \/ \E gone \in SUBSET rows : Agents!Forget(c, gone)
    BY <1>3, <1>4 DEF Agents!Age, Agents!Prune, Agents!EndPrune, Agents!SkipExtraction, Agents!Forget
<1>5. ASSUME NEW d \in Customers, NEW w \in Writers, Agents!Remember(w, d) PROVE FactInv'
    <2>1. /\ writer' = [writer EXCEPT ![w] = [at |-> "commit", born |-> now + 1, owner |-> d, kind |-> "episodic"]]
          /\ UNCHANGED <<rows, copies>>
        BY <1>5 DEF Agents!Remember, Agents!Episode
    <2>2. \A c \in Customers, f \in Facts :
            /\ Kept(c, f)' \subseteq Kept(c, f) /\ Storing(c, f)' \subseteq Storing(c, f)
            /\ Agents!Extracting(c, f)' \subseteq Agents!Extracting(c, f)
        BY <2>1, MemoryConstants DEF Kept, Storing, Agents!Extracting
    <2>3. copies <= copies'
        BY <2>1
    <2>. QED BY <1>2, <2>2, <2>3 DEF FactInv
<1>6. ASSUME NEW d \in Customers, NEW w \in Writers, NEW g \in Facts, Agents!Extract(w, d, g) PROVE FactInv'
    <2>1. /\ writer[w].at = "idle" /\ rows' = rows
          /\ writer' = [writer EXCEPT ![w] = [at |-> "dedup", born |-> now + 1, owner |-> d, kind |-> g]]
          /\ copies' = Agents!Max({copies, 1 + Cardinality(Agents!Extracting(d, g))})
        BY <1>6, SameCount DEF Agents!Extract
    <2>2. copies' >= copies /\ copies' >= 1 + Cardinality(Agents!Extracting(d, g))
        BY <1>1, <2>1, LargerIsMax
    <2>3. ASSUME NEW c \in Customers, NEW f \in Facts
          PROVE  /\ Kept(c, f)' \subseteq Kept(c, f) /\ Storing(c, f)' \subseteq Storing(c, f)
                 /\ Agents!Extracting(c, f)' \subseteq Agents!Extracting(c, f) \cup {w}
                 /\ c # d \/ f # g => Agents!Extracting(c, f)' \subseteq Agents!Extracting(c, f)
        BY <2>1 DEF Kept, Storing, Agents!Extracting, Writing
    <2>4. ASSUME NEW c \in Customers, NEW f \in Facts
          PROVE  /\ Cardinality(Kept(c, f)') + Cardinality(Storing(c, f)') <= copies'
                 /\ Cardinality(Agents!Extracting(c, f)') <= copies'
        <3>1. CASE c # d \/ f # g
            BY <1>0, <1>2, <2>2, <2>3, <3>1
        <3>2. CASE c = d /\ f = g
            <4>1. Cardinality(Agents!Extracting(c, f)') <= Cardinality(Agents!Extracting(c, f)) + 1
                <5>1. /\ IsFiniteSet(Agents!Extracting(c, f))
                      /\ Agents!Extracting(c, f)' \subseteq Agents!Extracting(c, f) \cup {w}
                    BY <2>3, WritersCounted DEF Agents!Extracting
                <5>2. /\ Cardinality(Agents!Extracting(c, f) \cup {w}) <= Cardinality(Agents!Extracting(c, f)) + 1
                      /\ Cardinality(Agents!Extracting(c, f) \cup {w}) \in Nat /\ IsFiniteSet(Agents!Extracting(c, f) \cup {w})
                    BY <5>1, OneMore
                <5>. QED BY <1>1, <5>1, <5>2, FS_Subset
            <4>2. Cardinality(Agents!Extracting(c, f)') <= copies'
                BY <1>0, <1>1, <2>2, <3>2, <4>1
            <4>3. Cardinality(Kept(c, f)') + Cardinality(Storing(c, f)') <= copies'
                BY <1>0, <1>1, <2>2, <2>3 DEF FactInv
            <4>. QED BY <4>2, <4>3
        <3>. QED BY <3>1, <3>2
    <2>. QED BY <2>4 DEF FactInv
<1>7. ASSUME NEW w \in Writers, Agents!Dedup(w) PROVE FactInv'
    <2>1. /\ writer[w].at = "dedup" /\ UNCHANGED <<rows, copies>>
          /\ writer' = [writer EXCEPT ![w] = IF Agents!Known(writer[w].owner, writer[w].kind) THEN Agents!NoWrite
                                             ELSE [writer[w] EXCEPT !.at = "commit"]]
        BY <1>7 DEF Agents!Dedup
    <2>2. ASSUME NEW c \in Customers, NEW f \in Facts
          PROVE  /\ Kept(c, f)' = Kept(c, f)
                 /\ Agents!Extracting(c, f)' \subseteq Agents!Extracting(c, f)
                 /\ \/ Storing(c, f)' \subseteq Storing(c, f)
                    \/ Kept(c, f) = {} /\ Storing(c, f)' \subseteq Agents!Extracting(c, f)
        <3>1. CASE Agents!Known(writer[w].owner, writer[w].kind)
            <4>1. writer' = [writer EXCEPT ![w] = Agents!NoWrite]
                BY <2>1, <3>1
            <4>. QED
                BY <2>1, <4>1, MemoryConstants
                DEF Kept, Storing, Agents!Extracting, Agents!NoWrite, Agents!Episode
        <3>2. CASE ~Agents!Known(writer[w].owner, writer[w].kind)
            <4>1. writer' = [writer EXCEPT ![w] = [writer[w] EXCEPT !.at = "commit"]]
                BY <2>1, <3>2
            <4>2. Kept(c, f)' = Kept(c, f) /\ Agents!Extracting(c, f)' \subseteq Agents!Extracting(c, f)
                BY <2>1, <4>1 DEF Kept, Agents!Extracting, Writing
            <4>3. Storing(c, f)' \subseteq Agents!Extracting(c, f)
                BY <4>1 DEF Storing, Agents!Extracting, Writing
            <4>4. CASE writer[w].owner = c /\ writer[w].kind = f
                BY <3>2, <4>2, <4>3, <4>4 DEF Kept, Agents!Known
            <4>5. CASE ~(writer[w].owner = c /\ writer[w].kind = f)
                <5>1. Storing(c, f)' \subseteq Storing(c, f)
                    BY <4>1, <4>5 DEF Storing, Writing
                <5>. QED BY <4>2, <5>1
            <4>. QED BY <4>4, <4>5
        <3>. QED BY <3>1, <3>2
    <2>3. ASSUME NEW c \in Customers, NEW f \in Facts
          PROVE  /\ Cardinality(Kept(c, f)') + Cardinality(Storing(c, f)') <= copies'
                 /\ Cardinality(Agents!Extracting(c, f)') <= copies'
        <3>0. copies' = copies
            BY <2>1
        <3>1. CASE Storing(c, f)' \subseteq Storing(c, f)
            BY <1>2, <2>2, <3>0, <3>1
        <3>2. CASE Kept(c, f) = {} /\ Storing(c, f)' \subseteq Agents!Extracting(c, f)
            <4>1. Cardinality(Kept(c, f)') = 0
                BY <2>2, <3>2, FS_EmptySet
            <4>2. Cardinality(Storing(c, f)') <= Cardinality(Agents!Extracting(c, f))
                BY <3>2, WritersCounted DEF Agents!Extracting
            <4>3. Cardinality(Agents!Extracting(c, f)) <= copies
                BY DEF FactInv
            <4>. QED BY <1>1, <2>2, <3>0, <4>1, <4>2, <4>3
        <3>. QED BY <2>2, <3>1, <3>2
    <2>. QED BY <2>3 DEF FactInv
<1>8. ASSUME NEW w \in Writers, Agents!EndWrite(w) PROVE FactInv'
    <2>1. /\ writer[w].at = "commit" /\ copies' = copies
          /\ writer' = [writer EXCEPT ![w] = Agents!NoWrite]
          /\ rows' = rows \cup {Agents!Row(w)} \/ rows' = rows
        BY <1>8 DEF Agents!EndWrite
    <2>2. ASSUME NEW c \in Customers, NEW f \in Facts
          PROVE  /\ Agents!Extracting(c, f)' \subseteq Agents!Extracting(c, f)
                 /\ Storing(c, f)' = Storing(c, f) \ {w}
                 /\ \/ Kept(c, f)' \subseteq Kept(c, f)
                    \/ w \in Storing(c, f) /\ Kept(c, f)' \subseteq Kept(c, f) \cup {Agents!Row(w)}
        <3>1. Agents!Extracting(c, f)' \subseteq Agents!Extracting(c, f) /\ Storing(c, f)' = Storing(c, f) \ {w}
            BY <2>1, MemoryConstants DEF Storing, Agents!Extracting, Agents!NoWrite, Agents!Episode
        <3>2. Agents!Row(w).owner = writer[w].owner /\ Agents!Row(w).kind = writer[w].kind
            BY DEF Agents!Row
        <3>3. CASE writer[w].owner = c /\ writer[w].kind = f
            <4>1. w \in Storing(c, f) /\ Kept(c, f)' \subseteq Kept(c, f) \cup {Agents!Row(w)}
                BY <2>1, <3>3 DEF Storing, Kept
            <4>. QED BY <3>1, <4>1
        <3>4. CASE ~(writer[w].owner = c /\ writer[w].kind = f)
            <4>1. Kept(c, f)' \subseteq Kept(c, f)
                BY <2>1, <3>2, <3>4 DEF Kept
            <4>. QED BY <3>1, <4>1
        <3>. QED BY <3>3, <3>4
    <2>3. ASSUME NEW c \in Customers, NEW f \in Facts
          PROVE  /\ Cardinality(Kept(c, f)') + Cardinality(Storing(c, f)') <= copies'
                 /\ Cardinality(Agents!Extracting(c, f)') <= copies'
        <3>0. copies <= copies' /\ Storing(c, f)' \subseteq Storing(c, f)
            BY <2>1, <2>2
        <3>1. CASE Kept(c, f)' \subseteq Kept(c, f)
            BY <1>2, <2>2, <3>0, <3>1
        <3>2. CASE w \in Storing(c, f) /\ Kept(c, f)' \subseteq Kept(c, f) \cup {Agents!Row(w)}
            <4>1. Cardinality(Storing(c, f)') = Cardinality(Storing(c, f)) - 1
                <5>1. IsFiniteSet(Storing(c, f))
                    BY WritersCounted DEF Storing
                <5>2. Cardinality(Storing(c, f) \ {w}) = Cardinality(Storing(c, f)) - 1
                    BY <3>2, <5>1, FS_RemoveElement
                <5>. QED BY <2>2, <5>2
            <4>2. Cardinality(Kept(c, f)') <= Cardinality(Kept(c, f)) + 1
                <5>1. IsFiniteSet(Kept(c, f))
                    BY RowsCounted DEF Kept
                <5>2. /\ Cardinality(Kept(c, f) \cup {Agents!Row(w)}) <= Cardinality(Kept(c, f)) + 1
                      /\ Cardinality(Kept(c, f) \cup {Agents!Row(w)}) \in Nat /\ IsFiniteSet(Kept(c, f) \cup {Agents!Row(w)})
                    BY <5>1, OneMore
                <5>. QED BY <1>1, <3>2, <5>2, FS_Subset
            <4>3. /\ Cardinality(Kept(c, f)) + Cardinality(Storing(c, f)) <= copies
                  /\ Cardinality(Agents!Extracting(c, f)) <= copies
                BY DEF FactInv
            <4>. QED BY <1>1, <2>1, <2>2, <4>1, <4>2, <4>3
        <3>. QED BY <2>2, <3>1, <3>2
    <2>. QED BY <2>3 DEF FactInv
<1>. QED
    BY <1>4, <1>5, <1>6, <1>7, <1>8 DEF Agents!Next, Agents!Of

LEMMA MemoryAlways == AllSpec => [](area = "memory" => MemoryInv)
<1>1. AllInit => (area = "memory" => MemoryInv)
    BY MemoryInit DEF AllInit
<1>2. (area = "memory" => MemoryInv) /\ [AllNext]_allVars => (area = "memory" => MemoryInv)'
    <2>. SUFFICES ASSUME area = "memory" => MemoryInv, [AllNext]_allVars, area' = "memory" PROVE MemoryInv'
        OBVIOUS
    <2>1. area = "memory" /\ (Agents!Next \/ UNCHANGED agentVars)
        BY DEF AllNext, allVars
    <2>2. CASE Agents!Next
        BY <2>1, <2>2, MemoryTypedStep, BornStep, FadeStep, FactStep DEF MemoryInv
    <2>3. CASE UNCHANGED agentVars
        <3>1. /\ \A m : Outranked(m)' <=> Outranked(m)
              /\ \A c, f : /\ Kept(c, f)' = Kept(c, f) /\ Storing(c, f)' = Storing(c, f)
                           /\ Agents!Extracting(c, f)' = Agents!Extracting(c, f)
            BY <2>3 DEF agentVars, Outranked, Newer, Kept, Storing, Agents!Extracting
        <3>2. FadeInv'
            BY <2>1, <2>3, <3>1 DEF agentVars, MemoryInv, FadeInv
        <3>3. FactInv'
            BY <2>1, <2>3, <3>1 DEF agentVars, MemoryInv, FactInv
        <3>4. MemoryTyped' /\ BornInv'
            BY <2>1, <2>3 DEF agentVars, MemoryInv, MemoryTyped, BornInv
        <3>. QED BY <3>2, <3>3, <3>4 DEF MemoryInv
    <2>. QED BY <2>1, <2>2, <2>3
<1>. QED BY <1>1, <1>2, PTL DEF AllSpec

\* The scheduler forgets only what newer memories have outranked, even when its DELETE
\* commits long after it chose; and only extractions that overlapped keep a fact twice
\* (app/agents/memory.py).
THEOREM MemoriesFadeInOrder == AllSpec => []OnlyTheOutrankedFade
<1>1. ASSUME MemoryInv PROVE Agents!OnlyTheOutrankedFade
    <2>. USE <1>1 DEF MemoryInv
    <2>1. rows \cup forgotten \subseteq remembered
        BY DEF MemoryTyped
    <2>2. ASSUME NEW m \in remembered \ (rows \cup forgotten)
          PROVE  /\ m.kind = Agents!Episode /\ m.born <= old
                 /\ Agents!Cardinality({n \in remembered : n.kind = Agents!Episode /\ n.owner = m.owner /\ n.born > m.born})
                      >= KeepRecent
        <3>1. Outranked(m)
            BY DEF FadeInv
        <3>. QED BY <3>1, SameCount DEF Outranked, Newer, Agents!Episode
    <2>3. ASSUME NEW c \in Customers, NEW f \in Facts
          PROVE  Agents!Cardinality({m \in Agents!Of(c) : m.kind = f}) <= copies
        <3>1. {m \in Agents!Of(c) : m.kind = f} = Kept(c, f)
            BY DEF Agents!Of, Kept
        <3>2. Cardinality(Kept(c, f)) \in Nat /\ Cardinality(Storing(c, f)) \in Nat
            <4>1. Kept(c, f) \subseteq remembered /\ Storing(c, f) \subseteq Writers
                BY <2>1 DEF Kept, Storing
            <4>. QED BY <4>1, RowsCounted, WritersCounted
        <3>3. Cardinality(Kept(c, f)) + Cardinality(Storing(c, f)) <= copies /\ copies \in Nat
            BY DEF FactInv, MemoryTyped
        <3>4. Cardinality(Kept(c, f)) <= copies
            BY <3>2, <3>3
        <3>. QED BY <3>1, <3>4, SameCount
    <2>. QED BY <2>1, <2>2, <2>3 DEF Agents!OnlyTheOutrankedFade
<1>2. (area = "memory" => MemoryInv) => OnlyTheOutrankedFade
    BY <1>1 DEF OnlyTheOutrankedFade
<1>. QED BY <1>2, MemoryAlways, PTL

-----------------------------------------------------------------------------
(* Types of the other parts                                                *)
(*                                                                         *)
(* What the invariants above leave out of the modules' type invariants:    *)
(* the fields no safety property depends on, and the bounds.               *)

\* Sessions are one of the areas.
LEMMA SessionsWithin == AllSpec => Spec
<1>1. AllInit => Init
    BY DEF AllInit
<1>2. [AllNext]_allVars => [Next]_vars
    BY DEF AllNext, allVars
<1>. QED BY <1>1, <1>2, PTL DEF AllSpec, Spec

\* A session is somebody's who asked to sign in.
EntryRest == sessions \subseteq [request : SignIns, email : Emails] /\ signInFaults \in 0 .. MaxFaults

LEMMA EntryRestStep == ASSUME EntryInv, EntryRest, Entry!Next PROVE EntryRest'
<1>. USE DEF EntryRest
<1>1. ASSUME NEW r \in SignIns, Entry!SetSession(r) PROVE EntryRest'
    <2>1. sessions' = sessions \cup {[request |-> r, email |-> signIn[r].email]} /\ UNCHANGED signInFaults
        BY <1>1 DEF Entry!SetSession
    <2>2. signIn[r].email \in Emails
        BY DEF EntryInv, EntryTyped, EntryRequest
    <2>. QED BY <2>1, <2>2
<1>2. ASSUME NEW r \in SignIns, Entry!Stop(r) PROVE EntryRest'
    BY <1>2, SessionsAssumption DEF Entry!Stop
<1>3. ASSUME NEW r \in SignIns, NEW e \in Emails,
             \/ Entry!GoogleCallback(r, e) \/ Entry!OtpNoMatch(r, e)
             \/ \E c \in Codes : Entry!OtpSend(r, e, c) \/ Entry!OtpMatch(r, e, c)
      PROVE  EntryRest'
    BY <1>3 DEF Entry!GoogleCallback, Entry!OtpNoMatch, Entry!OtpSend, Entry!OtpMatch
<1>4. ASSUME NEW r \in SignIns,
             \/ Entry!SelectBySub(r) \/ Entry!SelectByEmail(r) \/ Entry!LinkUser(r) \/ Entry!InsertUser(r)
             \/ Entry!InsertRefused(r) \/ Entry!EnsureCustomer(r) \/ Entry!Welcome(r) \/ Entry!Commit(r)
      PROVE  EntryRest'
    BY <1>4 DEF Entry!SelectBySub, Entry!SelectByEmail, Entry!LinkUser, Entry!InsertUser,
                Entry!InsertRefused, Entry!EnsureCustomer, Entry!Welcome, Entry!Commit
<1>5. ASSUME NEW c \in Codes, Entry!CodeExpires(c) PROVE EntryRest'
    BY <1>5 DEF Entry!CodeExpires
<1>. QED BY <1>1, <1>2, <1>3, <1>4, <1>5 DEF Entry!Next

\* No account is mailed more often than there are requests.
LEMMA EntryTypes == ASSUME EntryInv, EntryRest PROVE Entry!TypeOK
<1>1. Entry!Cardinality(SignIns) = Cardinality(SignIns)
    BY DEF Cardinality, Entry!Cardinality, IsFiniteSet, Entry!IsFiniteSet
<1>2. \A e \in Emails : welcomes[e] \in 0 .. Cardinality(SignIns)
    <2>. SUFFICES ASSUME NEW e \in Emails PROVE welcomes[e] \in 0 .. Cardinality(SignIns)
        OBVIOUS
    <2>1. Mailers(e) \subseteq SignIns
        BY DEF Mailers
    <2>2. /\ Cardinality(Mailers(e)) \in Nat /\ Cardinality(SignIns) \in Nat
          /\ Cardinality(Mailers(e)) <= Cardinality(SignIns)
        BY <2>1, MailersFinite
    <2>3. welcomes[e] \in Nat /\ welcomes[e] <= Cardinality(Mailers(e))
        BY DEF EntryInv, EntryTyped, MailInv
    <2>. QED BY <2>2, <2>3
<1>3. welcomes \in [Emails -> 0 .. Cardinality(SignIns)]
    BY <1>2 DEF EntryInv, EntryTyped
<1>. QED BY <1>1, <1>3 DEF EntryInv, EntryTyped, EntryRequest, EntryRest, Entry!TypeOK

LEMMA EntryPart == AllSpec => [](area = "signin" => Entry!TypeOK)
<1>1. AllInit => (area = "signin" => EntryRest)
    BY SessionsAssumption DEF AllInit, Entry!Init, EntryRest
<1>2. (area = "signin" => EntryInv) /\ (area = "signin" => EntryRest) /\ [AllNext]_allVars
        => (area = "signin" => EntryRest)'
    <2>. SUFFICES ASSUME area = "signin" => EntryInv, area = "signin" => EntryRest,
                         [AllNext]_allVars, area' = "signin"
                  PROVE  EntryRest'
        OBVIOUS
    <2>1. area = "signin" /\ (Entry!Next \/ UNCHANGED entryVars)
        BY DEF AllNext, allVars
    <2>2. CASE Entry!Next
        BY <2>1, <2>2, EntryRestStep
    <2>3. CASE UNCHANGED entryVars
        BY <2>1, <2>3 DEF entryVars, EntryRest
    <2>. QED BY <2>1, <2>2, <2>3
<1>3. (area = "signin" => EntryInv) /\ (area = "signin" => EntryRest) => (area = "signin" => Entry!TypeOK)
    BY EntryTypes
<1>. QED BY <1>1, <1>2, <1>3, EntryAlways, PTL DEF AllSpec

\* A count that is stored was signed.
PasskeyRest ==
    /\ stored \in [Credentials -> 0 .. Cardinality(Challenges) + 1]
    /\ accepted \subseteq [request : Requests, challenge : Challenges, count : 0 .. Cardinality(Challenges)]
    /\ passkeyFaults \in 0 .. MaxFaults

LEMMA PasskeyRestStep == ASSUME PasskeyInv, PasskeyRest, Passkey!Next PROVE PasskeyRest'
<1>. USE DEF PasskeyRest, Passkey!redis
<1>. DEFINE C == Cardinality(Challenges)
<1>0. C \in Nat /\ Passkey!Absent = C + 1
    BY ChallengesCounted DEF Passkey!Absent
<1>1. \A r \in Requests : /\ ceremony[r].with.count \in 0 .. C /\ ceremony[r].with.challenge \in Challenges
                          /\ ceremony[r].with.credential \in Credentials
    BY ChallengesCounted DEF PasskeyInv, PasskeyTyped, CeremonyRequest, Passkey!Assertion
<1>. HIDE DEF C
<1>2. ASSUME NEW r \in Requests, Passkey!InsertCredential(r) \/ Passkey!CommitCount(r) PROVE PasskeyRest'
    <2>. DEFINE k == ceremony[r].with.credential
                n == ceremony[r].with.count
    <2>1. \/ stored' = stored \/ stored' = [stored EXCEPT ![k] = n]
        BY <1>2 DEF Passkey!InsertCredential, Passkey!CommitCount, PasskeyRest
    <2>2. n \in 0 .. C + 1
        BY <1>0, <1>1
    <2>. HIDE DEF n, k
    <2>3. stored' \in [Credentials -> 0 .. C + 1]
        BY <2>1, <2>2 DEF C
    <2>4. UNCHANGED <<accepted, passkeyFaults>>
        BY <1>2 DEF Passkey!InsertCredential, Passkey!CommitCount
    <2>. QED BY <2>3, <2>4 DEF C
<1>3. ASSUME NEW k \in Credentials, Passkey!DeleteCredential(k) PROVE PasskeyRest'
    BY <1>0, <1>3 DEF Passkey!DeleteCredential, C
<1>4. ASSUME NEW r \in Requests, Passkey!LoginAnswer(r) PROVE PasskeyRest'
    BY <1>1, <1>4 DEF Passkey!LoginAnswer, C
<1>5. ASSUME NEW r \in Requests, Passkey!Stop(r) PROVE PasskeyRest'
    BY <1>5, SessionsAssumption DEF Passkey!Stop
<1>6. ASSUME UNCHANGED <<stored, accepted, passkeyFaults>> PROVE PasskeyRest'
    BY <1>6
<1>7. ASSUME NEW r \in Requests,
             \/ Passkey!GetPending(r) \/ Passkey!ForgetPending(r) \/ Passkey!ConsumeChallenge(r)
             \/ Passkey!SelectCredential(r) \/ \E a \in assertions : Passkey!Receive(r, a)
      PROVE  PasskeyRest'
    BY <1>6, <1>7 DEF Passkey!GetPending, Passkey!ForgetPending, Passkey!ConsumeChallenge,
                      Passkey!SelectCredential, Passkey!Receive
<1>8. ASSUME NEW x \in Challenges,
             \/ Passkey!RegisterBegin(x) \/ Passkey!LoginBegin(x)
             \/ \E kind \in {"register", "login"}, k \in Credentials : Passkey!Assert(kind, x, k)
      PROVE  PasskeyRest'
    BY <1>6, <1>8 DEF Passkey!RegisterBegin, Passkey!LoginBegin, Passkey!Assert
<1>9. CASE Passkey!ChallengeExpires
    BY <1>6, <1>9 DEF Passkey!ChallengeExpires
<1>. QED BY <1>2, <1>3, <1>4, <1>5, <1>7, <1>8, <1>9 DEF Passkey!Next

LEMMA PasskeyPart == AllSpec => [](area = "passkeys" => Passkey!TypeOK)
<1>1. AllInit => (area = "passkeys" => PasskeyRest)
    BY ChallengesCounted, SessionsAssumption DEF AllInit, Passkey!Init, PasskeyRest, Passkey!Absent
<1>2. (area = "passkeys" => PasskeyInv) /\ (area = "passkeys" => PasskeyRest) /\ [AllNext]_allVars
        => (area = "passkeys" => PasskeyRest)'
    <2>. SUFFICES ASSUME area = "passkeys" => PasskeyInv, area = "passkeys" => PasskeyRest,
                         [AllNext]_allVars, area' = "passkeys"
                  PROVE  PasskeyRest'
        OBVIOUS
    <2>1. area = "passkeys" /\ (Passkey!Next \/ UNCHANGED passkeyVars)
        BY DEF AllNext, allVars
    <2>2. CASE Passkey!Next
        BY <2>1, <2>2, PasskeyRestStep
    <2>3. CASE UNCHANGED passkeyVars
        BY <2>1, <2>3 DEF passkeyVars, PasskeyRest
    <2>. QED BY <2>1, <2>2, <2>3
<1>3. (area = "passkeys" => PasskeyInv) /\ (area = "passkeys" => PasskeyRest)
        => (area = "passkeys" => Passkey!TypeOK)
    BY ChallengesCounted DEF PasskeyInv, PasskeyTyped, CeremonyRequest, PasskeyRest, Passkey!TypeOK, Passkey!Absent
<1>. QED BY <1>1, <1>2, <1>3, PasskeyAlways, PTL DEF AllSpec

\* The limiter's type invariant is inductive: a counter that Redis has forgotten has no TTL.
LEMMA Counted == ASSUME NEW n \in 0 .. Limit + 1 PROVE Limiter!Min({n + 1, Limit + 1}) \in 1 .. Limit + 1
<1>1. Limit \in Nat
    BY PeriodAssumption
<1>2. \E x \in {n + 1, Limit + 1} : \A y \in {n + 1, Limit + 1} : x <= y
    BY <1>1
<1>3. Limiter!Min({n + 1, Limit + 1}) \in {n + 1, Limit + 1}
    BY <1>2 DEF Limiter!Min
<1>4. \A y \in {n + 1, Limit + 1} : Limiter!Min({n + 1, Limit + 1}) <= y
    BY <1>2 DEF Limiter!Min
<1>. QED BY <1>1, <1>3, <1>4

LEMMA LimiterStep == ASSUME Limiter!TypeOK, Limiter!Next PROVE Limiter!TypeOK'
<1>. DEFINE Row == [at : {"idle", "stamp", "ttl", "judge"}, seen : 0 .. Limit + 1]
            Numbers == count \in 0 .. Limit + 1 /\ client \in [Requests -> Row] /\ crashes \in 0 .. MaxFaults
            Armed == armed \in BOOLEAN /\ (armed => count > 0)
<1>0. Limit \in Nat /\ MaxFaults \in Nat /\ Limiter!Idle \in Row
    BY PeriodAssumption, SessionsAssumption DEF Limiter!Idle
<1>1. Numbers
    BY DEF Limiter!TypeOK
<1>2. Armed
    BY Zenon DEF Limiter!TypeOK
<1>3. ASSUME Numbers', Armed' PROVE Limiter!TypeOK'
    BY <1>3, Zenon DEF Limiter!TypeOK
<1>4. ASSUME NEW c \in Requests, Limiter!Incr(c) PROVE Limiter!TypeOK'
    <2>1. count' \in 1 .. Limit + 1
        BY <1>1, <1>4, Counted DEF Limiter!Incr
    <2>2. Limiter!SecondCommand(count') \in {"stamp", "ttl", "judge"}
        BY DEF Limiter!SecondCommand
    <2>3. client' = [client EXCEPT ![c] = [at |-> Limiter!SecondCommand(count'), seen |-> count']]
        BY <1>4 DEF Limiter!Incr
    <2>4. crashes' = crashes /\ armed' = armed
        BY <1>4 DEF Limiter!Incr
    <2>5. Numbers'
        BY <1>0, <1>1, <2>1, <2>2, <2>3, <2>4
    <2>6. count' > 0
        BY <1>0, <2>1
    <2>7. Armed'
        BY <1>2, <2>4, <2>6, Zenon
    <2>. QED BY <1>3, <2>5, <2>7
<1>5. ASSUME NEW c \in Requests, Limiter!Stamp(c) \/ Limiter!Ttl(c) PROVE Limiter!TypeOK'
    <2>1. \E at \in {"stamp", "judge"} : client' = [client EXCEPT ![c].at = at]
        BY <1>5 DEF Limiter!Stamp, Limiter!Ttl
    <2>2. count' = count /\ crashes' = crashes
        BY <1>5 DEF Limiter!Stamp, Limiter!Ttl, Limiter!bucket
    <2>3. Numbers'
        BY <1>1, <2>1, <2>2
    <2>4. Armed'
        <3>1. armed' = armed \/ armed' = (count > 0)
            BY <1>5 DEF Limiter!Stamp, Limiter!Ttl, Limiter!bucket
        <3>2. CASE armed' = armed
            BY <1>2, <2>2, <3>2, Zenon
        <3>3. CASE armed' = (count > 0)
            <4>1. (count > 0) \in BOOLEAN
                OBVIOUS
            <4>. QED BY <2>2, <3>3, <4>1, Zenon
        <3>. QED BY <3>1, <3>2, <3>3
    <2>. QED BY <1>3, <2>3, <2>4
<1>6. ASSUME NEW c \in Requests, Limiter!Judge(c) \/ Limiter!Crash(c) PROVE Limiter!TypeOK'
    <2>1. client' = [client EXCEPT ![c] = Limiter!Idle]
        BY <1>6 DEF Limiter!Judge, Limiter!Crash
    <2>2. \/ crashes' = crashes
          \/ crashes < MaxFaults /\ crashes' = crashes + 1
        BY <1>6 DEF Limiter!Judge, Limiter!Crash
    <2>3. count' = count /\ armed' = armed
        BY <1>6 DEF Limiter!Judge, Limiter!Crash, Limiter!bucket
    <2>4. client' \in [Requests -> Row]
        BY <1>0, <1>1, <2>1
    <2>5. crashes' \in 0 .. MaxFaults
        BY <1>0, <1>1, <2>2
    <2>6. Armed'
        BY <1>2, <2>3, Zenon
    <2>. QED BY <1>1, <1>3, <2>3, <2>4, <2>5, <2>6
<1>7. CASE Limiter!WindowEnds
    <2>1. count' = 0 /\ armed' = FALSE /\ client' = client /\ crashes' = crashes
        BY <1>7 DEF Limiter!WindowEnds
    <2>2. Numbers'
        BY <1>0, <1>1, <2>1
    <2>3. Armed'
        BY <2>1, Zenon
    <2>. QED BY <1>3, <2>2, <2>3
<1>. QED BY <1>4, <1>5, <1>6, <1>7, Zenon DEF Limiter!Next, Limiter!Serve

LEMMA LimiterPart == AllSpec => []Limiter!TypeOK
<1>1. ASSUME Limiter!Init PROVE Limiter!TypeOK
    <2>1. /\ count \in 0 .. Limit + 1 /\ crashes \in 0 .. MaxFaults
          /\ client \in [Requests -> [at : {"idle", "stamp", "ttl", "judge"}, seen : 0 .. Limit + 1]]
        BY <1>1, PeriodAssumption, SessionsAssumption DEF Limiter!Init, Limiter!Idle
    <2>2. armed \in BOOLEAN /\ ~ armed
        BY <1>1, Zenon DEF Limiter!Init
    <2>. QED BY <2>1, <2>2, Zenon DEF Limiter!TypeOK
<1>2. Limiter!TypeOK /\ [AllNext]_allVars => Limiter!TypeOK'
    <2>. SUFFICES ASSUME Limiter!TypeOK, [AllNext]_allVars PROVE Limiter!TypeOK'
        OBVIOUS
    <2>1. Limiter!Next \/ UNCHANGED limiterVars
        BY DEF AllNext, allVars
    <2>2. CASE Limiter!Next
        BY <2>2, LimiterStep
    <2>3. CASE UNCHANGED limiterVars
        BY <2>3 DEF limiterVars, Limiter!TypeOK
    <2>. QED BY <2>1, <2>2, <2>3
<1>3. AllInit => Limiter!TypeOK
    BY <1>1 DEF AllInit
<1>. QED BY <1>2, <1>3, PTL DEF AllSpec

\* The tool calls of a turn are among those of the thread; no more turns are in flight at
\* once than there are.
ChatRest ==
    /\ status \in [Turns -> {"none", "running", "completed", "failed"}]
    /\ calls \in 0 .. MaxTools /\ chatFaults \in 0 .. MaxFaults
    /\ \A t \in Turns : turn[t].opened <= calls /\ accounts[t] <= MaxTools
    /\ peak <= Cardinality(Turns)

LEMMA ChatRestStep == ASSUME ChatTyped, ChatRest, Chat!Next PROVE ChatRest'
<1>. USE DEF ChatRest, Chat!rows, Chat!history, Chat!Works, Chat!Fails
<1>0. /\ MaxTools \in Nat /\ MaxFaults \in Nat /\ calls \in Nat /\ chatFaults \in Nat /\ peak \in Nat
      /\ Cardinality(Turns) \in Nat /\ Chat!NoTurn.opened = 0
    BY ChatAssumed, SessionsAssumption, FS_CardinalityType DEF ChatTyped, Chat!NoTurn
<1>1. \A t \in Turns : turn[t] \in TurnRow /\ turn[t].opened \in Nat /\ accounts[t] \in Nat
    BY DEF ChatTyped, TurnRow
<1>2. turn \in [Turns -> TurnRow] /\ accounts \in [Turns -> Nat]
    BY DEF ChatTyped
\* Steps that open no account.
<1>3. ASSUME NEW t \in Turns, NEW v, turn' = [turn EXCEPT ![t] = v], v.opened \in {0, turn[t].opened},
             calls' \in {calls, calls + 1}
      PROVE  \A s \in Turns : turn'[s].opened <= calls'
    <2>. SUFFICES ASSUME NEW s \in Turns PROVE turn'[s].opened <= calls'
        OBVIOUS
    <2>1. turn'[s] = IF s = t THEN v ELSE turn[s]
        BY <1>2, <1>3
    <2>2. turn'[s].opened \in {0, turn[s].opened} /\ turn[s].opened <= calls /\ turn[s].opened \in Nat
        BY <1>1, <1>3, <2>1
    <2>. QED BY <1>0, <1>3, <2>2
<1>4. ASSUME NEW t \in Turns, NEW a, Chat!Goto(t, a) \/ Chat!Close(t, a), calls' = calls
      PROVE  \A s \in Turns : turn'[s].opened <= calls'
    <2>1. CASE Chat!Goto(t, a)
        <3>1. turn' = [turn EXCEPT ![t] = [turn[t] EXCEPT !.at = a]]
            BY <2>1 DEF Chat!Goto
        <3>2. [turn[t] EXCEPT !.at = a].opened = turn[t].opened
            BY <1>1 DEF TurnRow
        <3>. QED BY <1>3, <1>4, <3>1, <3>2
    <2>2. CASE Chat!Close(t, a)
        <3>1. turn' = [turn EXCEPT ![t] = [Chat!NoTurn EXCEPT !.at = a]]
            BY <2>2 DEF Chat!Close
        <3>2. [Chat!NoTurn EXCEPT !.at = a].opened = 0
            BY DEF Chat!NoTurn
        <3>. QED BY <1>3, <1>4, <3>1, <3>2
    <2>. QED BY <1>4, <2>1, <2>2
<1>5. ASSUME chatFaults' = chatFaults \/ Chat!Fails PROVE chatFaults' \in 0 .. MaxFaults
    BY <1>0, <1>5
<1>6. ASSUME NEW t \in Turns, Chat!Ask(t) PROVE ChatRest'
    <2>1. peak' \in {peak, Chat!Cardinality(Chat!InFlight) + 1} /\ Chat!At(t, "idle")
        BY <1>6 DEF Chat!Ask
    <2>2. Chat!Cardinality(Chat!InFlight) = Cardinality(Chat!InFlight)
        BY DEF Cardinality, Chat!Cardinality, IsFiniteSet, Chat!IsFiniteSet
    <2>3. Chat!InFlight \subseteq Turns /\ t \notin Chat!InFlight
        BY <2>1 DEF Chat!InFlight, Chat!At
    <2>4. IsFiniteSet(Chat!InFlight) /\ Cardinality(Chat!InFlight) \in Nat
        BY <2>3, TurnsCounted
    <2>5. Cardinality(Chat!InFlight \cup {t}) = Cardinality(Chat!InFlight) + 1
        BY <2>3, <2>4, FS_AddElement
    <2>6. Cardinality(Chat!InFlight \cup {t}) <= Cardinality(Turns)
        BY <2>3, TurnsCounted
    <2>7. peak' <= Cardinality(Turns)
        BY <2>1, <2>2, <2>5, <2>6
    <2>8. turn' = [turn EXCEPT ![t] = [Chat!NoTurn EXCEPT !.at = "begin", !.cid = caller]]
        BY <1>6 DEF Chat!Ask
    <2>9. [Chat!NoTurn EXCEPT !.at = "begin", !.cid = caller].opened = 0
        BY DEF Chat!NoTurn
    <2>10. UNCHANGED <<calls, accounts, status, chatFaults>>
        BY <1>6 DEF Chat!Ask
    <2>11. \A s \in Turns : turn'[s].opened <= calls'
        BY <1>3, <2>8, <2>9, <2>10
    <2>. QED BY <2>7, <2>10, <2>11
<1>7. ASSUME NEW t \in Turns, Chat!Begin(t) PROVE ChatRest'
    <2>. DEFINE v == [turn[t] EXCEPT !.at = "supervise",
                            !.state = IF turn[t].cid = None THEN saved
                                      ELSE [saved EXCEPT !.customer = turn[t].cid]]
    <2>1. turn' = [turn EXCEPT ![t] = v]
        BY <1>7 DEF Chat!Begin
    <2>2. v.opened = turn[t].opened
        BY <1>1 DEF TurnRow
    <2>3. UNCHANGED <<calls, accounts, peak>> /\ (chatFaults' = chatFaults \/ Chat!Fails)
          /\ status' = [status EXCEPT ![t] = "running"]
        BY <1>7 DEF Chat!Begin
    <2>. HIDE DEF v
    <2>4. \A s \in Turns : turn'[s].opened <= calls'
        BY <1>3, <2>1, <2>2, <2>3
    <2>. QED BY <1>5, <2>3, <2>4
<1>8. ASSUME NEW t \in Turns,
             \/ Chat!Supervise(t) \/ Chat!Answered(t) \/ Chat!Raise(t) \/ Chat!ReadTitle(t) \/ Chat!WriteTitle(t)
             \/ Chat!Reply(t)
      PROVE  ChatRest'
    <2>1. UNCHANGED <<calls, accounts, peak, status>> /\ (chatFaults' = chatFaults \/ Chat!Fails)
        BY <1>8 DEF Chat!Supervise, Chat!Answered, Chat!Raise, Chat!ReadTitle, Chat!WriteTitle, Chat!Reply
    <2>2. \E a : Chat!Goto(t, a) \/ Chat!Close(t, a)
        BY <1>8 DEF Chat!Supervise, Chat!Answered, Chat!Raise, Chat!ReadTitle, Chat!WriteTitle, Chat!Reply, Chat!Over
    <2>3. \A s \in Turns : turn'[s].opened <= calls'
        BY <1>4, <2>1, <2>2
    <2>. QED BY <1>5, <2>1, <2>3
<1>9. ASSUME NEW t \in Turns, Chat!Synthesize(t) \/ Chat!Break(t) \/ Chat!Leave(t) PROVE ChatRest'
    <2>1. UNCHANGED <<calls, accounts, peak, status>> /\ (chatFaults' = chatFaults \/ Chat!Fails)
        BY <1>9 DEF Chat!Synthesize, Chat!Break, Chat!Leave
    <2>2. \/ \E a : Chat!Goto(t, a) \/ Chat!Close(t, a)
          \/ turn' = [turn EXCEPT ![t] = [turn[t] EXCEPT !.at = "commit", !.broken = TRUE]]
          \/ turn' = [turn EXCEPT ![t] = [turn[t] EXCEPT !.broken = TRUE]]
          \/ turn' = [turn EXCEPT ![t] = [turn[t] EXCEPT !.left = TRUE]]
        BY <1>9 DEF Chat!Synthesize, Chat!Break, Chat!Leave, Chat!Over
    <2>3. /\ [turn[t] EXCEPT !.at = "commit", !.broken = TRUE].opened = turn[t].opened
          /\ [turn[t] EXCEPT !.broken = TRUE].opened = turn[t].opened
          /\ [turn[t] EXCEPT !.left = TRUE].opened = turn[t].opened
        BY <1>1 DEF TurnRow
    <2>4. \A s \in Turns : turn'[s].opened <= calls'
        BY <1>3, <1>4, <2>1, <2>2, <2>3
    <2>. QED BY <1>5, <2>1, <2>4
<1>10. ASSUME NEW t \in Turns,
              \/ Chat!CreateLead(t) \/ Chat!Qualify(t) \/ Chat!Verify(t) \/ Chat!RequestHandoff(t)
              \/ \E f \in Chat!Fields : Chat!Collect(t, f)
       PROVE  ChatRest'
    <2>1. /\ UNCHANGED <<accounts, peak, status>> /\ (chatFaults' = chatFaults \/ Chat!Fails)
          /\ calls < MaxTools /\ calls' = calls + 1
        BY <1>10 DEF Chat!CreateLead, Chat!Qualify, Chat!Collect, Chat!Verify, Chat!RequestHandoff, Chat!Calls, Chat!Step
    <2>2. PICK v : turn' = [turn EXCEPT ![t] = v] /\ v.opened = turn[t].opened
        <3>1. CASE Chat!CreateLead(t)
            <4>. DEFINE v == [turn[t] EXCEPT !.leads = Chat!Put(t, "new", turn[t].leads), !.state = [turn[t].state EXCEPT !.lead = t]]
            <4>1. turn' = [turn EXCEPT ![t] = v]
                BY <3>1 DEF Chat!CreateLead, Chat!Step
            <4>2. v.opened = turn[t].opened
                BY <1>1 DEF TurnRow
            <4>. QED BY <4>1, <4>2
        <3>2. CASE Chat!Qualify(t)
            <4>1. turn' = [turn EXCEPT ![t] = [turn[t] EXCEPT !.leads = Chat!Staged(t, "qualified")]]
                BY <3>2 DEF Chat!Qualify, Chat!Step
            <4>2. [turn[t] EXCEPT !.leads = Chat!Staged(t, "qualified")].opened = turn[t].opened
                BY <1>1 DEF TurnRow
            <4>. QED BY <4>1, <4>2
        <3>3. ASSUME NEW f, Chat!Collect(t, f) PROVE \E v : turn' = [turn EXCEPT ![t] = v] /\ v.opened = turn[t].opened
            <4>. DEFINE q == [turn[t].state EXCEPT !.fields = turn[t].state.fields \cup {f}]
            <4>1. turn' = [turn EXCEPT ![t] = [turn[t] EXCEPT !.state = q]]
                BY <3>3 DEF Chat!Collect, Chat!Step
            <4>2. [turn[t] EXCEPT !.state = q].opened = turn[t].opened
                BY <1>1 DEF TurnRow
            <4>. QED BY <4>1, <4>2
        <3>4. CASE Chat!Verify(t)
            <4>1. PICK verified : turn' = [turn EXCEPT ![t] = [turn[t] EXCEPT !.state = [turn[t].state EXCEPT !.kyc = verified]]]
                BY <3>4 DEF Chat!Verify, Chat!Step
            <4>2. [turn[t] EXCEPT !.state = [turn[t].state EXCEPT !.kyc = verified]].opened = turn[t].opened
                BY <1>1 DEF TurnRow
            <4>. QED BY <4>1, <4>2
        <3>5. CASE Chat!RequestHandoff(t)
            <4>1. turn' = [turn EXCEPT ![t] = [turn[t] EXCEPT !.handoff = TRUE]]
                BY <3>5 DEF Chat!RequestHandoff, Chat!Step
            <4>2. [turn[t] EXCEPT !.handoff = TRUE].opened = turn[t].opened
                BY <1>1 DEF TurnRow
            <4>. QED BY <4>1, <4>2
        <3>. QED BY <1>10, <3>1, <3>2, <3>3, <3>4, <3>5
    <2>3. \A s \in Turns : turn'[s].opened <= calls'
        BY <1>3, <2>1, <2>2
    <2>4. calls' \in 0 .. MaxTools
        BY <1>0, <2>1
    <2>. QED BY <1>5, <2>1, <2>3, <2>4
\* One account and one call more.
<1>11. ASSUME NEW t \in Turns, Chat!Open(t) PROVE ChatRest'
    <2>1. /\ UNCHANGED <<accounts, peak, status, chatFaults>> /\ calls < MaxTools /\ calls' = calls + 1
        BY <1>11 DEF Chat!Open, Chat!Calls, Chat!Step
    <2>2. PICK c, m, ls, q :
            turn' = [turn EXCEPT ![t] = [turn[t] EXCEPT !.cid = c, !.made = m, !.opened = turn[t].opened + 1,
                                                        !.leads = ls, !.state = q]]
        <3>. DEFINE new == turn[t].cid = None
                    c == IF new THEN t ELSE turn[t].cid
                    q == [turn[t].state EXCEPT !.customer = IF new THEN t ELSE turn[t].state.customer]
                    m == turn[t].made \/ new
        <3>1. turn' = [turn EXCEPT ![t] = [turn[t] EXCEPT !.cid = c, !.made = m, !.opened = turn[t].opened + 1,
                                               !.leads = Chat!Staged(t, "converted"), !.state = q]]
            BY <1>11 DEF Chat!Open, Chat!Step
        <3>. HIDE DEF c, q, m
        <3>. QED BY <3>1
    <2>3. [turn[t] EXCEPT !.cid = c, !.made = m, !.opened = turn[t].opened + 1, !.leads = ls, !.state = q].opened
            = turn[t].opened + 1
        BY <1>1 DEF TurnRow
    <2>4. \A s \in Turns : turn'[s].opened <= calls'
        <3>. SUFFICES ASSUME NEW s \in Turns PROVE turn'[s].opened <= calls'
            OBVIOUS
        <3>1. turn'[s].opened = IF s = t THEN turn[t].opened + 1 ELSE turn[s].opened
            BY <1>2, <2>2, <2>3
        <3>2. turn[s].opened <= calls /\ turn[t].opened <= calls /\ turn[s].opened \in Nat /\ turn[t].opened \in Nat
            BY <1>1
        <3>. QED BY <1>0, <2>1, <3>1, <3>2
    <2>5. calls' \in 0 .. MaxTools
        BY <1>0, <2>1
    <2>. QED BY <2>1, <2>4, <2>5
<1>12. ASSUME NEW t \in Turns, Chat!Commit(t) PROVE ChatRest'
    <2>1. UNCHANGED <<calls, chatFaults, peak>>
        BY <1>12 DEF Chat!Commit
    <2>2. \E a : Chat!Goto(t, a) \/ Chat!Close(t, a)
        BY <1>12 DEF Chat!Commit, Chat!Over
    <2>3. \A s \in Turns : turn'[s].opened <= calls'
        BY <1>4, <2>1, <2>2
    <2>4. /\ accounts' = accounts \/ accounts' = [accounts EXCEPT ![t] = turn[t].opened]
          /\ status' = status \/ status' = [status EXCEPT ![t] = "completed"]
        BY <1>12 DEF Chat!Commit
    <2>5. \A s \in Turns : accounts'[s] <= MaxTools
        <3>. SUFFICES ASSUME NEW s \in Turns PROVE accounts'[s] <= MaxTools
            OBVIOUS
        <3>1. accounts'[s] \in {accounts[s], turn[t].opened}
            BY <1>2, <2>4
        <3>2. turn[t].opened <= calls /\ calls <= MaxTools /\ accounts[s] <= MaxTools /\ turn[t].opened \in Nat
            BY <1>0, <1>1
        <3>. QED BY <1>0, <3>1, <3>2
    <2>6. status' \in [Turns -> {"none", "running", "completed", "failed"}]
        BY <2>4
    <2>. QED BY <2>1, <2>3, <2>5, <2>6
<1>13. ASSUME NEW t \in Turns, Chat!Rollback(t) PROVE ChatRest'
    <2>1. UNCHANGED <<calls, chatFaults, peak, accounts>> /\ Chat!Close(t, "over")
        BY <1>13 DEF Chat!Rollback, Chat!Over
    <2>2. status' = status \/ status' = [status EXCEPT ![t] = "failed"]
        BY <1>13 DEF Chat!Rollback
    <2>3. \A s \in Turns : turn'[s].opened <= calls'
        BY <1>4, <2>1
    <2>4. status' \in [Turns -> {"none", "running", "completed", "failed"}]
        BY <2>2
    <2>. QED BY <2>1, <2>3, <2>4
<1>14. ASSUME Chat!Rename \/ Chat!Delete \/ \E t \in Turns : Chat!Resolve(t) PROVE ChatRest'
    <2>1. UNCHANGED <<turn, accounts, status, calls, chatFaults, peak>>
        BY <1>14 DEF Chat!Rename, Chat!Delete, Chat!Resolve
    <2>. QED BY <2>1
<1>. QED
    BY <1>6, <1>7, <1>8, <1>9, <1>10, <1>11, <1>12, <1>13, <1>14 DEF Chat!Next

LEMMA ChatTypes == ASSUME ChatTyped, ChatRest PROVE Chat!TypeOK
<1>1. Chat!Cardinality(Turns) = Cardinality(Turns) /\ Cardinality(Turns) \in Nat
    <2>1. Chat!Cardinality(Turns) = Cardinality(Turns)
        BY DEF Cardinality, Chat!Cardinality, IsFiniteSet, Chat!IsFiniteSet
    <2>. QED BY <2>1, ChatAssumed, FS_CardinalityType
<1>2. peak \in 0 .. Cardinality(Turns)
    BY <1>1 DEF ChatTyped, ChatRest
<1>3. \A t \in Turns : /\ turn[t].cid \in Chat!Ids /\ turn[t].state \in Chat!Scratch
                       /\ turn[t].opened \in 0 .. MaxTools
    <2>. SUFFICES ASSUME NEW t \in Turns
                  PROVE  turn[t].cid \in Chat!Ids /\ turn[t].state \in Chat!Scratch /\ turn[t].opened \in 0 .. MaxTools
        OBVIOUS
    <2>1. turn[t].cid \in Chat!Ids /\ turn[t].state \in Chat!Scratch /\ turn[t].opened \in Nat
        BY DEF ChatTyped, TurnRow
    <2>2. turn[t].opened <= calls /\ calls \in 0 .. MaxTools
        BY DEF ChatRest
    <2>. QED BY <2>1, <2>2, ChatAssumed
<1>4. accounts \in [Turns -> 0 .. MaxTools]
    <2>1. \A t \in Turns : accounts[t] \in 0 .. MaxTools
        BY ChatAssumed DEF ChatTyped, ChatRest
    <2>. QED BY <2>1 DEF ChatTyped
<1>5. DOMAIN leads \subseteq Turns
    BY Restaged DEF ChatTyped
<1>. QED BY <1>1, <1>2, <1>3, <1>4, <1>5 DEF ChatTyped, ChatRest, Chat!TypeOK

LEMMA ChatPart == AllSpec => [](area = "chat" => Chat!TypeOK)
<1>1. AllInit => (area = "chat" => ChatRest)
    <2>. SUFFICES ASSUME Chat!Init PROVE ChatRest
        BY DEF AllInit
    <2>1. Cardinality(Turns) \in Nat /\ MaxTools \in Nat /\ MaxFaults \in Nat
        BY ChatAssumed, SessionsAssumption, FS_CardinalityType
    <2>. QED BY <2>1 DEF Chat!Init, Chat!NoTurn, ChatRest
<1>2. (area = "chat" => ReplyGateInv) /\ (area = "chat" => ChatRest) /\ [AllNext]_allVars
        => (area = "chat" => ChatRest)'
    <2>. SUFFICES ASSUME area = "chat" => ReplyGateInv, area = "chat" => ChatRest,
                         [AllNext]_allVars, area' = "chat"
                  PROVE  ChatRest'
        OBVIOUS
    <2>1. area = "chat" /\ (Chat!Next \/ UNCHANGED chatVars)
        BY DEF AllNext, allVars
    <2>2. CASE Chat!Next
        BY <2>1, <2>2, ChatRestStep DEF ReplyGateInv
    <2>3. CASE UNCHANGED chatVars
        BY <2>1, <2>3 DEF chatVars, ChatRest
    <2>. QED BY <2>1, <2>2, <2>3
<1>3. (area = "chat" => ReplyGateInv) /\ (area = "chat" => ChatRest) => (area = "chat" => Chat!TypeOK)
    BY ChatTypes DEF ReplyGateInv
<1>. QED BY <1>1, <1>2, <1>3, ReplyGateAlways, PTL DEF AllSpec

\* A row is born when its transaction begins, after the start of the clock.
MemoryRest ==
    /\ now <= MaxMemories /\ forgets \in 0 .. MaxForgets
    /\ \A m \in remembered : m.born >= 1
    /\ \A w \in Writers : writer[w].at # "idle" => writer[w].born >= 1
    /\ turns \in [Customers -> 0 .. EveryNTurns - 1]

LEMMA MemoryRestStep == ASSUME MemoryInv, MemoryRest, Agents!Next PROVE MemoryRest'
<1>. USE DEF MemoryRest, Agents!history
<1>0. /\ now \in Nat /\ MaxMemories \in Nat /\ MaxForgets \in Nat /\ EveryNTurns \in Nat \ {0}
      /\ writer \in [Writers -> Writing]
    BY PeriodAssumption, BoundAssumption DEF MemoryInv, MemoryTyped
<1>1. ASSUME NEW c \in Customers, Agents!CountTurn(c) PROVE turns' \in [Customers -> 0 .. EveryNTurns - 1]
    <2>1. \A n \in Nat : n % EveryNTurns \in 0 .. EveryNTurns - 1
        BY <1>0
    <2>2. (turns[c] + 1) % EveryNTurns \in 0 .. EveryNTurns - 1
        BY <2>1
    <2>. QED BY <1>1, <2>2 DEF Agents!CountTurn
<1>2. ASSUME NEW w \in Writers, NEW at, NEW c, NEW f, Agents!Begins(w, at, c, f)
      PROVE  now' <= MaxMemories /\ \A v \in Writers : writer'[v].at # "idle" => writer'[v].born >= 1
    <2>1. now < MaxMemories /\ now' = now + 1
          /\ writer' = [writer EXCEPT ![w] = [at |-> at, born |-> now + 1, owner |-> c, kind |-> f]]
        BY <1>2 DEF Agents!Begins
    <2>2. \A v \in Writers : writer'[v].born = now + 1 \/ writer'[v] = writer[v]
        BY <1>0, <2>1
    <2>. QED BY <1>0, <2>1, <2>2
<1>3. CASE Agents!Age
    BY <1>3 DEF Agents!Age
<1>4. ASSUME NEW c \in Customers, Agents!SkipExtraction(c) PROVE MemoryRest'
    BY <1>1, <1>4 DEF Agents!SkipExtraction
<1>5. ASSUME NEW c, NEW gone, Agents!Forget(c, gone) PROVE MemoryRest'
    BY <1>0, <1>5 DEF Agents!Forget
<1>6. ASSUME NEW c \in Customers, NEW w \in Writers, Agents!Remember(w, c) PROVE MemoryRest'
    BY <1>2, <1>6 DEF Agents!Remember
<1>7. ASSUME NEW c \in Customers, NEW w \in Writers, NEW f, Agents!Extract(w, c, f) PROVE MemoryRest'
    BY <1>1, <1>2, <1>7 DEF Agents!Extract
<1>8. ASSUME NEW w \in Writers, Agents!Dedup(w) PROVE MemoryRest'
    <2>1. /\ \/ writer' = [writer EXCEPT ![w] = Agents!NoWrite]
             \/ writer' = [writer EXCEPT ![w] = [writer[w] EXCEPT !.at = "commit"]]
          /\ writer[w].at # "idle" /\ UNCHANGED <<now, turns, forgets, remembered>>
        BY <1>8 DEF Agents!Dedup
    <2>2. Agents!NoWrite.at = "idle" /\ [writer[w] EXCEPT !.at = "commit"].born = writer[w].born
        BY <1>0 DEF Agents!NoWrite, Writing
    <2>3. \A v \in Writers : writer'[v].at # "idle" => writer'[v].born >= 1
        BY <1>0, <2>1, <2>2
    <2>. QED BY <2>1, <2>3
<1>9. ASSUME NEW w \in Writers, Agents!EndWrite(w) PROVE MemoryRest'
    <2>1. /\ writer[w].at = "commit" /\ writer' = [writer EXCEPT ![w] = Agents!NoWrite]
          /\ UNCHANGED <<now, turns, forgets>> /\ remembered' \subseteq remembered \cup {Agents!Row(w)}
        BY <1>9 DEF Agents!EndWrite
    <2>2. Agents!Row(w).born >= 1
        BY <2>1 DEF Agents!Row
    <2>3. \A v \in Writers : writer'[v].at # "idle" => writer'[v].born >= 1
        BY <1>0, <2>1 DEF Agents!NoWrite
    <2>. QED BY <2>1, <2>2, <2>3
<1>10. ASSUME NEW p \in Pruners, Agents!Prune(p) \/ Agents!EndPrune(p) PROVE MemoryRest'
    BY <1>10 DEF Agents!Prune, Agents!EndPrune
<1>. QED
    BY <1>3, <1>4, <1>5, <1>6, <1>7, <1>8, <1>9, <1>10 DEF Agents!Next

LEMMA MemoryTypes == ASSUME MemoryInv, MemoryRest PROVE Agents!TypeOK
<1>1. MaxMemories \in Nat
    BY BoundAssumption
<1>2. remembered \subseteq Agents!Memories
    <2>. SUFFICES ASSUME NEW m \in remembered PROVE m \in Agents!Memories
        OBVIOUS
    <2>1. m \in MemoryRow /\ m.born \in Nat
        BY DEF MemoryInv, MemoryTyped, MemoryRow
    <2>2. m.born <= now /\ now \in Nat /\ now <= MaxMemories /\ m.born >= 1
        BY DEF MemoryInv, MemoryTyped, BornInv, MemoryRest
    <2>3. m.born \in 1 .. MaxMemories
        BY <1>1, <2>1, <2>2
    <2>. QED BY <2>1, <2>3 DEF MemoryRow, Kinds, Agents!Memories, Agents!Episode
<1>3. rows \subseteq remembered
    BY DEF MemoryInv, MemoryTyped
<1>4. now \in 0 .. MaxMemories /\ old \in 0 .. now
    BY <1>1 DEF MemoryInv, MemoryTyped, MemoryRest
<1>. QED BY <1>2, <1>3, <1>4 DEF MemoryRest, Agents!TypeOK

LEMMA MemoryPart == AllSpec => [](area = "memory" => Agents!TypeOK)
<1>1. AllInit => (area = "memory" => MemoryRest)
    BY PeriodAssumption, BoundAssumption DEF AllInit, Agents!Init, Agents!NoWrite, MemoryRest
<1>2. (area = "memory" => MemoryInv) /\ (area = "memory" => MemoryRest) /\ [AllNext]_allVars
        => (area = "memory" => MemoryRest)'
    <2>. SUFFICES ASSUME area = "memory" => MemoryInv, area = "memory" => MemoryRest,
                         [AllNext]_allVars, area' = "memory"
                  PROVE  MemoryRest'
        OBVIOUS
    <2>1. area = "memory" /\ (Agents!Next \/ UNCHANGED agentVars)
        BY DEF AllNext, allVars
    <2>2. CASE Agents!Next
        BY <2>1, <2>2, MemoryRestStep
    <2>3. CASE UNCHANGED agentVars
        BY <2>1, <2>3 DEF agentVars, MemoryRest
    <2>. QED BY <2>1, <2>2, <2>3
<1>3. (area = "memory" => MemoryInv) /\ (area = "memory" => MemoryRest) => (area = "memory" => Agents!TypeOK)
    BY MemoryTypes
<1>. QED BY <1>1, <1>2, <1>3, MemoryAlways, PTL DEF AllSpec

=============================================================================
