------------------------------ MODULE Customer ------------------------------
(* What customers do.  Sessions, sign-in, passkeys, the request limiter, a   *)
(* chat thread, the identity check, products and the agents' memory share no *)
(* state in the code, so each behaviour explores one of them (area): TLC     *)
(* sees the sum of the state spaces, not their product, and a proof is about *)
(* one of them at a time.                                                    *)
EXTENDS Sessions, Sequences, TLC

CONSTANTS Areas, Emails, SignIns, Codes, Credentials, Challenges, NoChallenge,
          Limit, Rearms,
          Turns, MaxTools, Self, None, Bags,
          Bodies, Length, MaxVerifies,
          Catalog, NotInCatalog, Profiles, Unset, Applications, Offers, Approvers, MaxAttempts, MaxCached,
          Customers, Facts, Writers, Pruners, KeepRecent, Cap, EveryNTurns, MaxMemories, MaxForgets

\* Finitely many processes of each kind, and something for each to be about; ids of turns,
\* customers and of nobody differ, a fact is not the word for an episode, and what an
\* earlier conversation left has the shape its tools give it.  Numbers to be checked have
\* one length.
ASSUME CustomerAssumption ==
    /\ Emails # {} /\ IsFiniteSet(SignIns)
    /\ IsFiniteSet(Challenges) /\ Challenges # {} /\ Credentials # {}
    /\ IsFiniteSet(Turns) /\ Self \notin Turns /\ None \notin Turns \cup {Self} /\ MaxTools \in Nat
    /\ Bags \subseteq [fields : SUBSET {"name", "pan"}, kyc : {"open", "verified", "refused"}]
    /\ Length \in Nat \ {0, 1} /\ \A body \in Bodies : body \in Seq(0 .. 9) /\ Len(body) = Length - 1
    /\ IsFiniteSet(DOMAIN Catalog)
    /\ IsFiniteSet(Writers) /\ "episodic" \notin Facts /\ KeepRecent \in Nat

\* The parts a run may explore.
ASSUME AreasAssumption ==
    Areas \subseteq {"sessions", "signin", "passkeys", "limiter", "chat", "identity", "products", "memory"}

\* A limit admits somebody, and facts are extracted every so many turns.
ASSUME PeriodAssumption == Limit \in Nat \ {0} /\ EveryNTurns \in Nat \ {0}

\* The bounds on the explored behaviour are numbers.
ASSUME BoundAssumption ==
    MaxVerifies \in Nat /\ MaxAttempts \in Nat /\ MaxMemories \in Nat /\ MaxForgets \in Nat

VARIABLES area,
          user, customers, code, sessions, welcomes, signIn, signInFaults,
          used, pending, open, stored, signed, assertions, ceremony, accepted, passkeyFaults,
          count, armed, client, crashes,
          caller, saved, turn, thread, opened, accounts, leads, handoffs, status, calls, chatFaults,
          audited, committed, peak,
          own, bag, bureau, verdict, verifies,
          profile, known, holdings, proposals, application, execution, attempts, cache, view, page, ranked,
          rows, now, old, turns, writer, pruner, forgets, remembered, forgotten, copies

Entry   == INSTANCE SignIn WITH Requests <- SignIns, request <- signIn, faults <- signInFaults
Passkey == INSTANCE Passkeys WITH request <- ceremony, faults <- passkeyFaults
Limiter == INSTANCE RateLimiter WITH Clients <- Requests, MaxCrashes <- MaxFaults
Chat    == INSTANCE ChatTurns WITH customers <- opened, faults <- chatFaults
Identity == INSTANCE Kyc
Shop    == INSTANCE Holdings WITH Requests <- Applications, client <- known, request <- application
Agents  == INSTANCE Memory

entryVars   == <<user, customers, code, sessions, welcomes, signIn, signInFaults>>
passkeyVars == <<used, pending, open, stored, signed, assertions, ceremony, accepted, passkeyFaults>>
limiterVars == <<count, armed, client, crashes>>
chatVars    == <<caller, saved, turn, thread, opened, accounts, leads, handoffs, status, calls, chatFaults,
                 audited, committed, peak>>
kycVars     == <<own, bag, bureau, verdict, verifies>>
shopVars    == <<profile, known, holdings, proposals, application, execution, attempts, cache, view,
                 page, ranked>>
agentVars   == <<rows, now, old, turns, writer, pruner, forgets, remembered, forgotten, copies>>
allVars     == <<area, vars, entryVars, passkeyVars, limiterVars, chatVars, kycVars, shopVars, agentVars>>

\* The variables of a module that is not the area; Sessions and the
\* limiter, which temporal formulas read, keep their first state.
Off == "off"
EntryOff ==
    /\ user = Off /\ customers = Off /\ code = Off /\ sessions = Off /\ welcomes = Off
    /\ signIn = Off /\ signInFaults = Off
PasskeyOff ==
    /\ used = Off /\ pending = Off /\ open = Off /\ stored = Off /\ signed = Off
    /\ assertions = Off /\ ceremony = Off /\ accepted = Off /\ passkeyFaults = Off
ChatOff ==
    /\ caller = Off /\ saved = Off /\ turn = Off /\ thread = Off /\ opened = Off
    /\ accounts = Off /\ leads = Off /\ handoffs = Off /\ status = Off /\ calls = Off
    /\ chatFaults = Off /\ audited = Off /\ committed = Off /\ peak = Off
KycOff == own = Off /\ bag = Off /\ bureau = Off /\ verdict = Off /\ verifies = Off
ShopOff ==
    /\ profile = Off /\ known = Off /\ holdings = Off /\ proposals = Off
    /\ application = Off /\ execution = Off /\ attempts = Off /\ cache = Off /\ view = Off
    /\ page = Off /\ ranked = Off
AgentsOff ==
    /\ rows = Off /\ now = Off /\ old = Off /\ turns = Off /\ writer = Off /\ pruner = Off
    /\ forgets = Off /\ remembered = Off /\ forgotten = Off /\ copies = Off

AllInit ==
    /\ area \in Areas
    /\ Init /\ Limiter!Init
    /\ IF area = "signin" THEN Entry!Init ELSE EntryOff
    /\ IF area = "passkeys" THEN Passkey!Init ELSE PasskeyOff
    /\ IF area = "chat" THEN Chat!Init ELSE ChatOff
    /\ IF area = "identity" THEN Identity!Init ELSE KycOff
    /\ IF area = "products" THEN Shop!Init ELSE ShopOff
    /\ IF area = "memory" THEN Agents!Init ELSE AgentsOff

AllNext ==
    \/ area = "sessions" /\ Next
       /\ UNCHANGED <<area, entryVars, passkeyVars, limiterVars, chatVars, kycVars, shopVars, agentVars>>
    \/ area = "signin" /\ Entry!Next
       /\ UNCHANGED <<area, vars, passkeyVars, limiterVars, chatVars, kycVars, shopVars, agentVars>>
    \/ area = "passkeys" /\ Passkey!Next
       /\ UNCHANGED <<area, vars, entryVars, limiterVars, chatVars, kycVars, shopVars, agentVars>>
    \/ area = "limiter" /\ Limiter!Next
       /\ UNCHANGED <<area, vars, entryVars, passkeyVars, chatVars, kycVars, shopVars, agentVars>>
    \/ area = "chat" /\ Chat!Next
       /\ UNCHANGED <<area, vars, entryVars, passkeyVars, limiterVars, kycVars, shopVars, agentVars>>
    \/ area = "identity" /\ Identity!Next
       /\ UNCHANGED <<area, vars, entryVars, passkeyVars, limiterVars, chatVars, shopVars, agentVars>>
    \/ area = "products" /\ Shop!Next
       /\ UNCHANGED <<area, vars, entryVars, passkeyVars, limiterVars, chatVars, kycVars, agentVars>>
    \/ area = "memory" /\ Agents!Next
       /\ UNCHANGED <<area, vars, entryVars, passkeyVars, limiterVars, chatVars, kycVars, shopVars>>

AllSpec == AllInit /\ [][AllNext]_allVars
              /\ (area = "limiter" => Limiter!Fairness)

\* The type invariants of the eight modules.
TypesOK ==
    CASE area = "sessions" -> TypeOK
      [] area = "signin"   -> Entry!TypeOK
      [] area = "passkeys" -> Passkey!TypeOK
      [] area = "limiter"  -> Limiter!TypeOK
      [] area = "chat"     -> Chat!TypeOK
      [] area = "identity" -> Identity!TypeOK
      [] area = "products" -> Shop!TypeOK
      [] area = "memory"   -> Agents!TypeOK
\* A one-time code is used up only together with the account it opens.
CodeNotWasted == area = "signin" => Entry!CodeNotWasted
\* Racing first sign-ins welcome an account once.
WelcomedOnce == area = "signin" => Entry!WelcomedOnce
\* A passkey challenge signs in once.
ChallengeSignsInOnce == area = "passkeys" => Passkey!ChallengeSignsInOnce
\* A limiter that lost a command to a crash still admits again.
RefusalsEnd == area = "limiter" => Limiter!RefusalsEnd
\* A reply in the history stands for committed work.
RepliesWereCommitted == area = "chat" => Chat!RepliesWereCommitted
\* No account without a verification the audit trail shows.
AccountsFollowVerification == area = "chat" => Chat!AccountsFollowVerification
\* A thread makes one customer and one handoff, and more only by turns that overlap.
DuplicatesNeedOverlap == area = "chat" => Chat!DuplicatesNeedOverlap
\* A mistyped number is refused and a right one is kept.
SlipsRefused == area = "identity" => Identity!SlipsRefused
\* kyc.py: "Verhoeff checksum (the scheme Aadhaar actually uses)".
AgreesWithVerhoeff == area = "identity" => Identity!AgreesWithVerhoeff
\* What is recommended is allowed, and a refusal gives its reason.
SuggestionsSound == area = "products" => Shop!SuggestionsSound
\* Only outranked old episodes are pruned, and facts are kept once.
OnlyTheOutrankedFade == area = "memory" => Agents!OnlyTheOutrankedFade
=============================================================================
