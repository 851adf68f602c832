------------------------------ MODULE Holdings ------------------------------
(***************************************************************************)
(* What one customer is offered and holds: the eligibility rules and the   *)
(* ranking (app/services/products.py), the products page and its cache and *)
(* the request for a product (app/api/v1/products.py), and the execution   *)
(* of an approved offer (execute_proposal of app/agents/entrypoints.py),   *)
(* which creates or updates the holding.                                   *)
(***************************************************************************)
EXTENDS Naturals, FiniteSets, Sequences, SequencesExt, FiniteSetsExt

CONSTANTS
    Catalog,        \* [code -> eligibility rule]; a rule is [minIncome, maxIncome, minAge, maxAge, segment]
    NotInCatalog,   \* a code only a language model uses
    Profiles,       \* the customers explored: [income, age, segment]
    Unset,          \* a rule or a column that is absent
    Requests,       \* applications; each may create a proposal of its name
    Offers,         \* proposals agents make, whatever their code
    Approvers,      \* concurrent executions
    MaxAttempts,    \* bound: executions begun
    MaxCached       \* bound: entries of the cache

VARIABLES
    profile,
    client,         \* has an account, or is a prospect who only talks to the agent
    holdings,       \* code -> "none", "offered" or "active"
    proposals,      \* Requests \cup Offers -> [code, status]
    request,        \* applications between their checks and their commit
    execution,      \* executions, with what they have written and not committed
    attempts,
    cache,          \* the Redis entries: set of codes held -> codes with a reason
    view,           \* a products page being built
    page, ranked    \* the last page shown; the last ranking a prospect was given, if any

vars == <<profile, client, holdings, proposals, request, execution, attempts, cache, view, page, ranked>>

Products  == DOMAIN Catalog
Proposals == Requests \cup Offers
NoOffer   == [code |-> NotInCatalog, status |-> "none"]
Idle      == [at |-> "idle", code |-> NotInCatalog]
Free      == [at |-> "idle", id |-> NotInCatalog, found |-> FALSE]
NoView    == [at |-> "idle", held |-> {}]
NoPage    == [c \in {} |-> "none"]

\* seed.py and demo.py give a persona its products before anyone signs in.
Init ==
    /\ profile \in Profiles /\ client \in BOOLEAN
    /\ \E seeded \in IF client THEN SUBSET Products ELSE {{}} :
        holdings = [c \in Products |-> IF c \in seeded THEN "active" ELSE "none"]
    /\ proposals = [i \in Proposals |-> NoOffer]
    /\ request = [r \in Requests |-> Idle]
    /\ execution = [x \in Approvers |-> Free] /\ attempts = 0
    /\ cache = {} /\ view = NoView /\ page = NoPage /\ ranked = {}

\* held_product_codes: any status.
Held == {c \in Products : holdings[c] # "none"}

(***************************************************************************)
(* Eligibility and ranking                                                 *)
(***************************************************************************)

\* The tests of _is_eligible, in its order, and those a profile fails: an unknown income
\* fails a minimum, an unknown age fails nothing.
Tests == <<"minIncome", "maxIncome", "minAge", "maxAge", "segment">>
Fails(test, rule, p) ==
    /\ rule[test] # Unset
    /\ \/ test = "minIncome" /\ (p.income = Unset \/ p.income < rule.minIncome)
       \/ test = "maxIncome" /\ p.income # Unset /\ p.income > rule.maxIncome
       \/ test = "minAge" /\ p.age # Unset /\ p.age < rule.minAge
       \/ test = "maxAge" /\ p.age # Unset /\ p.age > rule.maxAge
       \/ test = "segment" /\ p.segment # rule.segment
Violated(c) == {n \in DOMAIN Tests : Fails(Tests[n], Catalog[c], profile)}

IsEligible(c)  == Violated(c) = {}
Eligible(held) == {c \in Products \ held : IsEligible(c)}

\* Variant: an unknown income is let pass where the reason is looked for.
ReasonIfKnown(c) ==
    LET known == {n \in Violated(c) : Tests[n] # "minIncome" \/ profile.income # Unset}
    IN IF known = {} THEN "none" ELSE Tests[Min(known)]

\* _ineligibility_reason writes the same tests a second time; the first that fails.
IneligibilityReason(c) == IF IsEligible(c) THEN "none" ELSE Tests[Min(Violated(c))]

\* _parse_ranked, of an answer that names any codes any number of times.
Parse(answer, eligible) ==
    LET kept[n \in 0 .. Len(answer)] ==
            IF n = 0 THEN <<>>
            ELSE IF answer[n] \in eligible \ ToSet(kept[n - 1]) THEN Append(kept[n - 1], answer[n])
            ELSE kept[n - 1]
    IN  kept[Len(answer)]

Answers == UNION {[1 .. n -> Products \cup {NotInCatalog}] : n \in 0 .. 2}

\* match_products: by score, which only orders.
Scored(eligible) == SetToSeq(eligible)

\* match_products of the acquisition agent: rank_products for a prospect, who holds
\* nothing.  No answer or an empty parse falls back on the scores.
Rank ==
    /\ ~client
    /\ \E answer \in Answers :
        LET parsed == Parse(answer, Eligible({})) IN
        ranked' = {IF parsed = <<>> THEN Scored(Eligible({})) ELSE parsed}
    /\ UNCHANGED <<profile, client, holdings, proposals, request, execution, attempts, cache, view, page>>

(***************************************************************************)
(* The products page                                                       *)
(***************************************************************************)

\* browse_products reads what is held; the ranking takes seconds.
Browse ==
    /\ client /\ view.at = "idle"
    /\ view' = [at |-> "rank", held |-> Held]
    /\ UNCHANGED <<profile, client, holdings, proposals, request, execution, attempts, cache, page, ranked>>

Entries(held, reasons) == [c \in Products |->
    IF c \in held THEN "held"
    ELSE IF ~IsEligible(c) THEN IneligibilityReason(c)
    ELSE IF c \in reasons THEN "for you" ELSE "plain"]

\* _ranked_reasons: the key is the profile with the products held.  A failed ranking is
\* cached as no reasons, a failing Redis shows none.
Show ==
    /\ view.at = "rank"
    /\ LET eligible == Eligible(view.held)
           hits     == {e \in cache : e.held = view.held} IN
       \/ /\ eligible = {} /\ page' = Entries(view.held, {}) /\ cache' = cache
       \/ /\ eligible # {} /\ hits # {}
          /\ \E e \in hits : page' = Entries(view.held, e.reasons)
          /\ cache' = cache
       \/ /\ eligible # {} /\ hits = {}
          /\ \E answer \in Answers :
                LET reasons == ToSet(Parse(answer, eligible)) IN
                /\ page' = Entries(view.held, reasons)
                /\ \/ Cardinality(cache) < MaxCached /\ cache' = cache \cup {[held |-> view.held, reasons |-> reasons]}
                   \/ reasons = {} /\ cache' = cache
    /\ view' = NoView
    /\ UNCHANGED <<profile, client, holdings, proposals, request, execution, attempts, ranked>>

\* 24 hours, or 5 minutes, have passed.
CacheExpires ==
    /\ \E e \in cache : cache' = cache \ {e}
    /\ UNCHANGED <<profile, client, holdings, proposals, request, execution, attempts, view, page, ranked>>

(***************************************************************************)
(* Applications and offers                                                 *)
(***************************************************************************)

PendingFor(c) == \E i \in Proposals : proposals[i] = [code |-> c, status |-> "pending"]

\* apply_for_product: the checks, on what is committed; a refusal changes nothing.
Apply(r, c) ==
    /\ client /\ request[r].at = "idle" /\ proposals[r] = NoOffer
    /\ c \notin Held /\ ~PendingFor(c) /\ IsEligible(c)
    /\ request' = [request EXCEPT ![r] = [at |-> "commit", code |-> c]]
    /\ UNCHANGED <<profile, client, holdings, proposals, execution, attempts, cache, view, page, ranked>>

\* The proposal and its notification are committed after the answer, or lost.
CommitApply(r) ==
    /\ request[r].at = "commit"
    /\ \/ proposals' = [proposals EXCEPT ![r] = [code |-> request[r].code, status |-> "pending"]]
       \/ proposals' = proposals
    /\ request' = [request EXCEPT ![r] = Idle]
    /\ UNCHANGED <<profile, client, holdings, execution, attempts, cache, view, page, ranked>>

\* propose_action of an agent: any code, without a check.
Offer(i) ==
    /\ client /\ i \in Offers /\ proposals[i] = NoOffer
    /\ \E c \in Products \cup {NotInCatalog} :
        proposals' = [proposals EXCEPT ![i] = [code |-> c, status |-> "pending"]]
    /\ UNCHANGED <<profile, client, holdings, request, execution, attempts, cache, view, page, ranked>>

(***************************************************************************)
(* execute_proposal of a product offer                                     *)
(***************************************************************************)

\* The proposal as this session reads it.
StartExecution(x, i) ==
    /\ execution[x].at = "idle" /\ attempts < MaxAttempts
    /\ proposals[i].status = "pending"
    /\ execution' = [execution EXCEPT ![x] = [at |-> "select", id |-> i, found |-> FALSE]]
    /\ attempts' = attempts + 1
    /\ UNCHANGED <<profile, client, holdings, proposals, request, cache, view, page, ranked>>

CodeOf(x) == proposals[execution[x].id].code

\* activate_holding: an unknown code is suppressed and the offer goes on without.
SelectHolding(x) ==
    /\ execution[x].at = "select"
    /\ execution' = [execution EXCEPT ![x].at = IF CodeOf(x) \in Products THEN "write" ELSE "commit",
                                      ![x].found = CodeOf(x) \in Held]
    /\ UNCHANGED <<profile, client, holdings, proposals, request, attempts, cache, view, page, ranked>>

\* The row, or its unique key, is another session's until that one ends.
Waits(x) == \E y \in Approvers \ {x} : execution[y].at = "commit" /\ CodeOf(y) = CodeOf(x)

\* uq_holding_customer_product
Duplicate(x) == ~execution[x].found /\ CodeOf(x) \in Held

WriteHolding(x) ==
    /\ execution[x].at = "write" /\ ~Waits(x)
    /\ execution' = [execution EXCEPT ![x].at = IF Duplicate(x) THEN "abort" ELSE "commit"]
    /\ UNCHANGED <<profile, client, holdings, proposals, request, attempts, cache, view, page, ranked>>

\* The holding, the nudge, the notification, the status and the audit row, or nothing.
\* An active holding is written "offered" as well.
CommitExecution(x) ==
    /\ execution[x].at = "commit"
    /\ holdings' = IF CodeOf(x) \in Products THEN [holdings EXCEPT ![CodeOf(x)] = "offered"] ELSE holdings
    /\ proposals' = [proposals EXCEPT ![execution[x].id].status = "executed"]
    /\ execution' = [execution EXCEPT ![x] = Free]
    /\ UNCHANGED <<profile, client, request, attempts, cache, view, page, ranked>>

Abort(x) ==
    /\ execution[x].at # "idle"      \* "abort", or any other error
    /\ execution' = [execution EXCEPT ![x] = Free]
    /\ UNCHANGED <<profile, client, holdings, proposals, request, attempts, cache, view, page, ranked>>

Reject(i) ==
    /\ proposals[i].status = "pending"
    /\ proposals' = [proposals EXCEPT ![i].status = "rejected"]
    /\ UNCHANGED <<profile, client, holdings, request, execution, attempts, cache, view, page, ranked>>

Next ==
    \/ Rank \/ Browse \/ Show \/ CacheExpires
    \/ \E r \in Requests : CommitApply(r) \/ \E c \in Products : Apply(r, c)
    \/ \E i \in Proposals : Offer(i) \/ Reject(i) \/ \E x \in Approvers : StartExecution(x, i)
    \/ \E x \in Approvers : SelectHolding(x) \/ WriteHolding(x) \/ CommitExecution(x) \/ Abort(x)

Spec == Init /\ [][Next]_vars

(***************************************************************************)
(* Properties                                                              *)
(***************************************************************************)

TypeOK ==
    /\ profile \in Profiles
    /\ holdings \in [Products -> {"none", "offered", "active"}]
    /\ \A i \in Proposals : proposals[i].status \in {"none", "pending", "executed", "rejected"}
    /\ \A x \in Approvers : execution[x].at # "idle" => proposals[execution[x].id].status # "none"
    /\ attempts \in 0 .. MaxAttempts
    /\ \A e \in cache : e.reasons \subseteq Eligible(e.held)
    /\ view.held \subseteq Products

\* What a customer is shown is well founded although a language model ranks it and the
\* holdings change meanwhile: a product that is refused says why, one that is recommended
\* is allowed, what is shown as held still is; a ranking is never empty without reason.
SuggestionsSound ==
    /\ \A c \in DOMAIN page : /\ page[c] # "none"
                              /\ page[c] \in {"for you", "plain"} => IsEligible(c)
                              /\ page[c] = "held" => c \in Held
    /\ \A list \in ranked : /\ ToSet(list) \subseteq Eligible({}) /\ IsInjective(list)
                            /\ list = <<>> => Eligible({}) = {}
=============================================================================
