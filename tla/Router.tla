------------------------------- MODULE Router -------------------------------
(***************************************************************************)
(* LLMRouter (app/llm/router.py): one call walks a chain of providers      *)
(* until one answers.  A stream commits to a provider with its first       *)
(* delta.  Every attempt leaves a row in the cost ledger, written by a     *)
(* task of its own that nobody waits for; the cost of an answer goes to    *)
(* the day's counter (module Spending).                                    *)
(***************************************************************************)
EXTENDS Naturals, Sequences, SequencesExt, FiniteSets

CONSTANTS
    Order,          \* PROVIDER_ORDER: a sequence of providers
    Priced,         \* providers whose model compute_cost knows
    MaxDeltas,      \* bound: deltas of one stream
    MaxCalls        \* bound: calls, one after the other

VARIABLES
    keys,           \* providers with credentials
    chain,          \* providers still to be tried, the first being tried now
    call,           \* what the call is doing
    heard,          \* providers whose text the caller has got from this call
    deltas,
    tasks,          \* rows being written: [call, provider, ok]
    ledger,         \* rows written
    spent,          \* calls whose cost went to the counter
    number          \* calls so far

vars == <<keys, chain, call, heard, deltas, tasks, ledger, spent, number>>

Providers == ToSet(Order)
Row       == [call : 1 .. MaxCalls, provider : Providers, ok : BOOLEAN]

Init ==
    /\ keys \in SUBSET Providers
    /\ chain = <<>> /\ call = "idle" /\ heard = {} /\ deltas = 0
    /\ tasks = {} /\ ledger = {} /\ spent = {}
    /\ number = 0

\* The loop over the chain is at its first provider.
Trying == chain # <<>> /\ call \in {"chat", "stream"}

\* compute_cost: a model without a price costs nothing.
HasPrice(p) == p \in Priced

\* _build_chain: those of S, in PROVIDER_ORDER.
BuildChain(S) ==
    LET kept[n \in 0 .. Len(Order)] ==
            IF n = 0 THEN <<>>
            ELSE IF Order[n] \in S THEN Append(kept[n - 1], Order[n]) ELSE kept[n - 1]
    IN  kept[Len(Order)]

\* _chain_for: the purpose's provider goes first if it is there at all.  (A model
\* override, _resolve_chain, changes no provider.)
ChainFor(preferred) ==
    IF preferred \notin keys THEN BuildChain(keys)
    ELSE <<preferred>> \o BuildChain(keys \ {preferred})

Begin(mode, preferred) ==
    /\ call \notin {"chat", "stream"} /\ number < MaxCalls
    /\ number' = number + 1
    /\ chain' = ChainFor(preferred)
    /\ call' = IF chain' = <<>> THEN "failed" ELSE mode    \* no credentials: LLMRouterError
    /\ heard' = {} /\ deltas' = 0
    /\ UNCHANGED <<keys, tasks, ledger, spent>>

\* _record: a task of its own.
Record(ok) == tasks' = tasks \cup {[call |-> number, provider |-> Head(chain), ok |-> ok]}

\* stream_chat passes a delta on.
Delta ==
    /\ Trying /\ call = "stream" /\ deltas < MaxDeltas
    /\ heard' = heard \cup {Head(chain)}
    /\ deltas' = deltas + 1
    /\ UNCHANGED <<keys, chain, call, tasks, ledger, spent, number>>

\* Variant: a broken stream falls back like a chat.
MaySwitch == TRUE

\* "Deltas already sent: cannot switch providers without duplicating text."
CanSwitch == deltas = 0

\* An exception or the timeout of the provider.
Fail ==
    /\ Trying
    /\ Record(FALSE)
    /\ IF CanSwitch
       THEN /\ chain' = Tail(chain)
            /\ call' = IF Tail(chain) = <<>> THEN "failed" ELSE call
       ELSE chain' = <<>> /\ call' = "failed"
    /\ UNCHANGED <<keys, heard, deltas, ledger, spent, number>>

\* An answer, or a stream that ended (with its StreamDone or without): _track_spend.
Answer ==
    /\ Trying
    /\ Record(TRUE)
    /\ spent' = IF HasPrice(Head(chain)) THEN spent \cup {number} ELSE spent
    /\ call' = "answered" /\ chain' = <<>>
    /\ UNCHANGED <<keys, heard, deltas, ledger, number>>

\* The caller of a stream goes away: the generator is closed, nothing is recorded.
Abandon ==
    /\ Trying /\ call = "stream"
    /\ call' = "abandoned" /\ chain' = <<>>
    /\ UNCHANGED <<keys, heard, deltas, tasks, ledger, spent, number>>

\* _persist_call, in a session of its own.
Persist(row) ==
    /\ row \in tasks
    /\ tasks' = tasks \ {row}
    /\ ledger' = ledger \cup {row}
    /\ UNCHANGED <<keys, chain, call, heard, deltas, spent, number>>

\* The insert fails, or the process stops: only a warning.
LoseRow(row) ==
    /\ row \in tasks
    /\ tasks' = tasks \ {row}
    /\ UNCHANGED <<keys, chain, call, heard, deltas, ledger, spent, number>>

Next ==
    \/ \E mode \in {"chat", "stream"}, p \in Providers : Begin(mode, p)
    \/ Delta \/ Fail \/ Answer \/ Abandon
    \/ \E row \in tasks : Persist(row) \/ LoseRow(row)

Spec == Init /\ [][Next]_vars

TypeOK ==
    /\ keys \subseteq Providers
    /\ chain \in Seq(keys) /\ IsInjective(chain)
    /\ call \in {"idle", "chat", "stream", "failed", "answered", "abandoned"}
    /\ heard \subseteq keys /\ deltas \in 0 .. MaxDeltas
    /\ tasks \subseteq Row /\ ledger \subseteq Row
    /\ spent \subseteq 1 .. MaxCalls /\ number \in 0 .. MaxCalls

\* The caller of one call never gets text of two providers, however they fail.
OneVoice == Cardinality(heard) <= 1
=============================================================================
