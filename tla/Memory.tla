------------------------------- MODULE Memory -------------------------------
(***************************************************************************)
(* What the agents remember about customers (app/agents/memory.py): the    *)
(* episodic summary every turn leaves, the durable facts a task of its own *)
(* extracts now and then (_maybe_extract_facts of entrypoints.py), the     *)
(* pruning by the scheduler's tick, and forgetting (app/api/v1/memory.py). *)
(*                                                                         *)
(* Rows are ordered by created_at, the start of their transaction, which   *)
(* is not the order in which they become visible.                          *)
(***************************************************************************)
EXTENDS Naturals, FiniteSets, FiniteSetsExt

CONSTANTS
    Customers,
    Facts,          \* texts of durable facts, equal ones after normalization
    Writers,        \* transactions that remember something
    Pruners,        \* overlapping ticks
    KeepRecent, Cap, EveryNTurns,
    MaxMemories,    \* bound: transactions begun, one row each
    MaxForgets      \* bound: requests to forget

VARIABLES
    rows,           \* committed memories: [born, owner, kind]
    now,            \* transactions begun, the clock of created_at
    old,            \* rows born up to here are past the retention
    turns,          \* customer -> the Redis counter of the conversation
    writer, pruner,
    forgets,
    \* history
    remembered,     \* every row that was ever visible
    forgotten,      \* those the customer had forgotten
    copies          \* most extractions of one fact that overlapped

history == <<remembered, forgotten, copies>>
vars    == <<rows, now, old, turns, writer, pruner, forgets, history>>

Episode == "episodic"
NoWrite == [at |-> "idle", born |-> 0, owner |-> "nobody", kind |-> Episode]
NoPrune == [at |-> "idle", victims |-> {}]

Init ==
    /\ rows = {} /\ now = 0 /\ old = 0 /\ turns = [c \in Customers |-> 0]
    /\ writer = [w \in Writers |-> NoWrite] /\ pruner = [p \in Pruners |-> NoPrune]
    /\ forgets = 0
    /\ remembered = {} /\ forgotten = {} /\ copies = 0

Begins(w, at, owner, kind) ==
    /\ writer[w].at = "idle" /\ now < MaxMemories
    /\ now' = now + 1
    /\ writer' = [writer EXCEPT ![w] = [at |-> at, born |-> now + 1, owner |-> owner, kind |-> kind]]

\* remember, by synthesize_node or an onboarding tool: the row is flushed in a
\* transaction that ends with the turn.
Remember(w, c) ==
    /\ Begins(w, "commit", c, Episode)
    /\ UNCHANGED <<rows, old, turns, pruner, forgets, history>>

\* _fact_extraction_due: on the first turn and every N-th after it; a Redis that fails
\* extracts nothing.
Due(c) == turns[c] % EveryNTurns = 0

CountTurn(c) == turns' = [turns EXCEPT ![c] = (@ + 1) % EveryNTurns]

SkipExtraction(c) ==
    /\ ~Due(c) /\ CountTurn(c)
    /\ UNCHANGED <<rows, now, old, writer, pruner, forgets, history>>

Extracting(c, f) == {w \in Writers : writer[w].owner = c /\ writer[w].kind = f}

\* The budget allows, the model answers with a fact, a session is opened for it.
Extract(w, c, f) ==
    /\ Due(c) /\ CountTurn(c)
    /\ Begins(w, "dedup", c, f)
    /\ copies' = Max({copies, 1 + Cardinality(Extracting(c, f))})
    /\ UNCHANGED <<rows, old, pruner, forgets, remembered, forgotten>>

\* Variant: facts are stored as they come.
NeverKnown(c, f) == FALSE

\* _is_duplicate_fact, on what is committed.
Known(c, f) == \E m \in rows : m.owner = c /\ m.kind = f

Dedup(w) ==
    /\ writer[w].at = "dedup"
    /\ writer' = [writer EXCEPT ![w] = IF Known(@.owner, @.kind) THEN NoWrite ELSE [@ EXCEPT !.at = "commit"]]
    /\ UNCHANGED <<rows, now, old, turns, pruner, forgets, history>>

Row(w) == [born |-> writer[w].born, owner |-> writer[w].owner, kind |-> writer[w].kind]

\* The commit, or the transaction is lost.
EndWrite(w) ==
    /\ writer[w].at = "commit"
    /\ \/ rows' = rows \cup {Row(w)} /\ remembered' = remembered \cup {Row(w)}
       \/ UNCHANGED <<rows, remembered>>
    /\ writer' = [writer EXCEPT ![w] = NoWrite]
    /\ UNCHANGED <<now, old, turns, pruner, forgets, forgotten, copies>>

\* EPISODIC_RETENTION_DAYS go by: what has begun by now is old.
Age ==
    /\ old < now /\ old' = now
    /\ UNCHANGED <<rows, now, turns, writer, pruner, forgets, history>>

\* Variant: the window is not partitioned by customer.
RankOfAll(m, seen) == Cardinality({n \in seen : n.kind = Episode /\ n.born >= m.born})

\* row_number() over the customer's episodic memories, newest first.
Rank(m, seen) == Cardinality({n \in seen : n.kind = Episode /\ n.owner = m.owner /\ n.born >= m.born})

Stale(seen) == {m \in seen : m.kind = Episode /\ m.born <= old /\ Rank(m, seen) > KeepRecent}

\* The oldest first, up to Cap.
Capped(stale) == {m \in stale : Cardinality({n \in stale : n.born < m.born}) < Cap}

\* prune_memories: one DELETE, which chooses on its snapshot and takes effect with the
\* commit of the tick; rows that are gone by then are skipped.
Prune(p) ==
    /\ pruner[p].at = "idle" /\ Stale(rows) # {}
    /\ pruner' = [pruner EXCEPT ![p] = [at |-> "commit", victims |-> Capped(Stale(rows))]]
    /\ UNCHANGED <<rows, now, old, turns, writer, forgets, history>>

EndPrune(p) ==
    /\ pruner[p].at = "commit"
    /\ \/ rows' = rows \ pruner[p].victims
       \/ rows' = rows
    /\ pruner' = [pruner EXCEPT ![p] = NoPrune]
    /\ UNCHANGED <<now, old, turns, writer, forgets, history>>

\* forget_memory and forget_all_memory: what the request can see; an extraction or a turn
\* under way is stored afterwards.
Forget(c, gone) ==
    /\ forgets < MaxForgets /\ gone # {}
    /\ forgets' = forgets + 1
    /\ rows' = rows \ gone
    /\ forgotten' = forgotten \cup gone
    /\ UNCHANGED <<now, old, turns, writer, pruner, remembered, copies>>

Of(c) == {m \in rows : m.owner = c}

Next ==
    \/ Age
    \/ \E c \in Customers :
        \/ SkipExtraction(c) \/ Forget(c, Of(c)) \/ \E m \in Of(c) : Forget(c, {m})
        \/ \E w \in Writers : Remember(w, c) \/ \E f \in Facts : Extract(w, c, f)
    \/ \E w \in Writers : Dedup(w) \/ EndWrite(w)
    \/ \E p \in Pruners : Prune(p) \/ EndPrune(p)

Spec == Init /\ [][Next]_vars

(***************************************************************************)
(* Properties                                                              *)
(***************************************************************************)

Memories == [born : 1 .. MaxMemories, owner : Customers, kind : Facts \cup {Episode}]

TypeOK ==
    /\ rows \subseteq Memories /\ remembered \subseteq Memories
    /\ now \in 0 .. MaxMemories /\ old \in 0 .. now
    /\ turns \in [Customers -> 0 .. EveryNTurns - 1]
    /\ forgets \in 0 .. MaxForgets

\* Nobody but the customer makes the agents forget what matters: a memory that is gone
\* without being forgotten was an episode, past the retention, and outranked by
\* KeepRecent newer ones of the same customer, whatever was committed or forgotten
\* meanwhile; and a fact is kept once per overlapping extraction.
OnlyTheOutrankedFade ==
    /\ rows \cup forgotten \subseteq remembered
    /\ \A m \in remembered \ (rows \cup forgotten) :
        /\ m.kind = Episode /\ m.born <= old
        /\ Cardinality({n \in remembered : n.kind = Episode /\ n.owner = m.owner /\ n.born > m.born})
             >= KeepRecent
    /\ \A c \in Customers, f \in Facts : Cardinality({m \in Of(c) : m.kind = f}) <= copies
=============================================================================
