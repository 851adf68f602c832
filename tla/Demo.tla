-------------------------------- MODULE Demo --------------------------------
(***************************************************************************)
(* The demo data: the seeder (app/seed.py), run from the command line or   *)
(* by the console's reset, the reset's cleaning of Redis and the injection *)
(* of life events (app/api/v1/console.py), a customer's own demo activity  *)
(* (app/api/v1/demo.py), and the consumer group of txn.events they share   *)
(* with the worker (module EventConsumer has the entries one by one).      *)
(*                                                                         *)
(* A seeder commits after every persona.  TRUNCATE waits for every open    *)
(* transaction that has touched the tables, a second INSERT of a persona   *)
(* for the first to end.                                                   *)
(***************************************************************************)
EXTENDS Naturals, FiniteSets

CONSTANTS
    Personas,       \* the cohort; ids are derived from the seed value
    Resets,         \* console resets
    Seeds,          \* seeds from the command line, without --reset
    Loads,          \* requests for demo activity, of one signed-up customer
    MaxEntries,     \* bound: entries on the stream
    MaxRestarts     \* bound: restarts of the worker

VARIABLES
    histories,      \* persona -> transaction histories committed
    leads,          \* prospects committed
    labels,         \* personas with a committed SimInjection
    seeder,         \* what each seeder is doing
    account,        \* the signed-up customer has a committed account
    own,            \* histories committed for that customer
    load,           \* what each request for demo activity is doing
    inject,         \* personas whose injection is published and not yet committed
    entries,        \* entries of txn.events the group has not read
    group,          \* the consumer group exists
    cooldowns,      \* cooldown, sweep and spend keys exist
    restarts

database == <<histories, leads, labels, account, own>>
redis    == <<entries, group, cooldowns>>
vars     == <<database, seeder, load, inject, redis, restarts>>

Seeders == Resets \cup Seeds

Init ==
    /\ histories = [p \in Personas |-> 0] /\ leads = 0 /\ labels = {}
    /\ seeder = [s \in Seeders |-> [at |-> "idle", todo |-> {}, open |-> FALSE]]
    /\ account = FALSE /\ own = 0
    /\ load = [r \in Loads |-> "idle"]
    /\ inject = {}
    /\ entries = 0 /\ group = TRUE /\ cooldowns = FALSE
    /\ restarts = 0

At(s, step) == seeder[s].at = step
Step(s, step) == seeder' = [seeder EXCEPT ![s].at = step]
Next1(S) == CHOOSE p \in S : \A q \in S : p <= q

(***************************************************************************)
(* seed                                                                    *)
(***************************************************************************)

\* _reset_domain_tables, committed at once.
Truncate(s) ==
    /\ s \in Resets /\ At(s, "idle")
    /\ \A t \in Seeders : ~seeder[t].open
    /\ \A r \in Loads : load[r] = "idle"
    /\ inject = {}
    /\ histories' = [p \in Personas |-> 0] /\ leads' = 0 /\ labels' = {}
    /\ account' = FALSE /\ own' = 0
    /\ seeder' = [seeder EXCEPT ![s] = [at |-> "look", todo |-> Personas, open |-> FALSE]]
    /\ UNCHANGED <<load, inject, redis, restarts>>

StartSeed(s) ==
    /\ s \in Seeds /\ At(s, "idle")
    /\ seeder' = [seeder EXCEPT ![s] = [at |-> "look", todo |-> Personas, open |-> FALSE]]
    /\ UNCHANGED <<database, load, inject, redis, restarts>>

\* _seed_persona: a customer that exists is skipped, its transaction stays open.
Look(s) ==
    /\ At(s, "look") /\ seeder[s].todo # {}
    /\ LET p  == Next1(seeder[s].todo)
           me == seeder[s]
       IN  seeder' = [seeder EXCEPT ![s] = IF histories[p] > 0
                                           THEN [me EXCEPT !.todo = me.todo \ {p}, !.open = TRUE]
                                           ELSE [me EXCEPT !.at = "insert", !.open = TRUE]]
    /\ UNCHANGED <<database, load, inject, redis, restarts>>

\* Variant: the key is no key.
NeverTaken(p) == FALSE

\* The primary key of customers.
Taken(p) == histories[p] > 0

\* Customer, account, transactions with the absolute balance they end in, holdings,
\* converted lead and memory: one commit.  A persona somebody else has committed
\* meanwhile ends the seeder with an IntegrityError.
InsertPersona(s) ==
    /\ At(s, "insert")
    /\ LET p == Next1(seeder[s].todo) IN
       IF Taken(p)
       THEN /\ seeder' = [seeder EXCEPT ![s] = [at |-> "failed", todo |-> {}, open |-> FALSE]]
            /\ UNCHANGED histories
       ELSE /\ histories' = [histories EXCEPT ![p] = @ + 1]
            /\ seeder' = [seeder EXCEPT ![s] = [at |-> "look", todo |-> @.todo \ {p}, open |-> FALSE]]
    /\ UNCHANGED <<leads, labels, account, own, load, inject, redis, restarts>>

\* _seed_extra_leads looks for none that are there.
ExtraLeads(s) ==
    /\ At(s, "look") /\ seeder[s].todo = {}
    /\ leads' = leads + 3
    /\ seeder' = [seeder EXCEPT ![s] = [@ EXCEPT !.at = IF s \in Resets THEN "streams" ELSE "done",
                                                 !.open = FALSE]]
    /\ UNCHANGED <<histories, labels, account, own, load, inject, redis, restarts>>

(***************************************************************************)
(* _flush_demo_redis, and the end of reset_demo                            *)
(***************************************************************************)

\* DELETE of a stream takes its consumer groups with it.
GroupAfter(g) == FALSE

DeleteStreams(s) ==
    /\ At(s, "streams")
    /\ entries' = 0 /\ group' = GroupAfter(group)
    /\ Step(s, "keys")
    /\ UNCHANGED <<database, load, inject, cooldowns, restarts>>

\* The SCANs; then the audit row, first of a new chain.
DeleteKeys(s) ==
    /\ At(s, "keys")
    /\ cooldowns' = FALSE
    /\ Step(s, "done")
    /\ UNCHANGED <<database, load, inject, entries, group, restarts>>

\* A command that fails is logged, and the next one tried.
SkipDelete(s) ==
    /\ seeder[s].at \in {"streams", "keys"}
    /\ Step(s, IF At(s, "streams") THEN "keys" ELSE "done")
    /\ UNCHANGED <<database, load, inject, redis, restarts>>

(***************************************************************************)
(* inject_sim_event and load_demo_activity                                 *)
(***************************************************************************)

\* XADD of the generated days: before the label's commit, which get_db makes after
\* the answer.
PublishInjection(p) ==
    /\ histories[p] > 0 /\ p \notin inject /\ entries < MaxEntries
    /\ inject' = inject \cup {p}
    /\ entries' = entries + 1
    /\ UNCHANGED <<database, seeder, load, group, cooldowns, restarts>>

CommitLabel(p) ==
    /\ p \in inject
    /\ labels' = labels \cup {p}
    /\ inject' = inject \ {p}
    /\ UNCHANGED <<histories, leads, account, own, seeder, load, redis, restarts>>

\* Variant: rows there are no obstacle.
CountAnyRows(r) ==
    /\ load[r] = "idle"
    /\ load' = [load EXCEPT ![r] = "counted"]
    /\ UNCHANGED <<database, seeder, inject, redis, restarts>>

\* Nothing serializes the count of rows with their insert.
CountRows(r) ==
    /\ load[r] = "idle" /\ own = 0
    /\ load' = [load EXCEPT ![r] = "counted"]
    /\ UNCHANGED <<database, seeder, inject, redis, restarts>>

\* The burst is on the stream before the rows are committed.
PublishBurst(r) ==
    /\ load[r] = "counted" /\ entries < MaxEntries
    /\ entries' = entries + 1
    /\ load' = [load EXCEPT ![r] = "published"]
    /\ UNCHANGED <<database, seeder, inject, group, cooldowns, restarts>>

\* An XADD that failed is not reported.
CommitLoad(r) ==
    /\ load[r] \in {"counted", "published"}
    /\ account' = TRUE /\ own' = own + 1
    /\ load' = [load EXCEPT ![r] = "idle"]
    /\ UNCHANGED <<histories, leads, labels, seeder, inject, redis, restarts>>

(***************************************************************************)
(* The worker                                                              *)
(***************************************************************************)

\* XREADGROUP; without the group it is an error, logged every second.
Read ==
    /\ group /\ entries > 0
    /\ entries' = entries - 1
    /\ cooldowns' = TRUE
    /\ UNCHANGED <<database, seeder, load, inject, group, restarts>>

\* ensure_group runs once, when the worker starts.
Restart ==
    /\ restarts < MaxRestarts
    /\ group' = TRUE
    /\ restarts' = restarts + 1
    /\ UNCHANGED <<database, seeder, load, inject, entries, cooldowns>>

Next ==
    \/ \E s \in Seeders : Truncate(s) \/ StartSeed(s) \/ Look(s) \/ InsertPersona(s) \/ ExtraLeads(s)
                          \/ DeleteStreams(s) \/ DeleteKeys(s) \/ SkipDelete(s)
    \/ \E p \in Personas : PublishInjection(p) \/ CommitLabel(p)
    \/ \E r \in Loads : CountRows(r) \/ PublishBurst(r) \/ CommitLoad(r)
    \/ Read \/ Restart

Spec == Init /\ [][Next]_vars

(***************************************************************************)
(* Properties                                                              *)
(***************************************************************************)

TypeOK ==
    /\ histories \in [Personas -> Nat] /\ leads \in Nat /\ labels \subseteq Personas
    /\ seeder \in [Seeders -> [at : {"idle", "look", "insert", "streams", "keys", "done", "failed"},
                               todo : SUBSET Personas, open : BOOLEAN]]
    /\ account \in BOOLEAN /\ own \in 0 .. Cardinality(Loads)
    /\ load \in [Loads -> {"idle", "counted", "published"}]
    /\ inject \subseteq Personas
    /\ entries \in 0 .. MaxEntries /\ group \in BOOLEAN /\ cooldowns \in BOOLEAN
    /\ restarts \in 0 .. MaxRestarts

\* However resets and seeds overlap, a persona has one history: "safe to re-run
\* without duplicating data".
OneHistoryPerPersona == \A p \in Personas : histories[p] <= 1
=============================================================================
