--------------------------- MODULE EventConsumer ----------------------------
(***************************************************************************)
(* The live event pipeline of app/workers/event_consumer.py: the consumer  *)
(* group on the Redis stream txn.events, delivery and reclaim, the ledger  *)
(* post, the prefilter rules with their cooldown keys, the guarded agent   *)
(* run, the dead-letter stream.                                            *)
(*                                                                         *)
(* The ledger post and its commit are one step here: module Ledger shows   *)
(* that however deliveries overlap an event id is applied at most once and *)
(* later deliveries see that it was.                                       *)
(***************************************************************************)
EXTENDS Integers, Sequences, FiniteSets

CONSTANTS
    Consumers,      \* worker processes (two during a rolling restart)
    Entries,        \* stream entries that will be published, in XADD order 1..n
    EventOf,        \* [Entries -> event ids]: a producer may publish an event twice
    KindOf,         \* [Entries -> {"ok", "poison", "unknown"}]
    Matches,        \* [Entries -> Seq(Rules)]: what evaluate_rules returns
    Rules,          \* cooldown keys agent.cooldown:{customer}:{rule}
    BatchCount,     \* BATCH_COUNT
    MaxDeliveries,  \* MAX_DELIVERIES
    MaxFaults,      \* bound: crashes and Redis errors of a behaviour
    MaxPauses,      \* bound: times the day's spend goes over or back under budget
    Nobody          \* the owner of an entry that is not pending

ASSUME ConsumerAssumption ==
    /\ IsFiniteSet(Entries) /\ Entries = 1 .. Cardinality(Entries)
    /\ KindOf \in [Entries -> {"ok", "poison", "unknown"}]
    /\ Matches \in [Entries -> Seq(Rules)]
    /\ BatchCount \in Nat \ {0}
    /\ MaxDeliveries \in Nat \ {0}
    /\ Nobody \notin Consumers

VARIABLES
    published,   \* entries in the stream are 1..published
    cursor,      \* last-delivered entry of the group
    owner,       \* the pending entries list: which consumer an entry is pending for
    deliveries,  \* times_delivered of a pending entry
    idle,        \* pending entries untouched for CLAIM_MIN_IDLE_MS
    acked,       \* entries acknowledged
    dlq,         \* txn.events.dlq: entries dead-lettered, each with its reason
    applied,     \* event ids with a committed transaction
    evaluated,   \* those whose matched rules were all gated
    cooldown,    \* cooldown keys that are set
    ran,         \* rules that had their agent run in the current cooldown window
    overBudget,  \* whether today's spend has reached the budget
    phase,       \* which half of the loop each consumer is in
    batch,       \* entries a consumer has read or claimed and not finished
    pc,          \* where it is with the oldest of them
    todo,        \* matched rules still to be gated
    faults, pauses

redis == <<published, cursor, owner, deliveries, idle, acked, dlq>>
gates == <<cooldown, ran, overBudget, pauses>>
local == <<phase, batch, pc, todo>>
ledger == <<applied, evaluated>>
vars  == <<redis, gates, local, ledger, faults>>

Pending == {e \in Entries : owner[e] # Nobody}

\* Entries come in stream order: c works on the oldest entry of its batch.
Handles(c, e) == e \in batch[c] /\ \A f \in batch[c] : e <= f
Reasons == {"failed", "timeout"}

Init ==
    /\ published = 0
    /\ cursor = 0
    /\ owner = [e \in Entries |-> Nobody]
    /\ deliveries = [e \in Entries |-> 0]
    /\ idle = {}
    /\ acked = {}
    /\ dlq = {}
    /\ applied = {}
    /\ evaluated = {}
    /\ cooldown = {}
    /\ ran = {}
    /\ overBudget = FALSE
    /\ phase = [c \in Consumers |-> "new"]
    /\ batch = [c \in Consumers |-> {}]
    /\ pc = [c \in Consumers |-> "loop"]
    /\ todo = [c \in Consumers |-> <<>>]
    /\ faults = 0
    /\ pauses = 0

(***************************************************************************)
(* Stream and group                                                        *)
(***************************************************************************)

Publish ==
    /\ published + 1 \in Entries
    /\ published' = published + 1
    /\ UNCHANGED <<cursor, owner, deliveries, idle, acked, dlq, gates, local, ledger, faults>>

\* Reading or claiming hands entries to c and counts one more delivery of each.
Deliver(c, es) ==
    /\ owner' = [e \in Entries |-> IF e \in es THEN c ELSE owner[e]]
    /\ deliveries' = [e \in Entries |-> deliveries[e] + (IF e \in es THEN 1 ELSE 0)]
    /\ idle' = idle \ es
    /\ batch' = [batch EXCEPT ![c] = es]

\* XREADGROUP with ">": the next entries nobody was given; none after the block time.
ConsumeNew(c) ==
    /\ pc[c] = "loop" /\ batch[c] = {} /\ phase[c] = "new"
    /\ \E n \in 0 .. BatchCount :
        /\ \/ cursor + n = published
           \/ n = BatchCount /\ cursor + n < published
        /\ Deliver(c, {e \in Entries : cursor < e /\ e <= cursor + n})
        /\ cursor' = cursor + n
    /\ phase' = [phase EXCEPT ![c] = "reclaim"]
    /\ UNCHANGED <<published, acked, dlq, gates, pc, todo, ledger, faults>>

\* Variant: a consumer claims only what other consumers left behind.
StaleOfOthers(c) == {e \in Pending \cap idle : owner[e] # c}

Stale(c) == Pending \cap idle

\* XAUTOCLAIM: pending entries idle long enough, whoever owns them, oldest first.
ReclaimStale(c) ==
    /\ pc[c] = "loop" /\ batch[c] = {} /\ phase[c] = "reclaim"
    /\ Deliver(c, {e \in Stale(c) : Cardinality({f \in Stale(c) : f < e}) < BatchCount})
    /\ phase' = [phase EXCEPT ![c] = "new"]
    /\ UNCHANGED <<published, cursor, acked, dlq, gates, pc, todo, ledger, faults>>

\* CLAIM_MIN_IDLE_MS passes, also while the owner is still working on the entry.
BecomeIdle(e) ==
    /\ e \in Pending \ idle
    /\ idle' = idle \cup {e}
    /\ UNCHANGED <<published, cursor, owner, deliveries, acked, dlq, gates, local, ledger, faults>>

(***************************************************************************)
(* process_envelope                                                        *)
(***************************************************************************)

Goto(c, p) == pc' = [pc EXCEPT ![c] = p]

\* Missing ids, unknown customer or a customer without account: nothing to do.
SkipUnknown(c, e) ==
    /\ pc[c] = "loop" /\ Handles(c, e)
    /\ KindOf[e] = "unknown"
    /\ Goto(c, "ack")
    /\ UNCHANGED <<redis, gates, phase, batch, todo, ledger, faults>>

\* The ledger already has this event_id: nothing more to do for it.
SkipDuplicate(c, e) ==
    /\ pc[c] = "loop" /\ Handles(c, e)
    /\ KindOf[e] = "ok"
    /\ EventOf[e] \in applied
    /\ Goto(c, "ack")
    /\ UNCHANGED <<redis, gates, phase, batch, todo, ledger, faults>>

\* The post commits; the rules are then evaluated on the trailing history.
Post(c, e) ==
    /\ pc[c] = "loop" /\ Handles(c, e)
    /\ KindOf[e] = "ok"
    /\ EventOf[e] \notin applied
    /\ applied' = applied \cup {EventOf[e]}
    /\ todo' = [todo EXCEPT ![c] = Matches[e]]
    /\ Goto(c, "rules")
    /\ UNCHANGED <<redis, gates, phase, batch, evaluated, faults>>

\* A payload that cannot be posted raises on every delivery.
PoisonRaises(c, e) ==
    /\ pc[c] = "loop" /\ Handles(c, e)
    /\ KindOf[e] = "poison"
    /\ Goto(c, "failed")
    /\ UNCHANGED <<redis, gates, phase, batch, todo, ledger, faults>>

\* The database or Redis refuses while the entry is processed, before or after
\* the commit, or refuses the XACK that follows.
ProcessingRaises(c) ==
    /\ faults < MaxFaults
    /\ \/ pc[c] = "loop" /\ batch[c] # {}
       \/ pc[c] \in {"rules", "run", "ack"}
    /\ faults' = faults + 1
    /\ todo' = [todo EXCEPT ![c] = <<>>]
    /\ Goto(c, "failed")
    /\ UNCHANGED <<redis, gates, phase, batch, ledger>>

(***************************************************************************)
(* Matched rules: SETNX cooldown, then the guarded agent run               *)
(***************************************************************************)

NextRule(c) ==
    /\ todo' = [todo EXCEPT ![c] = Tail(@)]
    /\ Goto(c, "rules")

\* Variant: SET without NX.
CooldownIgnored(r) == TRUE

\* The SETNX: it fails, or it wins the window.
CooldownIsFree(r) == r \notin cooldown

SkipCooling(c) ==
    /\ pc[c] = "rules" /\ todo[c] # <<>>
    /\ ~CooldownIsFree(Head(todo[c]))
    /\ NextRule(c)
    /\ UNCHANGED <<redis, gates, phase, batch, ledger, faults>>

AcquireCooldown(c) ==
    /\ pc[c] = "rules" /\ todo[c] # <<>>
    /\ CooldownIsFree(Head(todo[c]))
    /\ cooldown' = cooldown \cup {Head(todo[c])}
    /\ Goto(c, "run")
    /\ UNCHANGED <<redis, ran, overBudget, pauses, phase, batch, todo, ledger, faults>>

\* run_event_trigger checks the budget first; a failed graph run still returns.
RunAgent(c) ==
    /\ pc[c] = "run" /\ ~overBudget
    /\ ran' = ran \cup {Head(todo[c])}
    /\ NextRule(c)
    /\ UNCHANGED <<redis, cooldown, overBudget, pauses, phase, batch, ledger, faults>>

\* BudgetExceeded: skip the run without dead-lettering.
PauseForBudget(c) ==
    /\ pc[c] = "run" /\ overBudget
    /\ NextRule(c)
    /\ UNCHANGED <<redis, gates, phase, batch, ledger, faults>>

\* TimeoutError: dead-letter the envelope, go on with the other rules.
TimeOut(c, e) ==
    /\ pc[c] = "run" /\ Handles(c, e) /\ ~overBudget
    /\ dlq' = dlq \cup {<<e, "timeout">>}
    /\ ran' = ran \cup {Head(todo[c])}
    /\ NextRule(c)
    /\ UNCHANGED <<published, cursor, owner, deliveries, idle, acked, cooldown, overBudget,
                   pauses, phase, batch, ledger, faults>>

RulesDone(c, e) ==
    /\ pc[c] = "rules" /\ todo[c] = <<>> /\ Handles(c, e)
    /\ evaluated' = evaluated \cup {EventOf[e]}
    /\ Goto(c, "ack")
    /\ UNCHANGED <<redis, gates, phase, batch, todo, applied, faults>>

(***************************************************************************)
(* _handle_delivery: acknowledge, leave pending, or dead-letter            *)
(***************************************************************************)

Done(c, e) ==
    /\ batch' = [batch EXCEPT ![c] = @ \ {e}]
    /\ Goto(c, "loop")

Ack(c, e) ==
    /\ pc[c] \in {"ack", "drop"} /\ Handles(c, e)
    /\ acked' = acked \cup {e}
    /\ owner' = [owner EXCEPT ![e] = Nobody]
    /\ idle' = idle \ {e}
    /\ Done(c, e)
    /\ UNCHANGED <<published, cursor, deliveries, dlq, gates, phase, todo, ledger, faults>>

\* _delivery_count: 1 for an entry that is no longer pending.
DeliveryCount(e) == IF e \in Pending THEN deliveries[e] ELSE 1

LeavePending(c, e) ==
    /\ pc[c] = "failed" /\ Handles(c, e)
    /\ DeliveryCount(e) < MaxDeliveries
    /\ Done(c, e)
    /\ UNCHANGED <<redis, gates, phase, todo, ledger, faults>>

\* Variant: the entry is acknowledged off the stream and not kept.
DeadLetterDropped(c, e) ==
    /\ pc[c] = "failed" /\ Handles(c, e)
    /\ DeliveryCount(e) >= MaxDeliveries
    /\ Goto(c, "drop")
    /\ UNCHANGED <<redis, gates, phase, batch, todo, ledger, faults>>

\* XADD to the dead-letter stream first, XACK after it.
DeadLetter(c, e) ==
    /\ pc[c] = "failed" /\ Handles(c, e)
    /\ DeliveryCount(e) >= MaxDeliveries
    /\ dlq' = dlq \cup {<<e, "failed">>}
    /\ Goto(c, "drop")
    /\ UNCHANGED <<published, cursor, owner, deliveries, idle, acked, gates,
                   phase, batch, todo, ledger, faults>>

(***************************************************************************)
(* Faults and the environment                                              *)
(***************************************************************************)

\* Variant: the restarted process deletes its old consumer, and with it its pending list.
LoseBatchAndPending(c) ==
    /\ faults < MaxFaults
    /\ faults' = faults + 1
    /\ phase' = [phase EXCEPT ![c] = "new"]
    /\ batch' = [batch EXCEPT ![c] = {}]
    /\ todo' = [todo EXCEPT ![c] = <<>>]
    /\ Goto(c, "loop")
    /\ owner' = [e \in Entries |-> IF owner[e] = c THEN Nobody ELSE owner[e]]
    /\ UNCHANGED <<published, cursor, deliveries, idle, acked, dlq, gates, ledger>>

\* The process dies and is restarted under a new consumer name, or a Redis call of
\* the loop itself raises: what was read and not acknowledged stays pending.
LoseBatch(c) ==
    /\ faults < MaxFaults
    /\ faults' = faults + 1
    /\ phase' = [phase EXCEPT ![c] = "new"]
    /\ batch' = [batch EXCEPT ![c] = {}]
    /\ todo' = [todo EXCEPT ![c] = <<>>]
    /\ Goto(c, "loop")
    /\ UNCHANGED <<redis, gates, ledger>>

\* EVENT_COOLDOWN_SECONDS (300) outlasts AGENT_RUN_TIMEOUT_SECONDS (120), so a key
\* does not expire under the run that set it.
Running(r) == {c \in Consumers : pc[c] = "run" /\ Head(todo[c]) = r}

CooldownExpires(r) ==
    /\ r \in cooldown
    /\ Running(r) = {}
    /\ cooldown' = cooldown \ {r}
    /\ ran' = ran \ {r}
    /\ UNCHANGED <<redis, overBudget, pauses, local, ledger, faults>>

\* Spend reaches the budget; it rolls over at midnight UTC or the budget is raised.
BudgetChanges ==
    /\ pauses < MaxPauses
    /\ pauses' = pauses + 1
    /\ overBudget' = ~overBudget
    /\ UNCHANGED <<redis, cooldown, ran, local, ledger, faults>>

HandleEntry(c, e) ==
    \/ SkipUnknown(c, e) \/ SkipDuplicate(c, e) \/ Post(c, e) \/ PoisonRaises(c, e)
    \/ TimeOut(c, e) \/ RulesDone(c, e) \/ Ack(c, e) \/ LeavePending(c, e) \/ DeadLetter(c, e)

Work(c) ==
    \/ ConsumeNew(c) \/ ReclaimStale(c)
    \/ \E e \in Entries : HandleEntry(c, e)
    \/ SkipCooling(c) \/ AcquireCooldown(c)
    \/ RunAgent(c) \/ PauseForBudget(c)

Next ==
    \/ Publish
    \/ \E c \in Consumers : Work(c) \/ ProcessingRaises(c) \/ LoseBatch(c)
    \/ \E e \in Entries : BecomeIdle(e)
    \/ \E r \in Rules : CooldownExpires(r)
    \/ BudgetChanges

Spec == Init /\ [][Next]_vars

\* run_forever never leaves its loop before shutdown, and time passes.  Publishing,
\* faults, timeouts, expiry and budget changes are not promised.
FairSpec ==
    /\ Spec
    /\ \A c \in Consumers : WF_vars(Work(c))
    /\ \A e \in Entries : WF_vars(BecomeIdle(e))

-----------------------------------------------------------------------------
TypeOK ==
    /\ published \in Nat /\ cursor \in Nat
    /\ owner \in [Entries -> Consumers \cup {Nobody}]
    /\ deliveries \in [Entries -> Nat]
    /\ idle \subseteq Entries /\ acked \subseteq Entries
    /\ dlq \subseteq Entries \X Reasons
    /\ applied \subseteq {EventOf[e] : e \in Entries} /\ evaluated \subseteq applied
    /\ cooldown \subseteq Rules /\ ran \subseteq Rules
    /\ overBudget \in BOOLEAN
    /\ phase \in [Consumers -> {"new", "reclaim"}]
    /\ batch \in [Consumers -> SUBSET Entries]
    /\ pc \in [Consumers -> {"loop", "rules", "run", "ack", "failed", "drop"}]
    /\ todo \in [Consumers -> Seq(Rules)]
    /\ faults \in Nat /\ pauses \in Nat

\* No entry disappears: once it is acknowledged its money is posted, or there was
\* nobody to post it for, or the raw entry is kept on the dead-letter stream
\* ("before the raw entry is moved to txn.events.dlq and acked off the main stream").
AckedMeansHandled ==
    \A e \in acked :
        \/ KindOf[e] = "unknown"
        \/ EventOf[e] \in applied
        \/ <<e, "failed">> \in dlq

\* An entry handed to a consumer stays in the pending list until it is acknowledged,
\* whatever crashes: reclaim can always find it.
DeliveredIsPendingOrAcked ==
    \A e \in Entries : e <= cursor <=> e \in Pending \/ e \in acked

\* "At most one agent run fires per customer per rule per cooldown window" (step 4):
\* two consumers are never inside a run for the same key, and none is inside a run
\* for a key whose window already had one.
OneRunPerWindow ==
    \A r \in Rules :
        /\ \A c, d \in Running(r) : c = d
        /\ Running(r) # {} => r \in cooldown /\ r \notin ran

\* "One bad event never blocks the loop", "reclaims entries ... and retries them":
\* every published entry is acknowledged in the end, poison and crashes included.
EventuallyAcked == \A e \in Entries : e <= published ~> e \in acked

=============================================================================
