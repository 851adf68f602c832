--------------------------- MODULE StaffDecisions ---------------------------
(***************************************************************************)
(* What the bank's staff decide in the console: approving and rejecting    *)
(* proposals, claiming and resolving handoffs, writing notes, each with    *)
(* its row in the hash-chained audit log (app/api/v1/console.py,           *)
(* execute_proposal in app/agents/entrypoints.py, AuditTrail in            *)
(* app/agents/guardrails.py).                                              *)
(*                                                                         *)
(* Every request is one database transaction.  It checks the status it     *)
(* read without a lock; its UPDATE takes the row lock and its audit append *)
(* the advisory lock, approvals in the opposite order of the others.       *)
(*                                                                         *)
(* The hash of an audit row is its position: chain_hash tells any two      *)
(* chains apart, so the retry on a hash collision is not reachable.        *)
(***************************************************************************)
EXTENDS Integers, Sequences, FiniteSets

CONSTANTS
    Requests,    \* requests the API serves at the same time
    Staff,       \* staff emails
    Proposals, Handoffs,
    Channel,     \* [Proposals -> {"email", "in_app"}]: what approving it does
    MaxNotes,    \* bound: audit rows up to which staff write notes
    MaxLandings, \* bound: landings up to which a proposal is approved
    MaxFaults,   \* bound: aborted transactions of a behaviour
    Nobody       \* no request holds the lock; nobody decided or claimed

Items == Proposals \cup Handoffs

ASSUME DecisionsAssumption ==
    /\ Proposals \cap Handoffs = {}
    /\ Channel \in [Proposals -> {"email", "in_app"}]
    /\ Nobody \notin Requests /\ Nobody \notin Staff /\ Nobody \notin Items
    /\ IsFiniteSet(Requests)
    /\ MaxNotes \in Nat /\ MaxLandings \in Nat /\ MaxFaults \in Nat

VARIABLES
    status,    \* committed status of each proposal and handoff
    by,        \* committed decided_by / claimed_by
    landed,    \* times a proposal's action reached the customer
    log,       \* committed audit rows
    rowLock,   \* which request holds the row of an item
    auditLock, \* which request holds pg_advisory_xact_lock(_AUDIT_LOCK_KEY)
    pc, op,    \* where each request is, and what it does
    prev,      \* prev_hash of the audit row it inserted
    faults

rows  == <<status, by, landed, log>>
locks == <<rowLock, auditLock>>
vars  == <<rows, locks, pc, op, prev, faults>>

Kinds == {"approve", "reject", "claim", "resolve", "note"}
Outcome == [approve |-> "executed", reject |-> "rejected",
            claim |-> "claimed", resolve |-> "resolved", note |-> "none"]

\* "signs": the request writes decided_by / claimed_by.
Ops == {o \in [kind : Kinds, item : Items \cup {Nobody}, by : Staff \cup {Nobody}, signs : BOOLEAN] :
           o.item = Nobody <=> o.kind = "note"}
NoOp == [kind |-> "note", item |-> Nobody, by |-> Nobody, signs |-> FALSE]
Undecided(i) == IF i \in Proposals THEN "pending" ELSE "open"

\* UPDATE before AuditTrail.record, or the other way round.
UpdatesFirst(s) == op[s].kind \in {"reject", "claim", "resolve"}

Init ==
    /\ status = [i \in Items |-> Undecided(i)]
    /\ by = [i \in Items |-> Nobody]
    /\ landed = [p \in Proposals |-> 0]
    /\ log = <<>>
    /\ rowLock = [i \in Items |-> Nobody]
    /\ auditLock = Nobody
    /\ pc = [s \in Requests |-> "idle"]
    /\ op = [s \in Requests |-> NoOp]
    /\ prev = [s \in Requests |-> 0]
    /\ faults = 0

Goto(s, p) == pc' = [pc EXCEPT ![s] = p]

(***************************************************************************)
(* A request reads the row and checks its status; refused ones change      *)
(* nothing and are not steps.                                              *)
(***************************************************************************)

Begin(s, o) ==
    /\ pc[s] = "idle"
    /\ op' = [op EXCEPT ![s] = o]
    /\ Goto(s, "read")
    /\ UNCHANGED <<rows, locks, prev, faults>>

BeginApprove(s, w, p) ==
    /\ status[p] = "pending"
    /\ landed[p] < MaxLandings
    /\ Begin(s, [kind |-> "approve", item |-> p, by |-> w, signs |-> TRUE])

BeginReject(s, w, p) ==
    /\ status[p] = "pending"
    /\ Begin(s, [kind |-> "reject", item |-> p, by |-> w, signs |-> TRUE])

BeginClaim(s, w, h) ==
    /\ status[h] = "open"
    /\ Begin(s, [kind |-> "claim", item |-> h, by |-> w, signs |-> TRUE])

\* "Only the claimer resolves a claimed one; an unclaimed handoff is auto-claimed".
BeginResolve(s, w, h) ==
    /\ \/ status[h] = "open"
       \/ status[h] = "claimed" /\ by[h] = w
    /\ Begin(s, [kind |-> "resolve", item |-> h, by |-> w, signs |-> by[h] = Nobody])

\* Notes and the other audited console calls, none of which shares a row with these.
BeginNote(s, w) ==
    /\ Len(log) < MaxNotes
    /\ Begin(s, [kind |-> "note", item |-> Nobody, by |-> w, signs |-> FALSE])

(***************************************************************************)
(* Dispatching an approved proposal                                        *)
(***************************************************************************)

Lands(p) == landed' = [landed EXCEPT ![p] = @ + 1]

\* Variant: the nudge is committed in a session of its own.
DispatchAtOnce(s) ==
    /\ pc[s] = "read" /\ op[s].kind = "approve"
    /\ Lands(op[s].item)
    /\ Goto(s, "dispatched")
    /\ UNCHANGED <<status, by, log, locks, op, prev, faults>>

\* _dispatch_action: an email is gone when the call returns, a nudge or an offer is
\* inserted in the request's transaction.
Dispatch(s) ==
    /\ pc[s] = "read" /\ op[s].kind = "approve"
    /\ IF Channel[op[s].item] = "email" THEN Lands(op[s].item) ELSE UNCHANGED landed
    /\ Goto(s, "dispatched")
    /\ UNCHANGED <<status, by, log, locks, op, prev, faults>>

(***************************************************************************)
(* Locks                                                                   *)
(***************************************************************************)

WantsRow(s) ==
    \/ pc[s] = "read" /\ UpdatesFirst(s)
    \/ pc[s] = "audit"

WantsAudit(s) ==
    \/ pc[s] \in {"dispatched", "row"}
    \/ pc[s] = "read" /\ op[s].kind = "note"

\* The flush that sends the UPDATE waits for the row.
UpdateRow(s) ==
    /\ WantsRow(s)
    /\ rowLock[op[s].item] = Nobody
    /\ rowLock' = [rowLock EXCEPT ![op[s].item] = s]
    /\ Goto(s, IF pc[s] = "audit" THEN "flushed" ELSE "row")
    /\ UNCHANGED <<rows, auditLock, op, prev, faults>>

\* _tail_hash: a committed row nobody chains from; GENESIS is 0.
Tails == {h \in 1 .. Len(log) : \A n \in 1 .. Len(log) : log[n].prev # h}

\* Variant: off by one.
TailBeforeLast == {Len(log) - 1}

TailHashes == IF Tails = {} THEN {0} ELSE Tails

\* Variant: the tail is read without the advisory lock.
AppendAuditUnlocked(s) ==
    /\ WantsAudit(s)
    /\ \E h \in TailHashes : prev' = [prev EXCEPT ![s] = h]
    /\ Goto(s, IF op[s].kind = "approve" THEN "audit" ELSE "flushed")
    /\ UNCHANGED <<rows, locks, op, faults>>

\* AuditTrail.record: the advisory lock, the tail under it, the INSERT.
AppendAudit(s) ==
    /\ WantsAudit(s)
    /\ auditLock = Nobody
    /\ auditLock' = s
    /\ \E h \in TailHashes : prev' = [prev EXCEPT ![s] = h]
    /\ Goto(s, IF op[s].kind = "approve" THEN "audit" ELSE "flushed")
    /\ UNCHANGED <<rows, rowLock, op, faults>>

(***************************************************************************)
(* The end of the transaction                                              *)
(***************************************************************************)

\* Variant: a session-level advisory lock, which a commit does not release.
ReleaseRows(s) ==
    /\ rowLock' = [i \in Items |-> IF rowLock[i] = s THEN Nobody ELSE rowLock[i]]
    /\ UNCHANGED auditLock
    /\ Goto(s, "idle")
    /\ op' = [op EXCEPT ![s] = NoOp]
    /\ prev' = [prev EXCEPT ![s] = 0]

Release(s) ==
    /\ rowLock' = [i \in Items |-> IF rowLock[i] = s THEN Nobody ELSE rowLock[i]]
    /\ auditLock' = IF auditLock = s THEN Nobody ELSE auditLock
    /\ Goto(s, "idle")
    /\ op' = [op EXCEPT ![s] = NoOp]
    /\ prev' = [prev EXCEPT ![s] = 0]

\* Variant: the status is saved only when it is still the one that was checked.
WriteIfUndecided(o) ==
    /\ status' = [i \in Items |-> IF i = o.item /\ status[i] = Undecided(i)
                                  THEN Outcome[o.kind] ELSE status[i]]
    /\ by' = [i \in Items |-> IF i = o.item /\ o.signs THEN o.by ELSE by[i]]

\* The UPDATE sets the columns the request changed, whatever the row holds by now.
Write(o) ==
    /\ status' = [i \in Items |-> IF i = o.item THEN Outcome[o.kind] ELSE status[i]]
    /\ by' = [i \in Items |-> IF i = o.item /\ o.signs THEN o.by ELSE by[i]]

Commit(s) ==
    /\ pc[s] = "flushed"
    /\ Write(op[s])
    /\ log' = Append(log, [prev |-> prev[s], op |-> op[s]])
    /\ IF op[s].kind = "approve" /\ Channel[op[s].item] = "in_app"
       THEN Lands(op[s].item) ELSE UNCHANGED landed
    /\ Release(s)
    /\ UNCHANGED faults

\* The action cannot be dispatched (no email credentials, a full set of standing
\* instructions): the proposal stays pending.
Refuse(s) ==
    /\ pc[s] = "read" /\ op[s].kind = "approve"
    /\ Release(s)
    /\ UNCHANGED <<rows, faults>>

\* A lost connection or a crash anywhere in the transaction.
Abort(s) ==
    /\ pc[s] # "idle" /\ faults < MaxFaults
    /\ faults' = faults + 1
    /\ Release(s)
    /\ UNCHANGED rows

BlockedBy(s, t) ==
    \/ WantsRow(s) /\ rowLock[op[s].item] = t
    \/ WantsAudit(s) /\ auditLock = t

\* An approval holds the audit lock and waits for a row whose holder waits for the
\* audit lock: the server rolls one of them back.
DeadlockVictim(s) ==
    /\ \E t \in Requests : BlockedBy(s, t) /\ BlockedBy(t, s)
    /\ Release(s)
    /\ UNCHANGED <<rows, faults>>

BeginAny(s) ==
    \E w \in Staff :
        \/ \E p \in Proposals : BeginApprove(s, w, p) \/ BeginReject(s, w, p)
        \/ \E h \in Handoffs : BeginClaim(s, w, h) \/ BeginResolve(s, w, h)
        \/ BeginNote(s, w)

Work(s) ==
    \/ Dispatch(s) \/ UpdateRow(s) \/ AppendAudit(s) \/ Commit(s) \/ DeadlockVictim(s)

Next == \E s \in Requests : BeginAny(s) \/ Work(s) \/ Refuse(s) \/ Abort(s)

Spec == Init /\ [][Next]_vars

\* A transaction's next statement is sent, a lock goes to one of its waiters, and the
\* server breaks deadlocks; nobody promises new requests, refusals or faults.
FairSpec ==
    /\ Spec
    /\ \A s \in Requests :
        /\ WF_vars(Dispatch(s) \/ Commit(s) \/ DeadlockVictim(s))
        /\ SF_vars(UpdateRow(s)) /\ SF_vars(AppendAudit(s))

-----------------------------------------------------------------------------
TypeOK ==
    /\ status \in [Items -> {"pending", "open", "executed", "rejected", "claimed", "resolved"}]
    /\ by \in [Items -> Staff \cup {Nobody}]
    /\ landed \in [Proposals -> Nat]
    /\ log \in Seq([prev : Nat, op : Ops])
    /\ rowLock \in [Items -> Requests \cup {Nobody}]
    /\ auditLock \in Requests \cup {Nobody}
    /\ pc \in [Requests -> {"idle", "read", "dispatched", "row", "audit", "flushed"}]
    /\ op \in [Requests -> Ops]
    /\ prev \in [Requests -> Nat]
    /\ faults \in Nat

\* "Concurrent appends form a single linear chain": AuditTrail.verify holds after every
\* commit, whoever appends at the same time.
ChainLinear == \A n \in 1 .. Len(log) : log[n].prev = n - 1

\* The audit rows of item i.
RowsOf(i) == {n \in 1 .. Len(log) : log[n].op.item = i}

\* The chain tells the state of the table: an item's status and signature are those of
\* its newest audit row, and an item without one is undecided.
LogTellsStatus ==
    \A i \in Items :
        /\ RowsOf(i) = {} => status[i] = Undecided(i) /\ by[i] = Nobody
        /\ \A n \in RowsOf(i) : (\A m \in RowsOf(i) : m <= n) =>
             /\ status[i] = Outcome[log[n].op.kind]
             /\ log[n].op.signs => by[i] = log[n].op.by

\* "Approval executes the tool and writes an audit row": a nudge or an offer reaches the
\* customer exactly once per executed row, an email at least once.
LandingsAudited ==
    \A p \in Proposals :
        LET n == Cardinality({k \in RowsOf(p) : log[k].op.kind = "approve"})
        IN  IF Channel[p] = "in_app" THEN landed[p] = n ELSE landed[p] >= n

\* Every request ends, although approvals and the others take their locks in opposite
\* orders.
RequestsEnd == \A s \in Requests : pc[s] # "idle" ~> pc[s] = "idle"

\* test_execute_proposal_twice_is_rejected: a proposal is executed once.
ExecutedOnce ==
    \A p \in Proposals : \A m, n \in RowsOf(p) :
        log[m].op.kind = "approve" /\ log[n].op.kind = "approve" => m = n

=============================================================================
