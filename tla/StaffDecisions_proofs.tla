----------------------- MODULE StaffDecisions_proofs ------------------------
(***************************************************************************)
(* The staff console's safety theorems, for any number of concurrent       *)
(* requests, staff, proposals and handoffs.                                *)
(*                                                                         *)
(* ChainLinear is about committed rows; what makes the next commit keep it *)
(* was read earlier, under the advisory lock.  The strengthening says that *)
(* a request with an audit row inserted holds that lock (AuditHeld) and    *)
(* that the hash it chained from is still the tail (PrevIsTail).           *)
(*                                                                         *)
(* LandingsAudited compares what customers got with the executed rows; an  *)
(* email that has left without its row yet is one of a request under way   *)
(* (Sent), which is what LandingInv counts in.                             *)
(***************************************************************************)
EXTENDS StaffDecisions, FiniteSetTheorems, TLAPS

AuditHeld == \A s \in Requests : pc[s] \in {"audit", "flushed"} => auditLock = s

PrevIsTail == \A s \in Requests : pc[s] \in {"audit", "flushed"} => prev[s] = Len(log)

\* A linear chain, and why the row being inserted keeps it linear.
ChainInv == AuditHeld /\ PrevIsTail /\ ChainLinear

IInv == TypeOK /\ ChainInv /\ LogTellsStatus

-----------------------------------------------------------------------------
\* Under a linear chain the tail query finds exactly the last row, or the genesis.
LEMMA TailIsLast == ASSUME TypeOK, ChainLinear PROVE TailHashes = {Len(log)}
<1>1. Len(log) \in Nat
    BY DEF TypeOK
<1>2. CASE Len(log) = 0
    BY <1>2 DEF TailHashes, Tails
<1>3. CASE Len(log) # 0
    <2>1. Len(log) \in Tails
        <3>1. Len(log) \in 1 .. Len(log)
            BY <1>1, <1>3
        <3>2. \A n \in 1 .. Len(log) : log[n].prev # Len(log)
            BY <1>1 DEF ChainLinear
        <3>. QED BY <3>1, <3>2 DEF Tails
    <2>2. ASSUME NEW h \in Tails PROVE h = Len(log)
        <3>1. SUFFICES ASSUME h # Len(log) PROVE FALSE
            OBVIOUS
        <3>2. h \in 1 .. Len(log) /\ h + 1 \in 1 .. Len(log)
            BY <1>1, <3>1 DEF Tails
        <3>3. log[h + 1].prev = h
            BY <1>1, <3>2 DEF ChainLinear
        <3>. QED BY <3>2, <3>3 DEF Tails
    <2>. QED BY <2>1, <2>2 DEF TailHashes
<1>. QED BY <1>2, <1>3

\* A committed row is the last one, and the rows before it stay.
LEMMA AppendRow ==
    ASSUME NEW S, NEW q \in Seq(S), NEW x \in S
    PROVE  /\ Append(q, x) \in Seq(S)
           /\ Len(Append(q, x)) = Len(q) + 1
           /\ Append(q, x)[Len(q) + 1] = x
           /\ \A n \in 1 .. Len(q) : Append(q, x)[n] = q[n]
OBVIOUS

LEMMA RequestOps ==
    ASSUME NEW k \in Kinds, NEW i \in Items \cup {Nobody}, NEW w \in Staff, NEW b \in BOOLEAN,
           i = Nobody <=> k = "note"
    PROVE  [kind |-> k, item |-> i, by |-> w, signs |-> b] \in Ops
BY DEF Ops

LEMMA NoOpTyped == NoOp \in Ops
BY DEF NoOp, Ops, Kinds

LEMMA InitIInv == Init => IInv
<1> SUFFICES ASSUME Init PROVE IInv
    OBVIOUS
<1>1. TypeOK
    <2>1. <<>> \in Seq([prev : Nat, op : Ops])
        OBVIOUS
    <2>2. op \in [Requests -> Ops]
        BY NoOpTyped DEF Init
    <2>3. \A i \in Items : Undecided(i) \in {"pending", "open"}
        BY DEF Undecided
    <2>. QED BY <2>1, <2>2, <2>3 DEF Init, TypeOK
<1>2. ChainInv
    BY DEF Init, ChainInv, AuditHeld, PrevIsTail, ChainLinear
<1>3. LogTellsStatus
    BY DEF Init, LogTellsStatus, RowsOf
<1>. QED BY <1>1, <1>2, <1>3 DEF IInv

-----------------------------------------------------------------------------
(* Whatever a request asks for, it starts by remembering what it will do.    *)

LEMMA BeginsWithAnOp ==
    ASSUME NEW s \in Requests, BeginAny(s)
    PROVE  \E o \in Ops : Begin(s, o)
<1>1. PICK w \in Staff :
        \/ \E p \in Proposals : BeginApprove(s, w, p) \/ BeginReject(s, w, p)
        \/ \E h \in Handoffs : BeginClaim(s, w, h) \/ BeginResolve(s, w, h)
        \/ BeginNote(s, w)
    BY DEF BeginAny
<1>2. CASE \E p \in Proposals : BeginApprove(s, w, p) \/ BeginReject(s, w, p)
    BY <1>2, RequestOps, DecisionsAssumption DEF BeginApprove, BeginReject, Items, Kinds
<1>3. CASE \E h \in Handoffs : BeginClaim(s, w, h) \/ BeginResolve(s, w, h)
    <2>1. PICK h \in Handoffs : BeginClaim(s, w, h) \/ BeginResolve(s, w, h)
        BY <1>3
    <2>2. (by[h] = Nobody) \in BOOLEAN /\ h \in Items
        BY DEF Items
    <2>. QED BY <2>1, <2>2, RequestOps, DecisionsAssumption DEF BeginClaim, BeginResolve, Kinds
<1>4. CASE BeginNote(s, w)
    BY <1>4, RequestOps DEF BeginNote, Kinds
<1>. QED BY <1>1, <1>2, <1>3, <1>4

LEMMA TypeStep == ASSUME TypeOK, ChainInv, [Next]_vars PROVE TypeOK'
<1>. USE DEF ChainInv, rows, locks
<1>1. ASSUME NEW s \in Requests, NEW o \in Ops, Begin(s, o) PROVE TypeOK'
    BY <1>1 DEF Begin, Goto, TypeOK
<1>2. ASSUME NEW s \in Requests, Dispatch(s) PROVE TypeOK'
    <2>1. op[s].item \in Proposals => landed[op[s].item] + 1 \in Nat
        BY DEF TypeOK
    <2>2. landed' \in [Proposals -> Nat]
        BY <1>2, <2>1 DEF Dispatch, Lands, TypeOK
    <2>. QED BY <1>2, <2>2 DEF Dispatch, Goto, TypeOK
<1>3. ASSUME NEW s \in Requests, UpdateRow(s) PROVE TypeOK'
    BY <1>3, NoOpTyped DEF UpdateRow, Goto, TypeOK
<1>4. ASSUME NEW s \in Requests, AppendAudit(s) PROVE TypeOK'
    BY <1>4, TailIsLast DEF AppendAudit, Goto, TypeOK, ChainInv
<1>5. ASSUME NEW s \in Requests, Commit(s) PROVE TypeOK'
    <2>1. op[s] \in Ops /\ prev[s] \in Nat
        BY DEF TypeOK
    <2>2. [prev |-> prev[s], op |-> op[s]] \in [prev : Nat, op : Ops]
        BY <2>1
    <2>3. log' \in Seq([prev : Nat, op : Ops])
        BY <1>5, <2>2, AppendRow DEF Commit, TypeOK
    <2>4. landed' \in [Proposals -> Nat]
        BY <1>5 DEF Commit, Lands, TypeOK
    <2>5. op[s].item \in Items => Outcome[op[s].kind] \in {"executed", "rejected", "claimed", "resolved"}
        BY <2>1, DecisionsAssumption DEF Ops, Kinds, Outcome
    <2>6. status' \in [Items -> {"pending", "open", "executed", "rejected", "claimed", "resolved"}]
        BY <1>5, <2>5 DEF Commit, Write, TypeOK
    <2>7. by' \in [Items -> Staff \cup {Nobody}]
        BY <1>5, <2>1 DEF Commit, Write, TypeOK, Ops
    <2>. QED BY <1>5, <2>3, <2>4, <2>6, <2>7, NoOpTyped DEF Commit, Release, Goto, TypeOK
<1>6. ASSUME NEW s \in Requests, DeadlockVictim(s) PROVE TypeOK'
    BY <1>6, NoOpTyped DEF DeadlockVictim, Release, Goto, TypeOK
<1>7. ASSUME NEW s \in Requests, Refuse(s) PROVE TypeOK'
    BY <1>7, NoOpTyped DEF Refuse, Release, Goto, TypeOK
<1>8. ASSUME NEW s \in Requests, Abort(s) PROVE TypeOK'
    BY <1>8, NoOpTyped DEF Abort, Release, Goto, TypeOK
<1>9. ASSUME UNCHANGED vars PROVE TypeOK'
    BY <1>9 DEF vars, TypeOK
<1>. QED
    BY <1>1, <1>2, <1>3, <1>4, <1>5, <1>6, <1>7, <1>8, <1>9, BeginsWithAnOp DEF Next, Work

LEMMA ChainStep == ASSUME TypeOK, ChainInv, [Next]_vars PROVE ChainInv'
<1>. USE DEF ChainInv, AuditHeld, PrevIsTail, ChainLinear, rows, locks
<1>1. ASSUME NEW s \in Requests, NEW o \in Ops, Begin(s, o) PROVE ChainInv'
    BY <1>1 DEF Begin, Goto, TypeOK
<1>2. ASSUME NEW s \in Requests, Dispatch(s) PROVE ChainInv'
    BY <1>2 DEF Dispatch, Lands, Goto, TypeOK
<1>3. ASSUME NEW s \in Requests, UpdateRow(s) PROVE ChainInv'
    BY <1>3 DEF UpdateRow, Goto, TypeOK
<1>4. ASSUME NEW s \in Requests, AppendAudit(s) PROVE ChainInv'
    <2>1. prev' = [prev EXCEPT ![s] = Len(log)]
        BY <1>4, TailIsLast DEF AppendAudit
    <2>2. AuditHeld'
        BY <1>4, DecisionsAssumption DEF AppendAudit, Goto, AuditHeld, TypeOK
    <2>3. PrevIsTail'
        BY <1>4, <2>1 DEF AppendAudit, Goto, PrevIsTail, TypeOK
    <2>4. ChainLinear'
        BY <1>4 DEF AppendAudit, ChainLinear
    <2>. QED BY <2>2, <2>3, <2>4
<1>5. ASSUME NEW s \in Requests, Commit(s) PROVE ChainInv'
    <2>1. prev[s] = Len(log) /\ auditLock = s
        BY <1>5 DEF Commit, PrevIsTail, AuditHeld
    <2>2. [prev |-> prev[s], op |-> op[s]] \in [prev : Nat, op : Ops]
        BY DEF TypeOK
    <2>3. /\ Len(log') = Len(log) + 1
          /\ log'[Len(log) + 1].prev = Len(log)
          /\ \A n \in 1 .. Len(log) : log'[n] = log[n]
        BY <1>5, <2>1, <2>2, AppendRow DEF Commit, TypeOK
    <2>4. Len(log) \in Nat
        BY DEF TypeOK
    <2>5. ChainLinear'
        BY <2>3, <2>4 DEF ChainLinear
    <2>6. \A t \in Requests : pc'[t] \notin {"audit", "flushed"}
        BY <1>5, <2>1 DEF Commit, Release, Goto, AuditHeld, TypeOK
    <2>. QED BY <2>5, <2>6 DEF AuditHeld, PrevIsTail
<1>6. ASSUME NEW s \in Requests, DeadlockVictim(s) PROVE ChainInv'
    BY <1>6 DEF DeadlockVictim, Release, Goto, TypeOK
<1>7. ASSUME NEW s \in Requests, Refuse(s) PROVE ChainInv'
    BY <1>7 DEF Refuse, Release, Goto, TypeOK
<1>8. ASSUME NEW s \in Requests, Abort(s) PROVE ChainInv'
    BY <1>8 DEF Abort, Release, Goto, TypeOK
<1>9. ASSUME UNCHANGED vars PROVE ChainInv'
    BY <1>9 DEF vars, TypeOK
<1>. QED
    BY <1>1, <1>2, <1>3, <1>4, <1>5, <1>6, <1>7, <1>8, <1>9, BeginsWithAnOp DEF Next, Work

\* Steps that commit nothing leave the tables and the chain as they are.
LEMMA LogUntouched ==
    ASSUME LogTellsStatus, UNCHANGED <<status, by, log>>
    PROVE  LogTellsStatus'
BY DEF LogTellsStatus, RowsOf

LEMMA LogStep == ASSUME TypeOK, LogTellsStatus, [Next]_vars PROVE LogTellsStatus'
<1>. USE DEF Release, Goto, rows, locks
<1>1. ASSUME NEW s \in Requests, NEW o \in Ops, Begin(s, o) PROVE LogTellsStatus'
    BY <1>1, LogUntouched DEF Begin
<1>2. ASSUME NEW s \in Requests, Dispatch(s) PROVE LogTellsStatus'
    BY <1>2, LogUntouched DEF Dispatch
<1>3. ASSUME NEW s \in Requests, UpdateRow(s) PROVE LogTellsStatus'
    BY <1>3, LogUntouched DEF UpdateRow
<1>4. ASSUME NEW s \in Requests, AppendAudit(s) PROVE LogTellsStatus'
    BY <1>4, LogUntouched DEF AppendAudit
<1>5. ASSUME NEW s \in Requests, Commit(s) PROVE LogTellsStatus'
    <2>1. [prev |-> prev[s], op |-> op[s]] \in [prev : Nat, op : Ops]
        BY DEF TypeOK
    <2>2. /\ Len(log') = Len(log) + 1
          /\ log'[Len(log) + 1].op = op[s]
          /\ \A n \in 1 .. Len(log) : log'[n] = log[n]
        BY <1>5, <2>1, AppendRow DEF Commit, TypeOK
    <2>3. Len(log) \in Nat
        BY DEF TypeOK
    <2> SUFFICES ASSUME NEW i \in Items
                 PROVE  /\ RowsOf(i)' = {} => status'[i] = Undecided(i) /\ by'[i] = Nobody
                        /\ \A n \in RowsOf(i)' : (\A m \in RowsOf(i)' : m <= n) =>
                             /\ status'[i] = Outcome[log'[n].op.kind]
                             /\ log'[n].op.signs => by'[i] = log'[n].op.by
        BY DEF LogTellsStatus
    <2>4. CASE op[s].item = i
        <3>1. Len(log) + 1 \in RowsOf(i)'
            BY <2>2, <2>3, <2>4 DEF RowsOf
        <3>2. ASSUME NEW n \in RowsOf(i)', \A m \in RowsOf(i)' : m <= n
              PROVE  n = Len(log) + 1
            BY <2>2, <2>3, <3>1, <3>2 DEF RowsOf
        <3>3. /\ status'[i] = Outcome[op[s].kind]
              /\ op[s].signs => by'[i] = op[s].by
            BY <1>5, <2>4 DEF Commit, Write
        <3>. QED BY <2>2, <3>1, <3>2, <3>3
    <2>5. CASE op[s].item # i
        <3>1. RowsOf(i)' = RowsOf(i)
            BY <2>2, <2>3, <2>5 DEF RowsOf
        <3>2. status'[i] = status[i] /\ by'[i] = by[i]
            BY <1>5, <2>5 DEF Commit, Write, TypeOK
        <3>3. \A n \in RowsOf(i) : log'[n] = log[n]
            BY <2>2 DEF RowsOf
        <3>. QED BY <3>1, <3>2, <3>3 DEF LogTellsStatus
    <2>. QED BY <2>4, <2>5
<1>6. ASSUME NEW s \in Requests, DeadlockVictim(s) PROVE LogTellsStatus'
    BY <1>6, LogUntouched DEF DeadlockVictim
<1>7. ASSUME NEW s \in Requests, Refuse(s) PROVE LogTellsStatus'
    BY <1>7, LogUntouched DEF Refuse
<1>8. ASSUME NEW s \in Requests, Abort(s) PROVE LogTellsStatus'
    BY <1>8, LogUntouched DEF Abort
<1>9. ASSUME UNCHANGED vars PROVE LogTellsStatus'
    BY <1>9, LogUntouched DEF vars
<1>. QED
    BY <1>1, <1>2, <1>3, <1>4, <1>5, <1>6, <1>7, <1>8, <1>9, BeginsWithAnOp DEF Next, Work

LEMMA NextIInv == IInv /\ [Next]_vars => IInv'
BY TypeStep, ChainStep, LogStep DEF IInv

LEMMA IInvHolds == Spec => []IInv
BY InitIInv, NextIInv, PTL DEF Spec

-----------------------------------------------------------------------------
(* What reached the customers, and what the log says of it                   *)

Approvals(p) == {k \in RowsOf(p) : log[k].op.kind = "approve"}

\* Approvals of p that have called _dispatch_action.
Sent(p) == {s \in Requests : /\ op[s].kind = "approve" /\ op[s].item = p
                             /\ pc[s] \in {"dispatched", "audit", "flushed"}}

ApprovalsDispatch == \A s \in Requests : op[s].kind = "approve" => pc[s] # "row"

LandingInv ==
    /\ ApprovalsDispatch
    /\ \A p \in Proposals :
         IF Channel[p] = "in_app" THEN landed[p] = Cardinality(Approvals(p))
         ELSE landed[p] >= Cardinality(Approvals(p)) + Cardinality(Sent(p))

LEMMA LogCounted ==
    ASSUME TypeOK, NEW p \in Proposals
    PROVE  /\ IsFiniteSet(Approvals(p)) /\ Cardinality(Approvals(p)) \in Nat
           /\ IsFiniteSet(Sent(p)) /\ Cardinality(Sent(p)) \in Nat
<1>1. IsFiniteSet(1 .. Len(log))
    BY FS_Interval DEF TypeOK
<1>2. Approvals(p) \subseteq 1 .. Len(log) /\ Sent(p) \subseteq Requests
    BY DEF Approvals, RowsOf, Sent
<1>. QED BY <1>1, <1>2, DecisionsAssumption, FS_Subset, FS_CardinalityType

LEMMA LandingInit == Init => LandingInv
<1>. SUFFICES ASSUME Init PROVE LandingInv
    OBVIOUS
<1>. USE DEF Init
<1>1. ApprovalsDispatch
    BY DEF ApprovalsDispatch, NoOp
<1>2. ASSUME NEW p \in Proposals
      PROVE  landed[p] = 0 /\ Cardinality(Approvals(p)) = 0 /\ Cardinality(Sent(p)) = 0
    <2>1. Approvals(p) = {} /\ Sent(p) = {}
        BY DEF Approvals, RowsOf, Sent, NoOp
    <2>2. Cardinality({}) = 0
        BY FS_EmptySet
    <2>. QED BY <2>1, <2>2
<1>. QED BY <1>1, <1>2 DEF LandingInv

LEMMA LandingStep == ASSUME IInv, IInv', LandingInv, [Next]_vars PROVE LandingInv'
<1>. USE DEF IInv, rows, locks, Goto
\* Nothing lands and no row is committed: fewer emails may be under way.
<1>1. ASSUME UNCHANGED <<landed, log>>, ApprovalsDispatch', \A p \in Proposals : Sent(p)' \subseteq Sent(p)
      PROVE  LandingInv'
    <2>1. ASSUME NEW p \in Proposals PROVE Approvals(p)' = Approvals(p)
        BY <1>1 DEF Approvals, RowsOf
    <2>2. ASSUME NEW p \in Proposals
          PROVE  Cardinality(Sent(p)') <= Cardinality(Sent(p)) /\ Cardinality(Sent(p)') \in Nat
        BY <1>1, LogCounted, FS_Subset, FS_CardinalityType
    <2>3. ASSUME NEW p \in Proposals
          PROVE  /\ Cardinality(Approvals(p)) \in Nat /\ Cardinality(Sent(p)) \in Nat
                 /\ landed[p] \in Nat
        BY LogCounted DEF TypeOK
    <2>. QED BY <1>1, <2>1, <2>2, <2>3 DEF LandingInv
<1>2. ASSUME NEW s \in Requests, NEW o \in Ops, Begin(s, o) PROVE LandingInv'
    <2>1. UNCHANGED <<landed, log>> /\ ApprovalsDispatch'
        BY <1>2 DEF Begin, LandingInv, ApprovalsDispatch, TypeOK
    <2>2. \A p \in Proposals : Sent(p)' \subseteq Sent(p)
        BY <1>2 DEF Begin, Sent, TypeOK
    <2>. QED BY <1>1, <2>1, <2>2
<1>3. ASSUME NEW s \in Requests, UpdateRow(s) \/ AppendAudit(s) PROVE LandingInv'
    <2>1. UNCHANGED <<landed, log, op>>
        BY <1>3 DEF UpdateRow, AppendAudit
    <2>2. ApprovalsDispatch'
        BY <1>3 DEF UpdateRow, AppendAudit, WantsRow, UpdatesFirst, LandingInv, ApprovalsDispatch, TypeOK
    <2>3. \A p \in Proposals : Sent(p)' \subseteq Sent(p)
        BY <1>3 DEF UpdateRow, AppendAudit, WantsRow, WantsAudit, UpdatesFirst, Sent, LandingInv,
                    ApprovalsDispatch, TypeOK
    <2>. QED BY <1>1, <2>1, <2>2, <2>3
<1>4. ASSUME NEW s \in Requests, Release(s), UNCHANGED <<landed, log>> PROVE LandingInv'
    <2>1. ApprovalsDispatch'
        BY <1>4 DEF Release, LandingInv, ApprovalsDispatch, TypeOK
    <2>2. \A p \in Proposals : Sent(p)' \subseteq Sent(p)
        BY <1>4 DEF Release, Sent, TypeOK
    <2>. QED BY <1>1, <1>4, <2>1, <2>2
<1>5. ASSUME NEW s \in Requests, DeadlockVictim(s) \/ Refuse(s) \/ Abort(s) PROVE LandingInv'
    BY <1>4, <1>5 DEF DeadlockVictim, Refuse, Abort
<1>6. ASSUME NEW s \in Requests, Dispatch(s) PROVE LandingInv'
    <2>1. /\ pc[s] = "read" /\ op[s].kind = "approve" /\ UNCHANGED <<log, op>>
          /\ pc' = [pc EXCEPT ![s] = "dispatched"]
        BY <1>6 DEF Dispatch
    <2>2. ApprovalsDispatch'
        BY <2>1 DEF LandingInv, ApprovalsDispatch, TypeOK
    <2>3. ASSUME NEW p \in Proposals
          PROVE  IF Channel[p] = "in_app" THEN landed'[p] = Cardinality(Approvals(p)')
                 ELSE landed'[p] >= Cardinality(Approvals(p)') + Cardinality(Sent(p)')
        <3>1. Approvals(p)' = Approvals(p)
            BY <2>1 DEF Approvals, RowsOf
        <3>2. CASE p # op[s].item
            <4>1. Sent(p)' = Sent(p) /\ landed'[p] = landed[p]
                BY <1>6, <2>1, <3>2 DEF Sent, Dispatch, Lands, TypeOK
            <4>. QED BY <3>1, <4>1 DEF LandingInv
        <3>3. CASE p = op[s].item
            <4>1. Channel[p] = "in_app" => landed'[p] = landed[p]
                BY <1>6, <3>3 DEF Dispatch
            <4>2. Channel[p] # "in_app" => landed'[p] = landed[p] + 1
                BY <1>6, <3>3, DecisionsAssumption DEF Dispatch, Lands, TypeOK
            <4>3. Sent(p)' = Sent(p) \cup {s} /\ s \notin Sent(p)
                BY <2>1, <3>3 DEF Sent, TypeOK
            <4>4. Cardinality(Sent(p)') = Cardinality(Sent(p)) + 1
                BY <4>3, LogCounted, FS_AddElement
            <4>5. Cardinality(Approvals(p)) \in Nat /\ Cardinality(Sent(p)) \in Nat /\ landed[p] \in Nat
                BY LogCounted DEF TypeOK
            <4>. QED BY <3>1, <4>1, <4>2, <4>4, <4>5 DEF LandingInv
        <3>. QED BY <3>2, <3>3
    <2>. QED BY <2>2, <2>3 DEF LandingInv
<1>7. ASSUME NEW s \in Requests, Commit(s) PROVE LandingInv'
    <2>1. [prev |-> prev[s], op |-> op[s]] \in [prev : Nat, op : Ops]
        BY DEF TypeOK
    <2>2. /\ Len(log') = Len(log) + 1
          /\ log'[Len(log) + 1].op = op[s]
          /\ \A n \in 1 .. Len(log) : log'[n] = log[n]
        BY <1>7, <2>1, AppendRow DEF Commit, TypeOK
    <2>3. Len(log) \in Nat
        BY DEF TypeOK
    <2>4. pc[s] = "flushed" /\ op' = [op EXCEPT ![s] = NoOp] /\ pc' = [pc EXCEPT ![s] = "idle"]
        BY <1>7 DEF Commit, Release
    <2>5. ApprovalsDispatch'
        BY <2>4 DEF LandingInv, ApprovalsDispatch, TypeOK
    <2>6. ASSUME NEW p \in Proposals
          PROVE  IF Channel[p] = "in_app" THEN landed'[p] = Cardinality(Approvals(p)')
                 ELSE landed'[p] >= Cardinality(Approvals(p)') + Cardinality(Sent(p)')
        <3>0. Cardinality(Approvals(p)) \in Nat /\ Cardinality(Sent(p)) \in Nat /\ landed[p] \in Nat
            BY LogCounted DEF TypeOK
        <3>1. CASE op[s].kind = "approve" /\ op[s].item = p
            <4>1. Approvals(p)' = Approvals(p) \cup {Len(log) + 1} /\ Len(log) + 1 \notin Approvals(p)
                BY <2>2, <2>3, <3>1 DEF Approvals, RowsOf
            <4>2. Cardinality(Approvals(p)') = Cardinality(Approvals(p)) + 1
                BY <4>1, LogCounted, FS_AddElement
            <4>3. s \in Sent(p) /\ Sent(p)' = Sent(p) \ {s}
                BY <2>4, <3>1 DEF Sent, NoOp, TypeOK
            <4>4. Cardinality(Sent(p)') = Cardinality(Sent(p)) - 1
                BY <4>3, LogCounted, FS_RemoveElement
            <4>5. landed'[p] = IF Channel[p] = "in_app" THEN landed[p] + 1 ELSE landed[p]
                BY <1>7, <3>1 DEF Commit, Lands, TypeOK
            <4>. QED BY <3>0, <4>2, <4>4, <4>5 DEF LandingInv
        <3>2. CASE ~(op[s].kind = "approve" /\ op[s].item = p)
            <4>1. Approvals(p)' = Approvals(p)
                BY <2>2, <2>3, <3>2 DEF Approvals, RowsOf
            <4>2. Sent(p)' = Sent(p)
                BY <2>4, <3>2 DEF Sent, NoOp, TypeOK
            <4>3. landed'[p] = landed[p]
                BY <1>7, <3>2 DEF Commit, Lands, TypeOK
            <4>. QED BY <4>1, <4>2, <4>3 DEF LandingInv
        <3>. QED BY <3>1, <3>2
    <2>. QED BY <2>5, <2>6 DEF LandingInv
<1>8. ASSUME UNCHANGED vars PROVE LandingInv'
    <2>1. UNCHANGED <<landed, log>> /\ ApprovalsDispatch' /\ \A p \in Proposals : Sent(p)' \subseteq Sent(p)
        BY <1>8 DEF vars, LandingInv, ApprovalsDispatch, Sent
    <2>. QED BY <1>1, <2>1
<1>. QED
    BY <1>2, <1>3, <1>5, <1>6, <1>7, <1>8, BeginsWithAnOp DEF Next, Work

-----------------------------------------------------------------------------
\* The variables keep their types.
THEOREM TypeCorrect == Spec => []TypeOK
<1>1. IInv => TypeOK
    BY DEF IInv
<1>. QED BY IInvHolds, <1>1, PTL

\* AuditTrail.record under its advisory lock: AuditTrail.verify succeeds after every
\* commit.
THEOREM ChainNeverForks == Spec => []ChainLinear
<1>1. IInv => ChainLinear
    BY DEF IInv, ChainInv
<1>. QED BY IInvHolds, <1>1, PTL

\* The decision and its audit row commit together, in the order of the chain.
THEOREM AuditExplainsTheTables == Spec => []LogTellsStatus
<1>1. IInv => LogTellsStatus
    BY DEF IInv
<1>. QED BY IInvHolds, <1>1, PTL

\* What approving a proposal gives the customer shows in the audit log: a nudge or an offer
\* once per executed row, an email no less than once (execute_proposal, _dispatch_action).
THEOREM LandingsShowInTheLog == Spec => []LandingsAudited
<1>1. IInv /\ LandingInv => LandingsAudited
    <2>. SUFFICES ASSUME IInv, LandingInv, NEW p \in Proposals
                  PROVE  IF Channel[p] = "in_app" THEN landed[p] = Cardinality(Approvals(p))
                         ELSE landed[p] >= Cardinality(Approvals(p))
        BY DEF LandingsAudited, Approvals
    <2>1. Cardinality(Approvals(p)) \in Nat /\ Cardinality(Sent(p)) \in Nat /\ landed[p] \in Nat
        BY LogCounted DEF IInv, TypeOK
    <2>. QED BY <2>1 DEF LandingInv
<1>2. LandingInv /\ (IInv /\ IInv' /\ [Next]_vars) => LandingInv'
    BY LandingStep
<1>. QED BY IInvHolds, LandingInit, <1>1, <1>2, PTL DEF Spec
=============================================================================
