--------------------------- MODULE Ledger_proofs ----------------------------
(***************************************************************************)
(* The ledger's theorems, for any set of accounts, sessions and events.    *)
(*                                                                         *)
(* The invariants talk about committed rows, but what is committed was     *)
(* decided earlier in a session.  IInv therefore says what a session in    *)
(* the middle of a post carries: a balance that WAS committed (KnownInv),  *)
(* a draft that extends it (DraftInv), and an event id nobody else has     *)
(* inserted (FreshDrafts).                                                 *)
(***************************************************************************)
EXTENDS Ledger, TLAPS

Past(a) == {0} \cup {rows[a][i].after : i \in DOMAIN rows[a]}

\* The stored balance is the balance_after of the last committed transaction.
BalanceIsPast == \A a \in Accounts : balance[a] \in Past(a)

JobInv ==
    \A s \in Sessions :
        /\ pc[s] # "idle" => job[s] \in Job /\ job[s].delta \in Deltas
        /\ pc[s] = "idle" => draft[s] = <<>>
        /\ draft[s] # <<>> => pc[s] = "flushed"

KnownInv ==
    \A s \in Sessions : pc[s] # "idle" =>
        /\ known[s] \in Past(job[s].acct)
        /\ job[s].kind = "standing" => known[s] + job[s].delta >= FloorBuffer

DraftInv ==
    \A s \in Sessions : draft[s] # <<>> =>
        draft[s] = <<[kind |-> job[s].kind, ev |-> job[s].ev,
                      delta |-> job[s].delta, after |-> NewBalance(s)]>>

\* An id in a draft is in no committed row and in no other draft.
FreshDrafts ==
    \A s \in Sessions : draft[s] # <<>> /\ draft[s][1].ev # NoEvent =>
        /\ ~Committed(draft[s][1].ev)
        /\ \A t \in Sessions \ {s} : draft[t] # <<>> => draft[t][1].ev # draft[s][1].ev

\* The session that is past its SELECT ... FOR UPDATE holds the row lock, except for
\* an account it is opening itself without a deposit.
HoldsLock ==
    \A s \in Sessions :
        pc[s] \in {"locked", "checked"} \/ draft[s] # <<>> => rowLock[job[s].acct] = s

IInv ==
    /\ TypeOK
    /\ JobInv
    /\ BalanceIsPast
    /\ KnownInv
    /\ DraftInv
    /\ FreshDrafts
    /\ HoldsLock
    /\ EventAppliedOnce
    /\ CushionKept

-----------------------------------------------------------------------------
(* Type correctness and the shape of a session                               *)

LEMMA NoJobFacts == NoJob.acct \notin Accounts /\ NoJob.ev = NoEvent
BY LedgerAssumption DEF NoJob

LEMMA RowTyped ==
    ASSUME TypeOK, NEW a \in Accounts, NEW i \in DOMAIN rows[a]
    PROVE  rows[a][i] \in Row
BY DEF TypeOK

LEMMA PastTyped == ASSUME TypeOK, NEW a \in Accounts PROVE Past(a) \subseteq Int
BY RowTyped DEF Past, Row

LEMMA InitIInv == Init => IInv
<1> SUFFICES ASSUME Init PROVE IInv
    OBVIOUS
<1>1. TypeOK
    BY LedgerAssumption DEF Init, TypeOK
<1>2. JobInv /\ KnownInv /\ DraftInv /\ FreshDrafts /\ HoldsLock
    BY DEF Init, JobInv, KnownInv, DraftInv, FreshDrafts, HoldsLock
<1>3. BalanceIsPast
    BY DEF Init, BalanceIsPast, Past
<1>4. EventAppliedOnce /\ CushionKept
    BY DEF Init, EventAppliedOnce, CushionKept
<1>. QED BY <1>1, <1>2, <1>3, <1>4 DEF IInv

\* Opening a session with a job and a loaded balance keeps IInv, whoever calls.
LEMMA BeginIInv ==
    ASSUME IInv, NEW s \in Sessions, NEW j \in Job, NEW b \in Past(j.acct),
           NEW step \in {"loaded", "flushed"}, Begin(s, j, b, step),
           j.delta \in Deltas, j.kind = "standing" => b + j.delta >= FloorBuffer
    PROVE  IInv'
<1>. USE DEF IInv
<1>0. Past(j.acct) \subseteq Int
    BY PastTyped DEF Job
<1>1. TypeOK'
    BY <1>0 DEF TypeOK, Begin
<1>2. JobInv'
    BY DEF JobInv, Begin, TypeOK
<1>3. BalanceIsPast'
    BY DEF BalanceIsPast, Begin, Past
<1>4. KnownInv'
    BY DEF KnownInv, Begin, Past, TypeOK
<1>5. DraftInv' /\ FreshDrafts' /\ HoldsLock'
    BY DEF DraftInv, FreshDrafts, HoldsLock, Begin, TypeOK, JobInv, NewBalance, Committed
<1>6. EventAppliedOnce' /\ CushionKept'
    BY DEF EventAppliedOnce, CushionKept, Begin
<1>. QED BY <1>1, <1>2, <1>3, <1>4, <1>5, <1>6

LEMMA CallIInv == ASSUME IInv, NEW s \in Sessions, Call(s) PROVE IInv'
<1>1. PICK a \in Accounts :
        \/ \E d \in Deposits : OpenAccount(s, a, d)
        \/ \E e \in Events : LoadForEvent(s, a, e)
        \/ \E x \in Transfers : LoadForStanding(s, a, x)
    BY DEF Call
<1>2. CASE \E d \in Deposits : OpenAccount(s, a, d)
    <2>1. PICK d \in Deposits : OpenAccount(s, a, d)
        BY <1>2
    <2>2. [kind |-> "open", acct |-> a, ev |-> NoEvent, delta |-> d] \in Job /\ d \in Deltas
        BY LedgerAssumption DEF Job, Kinds, Deltas
    <2>3. 0 \in Past(a)
        BY DEF Past
    <2>. QED BY <2>1, <2>2, <2>3, BeginIInv DEF OpenAccount
<1>3. CASE \E e \in Events : LoadForEvent(s, a, e)
    <2>1. PICK e \in Events : LoadForEvent(s, a, e)
        BY <1>3
    <2>2. [kind |-> "event", acct |-> a, ev |-> e, delta |-> EventDelta[e]] \in Job /\ EventDelta[e] \in Deltas
        BY LedgerAssumption DEF Job, Kinds, Deltas
    <2>3. BalanceRead(s, a) \in Past(a)
        BY DEF BalanceRead, IInv, BalanceIsPast
    <2>. QED BY <2>1, <2>2, <2>3, BeginIInv DEF LoadForEvent
<1>4. CASE \E x \in Transfers : LoadForStanding(s, a, x)
    <2>1. PICK x \in Transfers : LoadForStanding(s, a, x)
        BY <1>4
    <2>2. [kind |-> "standing", acct |-> a, ev |-> NoEvent, delta |-> -x] \in Job /\ -x \in Deltas
        BY LedgerAssumption DEF Job, Kinds, Deltas
    <2>3. BalanceRead(s, a) \in Past(a)
        BY DEF BalanceRead, IInv, BalanceIsPast
    <2>4. BalanceRead(s, a) + (-x) >= FloorBuffer
        BY <2>1, LedgerAssumption DEF LoadForStanding, BalanceRead, IInv, TypeOK
    <2>. QED BY <2>1, <2>2, <2>3, <2>4, BeginIInv DEF LoadForStanding
<1>. QED BY <1>1, <1>2, <1>3, <1>4

-----------------------------------------------------------------------------
(* Steps of a post                                                           *)

LEMMA LockIInv == ASSUME IInv, NEW s \in Sessions, Lock(s) PROVE IInv'
<1>. USE DEF IInv, Lock, AfterLock
<1>0. job[s].acct \in Accounts
    BY DEF JobInv, Job
<1>1. TypeOK'
    BY <1>0 DEF TypeOK
<1>2. JobInv'
    BY DEF JobInv, TypeOK
<1>3. BalanceIsPast' /\ EventAppliedOnce' /\ CushionKept'
    BY DEF BalanceIsPast, Past, EventAppliedOnce, CushionKept
<1>4. KnownInv'
    <2>1. known' = known /\ (\A t \in Sessions : pc'[t] # "idle" => pc[t] # "idle")
        BY DEF TypeOK
    <2>. QED BY <2>1 DEF KnownInv, Past
<1>5. DraftInv' /\ FreshDrafts'
    BY DEF DraftInv, FreshDrafts, TypeOK, NewBalance, Committed, JobInv
<1>6. HoldsLock'
    <2> SUFFICES ASSUME NEW t \in Sessions,
                        (pc[t] \in {"locked", "checked"} \/ draft[t] # <<>>)'
                 PROVE  rowLock'[job[t].acct] = t
        BY DEF HoldsLock
    <2>1. CASE t = s
        BY <2>1, <1>0 DEF TypeOK
    <2>2. CASE t # s
        <3>1. rowLock[job[t].acct] = t
            BY <2>2 DEF HoldsLock, TypeOK
        <3>2. job[t].acct # job[s].acct
            BY <3>1, LedgerAssumption
        <3>. QED BY <3>1, <3>2, <1>0 DEF TypeOK
    <2>. QED BY <2>1, <2>2
<1>. QED BY <1>1, <1>2, <1>3, <1>4, <1>5, <1>6

\* Releasing the session's locks leaves every other holder its own.
LEMMA OthersKeepLocks ==
    ASSUME IInv, NEW s \in Sessions, End(s)
    PROVE  HoldsLock'
<1> SUFFICES ASSUME NEW t \in Sessions,
                    (pc[t] \in {"locked", "checked"} \/ draft[t] # <<>>)'
             PROVE  rowLock'[job'[t].acct] = t
    BY DEF HoldsLock
<1>1. t # s
    BY DEF End, IInv, TypeOK
<1>2. job'[t] = job[t] /\ rowLock[job[t].acct] = t /\ job[t].acct \in Accounts
    BY <1>1 DEF End, IInv, TypeOK, HoldsLock, JobInv, Job
<1>. QED BY <1>1, <1>2 DEF End, Unlocked

LEMMA EndIInv == ASSUME IInv, NEW s \in Sessions, EndWithoutEffect(s) PROVE IInv'
<1>. USE DEF IInv, EndWithoutEffect
<1>1. TypeOK'
    BY DEF TypeOK, End, Unlocked
<1>2. JobInv'
    BY DEF JobInv, End, TypeOK
<1>3. BalanceIsPast' /\ EventAppliedOnce' /\ CushionKept'
    BY DEF BalanceIsPast, Past, EventAppliedOnce, CushionKept
<1>4. KnownInv'
    BY DEF KnownInv, Past, End, TypeOK
<1>5. DraftInv' /\ FreshDrafts'
    BY DEF DraftInv, FreshDrafts, End, TypeOK, NewBalance, Committed
<1>. QED BY <1>1, <1>2, <1>3, <1>4, <1>5, OthersKeepLocks

LEMMA NotYetAppliedIInv == ASSUME IInv, NEW s \in Sessions, NotYetApplied(s) PROVE IInv'
<1>. USE DEF IInv, NotYetApplied
<1>1. TypeOK' /\ JobInv'
    BY DEF TypeOK, JobInv
<1>2. BalanceIsPast' /\ EventAppliedOnce' /\ CushionKept'
    BY DEF BalanceIsPast, Past, EventAppliedOnce, CushionKept
<1>3. KnownInv'
    BY DEF KnownInv, Past, TypeOK
<1>4. DraftInv' /\ FreshDrafts' /\ HoldsLock'
    BY DEF DraftInv, FreshDrafts, HoldsLock, TypeOK, NewBalance, Committed, JobInv
<1>. QED BY <1>1, <1>2, <1>3, <1>4

LEMMA FlushIInv == ASSUME IInv, NEW s \in Sessions, Flush(s) PROVE IInv'
<1>. USE DEF IInv
<1>0. /\ job[s] \in Job /\ known[s] \in Int /\ draft[s] = <<>>
      /\ NewBalance(s) \in Int
    BY DEF Flush, JobInv, TypeOK, NewBalance, Job
<1>. DEFINE r == [kind |-> job[s].kind, ev |-> job[s].ev,
                  delta |-> job[s].delta, after |-> NewBalance(s)]
<1>1. r \in Row /\ draft' = [draft EXCEPT ![s] = <<r>>]
    BY <1>0 DEF Flush, Job, Row
<1>2. TypeOK'
    BY <1>1 DEF TypeOK, Flush
<1>3. JobInv'
    BY <1>0 DEF JobInv, Flush, TypeOK
<1>4. BalanceIsPast' /\ EventAppliedOnce' /\ CushionKept'
    BY DEF BalanceIsPast, Past, EventAppliedOnce, CushionKept, Flush
<1>5. KnownInv'
    BY DEF KnownInv, Past, Flush, TypeOK
<1>6. DraftInv'
    BY <1>1 DEF DraftInv, Flush, TypeOK, NewBalance
<1>7. FreshDrafts'
    <2>1. /\ ~Committed(r.ev) \/ r.ev = NoEvent
          /\ \A t \in Sessions \ {s} :
                r.ev # NoEvent /\ draft[t] # <<>> => draft[t][1].ev # r.ev
        BY DEF Flush, UniqueWait, UniqueViolation, Inserting, JobInv
    <2>. HIDE DEF r
    <2>2. \A t \in Sessions : draft'[t] = IF t = s THEN <<r>> ELSE draft[t]
        BY <1>1 DEF TypeOK
    <2>3. \A e : Committed(e)' <=> Committed(e)
        BY DEF Committed, Flush
    <2>. QED BY <2>1, <2>2, <2>3 DEF FreshDrafts
<1>8. HoldsLock'
    BY <1>0 DEF HoldsLock, Flush, TypeOK
<1>. QED BY <1>2, <1>3, <1>4, <1>5, <1>6, <1>7, <1>8

LEMMA AppendOne ==
    ASSUME NEW S, NEW q \in Seq(S), NEW x \in S
    PROVE  /\ q \o <<x>> = Append(q, x)
           /\ Append(q, x) \in Seq(S)
           /\ DOMAIN Append(q, x) = DOMAIN q \cup {Len(q) + 1}
           /\ Len(q) + 1 \notin DOMAIN q
           /\ \A i \in DOMAIN q : Append(q, x)[i] = q[i]
           /\ Append(q, x)[Len(q) + 1] = x
OBVIOUS

\* Committing a flushed draft appends it: the only step that changes rows.
LEMMA CommitIInv == ASSUME IInv, NEW s \in Sessions, Commit(s) PROVE IInv'
<1>. USE DEF IInv
<1>a. PICK a \in Accounts : a = job[s].acct
    BY DEF Commit, JobInv, Job
<1>0. /\ pc[s] = "flushed" /\ job[s] \in Job /\ a = job[s].acct
      /\ End(s) /\ rows' = [rows EXCEPT ![a] = @ \o draft[s]]
      /\ opened' = opened \cup {a}
    BY <1>a DEF Commit, JobInv
<1>1. CASE draft[s] = <<>>
    <2>1. rows' = rows /\ balance' = balance
        BY <1>0, <1>1 DEF Commit, TypeOK
    <2>2. TypeOK'
        BY <1>0, <2>1 DEF TypeOK, End, Unlocked
    <2>3. JobInv'
        BY <1>0 DEF JobInv, End, TypeOK
    <2>4. BalanceIsPast' /\ EventAppliedOnce' /\ CushionKept'
        BY <2>1 DEF BalanceIsPast, Past, EventAppliedOnce, CushionKept
    <2>5. KnownInv'
        <3> SUFFICES ASSUME NEW t \in Sessions, (pc[t] # "idle")'
                     PROVE  /\ known'[t] \in Past(job[t].acct)'
                            /\ job'[t].kind = "standing" => known'[t] + job'[t].delta >= FloorBuffer
            BY DEF KnownInv
        <3>1. t # s /\ job'[t] = job[t] /\ known'[t] = known[t] /\ pc[t] # "idle"
            BY <1>0 DEF End, TypeOK
        <3>. QED BY <2>1, <3>1 DEF KnownInv, Past
    <2>6. DraftInv' /\ FreshDrafts'
        BY <1>0, <2>1 DEF DraftInv, FreshDrafts, End, TypeOK, NewBalance, Committed
    <2>. QED BY <1>0, <2>2, <2>3, <2>4, <2>5, <2>6, OthersKeepLocks
<1>2. CASE draft[s] # <<>>
    <2>a. PICK r \in Row : r = [kind |-> job[s].kind, ev |-> job[s].ev,
                                delta |-> job[s].delta, after |-> NewBalance(s)]
        <3>1. NewBalance(s) \in Int
            BY <1>0 DEF NewBalance, TypeOK, Job
        <3>2. [kind |-> job[s].kind, ev |-> job[s].ev,
               delta |-> job[s].delta, after |-> NewBalance(s)] \in Row
            BY <1>0, <3>1 DEF Row, Job
        <3>. QED BY <3>2
    <2>1. draft[s] = <<r>> /\ draft[s][1] = r
        BY <2>a, <1>2 DEF DraftInv
    <2>2. balance' = [balance EXCEPT ![a] = NewBalance(s)]
        <3>1. balance' = [balance EXCEPT ![job[s].acct] = draft[s][1].after]
            BY <1>2 DEF Commit
        <3>2. draft[s][1].after = NewBalance(s)
            BY <2>1, <2>a
        <3>. QED BY <3>1, <3>2, <1>0
    <2>3. /\ r.ev # NoEvent => ~Committed(r.ev)
          /\ \A t \in Sessions \ {s} :
                draft[t] # <<>> /\ r.ev # NoEvent => draft[t][1].ev # r.ev
        BY <1>2, <2>1 DEF FreshDrafts
    <2>4. r.kind = "standing" => r.after >= FloorBuffer
        BY <1>0, <2>a DEF KnownInv, NewBalance
    <2>5. /\ rows' = [rows EXCEPT ![a] = Append(rows[a], r)]
          /\ DOMAIN rows'[a] = DOMAIN rows[a] \cup {Len(rows[a]) + 1}
          /\ Len(rows[a]) + 1 \notin DOMAIN rows[a]
          /\ \A i \in DOMAIN rows[a] : rows'[a][i] = rows[a][i]
          /\ rows'[a][Len(rows[a]) + 1] = r
          /\ \A b \in Accounts \ {a} : rows'[b] = rows[b]
        <3>1. rows[a] \in Seq(Row) /\ rows \in [Accounts -> Seq(Row)]
            BY DEF TypeOK
        <3>2. rows' = [rows EXCEPT ![a] = Append(rows[a], r)]
            <4>1. rows[a] \in Seq(Row) /\ r \in Row
                BY <3>1
            <4>2. rows[a] \o <<r>> = Append(rows[a], r)
                BY ONLY <4>1, AppendOne
            <4>3. rows' = [rows EXCEPT ![a] = rows[a] \o draft[s]]
                BY <1>0, <3>1
            <4>. QED BY ONLY <4>2, <4>3, <2>1
        <3>3. rows'[a] = Append(rows[a], r) /\ (\A b \in Accounts \ {a} : rows'[b] = rows[b])
            BY <3>1, <3>2
        <3>4. /\ DOMAIN Append(rows[a], r) = DOMAIN rows[a] \cup {Len(rows[a]) + 1}
              /\ Len(rows[a]) + 1 \notin DOMAIN rows[a]
              /\ \A i \in DOMAIN rows[a] : Append(rows[a], r)[i] = rows[a][i]
              /\ Append(rows[a], r)[Len(rows[a]) + 1] = r
            <4>1. rows[a] \in Seq(Row) /\ r \in Row
                BY <3>1
            <4>. QED BY ONLY <4>1, AppendOne
        <3>. QED BY <3>2, <3>3, <3>4
    <2>6. TypeOK'
        BY <1>0, <2>1, <2>2, <2>5 DEF TypeOK, End, Unlocked, NewBalance, Job
    <2>7. JobInv'
        BY <1>0 DEF JobInv, End, TypeOK
    <2>8. \A b \in Accounts : Past(b) \subseteq Past(b)'
        BY <2>5 DEF Past
    <2>9. BalanceIsPast'
        <3>1. r.after = NewBalance(s)
            BY <2>a
        <3>2. NewBalance(s) \in Past(a)'
            BY <2>5, <3>1 DEF Past
        <3>. QED BY <1>0, <2>2, <2>8, <3>2 DEF BalanceIsPast, TypeOK
    <2>10. KnownInv'
        <3> SUFFICES ASSUME NEW t \in Sessions, (pc[t] # "idle")'
                     PROVE  /\ known'[t] \in Past(job[t].acct)'
                            /\ job'[t].kind = "standing" => known'[t] + job'[t].delta >= FloorBuffer
            BY DEF KnownInv
        <3>1. t # s /\ job'[t] = job[t] /\ known'[t] = known[t] /\ pc[t] # "idle"
            BY <1>0 DEF End, TypeOK
        <3>2. job[t].acct \in Accounts
            BY <3>1 DEF JobInv, Job
        <3>3. known'[t] \in Past(job[t].acct)'
            <4>1. known[t] \in Past(job[t].acct)
                BY <3>1 DEF KnownInv
            <4>2. Past(job[t].acct) \subseteq {0} \cup {rows'[job[t].acct][i].after : i \in DOMAIN rows'[job[t].acct]}
                BY <2>8, <3>2 DEF Past
            <4>. QED BY <3>1, <4>1, <4>2 DEF Past
        <3>. QED BY <3>1, <3>3 DEF KnownInv
    <2>11. DraftInv'
        BY <1>0 DEF DraftInv, End, TypeOK, NewBalance
    <2>12. FreshDrafts'
        <3>1. \A u \in Sessions : draft'[u] = IF u = s THEN <<>> ELSE draft[u]
            BY <1>0 DEF End, TypeOK
        <3>2. \A e : Committed(e)' => Committed(e) \/ e = r.ev
            BY <2>5 DEF Committed
        <3>3. \A t \in Sessions \ {s} : draft[t] # <<>> /\ draft[t][1].ev # NoEvent =>
                    draft[t][1].ev # r.ev /\ ~Committed(draft[t][1].ev)
            BY <1>2, <2>1 DEF FreshDrafts
        <3> SUFFICES ASSUME NEW t \in Sessions, NEW e,
                            draft'[t] # <<>>, draft'[t][1].ev = e, e # NoEvent
                     PROVE  /\ ~Committed(e)'
                            /\ \A u \in Sessions \ {t} : draft'[u] # <<>> => draft'[u][1].ev # e
            BY DEF FreshDrafts, Committed
        <3>4. t # s /\ draft[t] # <<>> /\ draft[t][1].ev = e
            BY <3>1
        <3>5. ~Committed(e)'
            BY <3>2, <3>3, <3>4
        <3>. QED BY <3>1, <3>4, <3>5 DEF FreshDrafts
    <2>13. EventAppliedOnce'
        <3> SUFFICES ASSUME NEW b \in Accounts, NEW c \in Accounts,
                            NEW i \in DOMAIN rows'[b], NEW k \in DOMAIN rows'[c],
                            rows'[b][i].ev = rows'[c][k].ev, rows'[b][i].ev # NoEvent
                     PROVE  b = c /\ i = k
            BY DEF EventAppliedOnce
        <3>. DEFINE new == Len(rows[a]) + 1
        <3>1. ASSUME NEW d \in Accounts, NEW n \in DOMAIN rows'[d], ~(d = a /\ n = new)
              PROVE  n \in DOMAIN rows[d] /\ rows'[d][n] = rows[d][n]
            BY <2>5, <3>1
        <3>2. ASSUME NEW d \in Accounts, NEW n \in DOMAIN rows[d], r.ev # NoEvent
              PROVE  rows[d][n].ev # r.ev
            BY <2>3, <3>2 DEF Committed
        <3>3. CASE ~(b = a /\ i = new) /\ ~(c = a /\ k = new)
            BY <3>1, <3>3 DEF EventAppliedOnce
        <3>4. CASE b = a /\ i = new /\ ~(c = a /\ k = new)
            BY <2>5, <3>1, <3>2, <3>4
        <3>5. CASE ~(b = a /\ i = new) /\ c = a /\ k = new
            BY <2>5, <3>1, <3>2, <3>5
        <3>. QED BY <3>3, <3>4, <3>5
    <2>14. CushionKept'
        BY <2>4, <2>5 DEF CushionKept
    <2>. QED BY <1>0, <2>6, <2>7, <2>9, <2>10, <2>11, <2>12, <2>13, <2>14, OthersKeepLocks
<1>. QED BY <1>1, <1>2

LEMMA NextIInv == IInv /\ [Next]_vars => IInv'
<1> SUFFICES ASSUME IInv, [Next]_vars PROVE IInv'
    OBVIOUS
<1>1. ASSUME NEW s \in Sessions, Call(s) PROVE IInv'
    BY <1>1, CallIInv
<1>2. ASSUME NEW s \in Sessions, PostStep(s) PROVE IInv'
    <2>1. CASE Lock(s)
        BY <2>1, LockIInv
    <2>2. CASE AlreadyApplied(s)
        BY <2>2, EndIInv DEF AlreadyApplied
    <2>3. CASE NotYetApplied(s)
        BY <2>3, NotYetAppliedIInv
    <2>4. CASE Flush(s)
        BY <2>4, FlushIInv
    <2>5. CASE LostInsertRace(s)
        BY <2>5, EndIInv DEF LostInsertRace
    <2>6. CASE Commit(s)
        BY <2>6, CommitIInv
    <2>. QED BY <1>2, <2>1, <2>2, <2>3, <2>4, <2>5, <2>6 DEF PostStep
<1>3. ASSUME NEW s \in Sessions, Abort(s) PROVE IInv'
    BY <1>3, EndIInv DEF Abort
<1>4. CASE UNCHANGED vars
    BY <1>4 DEF vars, IInv, TypeOK, JobInv, BalanceIsPast, Past, KnownInv, DraftInv,
               FreshDrafts, HoldsLock, EventAppliedOnce, CushionKept, Committed, NewBalance
<1>. QED BY <1>1, <1>2, <1>3, <1>4 DEF Next

LEMMA InductiveInvariant == Spec => []IInv
<1>1. Init => IInv
    BY InitIInv
<1>2. IInv /\ [Next]_vars => IInv'
    BY NextIInv
<1>. QED BY <1>1, <1>2, PTL DEF Spec

-----------------------------------------------------------------------------
(* The theorems                                                              *)

\* The variables of the ledger keep their types in every reachable state.
THEOREM TypeCorrect == Spec => []TypeOK
<1>1. IInv => TypeOK
    BY DEF IInv
<1>. QED BY <1>1, InductiveInvariant, PTL

\* post_transaction_idempotent: one committed transaction per event id, whatever the
\* number of consumers, redeliveries, accounts and failures.
THEOREM EventsApplyOnce == Spec => []EventAppliedOnce
<1>1. IInv => EventAppliedOnce
    BY DEF IInv
<1>. QED BY <1>1, InductiveInvariant, PTL

\* _run_one: no standing debit ever records a balance below the cushion.
THEOREM CushionIsKept == Spec => []CushionKept
<1>1. IInv => CushionKept
    BY DEF IInv
<1>. QED BY <1>1, InductiveInvariant, PTL

\* SELECT ... FOR UPDATE: two uncommitted balances of one account never coexist.
THEOREM WritersExcludeEachOther == Spec => []OneUncommittedWriter
<1>1. IInv => OneUncommittedWriter
    BY DEF IInv, HoldsLock, OneUncommittedWriter
<1>. QED BY <1>1, InductiveInvariant, PTL

-----------------------------------------------------------------------------
(* The sessions implement the abstract statement                             *)

\* A commit is one abstract Post that extends the balance the session had loaded.
LEMMA CommitPosts ==
    ASSUME IInv, NEW s \in Sessions, Commit(s), draft[s] # <<>>
    PROVE  Abs!Next
<1>. USE DEF IInv
<1>a. PICK a \in Accounts : a = job[s].acct
    BY DEF Commit, JobInv, Job
<1>. DEFINE kind == job[s].kind
            e == job[s].ev
            delta == job[s].delta
            base == known[s]
            row == [kind |-> kind, ev |-> e, delta |-> delta, after |-> base + delta]
<1>1. /\ kind \in Kinds /\ e \in Events \cup {NoEvent} /\ delta \in Deltas
      /\ base \in Past(a) /\ (kind = "standing" => base + delta >= FloorBuffer)
    BY <1>a DEF Commit, JobInv, KnownInv, Job
<1>2. draft[s] = <<row>>
    BY DEF DraftInv, NewBalance
<1>3. row \in Row
    BY <1>1, <1>2 DEF Row, Commit, JobInv, Job, TypeOK
<1>4. e # NoEvent => ~Committed(e)
    BY <1>2 DEF FreshDrafts
<1>5. rows' = [rows EXCEPT ![a] = Append(@, row)]
    <2>1. rows[a] \in Seq(Row)
        BY DEF TypeOK
    <2>2. rows[a] \o <<row>> = Append(rows[a], row)
        BY ONLY <1>3, <2>1, AppendOne
    <2>3. rows' = [rows EXCEPT ![a] = rows[a] \o draft[s]]
        BY <1>a DEF Commit
    <2>. QED BY ONLY <1>2, <2>2, <2>3
<1>6. base \in Abs!PastBalances(a) /\ (e # NoEvent => ~Abs!Used(e))
    BY <1>1, <1>4 DEF Past, Committed, Abs!PastBalances, Abs!Used
<1>. HIDE DEF kind, e, delta, base
<1>7. Abs!Post(a, kind, e, delta, base)
    BY <1>1, <1>5, <1>6 DEF Abs!Post
<1>. QED BY <1>1, <1>6, <1>7 DEF Abs!Next, Abs!Kinds, Kinds

LEMMA StepRefines == IInv /\ [Next]_vars => [Abs!Next]_rows
<1> SUFFICES ASSUME IInv, [Next]_vars, rows' # rows PROVE Abs!Next
    OBVIOUS
<1>1. PICK s \in Sessions : Call(s) \/ PostStep(s) \/ Abort(s)
    BY DEF Next, vars
<1>2. ~Call(s) /\ ~Abort(s)
    BY DEF Call, OpenAccount, LoadForEvent, LoadForStanding, Begin, Abort, EndWithoutEffect
<1>3. Commit(s)
    BY <1>1, <1>2 DEF PostStep, Lock, AlreadyApplied, NotYetApplied, Flush,
                      LostInsertRace, EndWithoutEffect
<1>4. draft[s] # <<>>
    <2>1. CASE draft[s] = <<>>
        <3>1. job[s].acct \in Accounts /\ rows \in [Accounts -> Seq(Row)]
            BY <1>3 DEF Commit, IInv, JobInv, Job, TypeOK
        <3>2. rows[job[s].acct] \o <<>> = rows[job[s].acct]
            BY <3>1
        <3>3. rows' = rows
            BY <1>3, <2>1, <3>1, <3>2 DEF Commit
        <3>. QED BY <3>3
    <2>. QED BY <2>1
<1>. QED BY <1>3, <1>4, CommitPosts

\* Sessions with identity maps, row locks and the unique index implement the
\* append-only statement of module Statement.
THEOREM LedgerImplementsStatement == Spec => AbsSpec
<1>1. Init => Abs!Init
    BY DEF Init, Abs!Init
<1>2. IInv /\ [Next]_vars => [Abs!Next]_rows
    BY StepRefines
<1>. QED BY <1>1, <1>2, InductiveInvariant, PTL DEF Spec, AbsSpec, Abs!Spec
=============================================================================
