------------------------------- MODULE Ledger -------------------------------
(***************************************************************************)
(* The core-banking ledger of app/services/ledger.py, seen from the        *)
(* database: every caller works in an SQLAlchemy session of its own, which *)
(* keeps each row it has loaded in an identity map until the session ends. *)
(*                                                                         *)
(* All three callers that post money are modelled: opening an account with *)
(* a deposit, the live event consumer and the standing-instruction tick.   *)
(* The last two load the Account BEFORE they ask for its row lock, and a   *)
(* SELECT ... FOR UPDATE does not refresh an object the session already    *)
(* holds.  So what a poster adds its amount to is what it loaded first     *)
(* (known), not what the locked row says (balance).                        *)
(***************************************************************************)
EXTENDS Integers, Sequences

CONSTANTS
    Accounts,      \* accounts.id
    Sessions,      \* concurrent database sessions: requests, consumers, ticks
    Events,        \* transactions.event_id values the stream carries
    EventDelta,    \* [Events -> Int]: signed amount the event's payload carries
    Transfers,     \* amounts of standing instructions
    Deposits,      \* opening deposits
    FloorBuffer,   \* standing.FLOOR_BUFFER_PAISE
    MaxRows,       \* bound: committed rows per account after which no new post starts
    NoSession,     \* a free row lock
    NoAccount,     \* the account of an idle session
    NoEvent        \* event_id NULL

ASSUME LedgerAssumption ==
    /\ EventDelta \in [Events -> Int]
    /\ Transfers \subseteq Nat \ {0}
    /\ Deposits \subseteq Nat
    /\ FloorBuffer \in Nat
    /\ MaxRows \in Nat
    /\ NoSession \notin Sessions
    /\ NoAccount \notin Accounts
    /\ NoEvent \notin Events

VARIABLES
    opened,    \* accounts whose INSERT is committed
    balance,   \* committed accounts.balance_paise
    rows,      \* committed transactions of each account, in commit order
    rowLock,   \* the session that holds the account's row lock
    pc,        \* where each session is in its unit of work
    job,       \* what each session was called for
    known,     \* balance_paise of the job's account in the session's identity map
    draft      \* the flushed, uncommitted transaction of each session, if any

vars == <<opened, balance, rows, rowLock, pc, job, known, draft>>

Kinds == {"open", "event", "standing"}
Job   == [kind : Kinds, acct : Accounts, ev : Events \cup {NoEvent}, delta : Int]
NoJob == [kind |-> "open", acct |-> NoAccount, ev |-> NoEvent, delta |-> 0]
Row   == [kind : Kinds, ev : Events \cup {NoEvent}, delta : Int, after : Int]

Committed(e)  == \E a \in Accounts : \E i \in DOMAIN rows[a] : rows[a][i].ev = e
Inserting(s, e) == pc[s] = "flushed" /\ draft[s] # <<>> /\ draft[s][1].ev = e
HasRoom(a)    == Len(rows[a]) < MaxRows

Init ==
    /\ opened = {}
    /\ balance = [a \in Accounts |-> 0]
    /\ rows = [a \in Accounts |-> <<>>]
    /\ rowLock = [a \in Accounts |-> NoSession]
    /\ pc = [s \in Sessions |-> "idle"]
    /\ job = [s \in Sessions |-> NoJob]
    /\ known = [s \in Sessions |-> 0]
    /\ draft = [s \in Sessions |-> <<>>]

(***************************************************************************)
(* The callers, up to the point where they hold a loaded Account           *)
(***************************************************************************)

\* Variant: another session's flushed but uncommitted balance is visible.
BalanceReadDirty(s, a) ==
    LET writers == {t \in Sessions : draft[t] # <<>> /\ job[t].acct = a}
    IN  IF writers = {} THEN balance[a] ELSE draft[CHOOSE t \in writers : TRUE][1].after

\* What a caller that loads the account reads into its identity map.
BalanceRead(s, a) == balance[a]

Begin(s, j, b, step) ==
    /\ pc[s] = "idle"
    /\ job' = [job EXCEPT ![s] = j]
    /\ known' = [known EXCEPT ![s] = b]
    /\ pc' = [pc EXCEPT ![s] = step]
    /\ UNCHANGED <<opened, balance, rows, rowLock, draft>>

\* open_account: INSERT with balance 0 and a fresh id nobody else can see yet.
OpenAccount(s, a, d) ==
    /\ a \notin opened
    /\ \A t \in Sessions : job[t].acct # a
    /\ Begin(s, [kind |-> "open", acct |-> a, ev |-> NoEvent, delta |-> d], 0,
             IF d > 0 THEN "loaded" ELSE "flushed")

\* process_envelope: list_accounts loads the account, then the event is posted.
LoadForEvent(s, a, e) ==
    /\ a \in opened
    /\ HasRoom(a) \/ Committed(e)
    /\ Begin(s, [kind |-> "event", acct |-> a, ev |-> e, delta |-> EventDelta[e]],
             BalanceRead(s, a), "loaded")

\* _run_one: session.get(Account), the cushion check on what it loaded, the debit.
LoadForStanding(s, a, x) ==
    /\ a \in opened
    /\ HasRoom(a)
    /\ BalanceRead(s, a) >= x + FloorBuffer
    /\ Begin(s, [kind |-> "standing", acct |-> a, ev |-> NoEvent, delta |-> -x],
             BalanceRead(s, a), "loaded")

(***************************************************************************)
(* post_transaction and post_transaction_idempotent                        *)
(***************************************************************************)

\* Variant: populate_existing, the locked row replaces what the session loaded.
AfterLockRefreshed(s) == balance[job[s].acct]

\* The identity map after SELECT ... FOR UPDATE: without populate_existing the
\* attributes of an object that is already loaded are left as they are.
AfterLock(s) == known[s]

Lock(s) ==
    /\ pc[s] = "loaded"
    /\ rowLock[job[s].acct] = NoSession
    /\ rowLock' = [rowLock EXCEPT ![job[s].acct] = s]
    /\ known' = [known EXCEPT ![s] = AfterLock(s)]
    /\ pc' = [pc EXCEPT ![s] = IF job[s].kind = "event" THEN "locked" ELSE "checked"]
    /\ UNCHANGED <<opened, balance, rows, job, draft>>

\* Variant: the lock table is rebuilt for the session's own account only.
UnlockedOwnOnly(s) == [a \in {job[s].acct} |-> NoSession]

Unlocked(s) == [a \in Accounts |-> IF rowLock[a] = s THEN NoSession ELSE rowLock[a]]

\* The session closes: its locks go, and its identity map with it.
End(s) ==
    /\ rowLock' = Unlocked(s)
    /\ pc' = [pc EXCEPT ![s] = "idle"]
    /\ job' = [job EXCEPT ![s] = NoJob]
    /\ known' = [known EXCEPT ![s] = 0]
    /\ draft' = [draft EXCEPT ![s] = <<>>]

\* ROLLBACK, or COMMIT of no change.
EndWithoutEffect(s) == End(s) /\ UNCHANGED <<opened, balance, rows>>

\* Variant: None is returned without ending the transaction.
AlreadyAppliedKeepsLock(s) ==
    /\ pc[s] = "locked"
    /\ Committed(job[s].ev)
    /\ pc' = [pc EXCEPT ![s] = "idle"]
    /\ job' = [job EXCEPT ![s] = NoJob]
    /\ UNCHANGED <<opened, balance, rows, rowLock, known, draft>>

\* Under the lock: the event_id already has a row, so return None and commit.
AlreadyApplied(s) ==
    /\ pc[s] = "locked"
    /\ Committed(job[s].ev)
    /\ EndWithoutEffect(s)

NotYetApplied(s) ==
    /\ pc[s] = "locked"
    /\ ~Committed(job[s].ev)
    /\ pc' = [pc EXCEPT ![s] = "checked"]
    /\ UNCHANGED <<opened, balance, rows, rowLock, job, known, draft>>

\* The unique index on event_id: an INSERT waits for another session's
\* uncommitted row with the same key and fails if that row got committed.
UniqueWait(s) ==
    job[s].ev # NoEvent /\ \E t \in Sessions \ {s} : Inserting(t, job[s].ev)
\* Variant: event_id without its unique index.
UniqueViolationNever(s) == FALSE
UniqueViolation(s) == job[s].ev # NoEvent /\ Committed(job[s].ev)

NewBalance(s) == known[s] + job[s].delta

\* balance_paise and the Transaction row are written and flushed.
Flush(s) ==
    /\ pc[s] = "checked"
    /\ ~UniqueWait(s) /\ ~UniqueViolation(s)
    /\ NewBalance(s) >= 0 \/ job[s].kind = "event"
    /\ draft' = [draft EXCEPT ![s] = <<[kind |-> job[s].kind, ev |-> job[s].ev,
                                       delta |-> job[s].delta, after |-> NewBalance(s)]>>]
    /\ pc' = [pc EXCEPT ![s] = "flushed"]
    /\ UNCHANGED <<opened, balance, rows, rowLock, job, known>>

\* IntegrityError at the flush: roll back, report None.
LostInsertRace(s) ==
    /\ pc[s] = "checked"
    /\ ~UniqueWait(s) /\ UniqueViolation(s)
    /\ EndWithoutEffect(s)

\* The caller's commit publishes the account row and the transaction together.
Commit(s) ==
    /\ pc[s] = "flushed"
    /\ opened' = opened \cup {job[s].acct}
    /\ rows' = [rows EXCEPT ![job[s].acct] = @ \o draft[s]]
    /\ balance' = IF draft[s] = <<>> THEN balance
                  ELSE [balance EXCEPT ![job[s].acct] = draft[s][1].after]
    /\ End(s)

\* Any exception, cancelled task, lost connection or killed process.
Abort(s) ==
    /\ pc[s] # "idle"
    /\ EndWithoutEffect(s)

PostStep(s) ==
    \/ Lock(s)
    \/ AlreadyApplied(s)
    \/ NotYetApplied(s)
    \/ Flush(s)
    \/ LostInsertRace(s)
    \/ Commit(s)

Call(s) ==
    \E a \in Accounts :
        \/ \E d \in Deposits : OpenAccount(s, a, d)
        \/ \E e \in Events : LoadForEvent(s, a, e)
        \/ \E x \in Transfers : LoadForStanding(s, a, x)

Next == \E s \in Sessions : Call(s) \/ PostStep(s) \/ Abort(s)

Spec == Init /\ [][Next]_vars

\* A session that is running keeps running: asyncio schedules its coroutine and
\* Postgres grants a free lock.  Nothing obliges a new call, or a failure, to come.
FairSpec == Spec /\ \A s \in Sessions : SF_vars(PostStep(s))

-----------------------------------------------------------------------------
TypeOK ==
    /\ opened \subseteq Accounts
    /\ balance \in [Accounts -> Int]
    /\ rows \in [Accounts -> Seq(Row)]
    /\ rowLock \in [Accounts -> Sessions \cup {NoSession}]
    /\ pc \in [Sessions -> {"idle", "loaded", "locked", "checked", "flushed"}]
    /\ job \in [Sessions -> Job \cup {NoJob}]
    /\ known \in [Sessions -> Int]
    /\ draft \in [Sessions -> Seq(Row)]
    /\ \A s \in Sessions : Len(draft[s]) <= 1

\* "If event_id was already applied" the post is a no-op (post_transaction_idempotent):
\* however often and through whichever sessions an event is delivered, at most one
\* committed transaction carries its id, on any account.
EventAppliedOnce ==
    \A a, b \in Accounts : \A i \in DOMAIN rows[a], j \in DOMAIN rows[b] :
        rows[a][i].ev = rows[b][j].ev /\ rows[a][i].ev # NoEvent => a = b /\ i = j

\* "Concurrent posts to this account block here until we commit" (post_transaction):
\* no two sessions ever hold an uncommitted balance for the same account.
OneUncommittedWriter ==
    \A s, t \in Sessions :
        draft[s] # <<>> /\ draft[t] # <<>> /\ job[s].acct = job[t].acct => s = t

\* "To keep a 1,000 cushion in your account" (_run_one): a standing debit never
\* records a balance below the buffer, although live debits commit between its
\* check and its lock.  It is the same unrefreshed object that is checked and debited.
CushionKept ==
    \A a \in Accounts : \A i \in DOMAIN rows[a] :
        rows[a][i].kind = "standing" => rows[a][i].after >= FloorBuffer

\* The ledger module's promise: "concurrent posts stay consistent (no lost updates"
\* (ledger.py:3-7), "simultaneous posts to the same account serialise and can't lose
\* an update" (ledger.py:164-166): each balance_after is the previous one plus the amount.
NoLostUpdate ==
    \A a \in Accounts : \A i \in DOMAIN rows[a] :
        rows[a][i].after = rows[a][i].delta + (IF i = 1 THEN 0 ELSE rows[a][i-1].after)

\* Sessions, row locks and the unique index implement an append-only statement in
\* which an event is used once and every balance_after extends a balance that was
\* committed for the account, never one another session wrote and rolled back.
Deltas == {EventDelta[e] : e \in Events} \cup {-x : x \in Transfers} \cup Deposits
Abs == INSTANCE Statement WITH statement <- rows
AbsSpec == Abs!Spec

\* A row lock is never leaked: whatever path a post takes (duplicate, lost insert race,
\* commit, failure), the account becomes free for the next poster.
LockReleased == \A a \in Accounts : []<>(rowLock[a] = NoSession)
=============================================================================
