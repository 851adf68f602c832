------------------------ MODULE StandingInstructions ------------------------
(***************************************************************************)
(* Recurring auto-transfers (app/services/standing.py) of one customer:    *)
(* creation under the active cap, pause, resume and cancel, and the        *)
(* scheduler ticks that run what is due, each in one database transaction  *)
(* guarded by Redis keys that a rollback does not take back.               *)
(*                                                                         *)
(* Dates are day numbers and the cadence a number of days.  Whether the    *)
(* balance suffices is a choice here: module Ledger has the debit itself.  *)
(* An UPDATE of a tick may wait for a request's row lock or the other way  *)
(* round; both orders are taken by interleaving the commits.               *)
(***************************************************************************)
EXTENDS Integers, Sequences, FiniteSets

CONSTANTS
    Workers,        \* scheduler processes (two during a rolling restart)
    Callers,        \* customer requests served at the same time
    Instructions,   \* numbers, in order of created_at
    Period,         \* days of the cadence
    Ttl,            \* _IDEMPOTENCY_TTL_SECONDS, in days
    MaxPerTick, MaxActive,
    MaxDay,         \* bound: days of a behaviour
    MaxCalls,       \* bound: customer requests of a behaviour
    MaxFaults       \* bound: ticks that roll back

ASSUME StandingAssumption ==
    /\ Instructions \subseteq Nat
    /\ Period \in Nat \ {0} /\ Ttl \in Nat \ {0}
    /\ MaxPerTick \in Nat \ {0} /\ MaxActive \in Nat \ {0}
    /\ MaxDay \in Nat /\ MaxCalls \in Nat /\ MaxFaults \in Nat

VARIABLES
    today,
    status, due,    \* committed status and next_run_date
    outcomes,       \* committed runs: the due date dealt with and the day it was
    keys,           \* Redis: [due, id, expiry]; a key is dropped when its day comes
    pc, todo,       \* a tick: where it is, the due dates it loaded and has yet to handle,
    draft,          \* its uncommitted runs
    call, calls,    \* what each customer request has read; how many there were
    faults

table  == <<status, due, outcomes>>
tick   == <<pc, todo, draft>>
caller == <<call, calls>>
vars   == <<today, table, keys, tick, caller, faults>>

NoCall == [kind |-> "none", id |-> 0, seen |-> 0]

Init ==
    /\ today = 0
    /\ status = [i \in Instructions |-> "none"]
    /\ due = [i \in Instructions |-> 0]
    /\ outcomes = [i \in Instructions |-> <<>>]
    /\ keys = {}
    /\ pc = [w \in Workers |-> "idle"]
    /\ todo = [w \in Workers |-> {}]
    /\ draft = [w \in Workers |-> {}]
    /\ call = [c \in Callers |-> NoCall]
    /\ calls = 0
    /\ faults = 0

(***************************************************************************)
(* Customer requests: read and check, then save                            *)
(***************************************************************************)

Read(c, kind, i, seen) ==
    /\ call[c] = NoCall /\ calls < MaxCalls
    /\ call' = [call EXCEPT ![c] = [kind |-> kind, id |-> i, seen |-> seen]]
    /\ calls' = calls + 1
    /\ UNCHANGED <<today, table, keys, tick, faults>>

\* count_active: the active and paused instructions at the time of the request.
CountActive == Cardinality({i \in Instructions : status[i] \in {"active", "paused"}})

AskCreate(c) == CountActive < MaxActive /\ Read(c, "create", 0, 0)

\* set_status changes nothing for any other status it reads.
AskStatus(c, i) ==
    \/ status[i] = "active" /\ Read(c, "pause", i, due[i])
    \/ status[i] = "paused" /\ Read(c, "resume", i, due[i])
    \/ status[i] \in {"active", "paused"} /\ Read(c, "cancel", i, due[i])

Save(c, kind, i, st, d) ==
    /\ call[c].kind = kind
    /\ status' = [status EXCEPT ![i] = st]
    /\ due' = [due EXCEPT ![i] = d]
    /\ call' = [call EXCEPT ![c] = NoCall]
    /\ UNCHANGED <<today, outcomes, keys, tick, calls, faults>>

\* create_standing_instruction: the first run is today or on a later start date.
SaveCreate(c, i) ==
    /\ status[i] = "none" /\ \A j \in Instructions : j < i => status[j] # "none"
    /\ \E d \in {today, today + 1} : Save(c, "create", i, "active", d)

\* Variant: resume counts back from today instead of from the date it read.
ResumeDateBack(c, i) == IF call[c].seen <= today THEN today - Period ELSE due[i]

\* "Never fire a backlog of missed runs": by the date the request read.
ResumeDate(c, i) == IF call[c].seen < today THEN today ELSE due[i]

SaveStatus(c, i) ==
    /\ call[c].id = i
    /\ \/ Save(c, "pause", i, "paused", due[i])
       \/ Save(c, "cancel", i, "ended", due[i])
       \/ Save(c, "resume", i, "active", ResumeDate(c, i))

(***************************************************************************)
(* execute_due_instructions                                                *)
(***************************************************************************)

Earlier(x, y) == x.due < y.due \/ (x.due = y.due /\ x.id < y.id)

DueNow == {[id |-> i, due |-> due[i]] : i \in {j \in Instructions : status[j] = "active" /\ due[j] <= today}}

Oldest == {x \in DueNow : Cardinality({y \in DueNow : Earlier(y, x)}) < MaxPerTick}

\* The oldest MAX_PER_TICK due instructions, as the tick's session loads them.
SelectDue(w) ==
    /\ pc[w] = "idle"
    /\ DueNow # {}
    /\ pc' = [pc EXCEPT ![w] = "next"]
    /\ todo' = [todo EXCEPT ![w] = Oldest]
    /\ UNCHANGED <<today, table, keys, draft, caller, faults>>

IsNext(w, x) == x \in todo[w] /\ \A y \in todo[w] \ {x} : Earlier(x, y)
KeyHeld(x) == \E k \in keys : k.id = x.id /\ k.due = x.due

\* The SETNX failed: another tick runs, or ran and rolled back, this due date.
SkipLocked(w, x) ==
    /\ pc[w] = "next" /\ IsNext(w, x)
    /\ KeyHeld(x)
    /\ todo' = [todo EXCEPT ![w] = @ \ {x}]
    /\ UNCHANGED <<today, table, keys, pc, draft, caller, faults>>

LockFor(w, x, expiry) ==
    /\ pc[w] = "next" /\ IsNext(w, x)
    /\ keys' = keys \cup {[id |-> x.id, due |-> x.due, expiry |-> expiry]}
    /\ pc' = [pc EXCEPT ![w] = "run"]
    /\ UNCHANGED <<today, table, todo, draft, caller, faults>>

\* Variant: SET without NX.
AcquireRunLockAlways(w, x) == LockFor(w, x, today + Ttl)

\* Variant: a key without an expiry.
AcquireRunLockForEver(w, x) == ~KeyHeld(x) /\ LockFor(w, x, MaxDay + 1)

AcquireRunLock(w, x) == ~KeyHeld(x) /\ LockFor(w, x, today + Ttl)

\* _resolve_goal and _run_one: the goal or the account is gone, or the goal achieved;
\* the balance is too low; the debit is posted.
RunOne(w, x) ==
    /\ pc[w] = "run" /\ IsNext(w, x)
    /\ \E outcome \in {"ended", "skipped", "debited"} :
          draft' = [draft EXCEPT ![w] =
              @ \cup {[id |-> x.id, due |-> x.due, day |-> today, outcome |-> outcome]}]
    /\ todo' = [todo EXCEPT ![w] = @ \ {x}]
    /\ pc' = [pc EXCEPT ![w] = "next"]
    /\ UNCHANGED <<today, table, keys, caller, faults>>

\* Both a debit and a skip advance next_run_date from the date the tick loaded.
NextDate(r) == r.due + Period

EndedBy(w) == {r.id : r \in {q \in draft[w] : q.outcome = "ended"}}
RanBy(w) == {r.id : r \in {q \in draft[w] : q.outcome # "ended"}}
RunOf(w, i) == CHOOSE r \in draft[w] : r.id = i

\* The tick's session writes the columns it changed.
CommitTick(w) ==
    /\ pc[w] = "next" /\ todo[w] = {}
    /\ status' = [i \in Instructions |-> IF i \in EndedBy(w) THEN "ended" ELSE status[i]]
    /\ due' = [i \in Instructions |-> IF i \in RanBy(w) THEN NextDate(RunOf(w, i)) ELSE due[i]]
    /\ outcomes' = [i \in Instructions |->
          IF i \in RanBy(w)
          THEN Append(outcomes[i], [due |-> RunOf(w, i).due, day |-> RunOf(w, i).day])
          ELSE outcomes[i]]
    /\ pc' = [pc EXCEPT ![w] = "idle"]
    /\ draft' = [draft EXCEPT ![w] = {}]
    /\ UNCHANGED <<today, keys, todo, caller, faults>>

\* A post raises, the commit fails, the process dies: the whole batch is rolled back
\* and its keys stay.
RollBack(w) ==
    /\ pc[w] # "idle" /\ faults < MaxFaults
    /\ faults' = faults + 1
    /\ pc' = [pc EXCEPT ![w] = "idle"]
    /\ todo' = [todo EXCEPT ![w] = {}]
    /\ draft' = [draft EXCEPT ![w] = {}]
    /\ UNCHANGED <<today, table, keys, caller>>

\* Midnight, between two ticks: a tick takes seconds, a key lives for days.
NextDay ==
    /\ today < MaxDay
    /\ \A w \in Workers : pc[w] = "idle"
    /\ today' = today + 1
    /\ keys' = {k \in keys : k.expiry > today + 1}
    /\ UNCHANGED <<table, tick, caller, faults>>

RunTick(w) ==
    \/ SelectDue(w) \/ CommitTick(w)
    \/ \E x \in todo[w] : SkipLocked(w, x) \/ AcquireRunLock(w, x) \/ RunOne(w, x)

CustomerCall(c) ==
    \/ AskCreate(c)
    \/ \E i \in Instructions : AskStatus(c, i) \/ SaveCreate(c, i) \/ SaveStatus(c, i)

Next ==
    \/ \E c \in Callers : CustomerCall(c)
    \/ \E w \in Workers : RunTick(w) \/ RollBack(w)
    \/ NextDay

Spec == Init /\ [][Next]_vars

\* run_scheduler_forever ticks every half hour: by midnight the head of the queue is done
\* or its key is held.  A tick that would find every key held changes nothing: it is
\* left out, for then it is always midnight between two ticks.
TickedToday == \A x \in Oldest : KeyHeld(x)
Useful(w) == pc[w] = "idle" /\ pc'[w] # "idle" => ~TickedToday
DailyNext == Next /\ (today' # today => TickedToday) /\ \A w \in Workers : Useful(w)

\* The loop ticks as long as the process lives, and days pass although a tick may be
\* under way at any moment; nobody has to call, nothing has to fail.
FairSpec ==
    /\ Init /\ [][DailyNext]_vars
    /\ \A w \in Workers : WF_vars(RunTick(w) /\ Useful(w))
    /\ SF_vars(NextDay /\ TickedToday)

-----------------------------------------------------------------------------
TypeOK ==
    /\ today \in Nat
    /\ status \in [Instructions -> {"none", "active", "paused", "ended"}]
    /\ due \in [Instructions -> Nat]
    /\ outcomes \in [Instructions -> Seq([due : Nat, day : Nat])]
    /\ keys \subseteq [id : Instructions, due : Nat, expiry : Nat]
    /\ pc \in [Workers -> {"idle", "next", "run"}]
    /\ todo \in [Workers -> SUBSET [id : Instructions, due : Nat]]
    /\ draft \in [Workers -> SUBSET [id : Instructions, due : Nat, day : Nat,
                                     outcome : {"ended", "skipped", "debited"}]]
    /\ call \in [Callers -> [kind : {"none", "create", "pause", "resume", "cancel"},
                             id : Instructions \cup {0}, seen : Nat]]
    /\ calls \in Nat /\ faults \in Nat

\* standing.py:76: the lock lives "long enough to stop a same-day double-post".  Two ticks
\* never bring the same run to the commit together, and a due date dealt with twice is
\* dealt with on different days, after its key has expired.
NoSameDayDoublePost ==
    /\ \A v, w \in Workers : \A r \in draft[v], q \in draft[w] :
          r.id = q.id /\ r.due = q.due => v = w
    /\ \A i \in Instructions : \A m, n \in DOMAIN outcomes[i] :
          outcomes[i][m] = outcomes[i][n] => m = n

\* standing.py:20: a run skipped for a low balance is not retried "until the next cadence
\* date", and no debit is repeated: a due date is dealt with at most once.
OneOutcomePerDueDate ==
    \A i \in Instructions : \A m, n \in DOMAIN outcomes[i] :
        outcomes[i][m].due = outcomes[i][n].due => m = n

\* standing.py:29: "a crashed tick self-heals": a due instruction is dealt with, or stopped
\* by its customer, within the days it takes the keys of the failed ticks to expire, and
\* one more key when a resume that read "paused" undoes the end a tick committed meanwhile.
Horizon == MaxDay - Ttl * (MaxFaults + 1)
CrashedTickSelfHeals ==
    \A i \in Instructions : \A d \in 0 .. Horizon :
        status[i] = "active" /\ due[i] = d /\ today <= Horizon
            ~> status[i] # "active" \/ due[i] # d
=============================================================================
