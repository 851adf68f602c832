--------------------------- MODULE SchedulerTick ---------------------------
(***************************************************************************)
(* The proactive sweep (app/workers/scheduler.py): a tick walks the        *)
(* customers nobody has looked at for a week, behind the master switch,    *)
(* the LLM budget, a cap per UTC day and a Redis cooldown per customer.    *)
(* One worker runs it, two while a deployment replaces one by the other.   *)
(*                                                                         *)
(* Every Redis command and query is a step; Redis may fail in any of them. *)
(* The standing instructions a tick executes first are module              *)
(* StandingInstructions.                                                   *)
(***************************************************************************)
EXTENDS Naturals, FiniteSets

CONSTANTS
    Workers,
    Customers,      \* with an account; numbered by creation
    Spenders,       \* bound: the customers who also have events of their own
    BatchSize,      \* sweep_batch_size
    DailyCap,       \* sweep_daily_cap
    MaxDay,         \* bound: UTC days
    MaxFaults       \* bound: failed Redis commands and crashes

ASSUME SchedulerAssumption ==
    /\ IsFiniteSet(Workers)
    /\ Spenders \subseteq Customers
    /\ BatchSize \in Nat /\ DailyCap \in Nat /\ MaxFaults \in Nat /\ MaxDay \in Nat \ {0}

VARIABLES
    enabled,        \* what the console set the master switch to; the static flag is on
    swept,          \* day -> the counter in Redis
    cooldown,       \* customer -> the day its cooldown key was set, or Never
    reviewed,       \* customers with an agent run since the cutoff
    today,
    tick,           \* what each worker's tick is doing
    faults,
    \* history
    runs,           \* day -> sweeps that ran to an end in ticks begun that day
    ran,            \* day -> the workers that began one
    inWindow        \* customer -> sweeps begun under the present cooldown key

redis   == <<swept, cooldown>>
history == <<runs, ran, inWindow>>
vars    == <<enabled, redis, reviewed, today, tick, faults, history>>

Days   == 1 .. MaxDay
Never  == 0
Asleep == [at |-> "asleep", day |-> 1, left |-> 0, queue |-> {}]

Init ==
    /\ enabled = TRUE
    /\ swept = [d \in Days |-> 0] /\ cooldown = [c \in Customers |-> Never] /\ reviewed = {}
    /\ today = 1
    /\ tick = [w \in Workers |-> Asleep]
    /\ faults = 0
    /\ runs = [d \in Days |-> 0] /\ ran = [d \in Days |-> {}]
    /\ inWindow = [c \in Customers |-> 0]

At(w, step) == tick[w].at = step
Goto(w, step) == tick' = [tick EXCEPT ![w].at = step]
Sleep(w) == tick' = [tick EXCEPT ![w] = Asleep]

\* A read that fails counts as a fault; what it returns instead is the caller's choice.
RedisFails == faults < MaxFaults /\ faults' = faults + 1
RedisWorks == faults' = faults

(***************************************************************************)
(* The guards of a tick                                                    *)
(***************************************************************************)

\* Variant: the key read is not the key counted.
SeesOtherKey(day, on, n) == on = enabled /\ n = 0 /\ RedisWorks

\* A failed read of the switch falls back to the static flag, which is on; the
\* count of a failed read is zero.
Sees(day, on, n) ==
    \/ on = enabled /\ n = swept[day] /\ RedisWorks
    \/ on = TRUE    /\ n = swept[day] /\ RedisFails
    \/ on = enabled /\ n = 0          /\ RedisFails

Batch(n) == IF BatchSize < DailyCap - n THEN BatchSize ELSE DailyCap - n

\* Past the switch, raise_if_over_budget (which anybody's spend may have reached)
\* and the cap: eligible_candidate_ids, whose pool of four batches holds every
\* customer of the instance.
Begin(w, n) ==
    /\ At(w, "asleep") /\ Sees(today, TRUE, n) /\ n < DailyCap
    /\ tick' = [tick EXCEPT ![w] = [at |-> "next", day |-> today, left |-> Batch(n),
                                    queue |-> Customers \ reviewed]]
    /\ ran' = [ran EXCEPT ![today] = @ \cup {w}]
    /\ UNCHANGED <<enabled, redis, reviewed, today, runs, inWindow>>

(***************************************************************************)
(* One customer after the other                                            *)
(***************************************************************************)

Oldest(c, S) == c \in S /\ \A d \in S : c <= d
Waits(w)  == At(w, "next") /\ tick[w].queue # {} /\ tick[w].left > 0

\* The switch and the cap once more; either ends the loop.
Check(w, on, n) ==
    /\ Waits(w) /\ Sees(tick[w].day, on, n)
    /\ tick' = [tick EXCEPT ![w] = IF on /\ n < DailyCap THEN [@ EXCEPT !.at = "acquire"]
                                   ELSE [@ EXCEPT !.queue = {}]]
    /\ UNCHANGED <<enabled, redis, reviewed, today, history>>

\* Variant: SET without NX.
AlwaysFree(c) == TRUE

Free(c) == cooldown[c] = Never

\* _acquire_cooldown, then the run: its row makes the customer a reviewed one.
Acquire(w) ==
    /\ At(w, "acquire")
    /\ \E c \in Customers :
       /\ Oldest(c, tick[w].queue)
       /\ IF Free(c)
          THEN /\ cooldown' = [cooldown EXCEPT ![c] = today]
               /\ reviewed' = reviewed \cup {c}
               /\ tick' = [tick EXCEPT ![w].at = "run", ![w].queue = @ \ {c}]
               /\ inWindow' = [inWindow EXCEPT ![c] = @ + 1]
          ELSE /\ tick' = [tick EXCEPT ![w].at = "next", ![w].queue = @ \ {c}]
               /\ UNCHANGED <<cooldown, reviewed, inWindow>>
    /\ UNCHANGED <<enabled, swept, today, faults, runs, ran>>

\* run_event_trigger reports a failed run as a result.
RunReturns(w) ==
    /\ At(w, "run")
    /\ Goto(w, "count")
    /\ runs' = [runs EXCEPT ![tick[w].day] = @ + 1]
    /\ UNCHANGED <<enabled, redis, reviewed, today, faults, ran, inWindow>>

\* BudgetExceeded ends the tick before its maintenance; the cooldown stays taken.
RunOverBudget(w) ==
    /\ At(w, "run")
    /\ Sleep(w)
    /\ UNCHANGED <<enabled, redis, reviewed, today, faults, history>>

\* Any other exception: the next customer, with neither count nor release.
RunRaises(w) ==
    /\ At(w, "run")
    /\ Goto(w, "next")
    /\ UNCHANGED <<enabled, redis, reviewed, today, faults, history>>

\* _increment_swept
Count(w) ==
    /\ At(w, "count")
    /\ swept' = [swept EXCEPT ![tick[w].day] = @ + 1]
    /\ tick' = [tick EXCEPT ![w].at = "next", ![w].left = @ - 1]
    /\ UNCHANGED <<enabled, cooldown, reviewed, today, faults, history>>

\* prune_memories and evaluate_all_active_goals (modules Memory and Goals), and the end.
Finish(w) ==
    /\ At(w, "next") /\ ~Waits(w)
    /\ Sleep(w)
    /\ UNCHANGED <<enabled, redis, reviewed, today, faults, history>>

\* SETNX or INCR raises into run_scheduler_forever, or the process stops.
Break(w) ==
    /\ ~At(w, "asleep") /\ RedisFails
    /\ Sleep(w)
    /\ UNCHANGED <<enabled, redis, reviewed, today, history>>

(***************************************************************************)
(* Around the ticks                                                        *)
(***************************************************************************)

\* The console; the master switch ends a day's work or takes it up again.
Toggle ==
    /\ enabled' = ~enabled
    /\ UNCHANGED <<redis, reviewed, today, tick, faults, history>>

NextDay ==
    /\ today < MaxDay
    /\ today' = today + 1
    /\ UNCHANGED <<enabled, redis, reviewed, tick, faults, history>>

\* A run for one of the customer's events, which takes no sweep cooldown.
EventRun(c) ==
    /\ c \notin reviewed
    /\ reviewed' = reviewed \cup {c}
    /\ UNCHANGED <<enabled, redis, today, tick, faults, history>>

\* sweep_customer_cooldown_days later (one, in the instance) the key is gone and the run old.
WindowEnds(c) ==
    /\ cooldown[c] # Never /\ cooldown[c] < today
    /\ \A w \in Workers : At(w, "asleep") \/ tick[w].day = today   \* no tick lasts that long
    /\ cooldown' = [cooldown EXCEPT ![c] = Never]
    /\ reviewed' = reviewed \ {c}
    /\ inWindow' = [inWindow EXCEPT ![c] = 0]
    /\ UNCHANGED <<enabled, swept, today, tick, faults, runs, ran>>

Counts == 0 .. DailyCap + Cardinality(Workers) + MaxFaults

Next ==
    \/ \E w \in Workers :
          \/ Acquire(w) \/ RunReturns(w) \/ RunOverBudget(w) \/ RunRaises(w)
          \/ Count(w) \/ Finish(w) \/ Break(w)
          \/ \E n \in Counts : Begin(w, n) \/ \E on \in BOOLEAN : Check(w, on, n)
    \/ \E c \in Spenders : EventRun(c)
    \/ \E c \in Customers : WindowEnds(c)
    \/ Toggle \/ NextDay

Spec == Init /\ [][Next]_vars

(***************************************************************************)
(* Properties                                                              *)
(***************************************************************************)

TypeOK ==
    /\ enabled \in BOOLEAN
    /\ swept \in [Days -> Nat] /\ cooldown \in [Customers -> Days \cup {Never}]
    /\ reviewed \subseteq Customers
    /\ today \in Days
    /\ tick \in [Workers -> [at : {"asleep", "next", "acquire", "run", "count"}, day : Days,
                             left : 0 .. BatchSize, queue : SUBSET Customers]]
    /\ faults \in 0 .. MaxFaults
    /\ runs \in [Days -> Nat] /\ ran \in [Days -> SUBSET Workers]
    /\ inWindow \in [Customers -> Nat]

\* Two workers with the same candidates sweep a customer once per cooldown.
OneSweepPerWindow == \A c \in Customers : inWindow[c] <= 1

\* The cap is read before a run and counted after it: one worker alone keeps it,
\* a second one, and each Redis failure, lets at most one more sweep through.
SweepsWithinCap == \A d \in Days :
    runs[d] <= DailyCap + faults + (IF Cardinality(ran[d]) > 1 THEN Cardinality(ran[d]) - 1 ELSE 0)
=============================================================================
