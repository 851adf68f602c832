--------------------------- MODULE Platform_proofs ---------------------------
(***************************************************************************)
(* Safety theorems about what runs around the pipeline, for any number of  *)
(* workers, customers, members of staff, runs, evaluators, seeders and     *)
(* providers.                                                              *)
(***************************************************************************)
EXTENDS Platform, Recursion_proofs, SequenceTheorems, FiniteSetTheorems, TLAPS

-----------------------------------------------------------------------------
(* The sweep: once per cooldown window, and the overshoot of the daily cap *)
(*                                                                         *)
(* The cap is a check before the run and a count after it.  Counted: the   *)
(* sweeps of a day are the counter, the ticks that have not counted yet    *)
(* and the counts that were lost to a fault.  Capped: the sweeps and the   *)
(* ticks let through are at most the cap, a slot for each other worker of  *)
(* the day, and the faults.  The first makes the second survive a check    *)
(* that read the counter.                                                  *)

\* The ticks of a day at one of some steps.
In(S, d)    == {w \in Workers : tick[w].at \in S /\ tick[w].day = d}
Running(d)  == In({"acquire", "run"}, d)
Counting(d) == In({"count"}, d)
Spare(d)    == IF Cardinality(ran[d]) > 1 THEN Cardinality(ran[d]) - 1 ELSE 0

Busy ==
    /\ \A w \in Workers : ~At(w, "asleep") => w \in ran[tick[w].day]
    /\ \A w \in Workers : tick[w].at \in {"acquire", "run", "count"} => tick[w].left > 0
Window  == \A c \in Customers : inWindow[c] <= 1 /\ (cooldown[c] = Never => inWindow[c] = 0)
Counted == \A d \in Days : runs[d] <= swept[d] + Cardinality(Counting(d)) + faults
Capped  == \A d \in Days : runs[d] + Cardinality(Running(d)) <= DailyCap + faults + Spare(d)

SweepTyped == TypeOK /\ Busy
SweepInv == SweepTyped /\ Window /\ Counted /\ Capped

Tick == [at : {"asleep", "next", "acquire", "run", "count"}, day : Days,
         left : 0 .. BatchSize, queue : SUBSET Customers]

WorkerStep(w) ==
    \/ Acquire(w) \/ RunReturns(w) \/ RunOverBudget(w) \/ RunRaises(w)
    \/ Count(w) \/ Finish(w) \/ Break(w)
    \/ \E n \in Counts : Begin(w, n) \/ \E on \in BOOLEAN : Check(w, on, n)
OtherStep ==
    \/ \E c \in Spenders : EventRun(c)
    \/ \E c \in Customers : WindowEnds(c)
    \/ Toggle \/ NextDay

-----------------------------------------------------------------------------
\* Types, and what a busy tick has.
LEMMA AsleepTyped == Asleep \in Tick /\ Asleep.at = "asleep"
BY SchedulerAssumption DEF Asleep, Tick, Days

LEMMA InitTyped == Init => SweepTyped
BY SchedulerAssumption, AsleepTyped DEF Init, SweepTyped, TypeOK, Busy, Tick, Days, At, Asleep, Never

\* A worker's step gives its tick another state and leaves the others alone.
LEMMA TickMoves ==
    ASSUME SweepTyped, NEW w \in Workers, NEW q \in Tick, tick' = [tick EXCEPT ![w] = q]
    PROVE  /\ tick' \in [Workers -> Tick]
           /\ tick'[w] = q
           /\ \A v \in Workers \ {w} : tick'[v] = tick[v]
           /\ (q.at \in {"acquire", "run", "count"} => q.left > 0)
                => \A v \in Workers :
                     tick'[v].at \in {"acquire", "run", "count"} => tick'[v].left > 0
           /\ (q.at = "asleep" \/ (q.day \in Days /\ w \in ran'[q.day]))
                /\ (\A d \in Days : ran[d] \subseteq ran'[d])
                => \A v \in Workers : tick'[v].at # "asleep" => v \in ran'[tick'[v].day]
BY DEF SweepTyped, TypeOK, Busy, Tick, At

LEMMA FaultsTyped == ASSUME SweepTyped, RedisFails \/ RedisWorks PROVE faults' \in 0 .. MaxFaults /\ faults' >= faults
BY SchedulerAssumption DEF SweepTyped, TypeOK, RedisFails, RedisWorks

\* What each step makes of the worker's tick.
LEMMA SweepSteps ==
    ASSUME SweepTyped, NEW w \in Workers
    PROVE  /\ \A n \in Counts : Begin(w, n) =>
                  \E q \in Tick : tick' = [tick EXCEPT ![w] = q] /\ q.at = "next" /\ q.day = today
           /\ \A n \in Counts : (\E on \in BOOLEAN : Check(w, on, n)) =>
                  \E q \in Tick : /\ tick' = [tick EXCEPT ![w] = q] /\ q.day = tick[w].day
                                  /\ q.at = "next" \/ (q.at = "acquire" /\ n < DailyCap)
                                  /\ q.left = tick[w].left
           /\ Acquire(w) => \E q \in Tick : /\ tick' = [tick EXCEPT ![w] = q] /\ q.day = tick[w].day
                                            /\ q.at \in {"run", "next"} /\ q.left = tick[w].left
           /\ RunReturns(w) => \E q \in Tick : /\ tick' = [tick EXCEPT ![w] = q] /\ q.day = tick[w].day
                                               /\ q.at = "count" /\ q.left = tick[w].left
           /\ RunRaises(w) => \E q \in Tick : /\ tick' = [tick EXCEPT ![w] = q] /\ q.day = tick[w].day
                                              /\ q.at = "next"
           /\ Count(w) => \E q \in Tick : /\ tick' = [tick EXCEPT ![w] = q] /\ q.day = tick[w].day
                                          /\ q.at = "next"
           /\ RunOverBudget(w) \/ Finish(w) \/ Break(w) =>
                  \E q \in Tick : tick' = [tick EXCEPT ![w] = q] /\ q.at = "asleep"
<1>0. tick[w] \in Tick
    BY DEF SweepTyped, TypeOK, Tick
<1>1. ASSUME NEW n \in Counts, Begin(w, n)
      PROVE  \E q \in Tick : tick' = [tick EXCEPT ![w] = q] /\ q.at = "next" /\ q.day = today
    <2> DEFINE q == [at |-> "next", day |-> today, left |-> Batch(n), queue |-> Customers \ reviewed]
    <2>1. n \in Nat /\ n < DailyCap
        BY <1>1 DEF Begin, Counts
    <2>2. Batch(n) \in 0 .. BatchSize
        BY <2>1, SchedulerAssumption DEF Batch
    <2>3. q \in Tick
        BY <2>2 DEF SweepTyped, TypeOK, Tick
    <2>. QED BY <1>1, <2>3 DEF Begin
<1>2. ASSUME NEW n \in Counts, \E on \in BOOLEAN : Check(w, on, n)
      PROVE  \E q \in Tick : /\ tick' = [tick EXCEPT ![w] = q] /\ q.day = tick[w].day
                             /\ q.at = "next" \/ (q.at = "acquire" /\ n < DailyCap)
                             /\ q.left = tick[w].left
    <2>1. [tick[w] EXCEPT !.at = "acquire"] \in Tick /\ [tick[w] EXCEPT !.queue = {}] \in Tick
        BY <1>0 DEF Tick
    <2>2. tick[w].at = "next"
        BY <1>2 DEF Check, Waits, At
    <2>3. CASE n < DailyCap /\ tick' = [tick EXCEPT ![w] = [tick[w] EXCEPT !.at = "acquire"]]
        BY <1>0, <2>1, <2>3 DEF Tick
    <2>4. CASE tick' = [tick EXCEPT ![w] = [tick[w] EXCEPT !.queue = {}]]
        <3>1. LET q == [tick[w] EXCEPT !.queue = {}]
              IN  q.day = tick[w].day /\ q.left = tick[w].left /\ q.at = "next"
            BY <1>0, <2>2 DEF Tick
        <3>. QED BY <2>1, <2>4, <3>1
    <2>. QED BY <1>0, <1>2, <2>3, <2>4 DEF Check, SweepTyped, TypeOK
<1>3. ASSUME Acquire(w)
      PROVE  \E q \in Tick : /\ tick' = [tick EXCEPT ![w] = q] /\ q.day = tick[w].day
                             /\ q.at \in {"run", "next"} /\ q.left = tick[w].left
    <2>1. PICK c, at : /\ at \in {"run", "next"}
                       /\ tick' = [tick EXCEPT ![w].at = at, ![w].queue = @ \ {c}]
        BY <1>3 DEF Acquire
    <2> DEFINE q == [tick[w] EXCEPT !.at = at, !.queue = @ \ {c}]
    <2>2. q \in Tick /\ q.day = tick[w].day /\ q.left = tick[w].left /\ q.at = at
        BY <1>0, <2>1 DEF Tick
    <2>3. tick' = [tick EXCEPT ![w] = q]
        BY <2>1 DEF SweepTyped, TypeOK
    <2>. QED BY <2>1, <2>2, <2>3
<1>4. ASSUME NEW at \in {"next", "count"}, Goto(w, at)
      PROVE  \E q \in Tick : /\ tick' = [tick EXCEPT ![w] = q] /\ q.day = tick[w].day
                             /\ q.at = at /\ q.left = tick[w].left
    <2> DEFINE q == [tick[w] EXCEPT !.at = at]
    <2>1. q \in Tick /\ q.day = tick[w].day /\ q.left = tick[w].left /\ q.at = at
        BY <1>0 DEF Tick
    <2>2. tick' = [tick EXCEPT ![w] = q]
        BY <1>4 DEF Goto, SweepTyped, TypeOK
    <2>. QED BY <2>1, <2>2
<1>5. ASSUME Count(w)
      PROVE  \E q \in Tick : /\ tick' = [tick EXCEPT ![w] = q] /\ q.day = tick[w].day
                             /\ q.at = "next"
    <2> DEFINE q == [tick[w] EXCEPT !.at = "next", !.left = @ - 1]
    <2>1. tick[w].left - 1 \in 0 .. BatchSize
        BY <1>0, <1>5, SchedulerAssumption DEF Tick, SweepTyped, Busy, Count, At
    <2>2. q \in Tick /\ q.day = tick[w].day /\ q.at = "next"
        BY <1>0, <2>1 DEF Tick
    <2>3. tick' = [tick EXCEPT ![w] = q]
        BY <1>5 DEF Count, SweepTyped, TypeOK
    <2>. QED BY <2>2, <2>3
<1>6. ASSUME Sleep(w) PROVE \E q \in Tick : tick' = [tick EXCEPT ![w] = q] /\ q.at = "asleep"
    BY <1>6, AsleepTyped DEF Sleep
<1>7. RunReturns(w) => Goto(w, "count")
    BY DEF RunReturns
<1>8. RunRaises(w) => Goto(w, "next")
    BY DEF RunRaises
<1>9. RunOverBudget(w) \/ Finish(w) \/ Break(w) => Sleep(w)
    BY DEF RunOverBudget, Finish, Break
<1>. QED BY <1>1, <1>2, <1>3, <1>4, <1>5, <1>6, <1>7, <1>8, <1>9
\* A worker's step keeps the types and what busy ticks have.
LEMMA WorkerTyped ==
    ASSUME SweepTyped, NEW w \in Workers, WorkerStep(w)
    PROVE  SweepTyped'
<1>1. ASSUME NEW n \in Counts, Begin(w, n) PROVE SweepTyped'
    <2>1. PICK q \in Tick : tick' = [tick EXCEPT ![w] = q] /\ q.at = "next" /\ q.day = today
        BY <1>1, SweepSteps
    <2>2. ran' \in [Days -> SUBSET Workers] /\ w \in ran'[today] /\ \A d \in Days : ran[d] \subseteq ran'[d]
        BY <1>1 DEF Begin, SweepTyped, TypeOK
    <2>3. faults' \in 0 .. MaxFaults
        BY <1>1, FaultsTyped DEF Begin, Sees
    <2>4. Busy' /\ tick' \in [Workers -> Tick]
        BY <2>1, <2>2, TickMoves DEF Busy, At, SweepTyped, TypeOK
    <2>. QED BY <1>1, <2>2, <2>3, <2>4 DEF Begin, SweepTyped, TypeOK, Tick, redis
<1>2. ASSUME NEW n \in Counts, \E on \in BOOLEAN : Check(w, on, n) PROVE SweepTyped'
    <2>1. PICK q \in Tick : /\ tick' = [tick EXCEPT ![w] = q] /\ q.day = tick[w].day
                            /\ q.at = "next" \/ (q.at = "acquire" /\ n < DailyCap)
                            /\ q.left = tick[w].left
        BY <1>2, SweepSteps
    <2>2. tick[w].left > 0 /\ w \in ran[tick[w].day] /\ ran' = ran
        BY <1>2 DEF Check, Waits, At, SweepTyped, Busy, TypeOK, history
    <2>3. faults' \in 0 .. MaxFaults
        BY <1>2, FaultsTyped DEF Check, Sees
    <2>4. q.day \in Days /\ q.left > 0
        BY <2>1, <2>2 DEF Tick
    <2>5. w \in ran'[q.day] /\ \A d \in Days : ran[d] \subseteq ran'[d]
        BY <2>1, <2>2
    <2>6. Busy' /\ tick' \in [Workers -> Tick]
        BY <2>1, <2>4, <2>5, TickMoves DEF Busy, At
    <2>. QED BY <1>2, <2>3, <2>6 DEF Check, SweepTyped, TypeOK, Tick, redis, history
<1>3. ASSUME Acquire(w) PROVE SweepTyped'
    <2>1. PICK q \in Tick : /\ tick' = [tick EXCEPT ![w] = q] /\ q.day = tick[w].day
                            /\ q.at \in {"run", "next"} /\ q.left = tick[w].left
        BY <1>3, SweepSteps
    <2>2. tick[w].left > 0 /\ w \in ran[tick[w].day] /\ ran' = ran
        BY <1>3 DEF Acquire, At, SweepTyped, Busy, TypeOK
    <2>3. Busy' /\ tick' \in [Workers -> Tick]
        BY ZenonT(60), <2>1, <2>2, TickMoves DEF Busy, At, Tick
    <2>4. /\ reviewed' \subseteq Customers /\ inWindow' \in [Customers -> Nat]
          /\ cooldown' \in [Customers -> Days \cup {Never}]
        BY SMTT(30), <1>3 DEF Acquire, SweepTyped, TypeOK
    <2>. QED BY <1>3, <2>3, <2>4 DEF Acquire, SweepTyped, TypeOK, Tick
<1>4. ASSUME RunReturns(w) PROVE SweepTyped'
    <2>1. PICK q \in Tick : /\ tick' = [tick EXCEPT ![w] = q] /\ q.day = tick[w].day
                            /\ q.at = "count" /\ q.left = tick[w].left
        BY <1>4, SweepSteps
    <2>2. tick[w].left > 0 /\ w \in ran[tick[w].day] /\ ran' = ran
        BY <1>4 DEF RunReturns, At, SweepTyped, Busy, TypeOK
    <2>3. Busy' /\ tick' \in [Workers -> Tick]
        BY <2>1, <2>2, TickMoves DEF Busy, At, Tick
    <2>. QED BY <1>4, <2>3 DEF RunReturns, SweepTyped, TypeOK, Tick, redis
<1>5. ASSUME RunRaises(w) \/ Count(w) PROVE SweepTyped'
    <2>1. PICK q \in Tick : tick' = [tick EXCEPT ![w] = q] /\ q.day = tick[w].day /\ q.at = "next"
        BY <1>5, SweepSteps
    <2>2. w \in ran[tick[w].day] /\ ran' = ran
        BY <1>5 DEF RunRaises, Count, At, SweepTyped, Busy, TypeOK, history
    <2>3. Busy' /\ tick' \in [Workers -> Tick]
        BY ZenonT(60), <2>1, <2>2, TickMoves DEF Busy, At, Tick
    <2>4. swept' \in [Days -> Nat]
        BY <1>5 DEF RunRaises, Count, SweepTyped, TypeOK, redis
    <2>. QED BY <1>5, <2>3, <2>4 DEF RunRaises, Count, SweepTyped, TypeOK, Tick, redis, history
<1>6. ASSUME RunOverBudget(w) \/ Finish(w) \/ Break(w) PROVE SweepTyped'
    <2>1. PICK q \in Tick : tick' = [tick EXCEPT ![w] = q] /\ q.at = "asleep"
        BY <1>6, SweepSteps
    <2>2. ran' = ran
        BY <1>6 DEF RunOverBudget, Finish, Break, history
    <2>3. Busy' /\ tick' \in [Workers -> Tick]
        BY <2>1, <2>2, TickMoves DEF Busy, At, Tick
    <2>4. faults' \in 0 .. MaxFaults
        BY <1>6, FaultsTyped DEF RunOverBudget, Finish, Break, SweepTyped, TypeOK
    <2>. QED BY <1>6, <2>3, <2>4 DEF RunOverBudget, Finish, Break, SweepTyped, TypeOK, Tick, redis, history
<1>. QED BY <1>1, <1>2, <1>3, <1>4, <1>5, <1>6 DEF WorkerStep

LEMMA OtherTyped == ASSUME SweepTyped, OtherStep \/ UNCHANGED vars PROVE SweepTyped'
<1>1. tick' = tick /\ ran' = ran
    BY DEF OtherStep, EventRun, WindowEnds, Toggle, NextDay, vars, history
<1>2. Busy'
    BY <1>1 DEF SweepTyped, Busy, At
<1>3. TypeOK'
    <2>1. CASE \E c \in Spenders : EventRun(c)
        BY <2>1, SchedulerAssumption DEF EventRun, SweepTyped, TypeOK, redis, history
    <2>2. CASE \E c \in Customers : WindowEnds(c)
        <3>1. PICK c \in Customers : WindowEnds(c)
            BY <2>2
        <3>2. cooldown' \in [Customers -> Days \cup {Never}] /\ inWindow' \in [Customers -> Nat]
            BY <3>1 DEF WindowEnds, SweepTyped, TypeOK
        <3>3. UNCHANGED <<enabled, swept, today, tick, faults, runs, ran>> /\ reviewed' \subseteq Customers
            BY <3>1 DEF WindowEnds, SweepTyped, TypeOK
        <3>. QED BY <3>2, <3>3 DEF SweepTyped, TypeOK
    <2>3. CASE Toggle
        <3>1. enabled' \in BOOLEAN
            BY <2>3, Zenon DEF Toggle
        <3>2. UNCHANGED <<redis, reviewed, today, tick, faults, history>>
            BY <2>3 DEF Toggle
        <3>. QED BY <3>1, <3>2 DEF SweepTyped, TypeOK, redis, history
    <2>5. CASE NextDay
        BY <2>5, SchedulerAssumption DEF NextDay, SweepTyped, TypeOK, redis, history, Days
    <2>4. CASE UNCHANGED vars
        BY <2>4 DEF SweepTyped, TypeOK, vars, redis, history
    <2>. QED BY <2>1, <2>2, <2>3, <2>4, <2>5 DEF OtherStep
<1>. QED BY <1>2, <1>3 DEF SweepTyped

-----------------------------------------------------------------------------
\* SET NX: a customer's cooldown is free only while nobody swept them in its window.
LEMMA WindowStep == ASSUME SweepInv, [Next]_vars PROVE Window'
<1>1. ASSUME NEW w \in Workers, Acquire(w) PROVE Window'
    BY <1>1 DEF SweepInv, SweepTyped, TypeOK, Window, Acquire, Free, Days, Never
<1>2. ASSUME NEW c \in Customers, WindowEnds(c) PROVE Window'
    BY <1>2 DEF SweepInv, SweepTyped, TypeOK, Window, WindowEnds
<1>3. ASSUME UNCHANGED <<cooldown, inWindow>> PROVE Window'
    BY <1>3 DEF SweepInv, Window
<1>4. ASSUME NEW w \in Workers, WorkerStep(w), ~Acquire(w) PROVE UNCHANGED <<cooldown, inWindow>>
    BY <1>4 DEF WorkerStep, RunReturns, RunOverBudget, RunRaises, Count, Finish, Break, Begin, Check,
                redis, history
<1>5. ASSUME (\E c \in Spenders : EventRun(c)) \/ Toggle \/ NextDay \/ UNCHANGED vars
      PROVE  UNCHANGED <<cooldown, inWindow>>
    BY <1>5 DEF EventRun, Toggle, NextDay, vars, redis, history
<1>. QED BY <1>1, <1>2, <1>3, <1>4, <1>5 DEF Next, WorkerStep

-----------------------------------------------------------------------------
\* How the number of ticks at a step changes.
LEMMA InFinite ==
    ASSUME NEW S, NEW d
    PROVE  IsFiniteSet(In(S, d)) /\ Cardinality(In(S, d)) \in Nat
<1>1. In(S, d) \in SUBSET Workers
    BY DEF In
<1>. QED BY <1>1, SchedulerAssumption, FS_Subset, FS_CardinalityType

\* The bookkeeping of a tick x on day d: is it let through, does it have to count?
Is(x, S, d) == IF x.at \in S /\ x.day = d THEN 1 ELSE 0
Lets(x, d)  == Is(x, {"acquire", "run"}, d)
Owes(x, d)  == Is(x, {"count"}, d)

LEMMA CardMoves ==
    ASSUME SweepTyped, NEW w \in Workers, NEW q \in Tick, tick' = [tick EXCEPT ![w] = q], NEW S, NEW d
    PROVE  /\ Cardinality(In(S, d)) \in Nat
           /\ Cardinality(In(S, d))' = Cardinality(In(S, d)) + Is(q, S, d) - Is(tick[w], S, d)
<1> DEFINE T == In(S, d) \ {w}
<1>1. IsFiniteSet(In(S, d)) /\ Cardinality(In(S, d)) \in Nat
    BY InFinite
<1>2. w \in In(S, d) <=> tick[w].at \in S /\ tick[w].day = d
    BY DEF In
<1>3. IsFiniteSet(T) /\ Cardinality(T) = IF w \in In(S, d) THEN Cardinality(In(S, d)) - 1
                                         ELSE Cardinality(In(S, d))
    BY <1>1, FS_RemoveElement
<1>4. In(S, d)' = IF q.at \in S /\ q.day = d THEN T \cup {w} ELSE T
    BY DEF In, SweepTyped, TypeOK
<1>5. Cardinality(T \cup {w}) = Cardinality(T) + 1
    BY <1>3, FS_AddElement
<1> HIDE DEF T
<1>. QED BY <1>1, <1>2, <1>3, <1>4, <1>5 DEF Is

\* Every other worker of the day may be past its check.
LEMMA OthersOfTheDay ==
    ASSUME SweepTyped, NEW w \in Workers, At(w, "next")
    PROVE  LET d == tick[w].day IN
           Cardinality(Running(d)) + Cardinality(Counting(d)) <= Spare(d)
<1>0. PICK d \in Days : d = tick[w].day
    BY DEF SweepTyped, TypeOK
<1> DEFINE T == Running(d) \cup Counting(d)
<1>1. /\ IsFiniteSet(Running(d)) /\ Cardinality(Running(d)) \in Nat
      /\ IsFiniteSet(Counting(d)) /\ Cardinality(Counting(d)) \in Nat
    BY InFinite DEF Running, Counting
<1>2. Running(d) \cap Counting(d) = {} /\ w \notin T /\ T \cup {w} \subseteq ran[d] /\ ran[d] \subseteq Workers
    BY <1>0 DEF Running, Counting, In, At, SweepTyped, Busy, TypeOK
<1>3. IsFiniteSet(T) /\ Cardinality(T) = Cardinality(Running(d)) + Cardinality(Counting(d))
    <2>1. IsFiniteSet(T) /\ Cardinality(T) = Cardinality(Running(d)) + Cardinality(Counting(d))
                                - Cardinality(Running(d) \cap Counting(d))
        BY <1>1, FS_Union
    <2>2. Cardinality(Running(d) \cap Counting(d)) = 0
        BY <1>2, FS_EmptySet
    <2> HIDE DEF T
    <2>. QED BY <1>1, <2>1, <2>2
<1>4. Cardinality(T \cup {w}) = Cardinality(T) + 1
    BY <1>2, <1>3, FS_AddElement
<1>5. IsFiniteSet(ran[d]) /\ Cardinality(ran[d]) \in Nat
    BY <1>2, SchedulerAssumption, FS_Subset, FS_CardinalityType
<1>6. Cardinality(T \cup {w}) <= Cardinality(ran[d])
    BY <1>2, <1>5, FS_Subset
<1> HIDE DEF T
<1>. QED BY <1>0, <1>1, <1>3, <1>4, <1>5, <1>6 DEF Spare

LEMMA SpareGrows ==
    ASSUME SweepTyped, SweepTyped', NEW d \in Days, ran[d] \subseteq ran'[d]
    PROVE  Spare(d) \in Nat /\ Spare(d)' \in Nat /\ Spare(d) <= Spare(d)'
<1>1. ran[d] \in SUBSET Workers /\ ran'[d] \in SUBSET Workers
    BY DEF SweepTyped, TypeOK
<1>2. /\ IsFiniteSet(ran[d]) /\ Cardinality(ran[d]) \in Nat
      /\ IsFiniteSet(ran'[d]) /\ Cardinality(ran'[d]) \in Nat
    BY <1>1, SchedulerAssumption, FS_Subset, FS_CardinalityType
<1>3. Cardinality(ran[d]) <= Cardinality(ran'[d])
    BY <1>2, FS_Subset
<1>. QED BY <1>2, <1>3 DEF Spare

LEMMA Books ==
    ASSUME SweepTyped, SweepTyped', NEW w \in Workers, NEW q \in Tick, tick' = [tick EXCEPT ![w] = q], NEW d \in Days
    PROVE  /\ Cardinality(Running(d)) \in Nat /\ Cardinality(Counting(d)) \in Nat
           /\ Cardinality(Running(d))' = Cardinality(Running(d)) + Lets(q, d) - Lets(tick[w], d)
           /\ Cardinality(Counting(d))' = Cardinality(Counting(d)) + Owes(q, d) - Owes(tick[w], d)
           /\ runs[d] \in Nat /\ swept[d] \in Nat /\ faults \in Nat /\ DailyCap \in Nat
<1>1. /\ Cardinality(Running(d)) \in Nat
      /\ Cardinality(Running(d))' = Cardinality(Running(d)) + Lets(q, d) - Lets(tick[w], d)
    BY CardMoves, Zenon DEF Running, Lets
<1>2. /\ Cardinality(Counting(d)) \in Nat
      /\ Cardinality(Counting(d))' = Cardinality(Counting(d)) + Owes(q, d) - Owes(tick[w], d)
    BY CardMoves, Zenon DEF Counting, Owes
<1>. QED BY <1>1, <1>2, SchedulerAssumption DEF SweepTyped, TypeOK

\* A check that lets a tick through: it read the counter, or Redis failed.
LEMMA CheckCapped ==
    ASSUME SweepInv, SweepTyped', NEW w \in Workers, NEW n \in Counts, NEW on \in BOOLEAN, Check(w, on, n),
           NEW d \in Days
    PROVE  /\ runs'[d] <= swept'[d] + Cardinality(Counting(d))' + faults'
           /\ runs'[d] + Cardinality(Running(d))' <= DailyCap + faults' + Spare(d)'
<1>. SweepTyped
    BY DEF SweepInv
<1>1. PICK q \in Tick : /\ tick' = [tick EXCEPT ![w] = q] /\ q.day = tick[w].day
                        /\ q.at = "next" \/ (q.at = "acquire" /\ n < DailyCap)
    BY SweepSteps
<1>2. /\ UNCHANGED <<runs, swept, ran>> /\ At(w, "next")
      /\ \/ n = swept[tick[w].day] /\ faults' = faults
         \/ faults' = faults + 1
    BY DEF Check, Waits, Sees, RedisFails, RedisWorks, redis, history
<1>3. Owes(q, d) = 0 /\ Owes(tick[w], d) = 0 /\ Lets(tick[w], d) = 0
    BY <1>1, <1>2 DEF Owes, Lets, Is, At
<1>4. Spare(d) \in Nat /\ Spare(d)' = Spare(d)
    BY <1>2, SpareGrows DEF Spare
<1>7. /\ Cardinality(Running(d)) \in Nat /\ Cardinality(Counting(d)) \in Nat
      /\ Cardinality(Running(d))' = Cardinality(Running(d)) + Lets(q, d) - Lets(tick[w], d)
      /\ Cardinality(Counting(d))' = Cardinality(Counting(d)) + Owes(q, d) - Owes(tick[w], d)
      /\ runs[d] \in Nat /\ swept[d] \in Nat /\ faults \in Nat /\ DailyCap \in Nat
    BY <1>1, Books
<1>8. /\ runs[d] <= swept[d] + Cardinality(Counting(d)) + faults
      /\ runs[d] + Cardinality(Running(d)) <= DailyCap + faults + Spare(d)
    BY DEF SweepInv, Counted, Capped
<1>5. CASE Lets(q, d) = 0
    BY <1>1, <1>2, <1>3, <1>4, <1>5, <1>7, <1>8
<1>6. CASE Lets(q, d) # 0
    <2>1. Lets(q, d) = 1 /\ tick[w].day = d /\ n < DailyCap
        BY <1>1, <1>6 DEF Lets, Is
    <2>2. CASE faults' = faults + 1
        BY <1>1, <1>2, <1>3, <1>4, <2>1, <2>2, <1>7, <1>8
    <2>3. CASE n = swept[d] /\ faults' = faults
        <3>1. Cardinality(Running(d)) + Cardinality(Counting(d)) <= Spare(d)
            BY <1>2, <2>1, OthersOfTheDay
        <3>2. runs[d] <= swept[d] + Cardinality(Counting(d)) + faults
            BY DEF SweepInv, Counted
        <3>. QED BY <1>1, <1>2, <1>3, <1>4, <2>1, <2>3, <3>1, <3>2, <1>7
    <2>. QED BY <1>2, <2>1, <2>2, <2>3
<1>. QED BY <1>5, <1>6

LEMMA WorkerCapped ==
    ASSUME SweepInv, SweepTyped', NEW w \in Workers, WorkerStep(w), NEW d \in Days
    PROVE  /\ runs'[d] <= swept'[d] + Cardinality(Counting(d))' + faults'
           /\ runs'[d] + Cardinality(Running(d))' <= DailyCap + faults' + Spare(d)'
<1>. SweepTyped
    BY DEF SweepInv
<1>0. /\ runs[d] <= swept[d] + Cardinality(Counting(d)) + faults
      /\ runs[d] + Cardinality(Running(d)) <= DailyCap + faults + Spare(d)
      /\ faults \in Nat
    BY SchedulerAssumption DEF SweepInv, Counted, Capped, SweepTyped, TypeOK
<1> DEFINE Goal == /\ runs'[d] <= swept'[d] + Cardinality(Counting(d))' + faults'
                   /\ runs'[d] + Cardinality(Running(d))' <= DailyCap + faults' + Spare(d)'
<1>3. Spare(d) \in Nat
    <2>1. ran[d] \in SUBSET Workers
        BY DEF SweepTyped, TypeOK
    <2>2. IsFiniteSet(ran[d])
        BY <2>1, SchedulerAssumption, FS_Subset
    <2>. QED BY <2>2, FS_CardinalityType DEF Spare
<1>1. ASSUME NEW n \in Counts, Begin(w, n) PROVE Goal
    <2>1. PICK q \in Tick : tick' = [tick EXCEPT ![w] = q] /\ q.at = "next" /\ q.day = today
        BY <1>1, SweepSteps
    <2>2. Lets(q, d) = 0 /\ Owes(q, d) = 0 /\ Lets(tick[w], d) = 0 /\ Owes(tick[w], d) = 0
        BY <1>1, <2>1 DEF Begin, At, Lets, Owes, Is
    <2>3. UNCHANGED <<runs, swept>> /\ faults' >= faults /\ faults' \in Nat /\ ran[d] \subseteq ran'[d]
        BY <1>1, FaultsTyped, SchedulerAssumption DEF Begin, Sees, redis, SweepTyped, TypeOK
    <2>5. /\ Cardinality(Running(d)) \in Nat /\ Cardinality(Counting(d)) \in Nat
          /\ Cardinality(Running(d))' = Cardinality(Running(d)) + Lets(q, d) - Lets(tick[w], d)
          /\ Cardinality(Counting(d))' = Cardinality(Counting(d)) + Owes(q, d) - Owes(tick[w], d)
          /\ runs[d] \in Nat /\ swept[d] \in Nat /\ faults \in Nat /\ DailyCap \in Nat
        BY <2>1, Books
    <2>6. Spare(d)' \in Nat /\ Spare(d) <= Spare(d)'
        BY <2>3, SpareGrows
    <2>. QED BY <1>0, <1>3, <2>2, <2>3, <2>5, <2>6
<1>2. ASSUME NEW n \in Counts, \E on \in BOOLEAN : Check(w, on, n) PROVE Goal
    BY <1>2, CheckCapped
<1>4. ASSUME Acquire(w) PROVE Goal
    <2>1. PICK q \in Tick : /\ tick' = [tick EXCEPT ![w] = q] /\ q.day = tick[w].day
                            /\ q.at \in {"run", "next"}
        BY <1>4, SweepSteps
    <2>2. Lets(q, d) <= Lets(tick[w], d) /\ Owes(q, d) = 0 /\ Owes(tick[w], d) = 0
        BY <1>4, <2>1 DEF Acquire, At, Lets, Owes, Is
    <2>3. UNCHANGED <<runs, swept, ran, faults>>
        BY <1>4 DEF Acquire
    <2>4. Lets(q, d) \in Nat /\ Lets(tick[w], d) \in Nat
        BY DEF Lets, Is
    <2>5. /\ Cardinality(Running(d)) \in Nat /\ Cardinality(Counting(d)) \in Nat
          /\ Cardinality(Running(d))' = Cardinality(Running(d)) + Lets(q, d) - Lets(tick[w], d)
          /\ Cardinality(Counting(d))' = Cardinality(Counting(d)) + Owes(q, d) - Owes(tick[w], d)
          /\ runs[d] \in Nat /\ swept[d] \in Nat /\ faults \in Nat /\ DailyCap \in Nat
        BY <2>1, Books
    <2>6. Spare(d)' \in Nat /\ Spare(d) <= Spare(d)'
        BY <2>3, SpareGrows DEF SweepTyped, TypeOK
    <2>. QED BY <1>0, <1>3, <2>1, <2>2, <2>3, <2>4, <2>5, <2>6
<1>5. ASSUME RunReturns(w) PROVE Goal
    <2>1. PICK q \in Tick : /\ tick' = [tick EXCEPT ![w] = q] /\ q.day = tick[w].day
                            /\ q.at = "count"
        BY <1>5, SweepSteps
    <2>2. /\ Lets(q, d) = 0 /\ Lets(tick[w], d) = (IF tick[w].day = d THEN 1 ELSE 0)
          /\ Owes(tick[w], d) = 0 /\ Owes(q, d) = Lets(tick[w], d)
        BY <1>5, <2>1 DEF RunReturns, At, Lets, Owes, Is
    <2>3. UNCHANGED <<swept, ran, faults>> /\ runs'[d] = runs[d] + Lets(tick[w], d)
        BY <1>5, <2>2 DEF RunReturns, redis, SweepTyped, TypeOK
    <2>5. /\ Cardinality(Running(d)) \in Nat /\ Cardinality(Counting(d)) \in Nat
          /\ Cardinality(Running(d))' = Cardinality(Running(d)) + Lets(q, d) - Lets(tick[w], d)
          /\ Cardinality(Counting(d))' = Cardinality(Counting(d)) + Owes(q, d) - Owes(tick[w], d)
          /\ runs[d] \in Nat /\ swept[d] \in Nat /\ faults \in Nat /\ DailyCap \in Nat
        BY <2>1, Books
    <2>6. Spare(d)' \in Nat /\ Spare(d) <= Spare(d)'
        BY <2>3, SpareGrows DEF SweepTyped, TypeOK
    <2>. QED BY <1>0, <1>3, <2>1, <2>2, <2>3, <2>5, <2>6
<1>6. ASSUME RunRaises(w) PROVE Goal
    <2>1. PICK q \in Tick : tick' = [tick EXCEPT ![w] = q] /\ q.day = tick[w].day /\ q.at = "next"
        BY <1>6, SweepSteps
    <2>2. Lets(q, d) = 0 /\ Lets(tick[w], d) \in Nat /\ Owes(q, d) = 0 /\ Owes(tick[w], d) = 0
        BY <1>6, <2>1 DEF RunRaises, At, Lets, Owes, Is
    <2>3. UNCHANGED <<runs, swept, ran, faults>>
        BY <1>6 DEF RunRaises, redis, history
    <2>5. /\ Cardinality(Running(d)) \in Nat /\ Cardinality(Counting(d)) \in Nat
          /\ Cardinality(Running(d))' = Cardinality(Running(d)) + Lets(q, d) - Lets(tick[w], d)
          /\ Cardinality(Counting(d))' = Cardinality(Counting(d)) + Owes(q, d) - Owes(tick[w], d)
          /\ runs[d] \in Nat /\ swept[d] \in Nat /\ faults \in Nat /\ DailyCap \in Nat
        BY <2>1, Books
    <2>6. Spare(d)' \in Nat /\ Spare(d) <= Spare(d)'
        BY <2>3, SpareGrows DEF SweepTyped, TypeOK
    <2>. QED BY <1>0, <1>3, <2>1, <2>2, <2>3, <2>5, <2>6
<1>7. ASSUME Count(w) PROVE Goal
    <2>1. PICK q \in Tick : tick' = [tick EXCEPT ![w] = q] /\ q.day = tick[w].day /\ q.at = "next"
        BY <1>7, SweepSteps
    <2>2. /\ Lets(q, d) = 0 /\ Lets(tick[w], d) = 0 /\ Owes(q, d) = 0
          /\ Owes(tick[w], d) = (IF tick[w].day = d THEN 1 ELSE 0)
        BY <1>7, <2>1 DEF Count, At, Lets, Owes, Is
    <2>3. UNCHANGED <<runs, ran, faults>> /\ swept'[d] = swept[d] + Owes(tick[w], d)
        BY <1>7, <2>2 DEF Count, history, SweepTyped, TypeOK
    <2>5. /\ Cardinality(Running(d)) \in Nat /\ Cardinality(Counting(d)) \in Nat
          /\ Cardinality(Running(d))' = Cardinality(Running(d)) + Lets(q, d) - Lets(tick[w], d)
          /\ Cardinality(Counting(d))' = Cardinality(Counting(d)) + Owes(q, d) - Owes(tick[w], d)
          /\ runs[d] \in Nat /\ swept[d] \in Nat /\ faults \in Nat /\ DailyCap \in Nat
        BY <2>1, Books
    <2>6. Spare(d)' \in Nat /\ Spare(d) <= Spare(d)'
        BY <2>3, SpareGrows DEF SweepTyped, TypeOK
    <2>. QED BY <1>0, <1>3, <2>1, <2>2, <2>3, <2>5, <2>6
<1>8. ASSUME RunOverBudget(w) \/ Finish(w) \/ Break(w) PROVE Goal
    <2>1. PICK q \in Tick : tick' = [tick EXCEPT ![w] = q] /\ q.at = "asleep"
        BY <1>8, SweepSteps
    <2>2. Lets(q, d) = 0 /\ Owes(q, d) = 0 /\ Lets(tick[w], d) \in {0, 1} /\ Owes(tick[w], d) \in {0, 1}
        BY <2>1 DEF Lets, Owes, Is
    <2>3. Owes(tick[w], d) = 0 \/ faults' = faults + 1
        BY <1>8 DEF RunOverBudget, Finish, Break, At, Owes, Is, RedisFails
    <2>4. UNCHANGED <<runs, swept, ran>> /\ (faults' = faults \/ faults' = faults + 1)
        BY <1>8 DEF RunOverBudget, Finish, Break, RedisFails, redis, history
    <2>5. /\ Cardinality(Running(d)) \in Nat /\ Cardinality(Counting(d)) \in Nat
          /\ Cardinality(Running(d))' = Cardinality(Running(d)) + Lets(q, d) - Lets(tick[w], d)
          /\ Cardinality(Counting(d))' = Cardinality(Counting(d)) + Owes(q, d) - Owes(tick[w], d)
          /\ runs[d] \in Nat /\ swept[d] \in Nat /\ faults \in Nat /\ DailyCap \in Nat
        BY <2>1, Books
    <2>6. Spare(d)' \in Nat /\ Spare(d) <= Spare(d)'
        BY <2>4, SpareGrows
    <2>. QED BY <1>0, <1>3, <2>1, <2>2, <2>3, <2>4, <2>5, <2>6
<1>. QED BY <1>1, <1>2, <1>4, <1>5, <1>6, <1>7, <1>8 DEF WorkerStep

LEMMA CapStep == ASSUME SweepInv, SweepTyped', [Next]_vars PROVE Counted' /\ Capped'
<1>1. ASSUME NEW w \in Workers, WorkerStep(w) PROVE Counted' /\ Capped'
    BY <1>1, WorkerCapped DEF Counted, Capped
<1>2. ASSUME OtherStep \/ UNCHANGED vars PROVE Counted' /\ Capped'
    <2>1. UNCHANGED <<tick, swept, runs, ran, faults>>
        BY <1>2 DEF OtherStep, EventRun, WindowEnds, Toggle, NextDay, vars, redis, history
    <2>. QED BY <2>1 DEF SweepInv, Counted, Capped, Counting, Running, In, Spare
<1>. QED BY <1>1, <1>2 DEF Next, WorkerStep, OtherStep

-----------------------------------------------------------------------------
LEMMA SweepInitHolds == Init => SweepInv
<1>. SUFFICES ASSUME Init PROVE SweepInv
    OBVIOUS
<1>1. SweepTyped
    BY InitTyped
<1>2. Window
    BY DEF Init, Window
<1>3. ASSUME NEW d \in Days
      PROVE  /\ runs[d] = 0 /\ swept[d] = 0 /\ faults = 0 /\ Cardinality(Counting(d)) = 0
             /\ Cardinality(Running(d)) = 0 /\ Spare(d) = 0
    <2>1. Counting(d) = {} /\ Running(d) = {} /\ ran[d] = {}
        BY DEF Init, Counting, Running, In, Asleep
    <2>. QED BY <2>1, FS_EmptySet DEF Init, Spare
<1>. QED BY <1>1, <1>2, <1>3, SchedulerAssumption DEF SweepInv, Counted, Capped

LEMMA SweepAlways == Spec => []SweepInv
<1>1. SweepInv /\ [Next]_vars => SweepInv'
    <2>. SUFFICES ASSUME SweepInv, [Next]_vars PROVE SweepInv'
        OBVIOUS
    <2>1. SweepTyped'
        BY WorkerTyped, OtherTyped DEF SweepInv, Next, WorkerStep, OtherStep
    <2>. QED BY <2>1, WindowStep, CapStep DEF SweepInv
<1>. QED BY <1>1, SweepInitHolds, PTL DEF Spec

\* The sweep's state keeps its types.
THEOREM TypeCorrect == Spec => []TypeOK
<1>1. SweepInv => TypeOK
    BY DEF SweepInv, SweepTyped
<1>. QED BY <1>1, SweepAlways, PTL

\* _acquire_cooldown: one sweep of a customer per cooldown window.
THEOREM SweptOncePerWindow == Spec => []OneSweepPerWindow
<1>1. SweepInv => OneSweepPerWindow
    BY DEF SweepInv, Window, OneSweepPerWindow
<1>. QED BY <1>1, SweepAlways, PTL

\* run_scheduler_tick: how far a day's sweeps may exceed the cap.
THEOREM CapWithOvershoot == Spec => []SweepsWithinCap
<1>1. SweepInv => SweepsWithinCap
    <2>. SUFFICES ASSUME SweepInv, NEW d \in Days
                  PROVE  runs[d] <= DailyCap + faults + Spare(d)
        BY DEF SweepsWithinCap, Spare
    <2>1. Cardinality(Running(d)) \in Nat /\ runs[d] \in Nat
        BY InFinite DEF SweepInv, SweepTyped, TypeOK, Running
    <2>2. Spare(d) \in Int
        <3>1. IsFiniteSet(ran[d])
            BY SchedulerAssumption, FS_Subset DEF SweepInv, SweepTyped, TypeOK
        <3>. QED BY <3>1, FS_CardinalityType DEF Spare
    <2>3. runs[d] + Cardinality(Running(d)) <= DailyCap + faults + Spare(d)
        BY DEF SweepInv, Capped
    <2>. QED BY <2>1, <2>2, <2>3, SchedulerAssumption DEF SweepInv, SweepTyped, TypeOK
<1>. QED BY <1>1, SweepAlways, PTL

-----------------------------------------------------------------------------
(* The daily budget                                                        *)

\* The calls that runs already let past the guard may still make.
Allowance == {t \in Runs \X (1 .. MaxCalls) :
    run[t[1]].at = "calls" /\ run[t[1]].budget > 0 /\ t[2] > run[t[1]].calls}

\* The counter misses what could not be written; no budget in use is above the rail.
CounterInv ==
    /\ automated <= spent + budgetFaults
    /\ override <= BudgetMax
    /\ \A r \in Runs : run[r].budget <= BudgetMax

\* SpendUnderRail counts what is spent; this counts what may still be spent too.
RailInv == automated + Cardinality(Allowance) < BudgetMax + (Cardinality(Runs) + budgetFaults) * MaxCalls

BudgetInv == Budget!TypeOK /\ CounterInv /\ RailInv /\ Budget!ValueInForceAudited

\* Allowance is finite, and no larger than one full run for each run.
LEMMA BudgetCardinality == \A S : Budget!Cardinality(S) = Cardinality(S)
BY DEF Cardinality, Budget!Cardinality, IsFiniteSet, Budget!IsFiniteSet

LEMMA CallsBound ==
    ASSUME NEW A, A \subseteq Runs \X (1 .. MaxCalls)
    PROVE  /\ Cardinality(Runs) \in Nat
           /\ IsFiniteSet(A) /\ Cardinality(A) \in Nat
           /\ Cardinality(A) <= Cardinality(Runs) * MaxCalls
<1>1. IsFiniteSet(1 .. MaxCalls) /\ Cardinality(1 .. MaxCalls) = MaxCalls
    BY FS_Interval, PlatformAssumption
<1>2. /\ IsFiniteSet(Runs \X (1 .. MaxCalls))
      /\ Cardinality(Runs \X (1 .. MaxCalls)) = Cardinality(Runs) * MaxCalls
    BY <1>1, FS_Product, PlatformAssumption
<1>. QED BY <1>2, FS_Subset, FS_CardinalityType, PlatformAssumption

LEMMA AllowanceBound ==
    /\ Cardinality(Runs) \in Nat
    /\ IsFiniteSet(Allowance) /\ Cardinality(Allowance) \in Nat
    /\ Cardinality(Allowance) <= Cardinality(Runs) * MaxCalls
<1>1. Allowance \subseteq Runs \X (1 .. MaxCalls)
    BY DEF Allowance
<1>. QED BY <1>1, CallsBound

\* What a request or a run remembers has its type.
LEMMA BudgetTyped == ASSUME BudgetInv, Budget!Next PROVE Budget!TypeOK' /\ CounterInv'
<1>. USE PlatformAssumption, SchedulerAssumption
     DEF BudgetInv, CounterInv, Budget!TypeOK, Budget!settings, Budget!Works, Budget!Fails, Budget!Unset, Budget!Quiet, Budget!NoRun
<1>0. Budget!SpentMax \in Nat /\ BudgetMax <= Budget!SpentMax
    <2>1. \A m \in Nat, n \in Nat : (m + 1) * n \in Nat
        OBVIOUS
    <2>2. (Cardinality(Runs) + 1) * MaxCalls \in Nat
        BY <2>1, AllowanceBound
    <2>. QED BY <2>2, BudgetCardinality DEF Budget!SpentMax
<1>1. ASSUME NEW s \in Staff, NEW v \in Asked, Budget!SetOverride(s, v)
      PROVE  Budget!TypeOK' /\ CounterInv'
    BY <1>1 DEF Budget!SetOverride, Budget!Clamped
<1>2. ASSUME NEW s \in Staff, Budget!ClearOverride(s) PROVE Budget!TypeOK' /\ CounterInv'
    BY <1>2 DEF Budget!ClearOverride
<1>8. ASSUME NEW s \in Staff, Budget!AuditChange(s) PROVE Budget!TypeOK' /\ CounterInv'
    <2>1. patch[s].new \in Int
        OBVIOUS
    <2>2. audited' \subseteq Int
        BY <1>8, <2>1 DEF Budget!AuditChange
    <2>3. patch' \in [Staff -> [at : {"idle", "audit"}, new : Int]]
        BY <1>8 DEF Budget!AuditChange
    <2>. QED BY <1>8, <2>2, <2>3 DEF Budget!AuditChange
<1>9. ASSUME NEW s \in Staff, Budget!LoseAudit(s) PROVE Budget!TypeOK' /\ CounterInv'
    BY <1>9, <1>0 DEF Budget!LoseAudit
<1>3. ASSUME NEW r \in Runs, Budget!ReadBudget(r) PROVE Budget!TypeOK' /\ CounterInv'
    <2>1. Budget!Effective \in Int /\ Budget!Effective <= BudgetMax
        BY DEF Budget!Effective
    <2>. QED BY <1>3, <2>1 DEF Budget!ReadBudget
<1>4. ASSUME NEW r \in Runs, Budget!CheckSpent(r) PROVE Budget!TypeOK' /\ CounterInv'
    BY <1>4 DEF Budget!CheckSpent
<1>5. ASSUME NEW r \in Runs, Budget!Call(r) PROVE Budget!TypeOK' /\ CounterInv'
    BY <1>5, <1>0 DEF Budget!Call
<1>6. ASSUME NEW r \in Runs, Budget!RunEnds(r) PROVE Budget!TypeOK' /\ CounterInv'
    BY <1>6 DEF Budget!RunEnds
<1>7. ASSUME Budget!Chat PROVE Budget!TypeOK' /\ CounterInv'
    BY <1>7, <1>0 DEF Budget!Chat
<1>10. ASSUME Budget!Midnight PROVE Budget!TypeOK' /\ CounterInv'
    BY <1>10, <1>0 DEF Budget!Midnight
<1>. QED
    BY <1>1, <1>2, <1>3, <1>4, <1>5, <1>6, <1>7, <1>8, <1>9, <1>10 DEF Budget!Next

LEMMA AuditStep == ASSUME BudgetInv, Budget!Next PROVE Budget!ValueInForceAudited'
<1>. USE DEF BudgetInv, Budget!TypeOK, Budget!ValueInForceAudited, Budget!settings, Budget!Works, Budget!Fails
<1>1. ASSUME NEW s \in Staff, NEW v \in Asked, Budget!SetOverride(s, v) PROVE Budget!ValueInForceAudited'
    BY <1>1 DEF Budget!SetOverride
<1>2. ASSUME NEW s \in Staff, Budget!ClearOverride(s) PROVE Budget!ValueInForceAudited'
    BY <1>2 DEF Budget!ClearOverride
<1>3. ASSUME NEW s \in Staff, Budget!AuditChange(s) PROVE Budget!ValueInForceAudited'
    BY <1>3 DEF Budget!AuditChange
<1>4. ASSUME NEW s \in Staff, Budget!LoseAudit(s) PROVE Budget!ValueInForceAudited'
    BY <1>4 DEF Budget!LoseAudit
<1>5. ASSUME NEW r \in Runs, Budget!ReadBudget(r) \/ Budget!CheckSpent(r) \/ Budget!Call(r) \/ Budget!RunEnds(r)
      PROVE  Budget!ValueInForceAudited'
    BY <1>5 DEF Budget!ReadBudget, Budget!CheckSpent, Budget!Call, Budget!RunEnds
<1>6. ASSUME Budget!Chat \/ Budget!Midnight PROVE Budget!ValueInForceAudited'
    BY <1>6 DEF Budget!Chat, Budget!Midnight
<1>. QED
    BY <1>1, <1>2, <1>3, <1>4, <1>5, <1>6 DEF Budget!Next

\* The allowance changes only where a run is let past the guard, calls, or ends.
LEMMA RailStep == ASSUME BudgetInv, Budget!Next PROVE RailInv'
<1>. USE PlatformAssumption, SchedulerAssumption, AllowanceBound
     DEF BudgetInv, Budget!settings, Budget!Works, Budget!Fails
<1>. DEFINE R == Cardinality(Runs)
            C == Cardinality(Allowance)
<1>1. budgetFaults \in Nat /\ automated \in Nat /\ spent \in Nat /\ R \in Nat /\ C \in Nat
    BY DEF Budget!TypeOK
<1>2. /\ R * MaxCalls \in Nat /\ budgetFaults * MaxCalls \in Nat
      /\ (R + budgetFaults) * MaxCalls = R * MaxCalls + budgetFaults * MaxCalls
      /\ (R + (budgetFaults + 1)) * MaxCalls = (R + budgetFaults) * MaxCalls + MaxCalls
      /\ budgetFaults <= budgetFaults * MaxCalls
    BY <1>1
<1>3. ASSUME Allowance' \subseteq Allowance, automated' <= automated, automated' \in Nat,
             budgetFaults' \in {budgetFaults, budgetFaults + 1}
      PROVE  RailInv'
    <2>1. Cardinality(Allowance') \in Nat /\ Cardinality(Allowance') <= C
        BY <1>3, FS_Subset, FS_CardinalityType
    <2>. QED BY <1>1, <1>2, <1>3, <2>1 DEF RailInv
<1>4. ASSUME NEW s \in Staff,
             \/ \E v \in Asked : Budget!SetOverride(s, v)
             \/ Budget!ClearOverride(s) \/ Budget!AuditChange(s) \/ Budget!LoseAudit(s)
      PROVE  RailInv'
    BY <1>1, <1>3, <1>4 DEF Budget!SetOverride, Budget!ClearOverride, Budget!AuditChange, Budget!LoseAudit, Allowance
<1>5. ASSUME NEW r \in Runs, Budget!ReadBudget(r) PROVE RailInv'
    <2>1. Allowance' \subseteq Allowance
        BY <1>5 DEF Budget!ReadBudget, Budget!TypeOK, Allowance
    <2>. QED BY <1>1, <1>3, <1>5, <2>1 DEF Budget!ReadBudget
<1>6. ASSUME NEW r \in Runs, Budget!CheckSpent(r) PROVE RailInv'
    <2>. DEFINE Full == {r} \X (1 .. MaxCalls)
    <2>1. IsFiniteSet(Full) /\ Cardinality(Full) = MaxCalls
        <3>1. IsFiniteSet(1 .. MaxCalls) /\ Cardinality(1 .. MaxCalls) = MaxCalls
            BY FS_Interval
        <3>2. IsFiniteSet({r}) /\ Cardinality({r}) = 1
            BY FS_Singleton
        <3>3. /\ IsFiniteSet({r} \X (1 .. MaxCalls))
              /\ Cardinality({r} \X (1 .. MaxCalls)) = Cardinality({r}) * Cardinality(1 .. MaxCalls)
            BY <3>1, <3>2, FS_Product
        <3>. QED BY <3>1, <3>2, <3>3
    <2>2. CASE run' = [run EXCEPT ![r] = Budget!NoRun]
        <3>1. Allowance' \subseteq Allowance
            BY <2>2 DEF Budget!TypeOK, Allowance, Budget!NoRun
        <3>. QED BY <1>1, <1>3, <1>6, <3>1 DEF Budget!CheckSpent
    <2>3. CASE run' = [run EXCEPT ![r].at = "calls"]
        <3>1. /\ Allowance' \subseteq Allowance \cup Full
              /\ run[r].budget <= 0 => Allowance' \subseteq Allowance
            BY <2>3 DEF Budget!TypeOK, Allowance
        <3>2. /\ automated' = automated /\ UNCHANGED spent
              /\ \/ budgetFaults' = budgetFaults /\ (run[r].budget <= 0 \/ spent < run[r].budget)
                 \/ budgetFaults' = budgetFaults + 1
            BY <1>1, <1>6, <2>3 DEF Budget!CheckSpent, Budget!OverBudget, Budget!TypeOK, Budget!NoRun
        <3>3. CASE run[r].budget <= 0
            BY <1>1, <1>3, <3>1, <3>2, <3>3
        <3>4. CASE budgetFaults' = budgetFaults /\ spent < run[r].budget
            <4>1. automated <= BudgetMax - 1 + budgetFaults
                BY <1>1, <3>4 DEF CounterInv, Budget!TypeOK
            <4>2. Cardinality(Allowance') \in Nat /\ Cardinality(Allowance') <= R * MaxCalls
                <5>1. Allowance' \subseteq Runs \X (1 .. MaxCalls)
                    BY DEF Allowance
                <5>. QED BY <5>1, CallsBound
            <4>. QED BY <1>1, <1>2, <3>2, <3>4, <4>1, <4>2 DEF RailInv
        <3>5. CASE budgetFaults' = budgetFaults + 1
            <4>1. IsFiniteSet(Allowance \cup Full) /\ Cardinality(Allowance \cup Full) <= C + MaxCalls
                <5>1. Cardinality(Allowance \cap Full) \in Nat
                    BY FS_Intersection, FS_CardinalityType
                <5>2. /\ IsFiniteSet(Allowance \cup Full)
                      /\ Cardinality(Allowance \cup Full) = C + Cardinality(Full) - Cardinality(Allowance \cap Full)
                    BY <2>1, FS_Union
                <5>. QED BY <1>1, <2>1, <5>1, <5>2
            <4>2. Cardinality(Allowance') \in Nat /\ Cardinality(Allowance') <= C + MaxCalls
                BY <1>1, <3>1, <4>1, FS_Subset, FS_CardinalityType
            <4>. QED BY <1>1, <1>2, <3>2, <3>5, <4>2 DEF RailInv
        <3>. QED BY <3>2, <3>3, <3>4, <3>5
    <2>. QED BY <1>6, <2>2, <2>3 DEF Budget!CheckSpent
<1>7. ASSUME NEW r \in Runs, Budget!Call(r) PROVE RailInv'
    <2>. DEFINE t == <<r, run[r].calls + 1>>
    <2>1. CASE run[r].budget > 0
        <3>1. t \in Allowance /\ Allowance' \subseteq Allowance \ {t}
            BY <1>7, <2>1 DEF Budget!Call, Budget!TypeOK, Allowance
        <3>2. Cardinality(Allowance') \in Nat /\ Cardinality(Allowance') <= C - 1
            BY <3>1, FS_RemoveElement, FS_Subset, FS_CardinalityType
        <3>. QED BY <1>1, <1>2, <1>7, <2>1, <3>2 DEF Budget!Call, RailInv
    <2>2. CASE ~(run[r].budget > 0)
        <3>1. Allowance' \subseteq Allowance
            BY <1>7, <2>2 DEF Budget!Call, Budget!TypeOK, Allowance
        <3>. QED BY <1>1, <1>3, <1>7, <2>2, <3>1 DEF Budget!Call
    <2>. QED BY <2>1, <2>2
<1>8. ASSUME NEW r \in Runs, Budget!RunEnds(r) PROVE RailInv'
    <2>1. Allowance' \subseteq Allowance
        BY <1>8 DEF Budget!RunEnds, Budget!TypeOK, Budget!NoRun, Allowance
    <2>. QED BY <1>1, <1>3, <1>8, <2>1 DEF Budget!RunEnds
<1>9. ASSUME Budget!Chat \/ Budget!Midnight PROVE RailInv'
    BY <1>1, <1>3, <1>9 DEF Budget!Chat, Budget!Midnight, Allowance
<1>. QED
    BY <1>4, <1>5, <1>6, <1>7, <1>8, <1>9 DEF Budget!Next

LEMMA BudgetInitInv == AllInit => BudgetInv
<1>. SUFFICES ASSUME AllInit PROVE BudgetInv
    OBVIOUS
<1>. USE PlatformAssumption, AllowanceBound
     DEF AllInit, Budget!Init, Budget!Unset, Budget!Quiet, Budget!NoRun
<1>1. Allowance = {}
    BY DEF Allowance
<1>2. Cardinality(Allowance) = 0
    BY <1>1, FS_EmptySet
<1>3. 0 \in 0 .. Budget!SpentMax /\ 0 \in 0 .. Budget!SpentMax + MaxFaults
    <2>1. \A m \in Nat, n \in Nat : (m + 1) * n \in Nat
        OBVIOUS
    <2>2. (Cardinality(Runs) + 1) * MaxCalls \in Nat
        BY <2>1
    <2>. QED BY <2>2, BudgetCardinality, SchedulerAssumption DEF Budget!SpentMax
<1>4. Budget!TypeOK
    BY <1>3, SchedulerAssumption DEF Budget!TypeOK
<1>5. RailInv
    <2>1. Cardinality(Runs) * MaxCalls \in Nat
        OBVIOUS
    <2>. QED BY <1>2, <2>1 DEF RailInv
<1>. QED BY <1>4, <1>5 DEF BudgetInv, CounterInv, Budget!ValueInForceAudited

\* A step of the platform is a step of the budget or leaves it alone.
LEMMA BudgetStep == BudgetInv /\ [AllNext]_allVars => BudgetInv'
<1>. SUFFICES ASSUME BudgetInv, [AllNext]_allVars PROVE BudgetInv'
    OBVIOUS
<1>1. Budget!Next \/ UNCHANGED budgetVars
    BY DEF AllNext, allVars
<1>2. CASE Budget!Next
    BY <1>2, BudgetTyped, AuditStep, RailStep DEF BudgetInv
<1>3. CASE UNCHANGED budgetVars
    <2>1. Allowance' = Allowance
        BY <1>3 DEF budgetVars, Allowance
    <2>. QED
        BY <1>3, <2>1 DEF budgetVars, BudgetInv, CounterInv, RailInv, Budget!TypeOK, Budget!ValueInForceAudited
<1>. QED BY <1>1, <1>2, <1>3

LEMMA BudgetAlways == AllSpec => []BudgetInv
<1>. QED BY BudgetInitInv, BudgetStep, PTL DEF AllSpec

\* The automated runs of a day that have a budget spend less than the largest budget plus
\* the calls of the runs under way, and of one more for every failure (app/llm/budget.py).
THEOREM AutomatedSpendUnderRail == AllSpec => []SpendUnderRail
<1>1. BudgetInv => SpendUnderRail
    <2>. SUFFICES ASSUME BudgetInv PROVE SpendUnderRail
        OBVIOUS
    <2>. DEFINE Rail == BudgetMax + (Cardinality(Runs) + budgetFaults) * MaxCalls
    <2>1. automated \in Nat /\ budgetFaults \in Nat
        BY DEF BudgetInv, Budget!TypeOK
    <2>2. Rail \in Nat
        <3>1. \A m \in Nat, n \in Nat, k \in Nat : (m + n) * k \in Nat
            OBVIOUS
        <3>. QED BY <2>1, <3>1, AllowanceBound, PlatformAssumption
    <2>3. automated + Cardinality(Allowance) < Rail
        BY DEF BudgetInv, RailInv
    <2>4. automated < Rail
        <3>. HIDE DEF Rail
        <3>. QED BY <2>1, <2>2, <2>3, AllowanceBound
    <2>. QED BY <2>4, BudgetCardinality DEF SpendUnderRail, Budget!SpendUnderRail
<1>. QED BY <1>1, BudgetAlways, PTL

\* The budget in force is one the audit trail shows, or one whose audit is to come.
THEOREM BudgetInForceAudited == AllSpec => []ValueInForceAudited
<1>1. BudgetInv => ValueInForceAudited
    BY DEF BudgetInv, ValueInForceAudited
<1>. QED BY <1>1, BudgetAlways, PTL

-----------------------------------------------------------------------------
(* The router                                                              *)

\* What the caller has heard is from the provider being tried, once a delta came; a
\* broken stream that has spoken is not taken up by the next provider.
HeardInv ==
    /\ deltas \in Nat
    /\ deltas = 0 => heard = {}
    /\ Router!Trying /\ deltas > 0 => heard = {Head(chain)}
    /\ \E p : heard \subseteq {p}

LEMMA HeardStep == HeardInv /\ [AllNext]_allVars => HeardInv'
<1>. SUFFICES ASSUME HeardInv, [AllNext]_allVars PROVE HeardInv'
    OBVIOUS
<1>. USE DEF HeardInv, Router!Trying
<1>1. ASSUME NEW m, NEW p, Router!Begin(m, p) PROVE HeardInv'
    BY <1>1 DEF Router!Begin
<1>2. ASSUME Router!Delta PROVE HeardInv'
    <2>1. heard' = {Head(chain)} /\ deltas' = deltas + 1
        BY <1>2 DEF Router!Delta
    <2>. QED BY <1>2, <2>1 DEF Router!Delta
<1>3. ASSUME Router!Fail PROVE HeardInv'
    <2>1. CASE deltas = 0
        BY <1>3, <2>1 DEF Router!Fail, Router!CanSwitch
    <2>2. CASE deltas # 0
        BY <1>3, <2>2 DEF Router!Fail, Router!CanSwitch
    <2>. QED BY <2>1, <2>2
<1>4. ASSUME Router!Answer \/ Router!Abandon PROVE HeardInv'
    BY <1>4 DEF Router!Answer, Router!Abandon
<1>5. ASSUME NEW r, Router!Persist(r) \/ Router!LoseRow(r) PROVE HeardInv'
    BY <1>5 DEF Router!Persist, Router!LoseRow
<1>6. CASE UNCHANGED routerVars
    BY <1>6 DEF routerVars
<1>7. Router!Next \/ UNCHANGED routerVars
    BY DEF AllNext, allVars
<1>. QED BY <1>1, <1>2, <1>3, <1>4, <1>5, <1>6, <1>7 DEF Router!Next

\* The caller of one call gets the text of one provider, however they fail and whichever
\* providers there are (app/llm/router.py).
THEOREM StreamsHaveOneVoice == AllSpec => []OneVoice
<1>1. AllInit => HeardInv
    BY DEF AllInit, Router!Init, HeardInv, Router!Trying
<1>2. HeardInv => OneVoice
    <2>. SUFFICES ASSUME NEW p, heard \subseteq {p} PROVE Router!Cardinality(heard) <= 1
        BY DEF HeardInv, OneVoice, Router!OneVoice
    <2>1. Router!Cardinality(heard) = Cardinality(heard)
        BY DEF Cardinality, Router!Cardinality, IsFiniteSet, Router!IsFiniteSet
    <2>2. IsFiniteSet({p}) /\ Cardinality({p}) = 1
        BY FS_Singleton
    <2>3. Cardinality(heard) \in Nat /\ Cardinality(heard) <= 1
        BY <2>2, FS_Subset, FS_CardinalityType
    <2>. QED BY <2>1, <2>3
<1>. QED BY <1>1, <1>2, HeardStep, PTL DEF AllSpec

-----------------------------------------------------------------------------
(* Savings goals                                                           *)

\* The evaluators that will announce g when they commit.
Announcing(g) == {e \in Evaluators : g \in eval[e].todo \cup eval[e].flipped}

\* An evaluator that has seen g active counts against the announcements from then on:
\* once g is announced nobody sees it active again.
NoticeInv ==
    /\ \A e \in Evaluators : eval[e].at # "flip" => eval[e].todo = {} /\ eval[e].flipped = {}
    /\ \A g \in Goals :
        /\ row[g].status \in {"none", "active"} => notices[g] = 0
        /\ row[g].status = "achieved" => notices[g] >= 1
        /\ notices[g] + Cardinality(Announcing(g)) <= Cardinality(Evaluators)

GoalInv == Saving!TypeOK /\ NoticeInv

LEMMA AnnouncingBound ==
    ASSUME NEW A, A \subseteq Evaluators
    PROVE  /\ Cardinality(Evaluators) \in Nat
           /\ IsFiniteSet(A) /\ Cardinality(A) \in Nat
           /\ Cardinality(A) <= Cardinality(Evaluators)
BY FS_Subset, FS_CardinalityType, PlatformAssumption

\* Evaluators that have stopped announcing leave room for the rest.
LEMMA FewerAnnounce ==
    ASSUME NEW A, A \subseteq Evaluators, NEW B, B \subseteq A
    PROVE  Cardinality(B) <= Cardinality(A)
BY AnnouncingBound, FS_Subset

LEMMA GoalTyped == ASSUME GoalInv, Saving!Next PROVE Saving!TypeOK'
<1>0. Amount \in Nat /\ MaxBalance \in Nat /\ MinBaseline \in Int /\ MinBaseline <= 0
    BY PlatformAssumption
<1>. USE <1>0
     DEF GoalInv, Saving!TypeOK, Saving!database, Saving!NoEval, Saving!NoCreate, Saving!Status
<1>1. ASSUME NEW d \in {Amount, -Amount}, Saving!Move(d) PROVE Saving!TypeOK'
    BY <1>1 DEF Saving!Move
<1>2. ASSUME NEW c \in Creators, Saving!CountActive(c) \/ Saving!ReadBaseline(c) PROVE Saving!TypeOK'
    BY <1>2 DEF Saving!CountActive, Saving!ReadBaseline
<1>3. ASSUME NEW c \in Creators, NEW g \in Goals, Saving!Insert(c, g) PROVE Saving!TypeOK'
    <2>1. create[c].baseline \in MinBaseline .. MaxBalance
        OBVIOUS
    <2>2. row' \in [Goals -> [status : Saving!Status, baseline : MinBaseline .. MaxBalance]]
        BY <1>3, <2>1 DEF Saving!Insert
    <2>. QED BY <1>3, <2>2 DEF Saving!Insert
<1>. DEFINE Rec == [at : {"idle", "balance", "flip"}, balance : 0 .. MaxBalance,
                     todo : SUBSET Goals, flipped : SUBSET Goals]
<1>10. ASSUME NEW e \in Evaluators, NEW v \in Rec, eval' = [eval EXCEPT ![e] = v] PROVE eval' \in [Evaluators -> Rec]
    BY <1>10
<1>4. ASSUME NEW e \in Evaluators, Saving!ReadBalance(e) \/ Saving!RollBack(e) PROVE Saving!TypeOK'
    <2>1. Saving!NoEval \in Rec
        OBVIOUS
    <2>3. \A v \in Rec : [v EXCEPT !.at = "balance", !.balance = balance] \in Rec
        OBVIOUS
    <2>4. [Saving!NoEval EXCEPT !.at = "balance", !.balance = balance] \in Rec
        BY <2>1, <2>3
    <2>2. eval' \in [Evaluators -> Rec]
        BY <1>4, <1>10, <2>1, <2>4 DEF Saving!ReadBalance, Saving!RollBack
    <2>. QED BY <1>4, <2>2 DEF Saving!ReadBalance, Saving!RollBack
<1>5. ASSUME NEW e \in Evaluators, Saving!Load(e) PROVE Saving!TypeOK'
    BY ZenonT(60), <1>5 DEF Saving!Load, Saving!Considered, Saving!InStatus
<1>6. ASSUME NEW e \in Evaluators, NEW g \in Goals, Saving!Flip(e, g) PROVE Saving!TypeOK'
    <2>. DEFINE v == [eval[e] EXCEPT !.todo = @ \ {g}, !.flipped = @ \cup {g}]
    <2>1. v \in Rec /\ eval' = [eval EXCEPT ![e] = v]
        BY <1>6 DEF Saving!Flip
    <2>2. eval' \in [Evaluators -> Rec]
        BY <1>10, <2>1
    <2>. QED BY <1>6, <2>2 DEF Saving!Flip
<1>7. ASSUME NEW e \in Evaluators, Saving!Commit(e) PROVE Saving!TypeOK'
    <2>1. row' \in [Goals -> [status : Saving!Status, baseline : MinBaseline .. MaxBalance]]
        BY <1>7 DEF Saving!Commit
    <2>2. notices' \in [Goals -> Nat]
        BY <1>7 DEF Saving!Commit
    <2>. QED BY <1>7, <2>1, <2>2 DEF Saving!Commit
<1>8. ASSUME NEW g \in Goals, Saving!Transfer(g) PROVE Saving!TypeOK'
    <2>1. row[g].baseline - Amount \in MinBaseline .. MaxBalance /\ balance - Amount \in 0 .. MaxBalance
        BY <1>8 DEF Saving!Transfer
    <2>. QED BY <1>8, <2>1 DEF Saving!Transfer
<1>9. ASSUME NEW g \in Goals, Saving!Archive(g) \/ Saving!Delete(g) PROVE Saving!TypeOK'
    <2>1. row' \in [Goals -> [status : Saving!Status, baseline : MinBaseline .. MaxBalance]]
        BY <1>9 DEF Saving!Archive, Saving!Delete
    <2>. QED BY <1>9, <2>1 DEF Saving!Archive, Saving!Delete
<1>. QED
    BY <1>1, <1>2, <1>3, <1>4, <1>5, <1>6, <1>7, <1>8, <1>9 DEF Saving!Next

\* Only a load, which looks at goals nobody has announced, makes an evaluator announce more.
LEMMA NoticeStep == ASSUME GoalInv, Saving!Next PROVE NoticeInv'
<1>. USE DEF GoalInv, Saving!TypeOK, Saving!database, Saving!NoEval
<1>0. \A g \in Goals : /\ Announcing(g) \subseteq Evaluators /\ Announcing(g)' \subseteq Evaluators
                       /\ Cardinality(Announcing(g)) \in Nat /\ Cardinality(Announcing(g)') \in Nat
                       /\ Cardinality(Announcing(g)') <= Cardinality(Evaluators)
                       /\ Cardinality(Evaluators) \in Nat
    BY AnnouncingBound DEF Announcing
<1>1. ASSUME UNCHANGED <<notices, eval>>,
             \A g \in Goals : \/ row'[g].status = row[g].status
                              \/ row'[g].status \notin {"none", "active", "achieved"}
                              \/ row[g].status = "none" /\ row'[g].status = "active"
      PROVE  NoticeInv'
    BY <1>0, <1>1 DEF NoticeInv, Announcing
<1>2. ASSUME NEW d \in {Amount, -Amount}, Saving!Move(d) PROVE NoticeInv'
    BY <1>1, <1>2 DEF Saving!Move
<1>3. ASSUME NEW c \in Creators,
             Saving!CountActive(c) \/ Saving!ReadBaseline(c) \/ \E g \in Goals : Saving!Insert(c, g)
      PROVE  NoticeInv'
    BY <1>1, <1>3 DEF Saving!CountActive, Saving!ReadBaseline, Saving!Insert
<1>4. ASSUME NEW g \in Goals, Saving!Transfer(g) \/ Saving!Archive(g) \/ Saving!Delete(g) PROVE NoticeInv'
    <2>1. CASE Saving!Transfer(g)
        BY <1>1, <2>1 DEF Saving!Transfer
    <2>2. CASE Saving!Archive(g)
        BY <1>1, <2>2 DEF Saving!Archive
    <2>3. CASE Saving!Delete(g)
        BY <1>1, <2>3 DEF Saving!Delete
    <2>. QED BY <1>4, <2>1, <2>2, <2>3
<1>5. ASSUME NEW e \in Evaluators, UNCHANGED <<row, notices>>,
             NEW v, eval' = [eval EXCEPT ![e] = v],
             v.todo = {} /\ v.flipped = {}
      PROVE  NoticeInv'
    <2>1. \A g \in Goals : Announcing(g)' \subseteq Announcing(g)
        BY <1>5 DEF Announcing
    <2>2. \A g \in Goals : Cardinality(Announcing(g)') <= Cardinality(Announcing(g))
        BY <1>0, <2>1, FewerAnnounce
    <2>3. \A x \in Evaluators : eval'[x].at # "flip" => eval'[x].todo = {} /\ eval'[x].flipped = {}
        BY <1>5 DEF NoticeInv
    <2>. QED BY <1>0, <1>5, <2>2, <2>3 DEF NoticeInv
<1>6. ASSUME NEW e \in Evaluators, Saving!ReadBalance(e) \/ Saving!RollBack(e) PROVE NoticeInv'
    <2>1. CASE Saving!ReadBalance(e)
        <3>. DEFINE v == [Saving!NoEval EXCEPT !.at = "balance", !.balance = balance]
        <3>1. v.todo = {} /\ v.flipped = {} /\ eval' = [eval EXCEPT ![e] = v]
            BY <2>1 DEF Saving!ReadBalance
        <3>. HIDE DEF v
        <3>. QED BY <1>5, <2>1, <3>1 DEF Saving!ReadBalance
    <2>2. CASE Saving!RollBack(e)
        <3>. DEFINE v == Saving!NoEval
        <3>1. v.todo = {} /\ v.flipped = {} /\ eval' = [eval EXCEPT ![e] = v]
            BY <2>2 DEF Saving!RollBack
        <3>. HIDE DEF v
        <3>. QED BY <1>5, <2>2, <3>1 DEF Saving!RollBack
    <2>. QED BY <1>6, <2>1, <2>2
<1>7. ASSUME NEW e \in Evaluators, Saving!Load(e) PROVE NoticeInv'
    <2>1. UNCHANGED <<row, notices>>
        BY <1>7 DEF Saving!Load
    <2>2. \A x \in Evaluators : eval'[x].at # "flip" => eval'[x].todo = {} /\ eval'[x].flipped = {}
        BY <1>7 DEF Saving!Load, NoticeInv
    <2>3. ASSUME NEW g \in Goals
          PROVE  notices'[g] + Cardinality(Announcing(g)') <= Cardinality(Evaluators)
        <3>1. CASE row[g].status = "active"
            BY <1>0, <2>1, <3>1 DEF NoticeInv
        <3>2. CASE row[g].status # "active"
            <4>1. Announcing(g)' \subseteq Announcing(g)
                BY <1>7, <3>2 DEF Saving!Load, Saving!Considered, Saving!InStatus, Announcing, NoticeInv
            <4>2. Cardinality(Announcing(g)') <= Cardinality(Announcing(g))
                BY <1>0, <4>1, FewerAnnounce
            <4>. QED BY <1>0, <2>1, <4>2 DEF NoticeInv
        <3>. QED BY <3>1, <3>2
    <2>. QED BY <2>1, <2>2, <2>3 DEF NoticeInv
<1>8. ASSUME NEW e \in Evaluators, NEW g \in Goals, Saving!Flip(e, g) PROVE NoticeInv'
    <2>1. UNCHANGED <<row, notices>>
        BY <1>8 DEF Saving!Flip
    <2>2. \A x \in Evaluators : eval'[x].at # "flip" => eval'[x].todo = {} /\ eval'[x].flipped = {}
        BY <1>8 DEF Saving!Flip, NoticeInv
    <2>3. \A h \in Goals : Announcing(h)' = Announcing(h)
        BY <1>8 DEF Saving!Flip, Announcing
    <2>. QED BY <2>1, <2>2, <2>3 DEF NoticeInv
<1>9. ASSUME NEW e \in Evaluators, Saving!Commit(e) PROVE NoticeInv'
    <2>1. \A x \in Evaluators : eval'[x].at # "flip" => eval'[x].todo = {} /\ eval'[x].flipped = {}
        BY <1>9 DEF Saving!Commit, NoticeInv
    <2>2. ASSUME NEW g \in Goals
          PROVE  /\ row'[g].status \in {"none", "active"} => notices'[g] = 0
                 /\ row'[g].status = "achieved" => notices'[g] >= 1
                 /\ notices'[g] + Cardinality(Announcing(g)') <= Cardinality(Evaluators)
        <3>1. CASE g \in eval[e].flipped
            <4>1. row'[g].status = "achieved" /\ notices'[g] = notices[g] + 1
                BY <1>9, <3>1 DEF Saving!Commit
            <4>2. e \in Announcing(g) /\ Announcing(g)' \subseteq Announcing(g) \ {e}
                BY <1>9, <3>1 DEF Saving!Commit, Announcing
            <4>3. Cardinality(Announcing(g) \ {e}) = Cardinality(Announcing(g)) - 1
                BY <1>0, <4>2, AnnouncingBound, FS_RemoveElement
            <4>4. Cardinality(Announcing(g)') <= Cardinality(Announcing(g) \ {e})
                BY <1>0, <4>2, FewerAnnounce
            <4>. QED BY <1>0, <4>1, <4>3, <4>4 DEF NoticeInv
        <3>2. CASE g \notin eval[e].flipped
            <4>1. row'[g] = row[g] /\ notices'[g] = notices[g]
                BY <1>9, <3>2 DEF Saving!Commit
            <4>2. Announcing(g)' \subseteq Announcing(g)
                BY <1>9 DEF Saving!Commit, Announcing
            <4>3. Cardinality(Announcing(g)') <= Cardinality(Announcing(g))
                BY <1>0, <4>2, FewerAnnounce
            <4>. QED BY <1>0, <4>1, <4>3 DEF NoticeInv
        <3>. QED BY <3>1, <3>2
    <2>. QED BY <2>1, <2>2 DEF NoticeInv
<1>. QED
    BY <1>2, <1>3, <1>4, <1>6, <1>7, <1>8, <1>9 DEF Saving!Next

LEMMA GoalStep == GoalInv /\ [AllNext]_allVars => GoalInv'
<1>1. ASSUME GoalInv, Saving!Next PROVE GoalInv'
    BY <1>1, GoalTyped, NoticeStep DEF GoalInv
<1>2. ASSUME GoalInv, UNCHANGED goalVars PROVE GoalInv'
    BY <1>2 DEF goalVars, GoalInv, NoticeInv, Announcing, Saving!TypeOK
<1>. QED BY <1>1, <1>2 DEF AllNext, allVars

LEMMA GoalInit == AllInit => GoalInv
<1>. SUFFICES ASSUME AllInit PROVE GoalInv
    OBVIOUS
<1>. USE DEF AllInit, Saving!Init, Saving!NoEval, Saving!NoCreate
<1>1. Saving!TypeOK
    BY PlatformAssumption DEF Saving!TypeOK, Saving!Status
<1>2. \A g \in Goals : Announcing(g) \subseteq Evaluators
    BY DEF Announcing
<1>3. \A g \in Goals : Cardinality(Announcing(g)) <= Cardinality(Evaluators)
    BY <1>2, AnnouncingBound
<1>4. \A g \in Goals : Cardinality(Announcing(g)) \in Nat /\ Cardinality(Evaluators) \in Nat
    BY <1>2, AnnouncingBound
<1>. QED BY <1>1, <1>3, <1>4 DEF GoalInv, NoticeInv

LEMMA GoalAlways == AllSpec => []GoalInv
<1>. QED BY GoalInit, GoalStep, PTL DEF AllSpec

\* A goal that is achieved has been announced, and not more often than evaluators can have
\* seen it active together, however lists, agents and sweeps overlap (app/services/goals.py).
THEOREM GoalsAreAnnounced == AllSpec => []AnnouncedPerOverlap
<1>1. GoalInv => AnnouncedPerOverlap
    <2>. SUFFICES ASSUME GoalInv, NEW g \in Goals
                  PROVE  /\ row[g].status = "achieved" => notices[g] >= 1
                         /\ notices[g] <= Saving!Cardinality(Evaluators)
        BY DEF AnnouncedPerOverlap, Saving!AnnouncedPerOverlap
    <2>1. Saving!Cardinality(Evaluators) = Cardinality(Evaluators)
        BY DEF Cardinality, Saving!Cardinality, IsFiniteSet, Saving!IsFiniteSet
    <2>2. Cardinality(Announcing(g)) \in Nat /\ Cardinality(Evaluators) \in Nat /\ notices[g] \in Nat
        BY AnnouncingBound DEF Announcing, GoalInv, Saving!TypeOK
    <2>. QED BY <2>1, <2>2 DEF GoalInv, NoticeInv
<1>. QED BY <1>1, GoalAlways, PTL

-----------------------------------------------------------------------------
(* The demo data                                                           *)

HistoryInv == histories \in [Personas -> {0, 1}]

\* However resets, seeds and injections overlap, a persona has one history (app/seed.py).
THEOREM SeedsDoNotDuplicate == AllSpec => []OneHistoryPerPersona
<1>1. AllInit => HistoryInv
    BY DEF AllInit, DemoData!Init, HistoryInv
<1>2. HistoryInv /\ [AllNext]_allVars => HistoryInv'
    <2>. SUFFICES ASSUME HistoryInv, [AllNext]_allVars PROVE HistoryInv'
        OBVIOUS
    <2>. USE DEF HistoryInv, DemoData!database
    <2>1. ASSUME NEW s, DemoData!Truncate(s) PROVE HistoryInv'
        BY <2>1 DEF DemoData!Truncate
    <2>2. ASSUME NEW s, DemoData!InsertPersona(s) PROVE HistoryInv'
        BY <2>2 DEF DemoData!InsertPersona, DemoData!Taken
    <2>3. ASSUME NEW s,
                 \/ DemoData!StartSeed(s) \/ DemoData!Look(s) \/ DemoData!ExtraLeads(s)
                 \/ DemoData!DeleteStreams(s) \/ DemoData!DeleteKeys(s) \/ DemoData!SkipDelete(s)
          PROVE  HistoryInv'
        BY <2>3 DEF DemoData!StartSeed, DemoData!Look, DemoData!ExtraLeads, DemoData!DeleteStreams,
                    DemoData!DeleteKeys, DemoData!SkipDelete
    <2>4. ASSUME NEW p, DemoData!PublishInjection(p) \/ DemoData!CommitLabel(p) PROVE HistoryInv'
        BY <2>4 DEF DemoData!PublishInjection, DemoData!CommitLabel
    <2>5. ASSUME NEW r, DemoData!CountRows(r) \/ DemoData!PublishBurst(r) \/ DemoData!CommitLoad(r)
          PROVE  HistoryInv'
        BY <2>5 DEF DemoData!CountRows, DemoData!PublishBurst, DemoData!CommitLoad
    <2>6. ASSUME DemoData!Read \/ DemoData!Restart PROVE HistoryInv'
        BY <2>6 DEF DemoData!Read, DemoData!Restart
    <2>7. CASE UNCHANGED demoVars
        BY <2>7 DEF demoVars
    <2>8. DemoData!Next \/ UNCHANGED demoVars
        BY DEF AllNext, allVars
    <2>. QED BY <2>1, <2>2, <2>3, <2>4, <2>5, <2>6, <2>7, <2>8 DEF DemoData!Next
<1>3. HistoryInv => OneHistoryPerPersona
    BY DEF HistoryInv, OneHistoryPerPersona, DemoData!OneHistoryPerPersona
<1>. QED BY <1>1, <1>2, <1>3, PTL DEF AllSpec

-----------------------------------------------------------------------------
(* Funded debits                                                           *)
(*                                                                         *)
(* A day settles its proposals instant by instant.  A funding credit and   *)
(* the debit it funds carry one category and lie an instant apart, before  *)
(* anything else of the day, so that after each step the balance covers    *)
(* what is owed: the funded debits whose credit has come and which have    *)
(* not been paid.                                                          *)

Price == [booking |-> 2, installment |-> 3, venue |-> 3, jewellery |-> 2]

Category == Sim!Funded \cup {"baby", "fees", "bonus", "drain", "income", "rent", "bill", "emi", "spend"}
Proposal == [dir : {"credit", "debit"}, category : Category, amount : Nat, buffer : Nat,
             ts : Sim!Instants]
Txn      == [ts : Sim!Instants, dir : {"credit", "debit"}, amount : Nat]
Account  == [balance : Nat, txns : Seq(Txn), dropped : SUBSET Sim!Funded]

LEMMA ApplyTyped == ASSUME NEW acc \in Account, NEW p \in Proposal PROVE Sim!Apply(acc, p) \in Account
<1>. DEFINE amount == Sim!PaidAmount(p, acc.balance)
            after  == IF p.dir = "debit" THEN acc.balance - amount ELSE acc.balance + amount
            x == [ts |-> p.ts, dir |-> p.dir, amount |-> amount]
<1>1. amount \in Nat
    BY DEF Sim!PaidAmount, Sim!Share, Proposal, Account
<1>. HIDE DEF amount
<1>2. after \in Int /\ (p.dir # "debit" => after \in Nat)
    BY <1>1 DEF Proposal, Account
<1>3. x \in Txn
    BY <1>1 DEF Proposal, Txn
<1>4. Sim!Apply(acc, p) =
        IF amount <= 0 THEN acc
        ELSE IF p.dir = "debit" /\ after < p.buffer
        THEN [acc EXCEPT !.dropped = @ \cup ({p.category} \cap Sim!Funded)]
        ELSE [acc EXCEPT !.balance = after, !.txns = Append(@, x)]
    BY DEF Sim!Apply, amount
<1>5. p.buffer \in Nat
    BY DEF Proposal
<1>6. ASSUME after \in Nat PROVE [acc EXCEPT !.balance = after, !.txns = Append(@, x)] \in Account
    <2>1. Append(acc.txns, x) \in Seq(Txn)
        BY <1>3 DEF Account
    <2>. HIDE DEF after, x
    <2>. QED BY <1>6, <2>1 DEF Account
<1>7. [acc EXCEPT !.dropped = @ \cup ({p.category} \cap Sim!Funded)] \in Account
    BY DEF Account
<1>. HIDE DEF after, x
<1>. QED BY <1>2, <1>4, <1>5, <1>6, <1>7

\* One instant of a day.
Settling(f, acc, props, t) ==
    /\ f \in [0 .. Len(props) -> Account] /\ f[0] = acc
    /\ \A n \in 1 .. Len(props) :
          f[n] = IF props[n].ts = t THEN Sim!Apply(f[n - 1], props[n]) ELSE f[n - 1]

LEMMA SettleLoop ==
    ASSUME NEW props \in Seq(Proposal), NEW acc \in Account, NEW t
    PROVE  \E f : Settling(f, acc, props, t) /\ Sim!Settle(acc, props, t) = f[Len(props)]
<1>. DEFINE N == Len(props)
            step == [x \in (1 .. N) \X Account |->
                        IF props[x[1]].ts = t THEN Sim!Apply(x[2], props[x[1]]) ELSE x[2]]
            Eq(c) == c = [n \in 0 .. N |-> IF n = 0 THEN acc
                            ELSE IF props[n].ts = t THEN Sim!Apply(c[n - 1], props[n]) ELSE c[n - 1]]
            c == CHOOSE c : Eq(c)
<1>0. N \in Nat /\ \A n \in 1 .. N : props[n] \in Proposal
    OBVIOUS
<1>1. step \in [(1 .. N) \X Account -> Account]
    <2>. HIDE DEF N
    <2>. QED BY <1>0, ApplyTyped
<1>2. PICK f \in [0 .. N -> Account] : f[0] = acc /\ \A i \in 1 .. N : f[i] = step[<<i, f[i - 1]>>]
    <2>1. Recursion(Account, acc, N, step)
        <3>. HIDE DEF N, step
        <3>. QED BY <1>0, <1>1, PrimitiveRecursion
    <2>. HIDE DEF step, N
    <2>. QED BY <2>1 DEF Recursion
<1>3. \A i \in 1 .. N :
         f[i] = IF props[i].ts = t THEN Sim!Apply(f[i - 1], props[i]) ELSE f[i - 1]
    <2>. SUFFICES ASSUME NEW i \in 1 .. N
                  PROVE  f[i] = IF props[i].ts = t THEN Sim!Apply(f[i - 1], props[i]) ELSE f[i - 1]
        OBVIOUS
    <2>1. f[i - 1] \in Account
        BY <1>0, <1>2
    <2>. HIDE DEF N
    <2>. QED BY <1>2, <2>1
<1>4. Settling(f, acc, props, t)
    BY <1>2, <1>3 DEF Settling
<1>5. Eq(f)
    <2>. HIDE DEF step
    <2>. QED BY <1>2, <1>3
<1>6. Eq(c)
    <2>. HIDE DEF Eq
    <2>. QED BY <1>5
<1>7. Sim!Settle(acc, props, t) = c[N]
    BY DEF Sim!Settle
<1>8. c = f
    <2>. DEFINE S == {n \in Nat : n <= N => c[n] = f[n]}
    <2>1. 0 \in S
        <3>1. c[0] = acc
            <4>. HIDE DEF c
            <4>. QED BY <1>0, <1>6
        <3>. HIDE DEF c
        <3>. QED BY <1>2, <3>1
    <2>2. ASSUME NEW n \in Nat, n \in S PROVE n + 1 \in S
        <3>. SUFFICES ASSUME n + 1 <= N PROVE c[n + 1] = f[n + 1]
            OBVIOUS
        <3>1. n + 1 \in 1 .. N /\ n + 1 \in 0 .. N /\ n + 1 # 0 /\ (n + 1) - 1 = n
            BY <1>0
        <3>2. c[n] = f[n]
            BY <2>2, <1>0
        <3>3. c[n + 1] = IF props[n + 1].ts = t THEN Sim!Apply(c[n], props[n + 1]) ELSE c[n]
            <4>. HIDE DEF c, N
            <4>. QED BY <1>6, <3>1
        <3>. HIDE DEF c, N, step
        <3>. QED BY <1>3, <3>1, <3>2, <3>3
    <2>3. Nat \subseteq S
        <3>. HIDE DEF S
        <3>. QED BY <2>1, <2>2, Induct
    <2>. HIDE DEF c, N
    <2>4. \A n \in 0 .. N : c[n] = f[n]
        BY <1>0, <2>3
    <2>. QED BY <1>2, <1>6, <2>4
<1>. QED BY <1>4, <1>7, <1>8

\* A day from its first instant to its last.
Passing(f, props) ==
    /\ f \in [0 .. 6 -> Account]
    /\ f[0] = [balance |-> state.balance, txns |-> <<>>, dropped |-> {}]
    /\ \A t \in 1 .. 6 : f[t] = Sim!Settle(f[t - 1], props, t)

LEMMA SettleTyped ==
    ASSUME NEW props \in Seq(Proposal), NEW acc \in Account, NEW t
    PROVE  Sim!Settle(acc, props, t) \in Account
<1>1. PICK f : Settling(f, acc, props, t) /\ Sim!Settle(acc, props, t) = f[Len(props)]
    BY SettleLoop
<1>2. Len(props) \in 0 .. Len(props)
    OBVIOUS
<1>. QED BY <1>1, <1>2 DEF Settling

LEMMA DayLoop ==
    ASSUME NEW props \in Seq(Proposal), state.balance \in Nat
    PROVE  \E f : Passing(f, props) /\ Sim!Finalize(props) = f[6]
<1>. DEFINE start == [balance |-> state.balance, txns |-> <<>>, dropped |-> {}]
            step == [x \in (1 .. 6) \X Account |-> Sim!Settle(x[2], props, x[1])]
            Eq(c) == c = [t \in 0 .. 6 |-> IF t = 0 THEN start ELSE Sim!Settle(c[t - 1], props, t)]
            c == CHOOSE c : Eq(c)
<1>0. start \in Account
    BY DEF Account
<1>1. step \in [(1 .. 6) \X Account -> Account]
    BY SettleTyped
<1>2. PICK f \in [0 .. 6 -> Account] : f[0] = start /\ \A i \in 1 .. 6 : f[i] = step[<<i, f[i - 1]>>]
    <2>1. Recursion(Account, start, 6, step)
        <3>. HIDE DEF start, step
        <3>. QED BY <1>0, <1>1, PrimitiveRecursion
    <2>. HIDE DEF step, start
    <2>. QED BY <2>1 DEF Recursion
<1>3. \A t \in 1 .. 6 : f[t] = Sim!Settle(f[t - 1], props, t)
    <2>. SUFFICES ASSUME NEW t \in 1 .. 6 PROVE f[t] = Sim!Settle(f[t - 1], props, t)
        OBVIOUS
    <2>1. f[t - 1] \in Account
        BY <1>2
    <2>. QED BY <1>2, <2>1
<1>4. Passing(f, props)
    BY <1>2, <1>3 DEF Passing
<1>5. Eq(f)
    <2>. HIDE DEF step, start
    <2>. QED BY <1>2, <1>3
<1>6. Eq(c)
    <2>. HIDE DEF Eq
    <2>. QED BY <1>5
<1>7. Sim!Finalize(props) = c[6]
    BY DEF Sim!Finalize
<1>8. ASSUME NEW t \in 1 .. 6 PROVE c[t] = Sim!Settle(c[t - 1], props, t)
    <2>. HIDE DEF c, start
    <2>. QED BY <1>6
<1>9. c[6] = f[6]
    <2>0. c[0] = f[0]
        <3>. HIDE DEF c
        <3>. QED BY <1>2, <1>6
    <2>. HIDE DEF c, step, start
    <2>1. c[1] = f[1]
        BY <1>3, <1>8, <2>0
    <2>2. c[2] = f[2]
        BY <1>3, <1>8, <2>1
    <2>3. c[3] = f[3]
        BY <1>3, <1>8, <2>2
    <2>4. c[4] = f[4]
        BY <1>3, <1>8, <2>3
    <2>5. c[5] = f[5]
        BY <1>3, <1>8, <2>4
    <2>. QED BY <1>3, <1>8, <2>5
<1>. QED BY <1>4, <1>7, <1>9

\* What a day's proposals look like: a funding credit and its debit are the only ones of
\* their category, an instant apart; nothing else of the day comes before the fifth.
Orderly(q) ==
    /\ q \in Seq(Proposal)
    /\ \A i \in 1 .. Len(q) : q[i].category \in Sim!Funded =>
          q[i].amount = Price[q[i].category] /\ q[i].buffer = 0 /\ q[i].ts \in 2 .. 4
    /\ \A i, j \in 1 .. Len(q) :
          q[i].category \in Sim!Funded /\ q[j].category = q[i].category /\ q[j].dir = q[i].dir => i = j
    /\ \A i \in 1 .. Len(q) : q[i].category \in Sim!Funded =>
          \E j \in 1 .. Len(q) : /\ q[j].category = q[i].category /\ q[j].dir # q[i].dir
                                 /\ q[j].ts = IF q[i].dir = "credit" THEN q[i].ts + 1 ELSE q[i].ts - 1
    /\ \A i, j \in 1 .. Len(q) :
          q[i].category \in Sim!Funded /\ q[j].category \notin Sim!Funded => q[j].ts >= 5

\* What n proposals of instant t have made of the funded pairs.
Settled(q, dir, c, t, n) ==
    \E i \in 1 .. Len(q) : /\ q[i].dir = dir /\ q[i].category = c
                           /\ q[i].ts < t \/ (q[i].ts = t /\ i <= n)
Owing(q, c, t, n) ==
    IF Settled(q, "credit", c, t, n) /\ ~Settled(q, "debit", c, t, n) THEN Price[c] ELSE 0
Total(f) == f["booking"] + f["installment"] + f["venue"] + f["jewellery"]
Owed(q, t, n) == Total([c \in Sim!Funded |-> Owing(q, c, t, n)])
Covered(q, acc, t, n) == acc.dropped = {} /\ acc.balance >= Owed(q, t, n)

LEMMA Prices == \A c \in Sim!Funded : Price[c] \in 2 .. 3
BY DEF Sim!Funded, Price

LEMMA OwesTyped ==
    ASSUME NEW q, NEW c \in Sim!Funded, NEW t, NEW n
    PROVE  Owing(q, c, t, n) \in {0, Price[c]} /\ Owing(q, c, t, n) \in Nat
BY Prices DEF Owing

LEMMA OneOfTotal ==
    ASSUME NEW f \in [Sim!Funded -> Nat], NEW g \in [Sim!Funded -> Nat], NEW c \in Sim!Funded,
           \A e \in Sim!Funded : e # c => f[e] = g[e]
    PROVE  Total(f) \in Nat /\ Total(g) \in Nat /\ Total(f) = Total(g) + (f[c] - g[c])
<1>. USE DEF Sim!Funded, Total
<1>1. CASE c = "booking"
    BY <1>1
<1>2. CASE c = "installment"
    BY <1>2
<1>3. CASE c = "venue"
    BY <1>3
<1>4. CASE c = "jewellery"
    BY <1>4
<1>. QED BY <1>1, <1>2, <1>3, <1>4

\* How the next proposal moves what is owed in its category, and in the others.
LEMMA OwesMoves ==
    ASSUME NEW q, Orderly(q), NEW t \in 1 .. 6, NEW n \in 1 .. Len(q), NEW c \in Sim!Funded
    PROVE  /\ q[n].category # c \/ q[n].ts # t => Owing(q, c, t, n) = Owing(q, c, t, n - 1)
           /\ q[n].category = c /\ q[n].ts = t /\ q[n].dir = "debit" =>
                Owing(q, c, t, n) = 0 /\ Owing(q, c, t, n - 1) = Price[c]
           /\ q[n].category \notin Sim!Funded /\ q[n].ts = t => Owing(q, c, t, n) = 0
<1>. DEFINE Has(dir, k) == Settled(q, dir, c, t, k)
<1>0. /\ Len(q) \in Nat
      /\ \A i \in 1 .. Len(q) : q[i].ts \in 1 .. 6 /\ q[i].dir \in {"credit", "debit"}
    <2>1. \A i \in 1 .. Len(q) : q[i] \in Proposal
        BY DEF Orderly
    <2>2. q \in Seq(Proposal)
        BY DEF Orderly
    <2>3. Len(q) \in Nat
        BY <2>2
    <2>. QED BY <2>1, <2>3 DEF Proposal, Sim!Instants
<1>1. ASSUME q[n].category # c \/ q[n].ts # t, NEW dir PROVE Has(dir, n) <=> Has(dir, n - 1)
    BY <1>0, <1>1 DEF Settled
<1>2. ASSUME q[n].category = c, q[n].ts = t, q[n].dir = "debit"
      PROVE  Has("debit", n) /\ Has("credit", n - 1) /\ ~Has("debit", n - 1)
    <2>1. Has("debit", n)
        BY <1>0, <1>2 DEF Settled
    <2>2. Has("credit", n - 1)
        <3>1. PICK j \in 1 .. Len(q) : q[j].category = c /\ q[j].dir # "debit" /\ q[j].ts = t - 1
            BY <1>2 DEF Orderly
        <3>. QED BY <1>0, <3>1 DEF Settled
    <2>3. ~Has("debit", n - 1)
        <3>1. ASSUME NEW i \in 1 .. Len(q), q[i].dir = "debit", q[i].category = c PROVE i = n
            BY <1>2, <3>1 DEF Orderly
        <3>. QED BY <1>0, <1>2, <3>1 DEF Settled
    <2>. QED BY <2>1, <2>2, <2>3
<1>3. ASSUME q[n].category \notin Sim!Funded, q[n].ts = t, Has("credit", n) PROVE Has("debit", n)
    <2>1. PICK i \in 1 .. Len(q) : q[i].dir = "credit" /\ q[i].category = c
        BY <1>3 DEF Settled
    <2>2. t >= 5
        BY <1>3, <2>1 DEF Orderly
    <2>3. PICK j \in 1 .. Len(q) : q[j].category = c /\ q[j].dir # "credit"
        BY <2>1 DEF Orderly
    <2>4. q[j].ts \in 2 .. 4
        BY <2>3 DEF Orderly
    <2>. QED BY <1>0, <2>2, <2>3, <2>4 DEF Settled
<1>. HIDE DEF Has
<1>4. \A k : Owing(q, c, t, k) = IF Has("credit", k) /\ ~Has("debit", k) THEN Price[c] ELSE 0
    BY DEF Owing, Has
<1>. QED BY <1>1, <1>2, <1>3, <1>4

LEMMA CoveredStep ==
    ASSUME NEW q, Orderly(q), NEW t \in 1 .. 6, NEW n \in 1 .. Len(q), NEW acc \in Account,
           Covered(q, acc, t, n - 1)
    PROVE  Covered(q, IF q[n].ts = t THEN Sim!Apply(acc, q[n]) ELSE acc, t, n)
<1>. DEFINE before == [c \in Sim!Funded |-> Owing(q, c, t, n - 1)]
            after  == [c \in Sim!Funded |-> Owing(q, c, t, n)]
            cat == q[n].category
            end == Sim!Apply(acc, q[n])
<1>1. before \in [Sim!Funded -> Nat] /\ after \in [Sim!Funded -> Nat]
    BY OwesTyped
<1>2. acc.dropped = {} /\ acc.balance \in Nat /\ acc.balance >= Total(before)
    BY DEF Covered, Account, Owed
<1>3. end \in Account
    BY ApplyTyped DEF Orderly
<1>4. SUFFICES LET x == IF q[n].ts = t THEN end ELSE acc IN x.dropped = {} /\ x.balance >= Total(after)
    BY DEF Covered, Owed
<1>5. \A c \in Sim!Funded : cat # c \/ q[n].ts # t => after[c] = before[c]
    BY OwesMoves
<1>6. CASE q[n].ts # t
    <2>1. after = before
        <3>. HIDE DEF before, after
        <3>. QED BY <1>1, <1>5, <1>6
    <2>. QED BY <1>2, <1>6, <2>1
<1>7. CASE q[n].ts = t /\ cat \notin Sim!Funded
    <2>1. \A c \in Sim!Funded : after[c] = 0
        BY <1>7, OwesMoves
    <2>2. Total(after) = 0
        <3>. HIDE DEF after
        <3>. QED BY <2>1 DEF Total, Sim!Funded
    <2>3. end.dropped = {}
        BY <1>2, <1>7 DEF Sim!Apply, Account
    <2>4. end.balance \in Nat
        BY <1>3 DEF Account
    <2>. HIDE DEF after, end
    <2>. QED BY <1>7, <2>2, <2>3, <2>4
<1>8. CASE q[n].ts = t /\ cat \in Sim!Funded
    <2>1. q[n].amount = Price[cat] /\ q[n].buffer = 0 /\ Price[cat] \in 2 .. 3
        BY <1>8, Prices DEF Orderly
    <2>2. Sim!PaidAmount(q[n], acc.balance) = Price[cat]
        BY <2>1 DEF Sim!PaidAmount, Sim!Share
    <2>3. Total(after) \in Nat /\ Total(before) \in Nat
          /\ Total(after) = Total(before) + (after[cat] - before[cat])
        <3>. HIDE DEF before, after
        <3>. QED BY <1>1, <1>5, <1>8, OneOfTotal
    <2>4. CASE q[n].dir = "debit"
        <3>1. after[cat] = 0 /\ before[cat] = Price[cat]
            BY <1>8, <2>4, OwesMoves
        <3>. HIDE DEF before, after, cat
        <3>2. acc.balance - Price[cat] >= Total(after) /\ ~(acc.balance - Price[cat] < 0)
            BY SMTT(30), <1>2, <2>1, <2>3, <3>1
        <3>3. end.balance = acc.balance - Price[cat] /\ end.dropped = {}
            BY <1>2, <2>1, <2>2, <2>4, <3>2 DEF Sim!Apply, Account
        <3>. HIDE DEF end
        <3>. QED BY <1>8, <3>2, <3>3
    <2>5. CASE q[n].dir = "credit"
        <3>1. after[cat] - before[cat] <= Price[cat]
            BY <1>8, <2>1, OwesTyped
        <3>2. after[cat] \in Nat /\ before[cat] \in Nat
            BY <1>1, <1>8
        <3>. HIDE DEF before, after, cat
        <3>3. acc.balance + Price[cat] >= Total(after)
            BY SMTT(30), <1>2, <2>1, <2>3, <3>1, <3>2
        <3>4. end.balance = acc.balance + Price[cat] /\ end.dropped = {}
            BY <1>2, <2>1, <2>2, <2>5 DEF Sim!Apply, Account
        <3>. HIDE DEF end
        <3>. QED BY <1>8, <3>3, <3>4
    <2>6. q[n].dir \in {"credit", "debit"}
        <3>1. q[n] \in Proposal
            BY DEF Orderly
        <3>. QED BY <3>1 DEF Proposal
    <2>. QED BY <2>4, <2>5, <2>6
<1>. QED BY <1>6, <1>7, <1>8

LEMMA CoveredInstant ==
    ASSUME NEW q, Orderly(q), NEW t \in 1 .. 6, NEW acc \in Account, Covered(q, acc, t, 0)
    PROVE  Covered(q, Sim!Settle(acc, q, t), t, Len(q))
<1>0. q \in Seq(Proposal) /\ Len(q) \in Nat
    BY DEF Orderly
<1>1. PICK f : Settling(f, acc, q, t) /\ Sim!Settle(acc, q, t) = f[Len(q)]
    BY <1>0, SettleLoop
<1>. DEFINE S == {n \in Nat : n <= Len(q) => Covered(q, f[n], t, n)}
<1>2. 0 \in S
    BY <1>1 DEF Settling
<1>3. ASSUME NEW n \in Nat, n \in S PROVE n + 1 \in S
    <2>. SUFFICES ASSUME n + 1 <= Len(q) PROVE Covered(q, f[n + 1], t, n + 1)
        OBVIOUS
    <2>1. n + 1 \in 1 .. Len(q) /\ n \in 0 .. Len(q) /\ (n + 1) - 1 = n
        BY <1>0
    <2>2. f[n] \in Account /\ Covered(q, f[n], t, (n + 1) - 1)
        BY <1>1, <1>3, <2>1 DEF Settling
    <2>3. f[n + 1] = IF q[n + 1].ts = t THEN Sim!Apply(f[n], q[n + 1]) ELSE f[n]
        BY <1>1, <2>1 DEF Settling
    <2>. QED BY <2>1, <2>2, <2>3, CoveredStep
<1>4. Len(q) \in S
    <2>. HIDE DEF S
    <2>. QED BY <1>0, <1>2, <1>3, Induct
<1>. QED BY <1>0, <1>1, <1>4

\* The end of an instant is the beginning of the next.
LEMMA NextInstant ==
    ASSUME NEW q, Orderly(q), NEW t \in 1 .. 6, NEW acc
    PROVE  Covered(q, acc, t, Len(q)) <=> Covered(q, acc, t + 1, 0)
<1>1. \A i \in 1 .. Len(q) : q[i].ts \in Int
    <2>1. \A i \in 1 .. Len(q) : q[i] \in Proposal
        BY DEF Orderly
    <2>. QED BY <2>1 DEF Proposal, Sim!Instants
<1>2. Len(q) \in Nat
    BY DEF Orderly
<1>3. ASSUME NEW dir, NEW c PROVE Settled(q, dir, c, t, Len(q)) <=> Settled(q, dir, c, t + 1, 0)
    BY <1>1, <1>2 DEF Settled
<1>4. \A c \in Sim!Funded : Owing(q, c, t, Len(q)) = Owing(q, c, t + 1, 0)
    BY <1>3 DEF Owing
<1>. QED BY <1>4 DEF Covered, Owed

LEMMA FundedPaid ==
    ASSUME NEW q, Orderly(q), state.balance \in Nat
    PROVE  Sim!Finalize(q) \in Account /\ Sim!Finalize(q).dropped = {}
<1>. DEFINE start == [balance |-> state.balance, txns |-> <<>>, dropped |-> {}]
<1>0. q \in Seq(Proposal)
    BY DEF Orderly
<1>1. PICK f : Passing(f, q) /\ Sim!Finalize(q) = f[6]
    BY <1>0, DayLoop
<1>2. start \in Account /\ f[0] = start
    BY <1>1 DEF Passing, Account
<1>3. Covered(q, start, 1, 0)
    <2>1. \A i \in 1 .. Len(q) : q[i].ts \in 1 .. 6
        <3>1. \A i \in 1 .. Len(q) : q[i] \in Proposal
            BY DEF Orderly
        <3>. QED BY <3>1 DEF Proposal, Sim!Instants
    <2>2. \A dir, c : ~Settled(q, dir, c, 1, 0)
        BY <2>1 DEF Settled
    <2>3. \A c \in Sim!Funded : Owing(q, c, 1, 0) = 0
        BY <2>2 DEF Owing
    <2>4. Owed(q, 1, 0) = 0
        BY <2>3 DEF Owed, Total, Sim!Funded
    <2>. QED BY <2>4 DEF Covered
<1>4. ASSUME NEW t \in 1 .. 6, f[t - 1] \in Account, Covered(q, f[t - 1], t, 0)
      PROVE  f[t] \in Account /\ f[t].dropped = {} /\ Covered(q, f[t], t + 1, 0)
    <2>1. f[t] = Sim!Settle(f[t - 1], q, t) /\ f[t] \in Account
        BY <1>1 DEF Passing
    <2>2. Covered(q, f[t], t, Len(q))
        BY <1>4, <2>1, CoveredInstant
    <2>3. Covered(q, f[t], t + 1, 0)
        BY <2>2, NextInstant
    <2>. QED BY <2>1, <2>2, <2>3 DEF Covered
<1>5. f[1] \in Account /\ Covered(q, f[1], 2, 0)
    BY <1>2, <1>3, <1>4
<1>6. f[2] \in Account /\ Covered(q, f[2], 3, 0)
    BY <1>4, <1>5
<1>7. f[3] \in Account /\ Covered(q, f[3], 4, 0)
    BY <1>4, <1>6
<1>8. f[4] \in Account /\ Covered(q, f[4], 5, 0)
    BY <1>4, <1>7
<1>9. f[5] \in Account /\ Covered(q, f[5], 6, 0)
    BY <1>4, <1>8
<1>10. f[6] \in Account /\ f[6].dropped = {}
    BY <1>4, <1>9
<1>. QED BY <1>1, <1>10

\* Scheduled items, and the two shapes their lists have: funded pairs, one for each
\* category, or items that fund nothing.
Entry == [on : Int, category : Category, amount : Nat, ts : Sim!Instants]
Spent(l) == [l EXCEPT !.ts = @ + 1]
Paired(st) ==
    /\ \A l \in st.credits : l.category \in Sim!Funded /\ l.amount = Price[l.category] /\ l.ts \in 2 .. 3
    /\ \A l, m \in st.credits : l.category = m.category => l = m
    /\ st.debits = {Spent(l) : l \in st.credits}
    /\ st.drain = 0
Plain(st) == \A x \in st.credits \cup st.debits : x.category \notin Sim!Funded
StateTyped(st) ==
    /\ st \in [balance : Nat, salary : Nat, rent : Nat, emis : SUBSET Int, credits : SUBSET Entry,
               debits : SUBSET Entry, drain : Int, skip : Nat, decaying : BOOLEAN]
    /\ IsFiniteSet(st.credits) /\ IsFiniteSet(st.debits)

Made(x, dir) == [dir |-> dir, category |-> x.category, amount |-> x.amount, buffer |-> 0, ts |-> x.ts]

LEMMA SetToSeqLists ==
    ASSUME NEW S, IsFiniteSet(S)
    PROVE  LET s == Sim!SetToSeq(S) IN
           /\ s \in Seq(S) /\ \A x \in S : \E i \in 1 .. Len(s) : s[i] = x
           /\ \A i, j \in 1 .. Len(s) : s[i] = s[j] => i = j
<1>. DEFINE n == Cardinality(S)
            Lists(f) == f \in [1 .. n -> S] /\ IsInjective(f)
            s == CHOOSE f : Lists(f)
<1>1. Sim!SetToSeq(S) = s
    BY DEF Sim!SetToSeq, Sim!IsInjective, IsInjective, Sim!Cardinality, Cardinality, Sim!IsFiniteSet, IsFiniteSet
<1>2. n \in Nat /\ ExistsBijection(1 .. n, S)
    BY FS_CardinalityType
<1>3. PICK f : Lists(f)
    BY <1>2 DEF ExistsBijection, Bijection, Injection
<1>4. Lists(s)
    <2>. HIDE DEF Lists
    <2>. QED BY <1>3
<1>. HIDE DEF s
<1>5. s \in Seq(S) /\ Len(s) = n
    BY <1>2, <1>4
<1>6. s \in Surjection(1 .. n, S)
    <2>1. s \in Injection(1 .. n, S)
        BY <1>4 DEF Injection
    <2>2. Cardinality(1 .. n) = n
        BY <1>2, FS_Interval
    <2>. HIDE DEF n
    <2>. QED BY <2>1, <2>2, FS_Injection DEF n
<1>. QED BY <1>1, <1>4, <1>5, <1>6 DEF IsInjective, Surjection

LEMMA DueListed ==
    ASSUME NEW S, S \subseteq Entry, IsFiniteSet(S), NEW dir \in {"credit", "debit"}
    PROVE  LET s == Sim!Listed(S, dir) IN
           /\ s \in Seq(Proposal)
           /\ \A i \in 1 .. Len(s) : \E x \in Sim!Due(S) : s[i] = Made(x, dir)
           /\ \A x \in Sim!Due(S) : \E i \in 1 .. Len(s) : s[i] = Made(x, dir)
           /\ \A i, j \in 1 .. Len(s) : s[i] = s[j] => i = j
<1>. DEFINE D == Sim!Due(S)
            M == {Made(x, dir) : x \in D}
            s == Sim!Listed(S, dir)
<1>1. D \subseteq S /\ IsFiniteSet(D)
    BY FS_Subset DEF Sim!Due
<1>2. IsFiniteSet(M)
    <2>. DEFINE f == [x \in D |-> Made(x, dir)]
    <2>1. f \in Surjection(D, M)
        BY DEF Surjection
    <2>. HIDE DEF f, M, D
    <2>. QED BY <1>1, <2>1, FS_Surjection
<1>3. M \subseteq Proposal
    BY <1>1 DEF Entry, Proposal, Made
<1>4. s = Sim!SetToSeq(M)
    BY DEF Sim!Listed, Made
<1>. HIDE DEF M, s
<1>5. /\ s \in Seq(M) /\ \A x \in M : \E i \in 1 .. Len(s) : s[i] = x
      /\ \A i, j \in 1 .. Len(s) : s[i] = s[j] => i = j
    BY <1>2, <1>4, SetToSeqLists
<1>6. s \in Seq(Proposal) /\ \A i \in 1 .. Len(s) : s[i] \in M
    BY <1>3, <1>5
<1>. QED BY <1>5, <1>6 DEF M, s

\* What the rest of a day proposes funds nothing, and but for a drain it comes late.
Late == {p \in Proposal : p.category \notin Sim!Funded /\ (state.drain = day + 1 \/ p.ts >= 5)}

LEMMA RestIsLate ==
    ASSUME StateTyped(state), NEW d \in Sim!Drain, NEW i \in Sim!Income, NEW r \in Sim!RentDue,
           NEW u \in Sim!Utilities, NEW e \in Sim!Emis, NEW n \in Sim!Insurance,
           NEW s \in Sim!Discretionary
    PROVE  d \o i \o r \o u \o e \o n \o s \in Seq(Late)
<1>0. <<>> \in Seq(Late)
    BY EmptySeq
<1>1. ASSUME NEW dir \in {"credit", "debit"}, NEW cat \in Category \ Sim!Funded, NEW amount \in Int,
             NEW buffer \in Nat, NEW T, T \subseteq Sim!Instants,
             state.drain = day + 1 \/ T \subseteq {5, 6}
      PROVE  Sim!Propose(dir, cat, amount, buffer, T) \subseteq Seq(Late)
    <2>4. CASE amount <= 0
        BY <1>0, <2>4 DEF Sim!Propose
    <2>. SUFFICES ASSUME NEW t \in T, ~ (amount <= 0)
                  PROVE  <<[dir |-> dir, category |-> cat, amount |-> amount, buffer |-> buffer, ts |-> t]>>
                            \in Seq(Late)
        BY <2>4 DEF Sim!Propose
    <2>. DEFINE p == [dir |-> dir, category |-> cat, amount |-> amount, buffer |-> buffer, ts |-> t]
    <2>1. p \in Proposal /\ p.category = cat /\ p.ts = t
        BY <1>1 DEF Proposal
    <2>2. p \in Late
        <3>. HIDE DEF p
        <3>. QED BY <1>1, <2>1 DEF Late
    <2>. HIDE DEF p
    <2>3. <<p>> \in Seq(Late)
        BY <2>2
    <2>. QED BY <2>3 DEF p
<1>2. \A P : P \subseteq Seq(Late) => Sim!Perhaps(P) \subseteq Seq(Late)
    BY <1>0 DEF Sim!Perhaps
<1>. HIDE DEF Late
<1>3. /\ {5} \subseteq Sim!Instants /\ {6} \subseteq Sim!Instants /\ {5, 6} \subseteq Sim!Instants
      /\ {5} \subseteq {5, 6} /\ {6} \subseteq {5, 6} /\ 1 \in Nat /\ 0 \in Nat /\ 1 \in Int
      /\ "debit" \in {"credit", "debit"} /\ "credit" \in {"credit", "debit"}
      /\ state.salary \in Int /\ state.rent \in Int
    BY DEF Sim!Instants, StateTyped
<1>4. \A cat \in {"drain", "income", "rent", "bill", "emi", "spend"} : cat \in Category \ Sim!Funded
    BY DEF Sim!Funded, Category
<1>5. ASSUME NEW dir \in {"credit", "debit"}, NEW cat \in {"income", "rent", "bill", "emi", "spend"},
             NEW amount \in Int, NEW buffer \in {0, 1}, NEW T \in {{5}, {6}, {5, 6}}
      PROVE  Sim!Perhaps(Sim!Propose(dir, cat, amount, buffer, T)) \subseteq Seq(Late)
    <2>1. buffer \in Nat /\ T \subseteq Sim!Instants /\ T \subseteq {5, 6} /\ cat \in Category \ Sim!Funded
        BY <1>3, <1>4
    <2>2. Sim!Propose(dir, cat, amount, buffer, T) \subseteq Seq(Late)
        BY <1>1, <2>1
    <2>. QED BY <1>2, <2>2
<1>6. Sim!Drain \subseteq Seq(Late)
    <2>1. CASE state.drain = day + 1
        <3>1. 99 \in Int /\ 0 \in Nat /\ "debit" \in {"credit", "debit"} /\ "drain" \in Category \ Sim!Funded
              /\ Sim!Window("drain") \subseteq Sim!Instants
            BY <1>4 DEF Sim!Window
        <3>2. Sim!Propose("debit", "drain", 99, 0, Sim!Window("drain")) \subseteq Seq(Late)
            BY <1>1, <2>1, <3>1
        <3>. QED BY <2>1, <3>2 DEF Sim!Drain, Sim!Share
    <2>2. CASE state.drain # day + 1
        BY <1>0, <2>2 DEF Sim!Drain
    <2>. QED BY <2>1, <2>2
<1>7. Sim!Income \subseteq Seq(Late)
    <2>1. Sim!Perhaps(Sim!Propose("credit", "income", state.salary, 0, Sim!Window("income"))) \subseteq Seq(Late)
        BY <1>3, <1>5 DEF Sim!Window
    <2>. QED BY <1>0, <2>1 DEF Sim!Income
<1>8. Sim!RentDue \subseteq Seq(Late)
    BY <1>3, <1>5 DEF Sim!RentDue, Sim!Mandatory
<1>9. Sim!Utilities \subseteq Seq(Late)
    BY <1>3, <1>5 DEF Sim!Utilities, Sim!Mandatory
<1>10. Sim!Insurance \subseteq Seq(Late)
    BY <1>0, <1>9 DEF Sim!Insurance
<1>11. Sim!Emis \subseteq Seq(Late)
    <2>1. Sim!Perhaps(Sim!Propose("debit", "emi", 1, 1, {5})) \subseteq Seq(Late)
        BY <1>3, <1>5
    <2>. QED BY <1>0, <2>1 DEF Sim!Emis, Sim!Mandatory
<1>12. Sim!Discretionary \subseteq Seq(Late)
    BY <1>3, <1>5 DEF Sim!Discretionary
<1>13. \A x, y \in Seq(Late) : x \o y \in Seq(Late)
    OBVIOUS
<1>14. d \o i \o r \in Seq(Late)
    BY <1>6, <1>7, <1>8, <1>13
<1>15. d \o i \o r \o u \o e \in Seq(Late)
    BY <1>9, <1>11, <1>13, <1>14
<1>. QED BY <1>10, <1>12, <1>13, <1>15

LEMMA OrderlyDay ==
    ASSUME StateTyped(state), day \in Nat, Paired(state) \/ Plain(state), NEW rest \in Seq(Late)
    PROVE  Orderly(Sim!Scheduled \o rest)
<1>. DEFINE C == Sim!Listed(state.credits, "credit")
            D == Sim!Listed(state.debits, "debit")
            q == Sim!Scheduled \o rest
            c == Len(C)
            d == c + Len(D)
            due == Sim!Due(state.credits)
<1>1. /\ C \in Seq(Proposal)
      /\ \A i \in 1 .. Len(C) : \E x \in Sim!Due(state.credits) : C[i] = Made(x, "credit")
      /\ \A x \in Sim!Due(state.credits) : \E i \in 1 .. Len(C) : C[i] = Made(x, "credit")
      /\ \A i, j \in 1 .. Len(C) : C[i] = C[j] => i = j
    BY DueListed DEF StateTyped
<1>2. /\ D \in Seq(Proposal)
      /\ \A i \in 1 .. Len(D) : \E x \in Sim!Due(state.debits) : D[i] = Made(x, "debit")
      /\ \A x \in Sim!Due(state.debits) : \E i \in 1 .. Len(D) : D[i] = Made(x, "debit")
      /\ \A i, j \in 1 .. Len(D) : D[i] = D[j] => i = j
    BY DueListed DEF StateTyped
<1>3. rest \in Seq(Proposal)
    BY DEF Late
<1>4. q = (C \o D) \o rest
    BY DEF Sim!Scheduled
<1>. SUFFICES Orderly(q)
    OBVIOUS
<1>. HIDE DEF C, D, q
<1>5. /\ q \in Seq(Proposal) /\ Len(q) = d + Len(rest) /\ c \in Nat /\ d \in Nat /\ d >= c
      /\ \A i \in 1 .. Len(q) :
            q[i] = IF i <= c THEN C[i] ELSE IF i <= d THEN D[i - c] ELSE rest[i - d]
    BY <1>1, <1>2, <1>3, <1>4
<1>6. \A i \in 1 .. Len(q) : q[i] \in Proposal
    BY <1>5
<1>7. ASSUME NEW i \in 1 .. Len(q)
      PROVE  /\ i <= c => \E x \in due : q[i] = Made(x, "credit")
             /\ i > c /\ i <= d => \E x \in Sim!Due(state.debits) : q[i] = Made(x, "debit")
             /\ i > d => q[i] \in Late
    <2>1. CASE i <= c
        BY <1>1, <1>5, <2>1
    <2>2. CASE i > c /\ i <= d
        <3>1. i - c \in 1 .. Len(D)
            <4>1. Len(D) \in Nat /\ c \in Nat /\ d = c + Len(D) /\ Len(q) \in Nat
                BY <1>2, <1>5
            <4>. HIDE DEF c, d, due
            <4>. QED BY <2>2, <4>1
        <3>2. q[i] = D[i - c]
            BY <1>5, <2>2
        <3>. QED BY <1>2, <2>2, <3>1, <3>2
    <2>3. CASE i > d
        <3>1. q[i] = rest[i - d] /\ i - d \in 1 .. Len(rest)
            BY <1>5, <2>3
        <3>. QED BY <1>5, <2>3, <3>1
    <2>. QED BY <1>5, <2>1, <2>2, <2>3
<1>8. CASE Plain(state)
    <2>1. ASSUME NEW i \in 1 .. Len(q) PROVE q[i].category \notin Sim!Funded
        <3>1. \A x \in due \cup Sim!Due(state.debits) : x.category \notin Sim!Funded
            BY <1>8 DEF Plain, Sim!Due
        <3>2. \A x, y : Made(x, y).category = x.category
            BY DEF Made
        <3>3. CASE i <= c
            BY <1>7, <3>1, <3>2, <3>3
        <3>4. CASE i > c /\ i <= d
            BY <1>7, <3>1, <3>2, <3>4
        <3>5. CASE i > d
            BY <1>7, <3>5 DEF Late
        <3>. QED BY <1>5, <3>3, <3>4, <3>5
    <2>. QED BY <1>5, <2>1 DEF Orderly
<1>9. CASE Paired(state)
    <2>1. \A x \in due : /\ x.category \in Sim!Funded /\ x.amount = Price[x.category] /\ x.ts \in 2 .. 3
                         /\ \A y \in due : x.category = y.category => x = y
        BY <1>9 DEF Paired, Sim!Due
    <2>2. \A x \in state.credits : /\ Spent(x).category = x.category /\ Spent(x).amount = x.amount
                                   /\ Spent(x).ts = x.ts + 1 /\ Spent(x).on = x.on
        BY DEF StateTyped, Spent, Entry
    <2>3. Sim!Due(state.debits) = {Spent(x) : x \in due}
        BY <1>9, <2>2 DEF Paired, Sim!Due
    <2>4. \A x \in due : Spent(x).category = x.category /\ Spent(x).amount = x.amount /\ Spent(x).ts = x.ts + 1
        BY <2>2 DEF Sim!Due
    <2>5. ASSUME NEW i \in 1 .. Len(q), i > d PROVE q[i].category \notin Sim!Funded /\ q[i].ts >= 5
        BY <1>7, <1>9, <2>5 DEF Late, Paired
    <2>6. \A x, y : LET m == Made(x, y) IN
              m.category = x.category /\ m.amount = x.amount /\ m.buffer = 0 /\ m.ts = x.ts /\ m.dir = y
        BY DEF Made
    <2>. DEFINE Of(i, x) ==
            /\ q[i].category = x.category /\ q[i].amount = x.amount /\ q[i].buffer = 0
            /\ i <= c => (q[i] = Made(x, "credit") /\ q[i].dir = "credit" /\ q[i].ts = x.ts)
            /\ i > c => (q[i] = Made(Spent(x), "debit") /\ q[i].dir = "debit" /\ q[i].ts = x.ts + 1)
    <2>7. ASSUME NEW i \in 1 .. Len(q), i <= d PROVE \E x \in due : Of(i, x)
        <3>1. CASE i <= c
            <4>1. PICK x \in due : q[i] = Made(x, "credit")
                BY <1>7, <3>1
            <4>2. q[i].category = x.category /\ q[i].amount = x.amount /\ q[i].buffer = 0
                  /\ q[i].dir = "credit" /\ q[i].ts = x.ts
                BY <2>6, <4>1
            <4>. QED BY <1>5, <3>1, <4>1, <4>2
        <3>2. CASE i > c
            <4>1. PICK x \in due : q[i] = Made(Spent(x), "debit")
                BY <1>7, <2>3, <2>7, <3>2
            <4>2. q[i].category = x.category /\ q[i].amount = x.amount /\ q[i].buffer = 0
                  /\ q[i].dir = "debit" /\ q[i].ts = x.ts + 1
                BY <2>4, <2>6, <4>1
            <4>. QED BY <1>5, <3>2, <4>1, <4>2
        <3>. QED BY <1>5, <3>1, <3>2
    <2>8. ASSUME NEW i \in 1 .. Len(q) PROVE q[i].category \in Sim!Funded <=> i <= d
        <3>1. CASE i <= d
            BY <2>1, <2>7, <3>1
        <3>2. CASE i > d
            BY <1>5, <2>5, <3>2
        <3>. QED BY <1>5, <3>1, <3>2
    <2>9. ASSUME NEW i \in 1 .. Len(q), q[i].category \in Sim!Funded
          PROVE  q[i].amount = Price[q[i].category] /\ q[i].buffer = 0 /\ q[i].ts \in 2 .. 4
        <3>1. i <= d
            BY <2>8, <2>9
        <3>2. PICK x \in due : Of(i, x)
            BY <2>7, <3>1
        <3>3. x.amount = Price[x.category] /\ x.ts \in 2 .. 3
            BY <2>1
        <3>. QED BY <1>5, <3>2, <3>3
    <2>10. ASSUME NEW i \in 1 .. Len(q), NEW j \in 1 .. Len(q),
                  q[i].category \in Sim!Funded, q[j].category = q[i].category, q[j].dir = q[i].dir
           PROVE  i = j
        <3>1. i <= d /\ j <= d
            BY <2>8, <2>10
        <3>2. PICK x \in due : Of(i, x)
            BY <2>7, <3>1
        <3>3. PICK y \in due : Of(j, y)
            BY <2>7, <3>1
        <3>4. x = y
            BY <2>1, <2>10, <3>2, <3>3
        <3>5. CASE i <= c
            <4>1. j <= c
                BY <1>5, <2>10, <3>2, <3>3, <3>5
            <4>2. C[i] = C[j] /\ i \in 1 .. Len(C) /\ j \in 1 .. Len(C)
                BY <1>5, <3>2, <3>3, <3>4, <3>5, <4>1
            <4>. QED BY <1>1, <4>2
        <3>6. CASE i > c
            <4>1. j > c
                BY <1>5, <2>10, <3>2, <3>3, <3>6
            <4>2. q[i] = q[j]
                BY <3>2, <3>3, <3>4, <3>6, <4>1
            <4>3. i - c \in 1 .. Len(D) /\ j - c \in 1 .. Len(D) /\ ~(i <= c) /\ ~(j <= c)
                <5>1. Len(D) \in Nat /\ c \in Nat /\ d = c + Len(D) /\ Len(q) \in Nat
                    BY <1>2, <1>5
                <5>2. i \in Nat /\ j \in Nat /\ i <= c + Len(D) /\ j <= c + Len(D)
                    BY <3>1, <5>1
                <5>. HIDE DEF c, d, due, Of
                <5>. QED BY <3>6, <4>1, <5>1, <5>2
            <4>4. D[i - c] = D[j - c]
                BY <1>5, <3>1, <4>2, <4>3
            <4>5. i - c = j - c
                BY <1>2, <4>3, <4>4
            <4>. QED BY <1>5, <4>5
        <3>. QED BY <1>5, <3>5, <3>6
    <2>11. ASSUME NEW i \in 1 .. Len(q), q[i].category \in Sim!Funded
           PROVE  \E j \in 1 .. Len(q) :
                      /\ q[j].category = q[i].category /\ q[j].dir # q[i].dir
                      /\ q[j].ts = IF q[i].dir = "credit" THEN q[i].ts + 1 ELSE q[i].ts - 1
        <3>1. i <= d
            BY <2>8, <2>11
        <3>2. PICK x \in due : Of(i, x)
            BY <2>7, <3>1
        <3>3. PICK k \in 1 .. c : C[k] = Made(x, "credit")
            BY <1>1
        <3>4. k \in 1 .. Len(q) /\ q[k] = Made(x, "credit")
            BY <1>5, <3>3
        <3>5. PICK l \in 1 .. Len(D) : D[l] = Made(Spent(x), "debit")
            BY <1>2, <2>3
        <3>6. c + l \in 1 .. Len(q) /\ q[c + l] = Made(Spent(x), "debit")
            <4>1. c + l \in 1 .. Len(q) /\ ~(c + l <= c) /\ c + l <= d /\ (c + l) - c = l
                BY <1>2, <1>5
            <4>. QED BY <1>5, <3>5, <4>1
        <3>7. CASE i <= c
            <4>1. q[c + l].category = q[i].category /\ q[c + l].dir = "debit" /\ q[c + l].ts = q[i].ts + 1
                BY <2>4, <2>6, <3>2, <3>6, <3>7
            <4>. QED BY <3>2, <3>6, <3>7, <4>1
        <3>8. CASE i > c
            <4>1. q[k].category = q[i].category /\ q[k].dir = "credit" /\ q[k].ts = q[i].ts - 1
                BY <2>1, <2>6, <3>2, <3>4, <3>8
            <4>. QED BY <3>2, <3>4, <3>8, <4>1
        <3>. QED BY <1>5, <3>7, <3>8
    <2>12. ASSUME NEW i \in 1 .. Len(q), NEW j \in 1 .. Len(q),
                  q[i].category \in Sim!Funded, q[j].category \notin Sim!Funded
           PROVE  q[j].ts >= 5
        <3>1. j > d
            BY <1>5, <2>8, <2>12
        <3>. QED BY <2>5, <3>1
    <2>. HIDE DEF c, d, due
    <2>. QED BY <1>5, <2>9, <2>10, <2>11, <2>12 DEF Orderly
<1>. QED BY <1>8, <1>9

\* An event is applied once, to lists that are still empty.
SimInv ==
    /\ mode \in Modes /\ day \in 0 .. SimDays /\ opening \in Nat
    /\ emitted \in Seq(Txn) /\ published \in 0 .. Len(emitted)
    /\ event \in Events \cup {"none"} /\ trigger \in [day : Nat, ts : Nat]
    /\ StateTyped(state) /\ (Paired(state) \/ Plain(state))
    /\ event # "none" => state.credits = {} /\ state.debits = {} /\ state.drain = 0
    /\ dropped = {}

LEMMA DaySteps == ASSUME SimInv, Sim!GenerateDay PROVE SimInv'
<1>0. day \in Nat /\ StateTyped(state) /\ (Paired(state) \/ Plain(state)) /\ state.balance \in Nat
    BY PlatformAssumption DEF SimInv, StateTyped
<1>1. PICK d \in Sim!Drain, i \in Sim!Income, r \in Sim!RentDue, u \in Sim!Utilities, e \in Sim!Emis,
           n \in Sim!Insurance, s \in Sim!Discretionary :
        LET end == Sim!Finalize(Sim!Scheduled \o (d \o i \o r \o u \o e \o n \o s)) IN
        /\ emitted' = end.txns
        /\ dropped' = dropped \cup end.dropped
        /\ \E skip \in {state.skip} \cup {k - 1 : k \in {state.skip} \ {0}} :
            state' = [state EXCEPT !.balance = end.balance, !.skip = skip,
                                   !.credits = @ \ Sim!Due(@), !.debits = @ \ Sim!Due(@),
                                   !.drain = IF @ = day + 1 THEN 0 ELSE @]
    BY Zenon DEF Sim!GenerateDay
<1>. DEFINE end == Sim!Finalize(Sim!Scheduled \o (d \o i \o r \o u \o e \o n \o s))
            cs == state.credits \ Sim!Due(state.credits)
            ds == state.debits \ Sim!Due(state.debits)
<1>2. end \in Account /\ end.dropped = {}
    <2>1. d \o i \o r \o u \o e \o n \o s \in Seq(Late)
        BY <1>0, RestIsLate
    <2>2. Orderly(Sim!Scheduled \o (d \o i \o r \o u \o e \o n \o s))
        BY <1>0, <2>1, OrderlyDay
    <2>. QED BY <1>0, <2>2, FundedPaid
<1>3. PICK skip \in {state.skip} \cup {k - 1 : k \in {state.skip} \ {0}} :
            state' = [state EXCEPT !.balance = end.balance, !.skip = skip, !.credits = cs, !.debits = ds,
                                   !.drain = IF @ = day + 1 THEN 0 ELSE @]
    BY <1>1
<1>4. emitted' = end.txns /\ dropped' = dropped \cup end.dropped
    BY <1>1
<1>. HIDE DEF end, cs, ds
<1>5. skip \in Nat /\ end.balance \in Nat /\ cs \in SUBSET Entry /\ ds \in SUBSET Entry
      /\ IsFiniteSet(cs) /\ IsFiniteSet(ds)
    <2>1. state.skip \in Nat /\ end.balance \in Nat
        BY <1>0, <1>2 DEF StateTyped, Account
    <2>2. cs \subseteq state.credits /\ ds \subseteq state.debits
        BY DEF cs, ds
    <2>3. IsFiniteSet(cs) /\ IsFiniteSet(ds)
        BY <1>0, <2>2, FS_Subset DEF StateTyped
    <2>. QED BY <1>0, <2>1, <2>2, <2>3 DEF StateTyped
<1>6. /\ StateTyped(state') /\ state'.credits = cs /\ state'.debits = ds
      /\ state'.drain \in Int /\ (state.drain = 0 => state'.drain = 0)
    <2>. DEFINE drain == IF state.drain = day + 1 THEN 0 ELSE state.drain
    <2>1. drain \in Int /\ (state.drain = 0 => drain = 0)
        BY <1>0 DEF StateTyped
    <2>2. state' = [state EXCEPT !.balance = end.balance, !.skip = skip, !.credits = cs, !.debits = ds,
                                !.drain = drain]
        BY <1>0, <1>3 DEF StateTyped
    <2>. HIDE DEF drain
    <2>3. /\ state'.credits = cs /\ state'.debits = ds /\ state'.drain = drain
          /\ state' \in [balance : Nat, salary : Nat, rent : Nat, emis : SUBSET Int, credits : SUBSET Entry,
                         debits : SUBSET Entry, drain : Int, skip : Nat, decaying : BOOLEAN]
        BY <1>0, <1>5, <2>1, <2>2 DEF StateTyped
    <2>. QED BY <1>5, <2>1, <2>3 DEF StateTyped
<1>7. Paired(state') \/ Plain(state')
    <2>1. CASE Plain(state)
        BY <1>6, <2>1 DEF Plain, cs, ds
    <2>2. CASE Paired(state)
        <3>1. \A l \in state.credits : Spent(l).on = l.on
            BY <1>0 DEF StateTyped, Spent, Entry
        <3>2. \A l \in state.credits : Spent(l) \in Sim!Due(state.debits) <=> l \in Sim!Due(state.credits)
            BY <2>2, <3>1 DEF Paired, Sim!Due
        <3>3. ds = {Spent(l) : l \in cs}
            BY <2>2, <3>2 DEF Paired, cs, ds
        <3>4. state'.drain = 0
            BY <1>6, <2>2 DEF Paired
        <3>. QED BY <1>6, <2>2, <3>3, <3>4 DEF Paired, cs
    <2>. QED BY <1>0, <2>1, <2>2
<1>8. event # "none" => state'.credits = {} /\ state'.debits = {} /\ state'.drain = 0
    BY <1>6 DEF SimInv, cs, ds
<1>9. dropped' = {} /\ emitted' \in Seq(Txn) /\ opening' \in Nat
    BY <1>0, <1>2, <1>4 DEF SimInv, Account, Sim!GenerateDay
<1>10. published' \in 0 .. Len(emitted')
    BY <1>9 DEF Sim!GenerateDay
<1>11. day' \in 0 .. SimDays /\ UNCHANGED <<mode, event, trigger>>
    <2>1. day < SimDays /\ day' = day + 1 /\ UNCHANGED <<mode, event, trigger>>
        BY Zenon DEF Sim!GenerateDay
    <2>2. day \in 0 .. SimDays /\ SimDays \in Nat
        BY PlatformAssumption DEF SimInv
    <2>. QED BY <2>1, <2>2
<1>. QED BY <1>6, <1>7, <1>8, <1>9, <1>10, <1>11 DEF SimInv

\* A credit and its debit, added to what is paired already.
LEMMA FundPairs ==
    ASSUME NEW st, StateTyped(st), Paired(st), NEW on \in Int, NEW c \in Sim!Funded, NEW times \in Sim!PairTimes,
           \A l \in st.credits : l.category # c
    PROVE  LET next == Sim!Fund(st, on, c, Price[c], times) IN
           /\ StateTyped(next) /\ Paired(next)
           /\ \A l \in next.credits : l \in st.credits \/ l.category = c
<1>. DEFINE x == Sim!Item(on, c, Price[c], times[1])
            y == Sim!Item(on, c, Price[c], times[2])
            next == Sim!Fund(st, on, c, Price[c], times)
<1>1. Price[c] \in Nat /\ c \in Category
    BY Prices DEF Category
<1>2. times[1] \in 2 .. 3 /\ times[2] = times[1] + 1
    BY DEF Sim!PairTimes
<1>3. x \in Entry /\ y \in Entry /\ y = Spent(x) /\ x.category = c /\ x.amount = Price[c] /\ x.ts \in 2 .. 3
    BY <1>1, <1>2 DEF Entry, Spent, Sim!Item, Sim!Instants
<1>4. next = [st EXCEPT !.credits = st.credits \cup {x}, !.debits = st.debits \cup {y}]
    BY DEF Sim!Fund, StateTyped
<1>. HIDE DEF x, y, next
<1>5. /\ StateTyped(next) /\ next.credits = st.credits \cup {x} /\ next.debits = st.debits \cup {y}
      /\ next.drain = st.drain
    <2>1. IsFiniteSet(st.credits \cup {x}) /\ IsFiniteSet(st.debits \cup {y})
        BY FS_AddElement DEF StateTyped
    <2>2. st.credits \cup {x} \in SUBSET Entry /\ st.debits \cup {y} \in SUBSET Entry
        BY <1>3 DEF StateTyped
    <2>. QED BY <1>4, <2>1, <2>2 DEF StateTyped
<1>6. Paired(next)
    BY <1>3, <1>5 DEF Paired
<1>. QED BY <1>3, <1>5, <1>6 DEF next

\* An event finds the lists empty and leaves funded pairs, or items that fund nothing.
LEMMA ScriptsPair ==
    ASSUME NEW st, StateTyped(st), st.credits = {}, st.debits = {}, st.drain = 0, NEW d \in Int,
           NEW name \in Events \ {"none"}, NEW next \in Sim!Scripted(name, st, d)
    PROVE  StateTyped(next) /\ (Paired(next) \/ Plain(next))
<1>. DEFINE R == [balance : Nat, salary : Nat, rent : Nat, emis : SUBSET Int, credits : SUBSET Entry,
                  debits : SUBSET Entry, drain : Int, skip : Nat, decaying : BOOLEAN]
<1>0. st \in R /\ IsFiniteSet({}) /\ Paired(st)
    BY FS_EmptySet DEF StateTyped, Paired
<1>1. ASSUME NEW n \in R, IsFiniteSet(n.credits), IsFiniteSet(n.debits) PROVE StateTyped(n)
    BY <1>1 DEF StateTyped
<1>2. ASSUME NEW x \in Entry, NEW y \in Entry PROVE IsFiniteSet({x}) /\ IsFiniteSet({x, y})
    <2>1. IsFiniteSet({x}) /\ {x, y} = {x} \cup {y}
        BY FS_Singleton
    <2>. QED BY <2>1, FS_AddElement
<1>3. CASE name = "job_change"
    <2>1. next = [st EXCEPT !.salary = @ + 1, !.skip = IF @ > 1 THEN @ ELSE 1]
        BY <1>3 DEF Sim!Scripted, Sim!JobChange
    <2>. DEFINE skip == IF st.skip > 1 THEN st.skip ELSE 1
    <2>2. skip \in Nat /\ st.salary + 1 \in Nat
        BY <1>0
    <2>3. next = [st EXCEPT !.salary = st.salary + 1, !.skip = skip]
        BY <1>0, <2>1
    <2>. HIDE DEF skip
    <2>4. next \in R /\ next.credits = {} /\ next.debits = {}
        BY <1>0, <2>2, <2>3
    <2>. HIDE DEF R
    <2>. QED BY <1>0, <1>1, <2>4 DEF Plain
<1>4. CASE name = "new_child"
    <2>1. next \in Sim!NewChild(st, d)
        BY <1>4 DEF Sim!Scripted
    <2>2. PICK o \in {0, 1}, t \in {5, 6} :
            next = [st EXCEPT !.debits = {Sim!Item(d + o, "baby", 1, t), Sim!Item(d + SimDays + 1, "fees", 2, t)}]
        BY <2>1 DEF Sim!NewChild
    <2>. DEFINE x == Sim!Item(d + o, "baby", 1, t)
                y == Sim!Item(d + SimDays + 1, "fees", 2, t)
    <2>3. /\ x \in Entry /\ y \in Entry /\ x.category \notin Sim!Funded /\ y.category \notin Sim!Funded
        BY PlatformAssumption DEF Sim!Item, Entry, Category, Sim!Funded, Sim!Instants
    <2>. HIDE DEF x, y
    <2>4. next = [st EXCEPT !.debits = {x, y}]
        BY <2>2 DEF x, y
    <2>5. /\ next \in R
          /\ next.credits = {} /\ next.debits = {x, y}
        BY <1>0, <2>3, <2>4
    <2>. HIDE DEF R
    <2>. QED BY <1>0, <1>2, <1>1, <2>3, <2>5 DEF Plain
<1>5. CASE name = "home_purchase"
    <2>. DEFINE base == [st EXCEPT !.rent = 0, !.emis = @ \cup {d + 2}]
    <2>1. next \in Sim!HomePurchase(st, d)
        BY <1>5 DEF Sim!Scripted
    <2>2. PICK s \in Sim!PairTimes, t \in Sim!PairTimes :
            next = Sim!Fund(Sim!Fund(base, d + 1, "booking", 2, s), d + 2, "installment", 3, t)
        BY <2>1 DEF Sim!HomePurchase
    <2>3. StateTyped(base) /\ Paired(base) /\ base.credits = {}
        <3>1. st.emis \cup {d + 2} \in SUBSET Int
            BY <1>0
        <3>2. base \in R /\ base.credits = {} /\ base.debits = {} /\ base.drain = 0
            BY <1>0, <3>1
        <3>. HIDE DEF R, base
        <3>. QED BY <1>0, <1>1, <3>2 DEF Paired
    <2>. HIDE DEF base
    <2>. DEFINE one == Sim!Fund(base, d + 1, "booking", Price["booking"], s)
    <2>4. StateTyped(one) /\ Paired(one) /\ \A l \in one.credits : l.category = "booking"
        BY <2>3, FundPairs DEF Sim!Funded
    <2>5. next = Sim!Fund(one, d + 2, "installment", Price["installment"], t)
        BY <2>2 DEF Price
    <2>. HIDE DEF one
    <2>. QED BY <2>4, <2>5, FundPairs DEF Sim!Funded
<1>6. CASE name = "wedding"
    <2>1. next \in Sim!Wedding(st, d)
        BY <1>6 DEF Sim!Scripted
    <2>2. PICK o \in {0, 1}, p \in {0, 1}, s \in Sim!PairTimes, t \in Sim!PairTimes :
            next = Sim!Fund(Sim!Fund(st, d + o, "venue", 3, s), d + p, "jewellery", 2, t)
        BY <2>1 DEF Sim!Wedding
    <2>. DEFINE one == Sim!Fund(st, d + o, "venue", Price["venue"], s)
    <2>3. StateTyped(one) /\ Paired(one) /\ \A l \in one.credits : l.category = "venue"
        BY <1>0, FundPairs DEF Sim!Funded
    <2>4. next = Sim!Fund(one, d + p, "jewellery", Price["jewellery"], t)
        BY <2>2 DEF Price
    <2>. HIDE DEF one
    <2>. QED BY <2>3, <2>4, FundPairs DEF Sim!Funded
<1>7. CASE name = "bonus_windfall"
    <2>1. next \in Sim!BonusWindfall(st, d)
        BY <1>7 DEF Sim!Scripted
    <2>2. PICK t \in {5, 6} : next = [st EXCEPT !.credits = {Sim!Item(d, "bonus", 3 * st.salary, t)}]
        BY <2>1 DEF Sim!BonusWindfall
    <2>. DEFINE x == Sim!Item(d, "bonus", 3 * st.salary, t)
    <2>3. x \in Entry /\ x.category \notin Sim!Funded
        BY <1>0 DEF Sim!Item, Entry, Category, Sim!Funded, Sim!Instants
    <2>. HIDE DEF x
    <2>4. next = [st EXCEPT !.credits = {x}]
        BY <2>2 DEF x
    <2>5. /\ next \in R
          /\ next.credits = {x} /\ next.debits = {}
        BY <1>0, <2>3, <2>4
    <2>. HIDE DEF R
    <2>. QED BY <1>0, <1>2, <1>1, <2>3, <2>5 DEF Plain
<1>8. CASE name = "churn_risk"
    <2>1. PICK o \in {1, 2} : next = [st EXCEPT !.decaying = TRUE, !.drain = d + o]
        BY <1>8 DEF Sim!Scripted, Sim!ChurnRisk
    <2>2. next \in R
        <3>1. d + o \in Int
            OBVIOUS
        <3>. QED BY <1>0, <2>1, <3>1
    <2>3. next.credits = {} /\ next.debits = {}
        BY <1>0, <2>1
    <2>. HIDE DEF R
    <2>. QED BY <1>0, <1>1, <2>2, <2>3 DEF Plain
<1>. QED BY PlatformAssumption, <1>3, <1>4, <1>5, <1>6, <1>7, <1>8

LEMMA EventSteps == ASSUME SimInv, Sim!BatchEvent \/ Sim!RunnerEvent PROVE SimInv'
<1>1. PICK d \in Int : Sim!ApplyEvent(d)
    <2>1. day \in Int /\ trigger.day \in Int
        BY PlatformAssumption DEF SimInv
    <2>. QED BY <2>1 DEF Sim!BatchEvent, Sim!RunnerEvent
<1>2. event \in Events \ {"none"} /\ state' \in Sim!Scripted(event, state, d) /\ event' = "none"
    BY <1>1 DEF Sim!ApplyEvent, SimInv
<1>3. StateTyped(state') /\ (Paired(state') \/ Plain(state'))
    <2>1. StateTyped(state) /\ state.credits = {} /\ state.debits = {} /\ state.drain = 0
        BY <1>2 DEF SimInv
    <2>. QED BY <1>2, <2>1, ScriptsPair
<1>4. UNCHANGED <<mode, trigger, day, opening, emitted, published, dropped>>
    BY DEF Sim!BatchEvent, Sim!RunnerEvent
<1>. QED BY <1>2, <1>3, <1>4 DEF SimInv

LEMMA SimInit == AllInit => SimInv
<1>. SUFFICES ASSUME AllInit PROVE SimInv
    OBVIOUS
<1>1. PICK b \in Balances : state = Sim!NewState(b) /\ opening = b
    BY DEF AllInit, Sim!Init
<1>2. StateTyped(state) /\ Plain(state) /\ state.credits = {} /\ state.debits = {} /\ state.drain = 0
    BY PlatformAssumption, <1>1, FS_EmptySet DEF StateTyped, Plain, Sim!NewState
<1>3. trigger \in [day : Nat, ts : Nat]
    BY PlatformAssumption DEF AllInit, Sim!Init
<1>4. emitted = <<>> /\ published = 0 /\ <<>> \in Seq(Txn) /\ Len(<<>>) = 0
    BY EmptySeq DEF AllInit, Sim!Init
<1>5. mode \in Modes /\ day \in 0 .. SimDays /\ opening \in Nat /\ event \in Events /\ dropped = {}
    BY PlatformAssumption, <1>1 DEF AllInit, Sim!Init
<1>6. published \in 0 .. Len(emitted)
    BY <1>4
<1>. QED BY <1>2, <1>3, <1>4, <1>5, <1>6 DEF SimInv

LEMMA SimStep == SimInv /\ [AllNext]_allVars => SimInv'
<1>. SUFFICES ASSUME SimInv, [AllNext]_allVars PROVE SimInv'
    OBVIOUS
<1>1. CASE Sim!GenerateDay
    BY <1>1, DaySteps
<1>2. CASE Sim!BatchEvent \/ Sim!RunnerEvent
    BY <1>2, EventSteps
<1>3. CASE Sim!Publish
    BY <1>3 DEF Sim!Publish, SimInv
<1>4. CASE UNCHANGED simVars
    BY <1>4 DEF simVars, SimInv
<1>. QED BY <1>1, <1>2, <1>3, <1>4 DEF AllNext, allVars, Sim!Next

LEMMA SimAlways == AllSpec => []SimInv
<1>. QED BY SimInit, SimStep, PTL DEF AllSpec

\* The debits that a funding credit announces are never dropped (_funding_pair_times,
\* _DayEmitter.finalize), whatever else the days bring and whenever the event is applied.
THEOREM FundedDebitsAlwaysPost == AllSpec => []FundedDebitsPost
<1>1. SimInv => FundedDebitsPost
    BY DEF SimInv, FundedDebitsPost, Sim!FundedDebitsPost
<1>. QED BY <1>1, SimAlways, PTL

-----------------------------------------------------------------------------
(* The drain rule                                                          *)
(*                                                                         *)
(* Every row carries the balance after it, and that is what the rows up to *)
(* it add up to from the opening balance (Balanced).  With rows in the     *)
(* order of their times, the rows before the earliest of a week are those  *)
(* before the week, so that the balance the rule takes off that one row is *)
(* the one the account had.                                                *)

PostedRow == [ts : Times, amount : Nat, direction : {move.direction : move \in Moves},
              category : {move.category : move \in Moves},
              channel : {move.channel : move \in Moves}, after : Int]

Summing(f, rows, S) ==
    /\ f \in [0 .. Len(rows) -> Int] /\ f[0] = 0
    /\ \A n \in 1 .. Len(rows) : f[n] = IF n \in S THEN f[n - 1] + Rules!Delta(rows[n]) ELSE f[n - 1]

LEMMA DeltaTyped == ASSUME NEW r \in PostedRow PROVE Rules!Delta(r) \in Int
BY DEF Rules!Delta, PostedRow

LEMMA NetLoop ==
    ASSUME NEW rows \in Seq(PostedRow), NEW S
    PROVE  \E f : Summing(f, rows, S) /\ Rules!Net(rows, S) = f[Len(rows)]
<1>. DEFINE N == Len(rows)
            step == [x \in (1 .. N) \X Int |->
                        IF x[1] \in S THEN x[2] + Rules!Delta(rows[x[1]]) ELSE x[2]]
            Eq(c) == c = [n \in 0 .. N |-> IF n = 0 THEN 0
                            ELSE IF n \in S THEN c[n - 1] + Rules!Delta(rows[n]) ELSE c[n - 1]]
            c == CHOOSE c : Eq(c)
<1>0. N \in Nat /\ \A n \in 1 .. N : Rules!Delta(rows[n]) \in Int
    <2>1. \A n \in 1 .. N : rows[n] \in PostedRow
        OBVIOUS
    <2>. QED BY <2>1, DeltaTyped
<1>. HIDE DEF N
<1>1. step \in [(1 .. N) \X Int -> Int]
    BY <1>0
<1>2. PICK f \in [0 .. N -> Int] : f[0] = 0 /\ \A i \in 1 .. N : f[i] = step[<<i, f[i - 1]>>]
    <2>1. Recursion(Int, 0, N, step)
        <3>1. 0 \in Int /\ N \in Nat
            BY <1>0
        <3>. HIDE DEF step, Eq, c
        <3>. QED BY <3>1, <1>1, PrimitiveRecursion
    <2>. HIDE DEF step
    <2>. QED BY <2>1 DEF Recursion
<1>3. \A i \in 1 .. N : f[i] = IF i \in S THEN f[i - 1] + Rules!Delta(rows[i]) ELSE f[i - 1]
    <2>. SUFFICES ASSUME NEW i \in 1 .. N
                  PROVE  f[i] = IF i \in S THEN f[i - 1] + Rules!Delta(rows[i]) ELSE f[i - 1]
        OBVIOUS
    <2>1. f[i - 1] \in Int
        BY <1>0, <1>2
    <2>. QED BY <1>2, <2>1
<1>4. Summing(f, rows, S)
    BY <1>2, <1>3 DEF Summing, N
<1>5. Eq(f)
    <2>. HIDE DEF step
    <2>. QED BY <1>2, <1>3
<1>6. Eq(c)
    <2>. HIDE DEF Eq
    <2>. QED BY <1>5
<1>7. Rules!Net(rows, S) = c[N]
    BY DEF Rules!Net, N
<1>8. c = f
    <2>. DEFINE T == {n \in Nat : n <= N => c[n] = f[n]}
    <2>1. 0 \in T
        <3>1. c[0] = 0
            <4>. HIDE DEF c
            <4>. QED BY <1>0, <1>6
        <3>. HIDE DEF c
        <3>. QED BY <1>2, <3>1
    <2>2. ASSUME NEW n \in Nat, n \in T PROVE n + 1 \in T
        <3>. SUFFICES ASSUME n + 1 <= N PROVE c[n + 1] = f[n + 1]
            OBVIOUS
        <3>1. n + 1 \in 1 .. N /\ n + 1 \in 0 .. N /\ n + 1 # 0 /\ (n + 1) - 1 = n
            BY <1>0
        <3>2. c[n] = f[n]
            BY <2>2, <1>0
        <3>3. c[n + 1] = IF n + 1 \in S THEN c[n] + Rules!Delta(rows[n + 1]) ELSE c[n]
            <4>. HIDE DEF c
            <4>. QED BY <1>6, <3>1
        <3>. HIDE DEF c, step
        <3>. QED BY <1>3, <3>1, <3>2, <3>3
    <2>3. Nat \subseteq T
        <3>. HIDE DEF T
        <3>. QED BY <2>1, <2>2, Induct
    <2>. HIDE DEF c
    <2>4. \A n \in 0 .. N : c[n] = f[n]
        BY <1>0, <2>3
    <2>. QED BY <1>2, <1>6, <2>4
<1>. QED BY <1>4, <1>7, <1>8 DEF N

\* Rows after the last position of S do not count.
LEMMA NetPrefix ==
    ASSUME NEW rows \in Seq(PostedRow), NEW r \in PostedRow, NEW S, S \subseteq 1 .. Len(rows)
    PROVE  Rules!Net(Append(rows, r), S) = Rules!Net(rows, S)
<1>. DEFINE more == Append(rows, r)
            N == Len(rows)
<1>0. more \in Seq(PostedRow) /\ N \in Nat /\ Len(more) = N + 1 /\ \A n \in 1 .. N : more[n] = rows[n]
    OBVIOUS
<1>1. PICK f : Summing(f, more, S) /\ Rules!Net(more, S) = f[Len(more)]
    BY <1>0, NetLoop
<1>2. PICK g : Summing(g, rows, S) /\ Rules!Net(rows, S) = g[N]
    BY NetLoop
<1>. HIDE DEF more
<1>. DEFINE T == {n \in Nat : n <= N => f[n] = g[n]}
<1>3. 0 \in T
    BY <1>1, <1>2 DEF Summing
<1>4. ASSUME NEW n \in Nat, n \in T PROVE n + 1 \in T
    <2>. SUFFICES ASSUME n + 1 <= N PROVE f[n + 1] = g[n + 1]
        OBVIOUS
    <2>1. n + 1 \in 1 .. N /\ n + 1 \in 1 .. N + 1 /\ (n + 1) - 1 = n /\ f[n] = g[n]
        BY <1>0, <1>4
    <2>2. f[n + 1] = IF n + 1 \in S THEN f[n] + Rules!Delta(more[n + 1]) ELSE f[n]
        BY <1>0, <1>1, <2>1 DEF Summing
    <2>3. g[n + 1] = IF n + 1 \in S THEN g[n] + Rules!Delta(rows[n + 1]) ELSE g[n]
        BY <1>0, <1>2, <2>1 DEF Summing
    <2>. QED BY <1>0, <2>1, <2>2, <2>3
<1>5. Nat \subseteq T
    <2>. HIDE DEF T
    <2>. QED BY <1>3, <1>4, Induct
<1>6. f[N] = g[N]
    BY <1>0, <1>5
<1>7. f[N + 1] = f[N]
    <2>1. N + 1 \in 1 .. N + 1 /\ N + 1 \notin S /\ (N + 1) - 1 = N
        BY <1>0
    <2>. QED BY <1>0, <1>1, <2>1 DEF Summing
<1>. QED BY <1>0, <1>1, <1>2, <1>6, <1>7 DEF more

\* One row more.
LEMMA NetNext ==
    ASSUME NEW rows \in Seq(PostedRow), NEW n \in 1 .. Len(rows)
    PROVE  /\ Rules!Net(rows, 1 .. (n - 1)) \in Int
           /\ Rules!Net(rows, 1 .. n) = Rules!Net(rows, 1 .. (n - 1)) + Rules!Delta(rows[n])
<1>. DEFINE N == Len(rows)
            d == Rules!Delta(rows[n])
<1>0. N \in Nat /\ n \in 1 .. N /\ d \in Int
    <2>1. rows[n] \in PostedRow
        OBVIOUS
    <2>. QED BY <2>1, DeltaTyped
<1>1. PICK f : Summing(f, rows, 1 .. n) /\ Rules!Net(rows, 1 .. n) = f[N]
    BY NetLoop
<1>2. PICK g : Summing(g, rows, 1 .. (n - 1)) /\ Rules!Net(rows, 1 .. (n - 1)) = g[N]
    BY NetLoop
<1>3. \A i \in 0 .. N : f[i] \in Int /\ g[i] \in Int
    BY <1>1, <1>2 DEF Summing
<1>. DEFINE T == {i \in Nat : i <= N => f[i] = IF i < n THEN g[i] ELSE g[i] + d}
<1>4. 0 \in T
    BY <1>0, <1>1, <1>2 DEF Summing
<1>5. ASSUME NEW i \in Nat, i \in T PROVE i + 1 \in T
    <2>. SUFFICES ASSUME i + 1 <= N PROVE f[i + 1] = IF i + 1 < n THEN g[i + 1] ELSE g[i + 1] + d
        OBVIOUS
    <2>. DEFINE e == Rules!Delta(rows[i + 1])
    <2>1. i + 1 \in 1 .. N /\ (i + 1) - 1 = i /\ i \in 0 .. N
          /\ (i + 1 \in 1 .. n <=> i + 1 <= n) /\ (i + 1 \in 1 .. (n - 1) <=> i + 1 < n)
        BY <1>0
    <2>2. f[i + 1] = IF i + 1 <= n THEN f[i] + e ELSE f[i]
        BY <1>1, <2>1 DEF Summing
    <2>3. g[i + 1] = IF i + 1 < n THEN g[i] + e ELSE g[i]
        BY <1>2, <2>1 DEF Summing
    <2>4. e \in Int
        <3>1. rows[i + 1] \in PostedRow
            BY <2>1
        <3>. QED BY <3>1, DeltaTyped
    <2>5. i + 1 = n => e = d
        OBVIOUS
    <2>6. f[i] = IF i < n THEN g[i] ELSE g[i] + d
        BY <1>0, <1>5, <2>1
    <2>7. f[i] \in Int /\ g[i] \in Int
        BY <1>3, <2>1
    <2>. HIDE DEF d, e, N
    <2>. QED BY <1>0, <2>2, <2>3, <2>4, <2>5, <2>6, <2>7
<1>6. Nat \subseteq T
    <2>. HIDE DEF T
    <2>. QED BY <1>4, <1>5, Induct
<1>7. f[N] = g[N] + d /\ g[N] \in Int
    <2>. HIDE DEF d, N
    <2>. QED BY <1>0, <1>3, <1>6
<1>. QED BY <1>1, <1>2, <1>7

LEMMA NetEmpty == ASSUME NEW rows \in Seq(PostedRow) PROVE Rules!Net(rows, {}) = 0
<1>1. PICK f : Summing(f, rows, {}) /\ Rules!Net(rows, {}) = f[Len(rows)]
    BY NetLoop
<1>2. \A n \in 1 .. Len(rows) : f[n] = f[n - 1]
    BY <1>1 DEF Summing
<1>. DEFINE N == Len(rows)
            T == {n \in Nat : n <= N => f[n] = 0}
<1>3. N \in Nat
    OBVIOUS
<1>. HIDE DEF N
<1>4. 0 \in T
    BY <1>1 DEF Summing
<1>5. ASSUME NEW n \in Nat, n \in T PROVE n + 1 \in T
    <2>. SUFFICES ASSUME n + 1 <= N PROVE f[n + 1] = 0
        OBVIOUS
    <2>1. n + 1 \in 1 .. N /\ (n + 1) - 1 = n /\ f[n] = 0
        BY <1>3, <1>5
    <2>. QED BY <1>2, <2>1 DEF N
<1>6. Nat \subseteq T
    <2>. HIDE DEF T
    <2>. QED BY <1>4, <1>5, Induct
<1>. QED BY <1>1, <1>3, <1>6 DEF N

Balanced(rows) == \A n \in 1 .. Len(rows) : rows[n].after = Opening + Rules!Net(rows, 1 .. n)

RuleInv ==
    /\ upi \in BOOLEAN /\ now \in Int /\ matched \subseteq Rules!Rules
    /\ posted \in Seq(PostedRow) /\ Balanced(posted)
    /\ posted # <<>> =>
        \E first \in Rules!Earliest(posted, Rules!InWindow(posted, Rules!History(posted, now), 7)) :
            "balance_drain" \in matched <=> Rules!BalanceDrain(posted, Rules!History(posted, now), first)

LEMMA Matching ==
    ASSUME NEW rows, NEW seen, NEW first
    PROVE  /\ Rules!EvaluateRules(rows, seen, first) \subseteq Rules!Rules
           /\ "balance_drain" \in Rules!EvaluateRules(rows, seen, first)
                <=> Rules!BalanceDrain(rows, seen, first)
<1>1. Rules!EvaluateRules(rows, seen, first) \subseteq Rules!Rules
    BY DEF Rules!EvaluateRules, Rules!Rules
<1>2. "balance_drain" \notin DOMAIN Rules!Groups
    BY DEF Rules!Groups
<1>3. "balance_drain" \in Rules!EvaluateRules(rows, seen, first)
        <=> Rules!BalanceDrain(rows, seen, first)
    BY <1>2 DEF Rules!EvaluateRules
<1>. QED BY <1>1, <1>3

LEMMA ReceiveStep == ASSUME RuleInv, Rules!Next PROVE RuleInv'
<1>. PICK move \in Moves, at \in Times, on \in Times : Rules!Receive(move, at, on)
    BY DEF Rules!Next
<1>. DEFINE N == Len(posted)
            r == [ts |-> at, amount |-> move.amount, direction |-> move.direction,
                  category |-> move.category, channel |-> move.channel,
                  after |-> Rules!Balance + Rules!Delta(move)]
<1>1. posted \in Seq(PostedRow) /\ N \in Nat /\ Balanced(posted)
    BY DEF RuleInv
<1>2. Rules!Balance \in Int /\ Rules!Balance = Opening + Rules!Net(posted, 1 .. N)
    <2>1. Opening \in Int
        BY MoveAssumption
    <2>2. CASE posted = <<>>
        <3>1. N = 0 /\ 1 .. N = {}
            BY <2>2
        <3>2. Rules!Net(posted, 1 .. N) = 0
            BY <1>1, <3>1, NetEmpty
        <3>. QED BY <2>1, <2>2, <3>2 DEF Rules!Balance
    <2>3. CASE posted # <<>>
        <3>1. N \in 1 .. N /\ posted[N] \in PostedRow
            BY <1>1, <2>3
        <3>2. posted[N].after = Opening + Rules!Net(posted, 1 .. N)
            BY <1>1, <3>1 DEF Balanced
        <3>3. posted[N].after \in Int
            BY <3>1 DEF PostedRow
        <3>. QED BY <2>3, <3>2, <3>3 DEF Rules!Balance
    <2>. QED BY <2>2, <2>3
<1>3. Rules!Delta(move) \in Int /\ Rules!Delta(r) = Rules!Delta(move)
    <2>1. move.amount \in Nat
        BY MoveAssumption
    <2>. QED BY <2>1 DEF Rules!Delta
<1>4. r \in PostedRow
    <2>1. move.amount \in Nat
        BY MoveAssumption
    <2>2. Rules!Balance + Rules!Delta(move) \in Int
        BY <1>2, <1>3
    <2>3. /\ move.direction \in {m.direction : m \in Moves}
          /\ move.category \in {m.category : m \in Moves}
          /\ move.channel \in {m.channel : m \in Moves}
        OBVIOUS
    <2>. QED BY <2>1, <2>2, <2>3 DEF PostedRow
<1>5. posted' = Append(posted, r)
    BY DEF Rules!Receive
<1>. HIDE DEF r
<1>6. posted' \in Seq(PostedRow) /\ Len(posted') = N + 1 /\ posted'[N + 1] = r
      /\ \A n \in 1 .. N : posted'[n] = posted[n]
    BY <1>1, <1>4, <1>5
<1>7. r.after = Rules!Balance + Rules!Delta(move)
    BY DEF r
<1>8. \A n \in 0 .. N : Rules!Net(posted', 1 .. n) = Rules!Net(posted, 1 .. n)
    <2>. SUFFICES ASSUME NEW n \in 0 .. N
                  PROVE  Rules!Net(posted', 1 .. n) = Rules!Net(posted, 1 .. n)
        OBVIOUS
    <2>1. 1 .. n \subseteq 1 .. Len(posted)
        BY <1>1
    <2>2. Rules!Net(Append(posted, r), 1 .. n) = Rules!Net(posted, 1 .. n)
        BY <1>1, <1>4, <2>1, NetPrefix
    <2>. QED BY <1>5, <2>2
<1>9. Balanced(posted')
    <2>. SUFFICES ASSUME NEW n \in 1 .. N + 1
                  PROVE  posted'[n].after = Opening + Rules!Net(posted', 1 .. n)
        BY <1>6 DEF Balanced
    <2>1. CASE n \in 1 .. N
        <3>1. posted[n].after = Opening + Rules!Net(posted, 1 .. n)
            BY <1>1, <2>1 DEF Balanced
        <3>2. Rules!Net(posted', 1 .. n) = Rules!Net(posted, 1 .. n)
            BY <1>1, <1>8, <2>1
        <3>. QED BY <1>6, <2>1, <3>1, <3>2
    <2>2. CASE n = N + 1
        <3>1. n \in 1 .. Len(posted') /\ n - 1 = N
            BY <1>1, <1>6, <2>2
        <3>2. /\ Rules!Net(posted', 1 .. (n - 1)) \in Int
              /\ Rules!Net(posted', 1 .. n) = Rules!Net(posted', 1 .. (n - 1)) + Rules!Delta(posted'[n])
            BY <1>6, <3>1, NetNext
        <3>3. Rules!Net(posted', 1 .. N) = Rules!Net(posted, 1 .. N)
            BY <1>1, <1>8
        <3>4. posted'[n].after = Rules!Balance + Rules!Delta(move)
            BY <1>6, <1>7, <2>2
        <3>5. Rules!Net(posted', 1 .. n) = Rules!Net(posted, 1 .. N) + Rules!Delta(move)
            BY <1>3, <1>6, <2>2, <3>1, <3>2, <3>3
        <3>6. Rules!Net(posted, 1 .. N) \in Int /\ Opening \in Int
            BY <3>1, <3>2, <3>3, MoveAssumption
        <3>. QED BY <1>2, <1>3, <3>4, <3>5, <3>6
    <2>. QED BY <1>1, <2>1, <2>2
<1>10. /\ upi' = upi /\ now' = on
       /\ \E first \in Rules!Earliest(posted', Rules!InWindow(posted', Rules!History(posted', on), 7)) :
             matched' = Rules!EvaluateRules(posted', Rules!History(posted', on), first)
    BY DEF Rules!Receive
<1>11. matched' \subseteq Rules!Rules
    BY <1>10, Matching
<1>12. upi' \in BOOLEAN /\ now' \in Int
    BY <1>10, MoveAssumption DEF RuleInv
<1>13. \E first \in Rules!Earliest(posted', Rules!InWindow(posted', Rules!History(posted', now'), 7)) :
          "balance_drain" \in matched' <=> Rules!BalanceDrain(posted', Rules!History(posted', now'), first)
    BY <1>10, Matching
<1>. QED BY <1>6, <1>9, <1>11, <1>12, <1>13 DEF RuleInv

LEMMA Least == ASSUME NEW U, U \subseteq Nat, U # {} PROVE \E m \in U : \A k \in U : m <= k
<1>. DEFINE R == {ss \in Nat \X Nat : ss[1] < ss[2]}
<1>1. IsWellFoundedOn(R, Nat)
    BY NatLessThanWellFounded DEF OpToRel
<1>2. PICK m \in U : \A k \in U : ~ (<<k, m>> \in R)
    <2>. HIDE DEF R
    <2>. QED BY <1>1, WFMin
<1>3. ASSUME NEW k \in U PROVE m <= k
    <2>1. k \in Nat /\ m \in Nat
        OBVIOUS
    <2>2. ~ (k < m)
        BY <1>2, <2>1
    <2>. QED BY <2>1, <2>2
<1>. QED BY <1>3

\* The rows before the one the rule takes the balance from are those before the week.
LEMMA BeforeTheWeek ==
    ASSUME RuleInv, posted # <<>>, Rules!InTimeOrder, now - Rules!Lookback <= Rules!New(posted).ts - 7,
           NEW first \in Rules!Earliest(posted, Rules!InWindow(posted, Rules!History(posted, now), 7))
    PROVE  /\ Rules!InWindow(posted, Rules!History(posted, now), 7) \cup {Len(posted)}
                 = Rules!InWindow(posted, DOMAIN posted, 7)
           /\ first \in 1 .. Len(posted)
           /\ {n \in DOMAIN posted : posted[n].ts < Rules!New(posted).ts - 7} = 1 .. (first - 1)
<1>. DEFINE N == Len(posted)
            T(n) == posted[n].ts
            week == Rules!InWindow(posted, Rules!History(posted, now), 7)
            whole == Rules!InWindow(posted, DOMAIN posted, 7)
            early == {n \in DOMAIN posted : posted[n].ts < Rules!New(posted).ts - 7}
            least == {n \in week : \A m \in week : posted[n].ts <= posted[m].ts}
<1>1. DOMAIN posted = 1 .. N /\ N \in Nat /\ N \in 1 .. N
    BY DEF RuleInv
<1>2. \A n \in 1 .. N : T(n) \in Int
    <2>1. \A n \in 1 .. N : posted[n] \in PostedRow
        BY DEF RuleInv
    <2>2. Times \subseteq Int
        BY MoveAssumption
    <2>. QED BY <2>1, <2>2 DEF PostedRow
<1>3. \A m, n \in 1 .. N : m < n => T(m) < T(n)
    BY <1>1 DEF Rules!InTimeOrder
<1>4. Rules!New(posted).ts = T(N)
    BY DEF Rules!New
<1>5. now \in Int /\ now - 200 <= T(N) - 7
    BY <1>4 DEF RuleInv, Rules!Lookback
<1>6. \A n : n \in week <=> n \in 1 .. N - 1 /\ T(n) >= now - 200 /\ T(N) - 7 <= T(n) /\ T(n) <= T(N)
    BY <1>4 DEF Rules!InWindow, Rules!History, Rules!Lookback
<1>7. \A n : n \in whole <=> n \in 1 .. N /\ T(N) - 7 <= T(n) /\ T(n) <= T(N)
    BY <1>1, <1>4 DEF Rules!InWindow
<1>8. \A n : n \in early <=> n \in 1 .. N /\ T(n) < T(N) - 7
    BY <1>1, <1>4
<1>9. first \in IF least = {} THEN {N} ELSE least
    BY DEF Rules!Earliest
<1>10. \A n : n \in least <=> n \in week /\ \A m \in week : T(n) <= T(m)
    OBVIOUS
<1>. HIDE DEF N, T, week, whole, early, least
<1>11. \A n : n \in week <=> n \in 1 .. N - 1 /\ T(N) - 7 <= T(n)
    <2>1. \A n \in 1 .. N - 1 : n \in 1 .. N /\ T(n) \in Int /\ T(n) < T(N)
        BY <1>1, <1>2, <1>3
    <2>2. T(N) \in Int
        BY <1>1, <1>2
    <2>. QED BY <1>5, <1>6, <2>1, <2>2
<1>12. week \cup {N} = whole
    <2>1. \A n \in 1 .. N - 1 : n \in 1 .. N /\ T(n) \in Int /\ T(n) < T(N)
        BY <1>1, <1>2, <1>3
    <2>2. T(N) \in Int
        BY <1>1, <1>2
    <2>3. \A n \in 1 .. N : n \in 1 .. N - 1 \/ n = N
        BY <1>1
    <2>4. N \in whole
        BY <1>1, <1>7, <2>2
    <2>5. \A n \in 1 .. N - 1 : n \in week <=> n \in whole
        BY <1>7, <1>11, <2>1, <2>2
    <2>6. \A n : n \in week => n \in 1 .. N - 1
        BY <1>11
    <2>7. \A n : n \in whole => n \in 1 .. N
        BY <1>7
    <2>. QED BY <2>3, <2>4, <2>5, <2>6, <2>7
<1>13. CASE least = {}
    <2>1. week = {}
        <3>. SUFFICES ASSUME week # {} PROVE FALSE
            OBVIOUS
        <3>1. week \subseteq Nat
            BY <1>11
        <3>2. PICK m \in week : \A k \in week : m <= k
            BY <3>1, Least
        <3>3. \A k \in week : T(m) <= T(k)
            <4>. SUFFICES ASSUME NEW k \in week PROVE T(m) <= T(k)
                OBVIOUS
            <4>1. m \in 1 .. N /\ k \in 1 .. N /\ m <= k /\ T(m) \in Int /\ T(k) \in Int
                BY <1>1, <1>2, <1>11, <3>2
            <4>2. m < k => T(m) < T(k)
                BY <1>3, <4>1
            <4>3. m = k => T(m) = T(k)
                OBVIOUS
            <4>. QED BY <4>1, <4>2, <4>3
        <3>4. m \in week /\ \A k \in week : T(m) <= T(k)
            BY <3>2, <3>3, Zenon
        <3>5. m \in least
            BY <1>10, <3>4, Zenon
        <3>. QED BY <1>13, <3>5, Zenon
    <2>2. first = N
        BY <1>9, <1>13
    <2>3. \A n : n \in early <=> n \in 1 .. (N - 1)
        <3>. N \in Nat
            BY <1>1
        <3>1. \A n \in 1 .. N - 1 : n \in 1 .. N
            OBVIOUS
        <3>2. \A n \in 1 .. N - 1 : T(n) \in Int
            BY <1>2, <3>1, Zenon
        <3>3. \A n \in 1 .. N - 1 : ~ (T(N) - 7 <= T(n))
            <4>1. \A n : n \notin week
                BY <2>1
            <4>. QED BY <1>11, <4>1, Zenon
        <3>4. \A n \in 1 .. N - 1 : n \in 1 .. N /\ T(n) \in Int /\ ~ (T(N) - 7 <= T(n))
            BY <3>1, <3>2, <3>3, Zenon
        <3>5. T(N) \in Int
            BY <1>1, <1>2
        <3>6. \A n \in 1 .. N : n \in 1 .. N - 1 \/ n = N
            BY <1>1
        <3>. QED BY <1>8, <3>4, <3>5, <3>6
    <2>4. early = 1 .. (first - 1)
        BY <2>2, <2>3
    <2>. QED BY <1>1, <1>12, <2>2, <2>4 DEF N, week, whole, early
<1>14. CASE least # {}
    <2>1. first \in week /\ \A m \in week : T(first) <= T(m)
        BY <1>9, <1>10, <1>14
    <2>2. first \in 1 .. N /\ first \in 1 .. N - 1 /\ T(N) - 7 <= T(first) /\ T(first) \in Int /\ T(N) \in Int
        BY <1>1, <1>2, <1>11, <2>1
    <2>3. ASSUME NEW n \in 1 .. N PROVE T(n) < T(N) - 7 <=> n < first
        <3>1. T(n) \in Int
            BY <1>2
        <3>2. n < first => T(n) < T(first) /\ n \in 1 .. N - 1
            BY <1>1, <1>3, <2>2
        <3>3. n < first => n \notin week
            BY <2>1, <2>2, <3>1, <3>2
        <3>4. n < first => T(n) < T(N) - 7
            BY <1>11, <2>2, <3>1, <3>2, <3>3
        <3>5. first < n => T(first) < T(n)
            BY <1>3, <2>2
        <3>6. first = n => T(first) = T(n)
            OBVIOUS
        <3>. QED BY <1>1, <2>2, <3>1, <3>4, <3>5, <3>6
    <2>4. \A n : n \in 1 .. (first - 1) <=> n \in 1 .. N /\ n < first
        BY <1>1, <2>2
    <2>5. early = 1 .. (first - 1)
        BY <1>8, <2>3, <2>4
    <2>. QED BY <1>12, <2>2, <2>5 DEF N, week, whole, early
<1>. QED BY <1>13, <1>14

LEMMA DrainFollows == ASSUME RuleInv PROVE DrainIsReal
<1>. SUFFICES ASSUME posted # <<>>, Rules!InTimeOrder,
                     now - Rules!Lookback <= Rules!New(posted).ts - 7
              PROVE  "balance_drain" \in matched <=> Rules!Drained
    BY DEF DrainIsReal, Rules!DrainIsReal
<1>. DEFINE seen == Rules!History(posted, now)
            before == {n \in DOMAIN posted : posted[n].ts < Rules!New(posted).ts - 7}
<1>1. PICK first \in Rules!Earliest(posted, Rules!InWindow(posted, seen, 7)) :
            "balance_drain" \in matched <=> Rules!BalanceDrain(posted, seen, first)
    BY DEF RuleInv
<1>2. /\ Rules!InWindow(posted, seen, 7) \cup {Len(posted)} = Rules!InWindow(posted, DOMAIN posted, 7)
      /\ first \in 1 .. Len(posted)
      /\ before = 1 .. (first - 1)
    BY BeforeTheWeek
<1>. DEFINE net == Rules!Net(posted, before)
            d == Rules!Delta(posted[first])
<1>3. net \in Int /\ Rules!Net(posted, 1 .. first) = net + d
    BY <1>2, NetNext DEF RuleInv
<1>4. posted[first].after = Opening + Rules!Net(posted, 1 .. first)
    BY <1>2 DEF RuleInv, Balanced
<1>5. d \in Int /\ Opening \in Int
    <2>1. posted[first] \in PostedRow
        BY <1>2 DEF RuleInv
    <2>. QED BY <2>1, DeltaTyped, MoveAssumption
<1>. HIDE DEF net, d
<1>6. posted[first].after - d = Opening + net
    BY <1>3, <1>4, <1>5
<1>7. Rules!BalanceDrain(posted, seen, first) <=> Rules!Drained
    BY <1>2, <1>6 DEF Rules!BalanceDrain, Rules!Drained, net, d
<1>. QED BY <1>1, <1>7

LEMMA RuleStep == RuleInv /\ [AllNext]_allVars => RuleInv'
<1>. SUFFICES ASSUME RuleInv, [AllNext]_allVars PROVE RuleInv'
    OBVIOUS
<1>1. CASE UNCHANGED ruleVars
    BY <1>1 DEF RuleInv, ruleVars
<1>2. CASE Rules!Next
    BY <1>2, ReceiveStep
<1>. QED BY <1>1, <1>2 DEF AllNext, allVars

LEMMA RuleInit == AllInit => RuleInv
<1>. SUFFICES ASSUME AllInit PROVE RuleInv
    OBVIOUS
<1>1. upi \in BOOLEAN /\ posted = <<>> /\ now = 0 /\ matched = {}
    BY DEF AllInit, Rules!Init
<1>2. posted \in Seq(PostedRow) /\ Balanced(posted)
    BY <1>1, EmptySeq DEF Balanced
<1>. QED BY <1>1, <1>2 DEF RuleInv

LEMMA RuleAlways == AllSpec => []RuleInv
<1>. QED BY RuleInit, RuleStep, PTL DEF AllSpec

\* A rule about money is about money: while rows are posted in the order of their times
\* and the history reaches back a week before the event, check_balance_drain, which reads
\* one row's balance_after, fires exactly if the week's debits come to 60% of what the
\* account held before the week, for any transactions on any days.
THEOREM DrainRuleIsReal == AllSpec => []DrainIsReal
<1>. QED BY RuleAlways, DrainFollows, PTL

-----------------------------------------------------------------------------
(* Types of the other parts                                                *)
(*                                                                         *)
(* The router's chain has no provider twice, because the order has none;   *)
(* the loads of one customer are counted with those that will commit.      *)

Listing(f, S) ==
    /\ f \in [0 .. Len(Order) -> Seq(Router!Providers)] /\ f[0] = <<>>
    /\ \A n \in 1 .. Len(Order) : f[n] = IF Order[n] \in S THEN Append(f[n - 1], Order[n]) ELSE f[n - 1]

LEMMA OrderListed ==
    /\ Len(Order) \in Nat /\ DOMAIN Order = 1 .. Len(Order)
    /\ \A n \in 1 .. Len(Order) : Order[n] \in Router!Providers
    /\ \A i, j \in 1 .. Len(Order) : Order[i] = Order[j] => i = j
<1>. DEFINE P == {Order[i] : i \in DOMAIN Order}
<1>1. Order \in Seq(P) /\ \A i, j \in DOMAIN Order : Order[i] = Order[j] => i = j
    BY OrderAssumption
<1>2. Len(Order) \in Nat /\ DOMAIN Order = 1 .. Len(Order)
    <2>. HIDE DEF P
    <2>. QED BY <1>1
<1>3. \A n \in 1 .. Len(Order) : Order[n] \in Router!Providers
    BY <1>2 DEF Router!Providers, Router!ToSet
<1>. QED BY <1>1, <1>2, <1>3

LEMMA ChainLoop ==
    ASSUME NEW S
    PROVE  \E f : Listing(f, S) /\ Router!BuildChain(S) = f[Len(Order)]
<1>. DEFINE N == Len(Order)
            P == Router!Providers
            L == Seq(P)
            step == [x \in (1 .. N) \X L |->
                        IF Order[x[1]] \in S THEN Append(x[2], Order[x[1]]) ELSE x[2]]
            Eq(c) == c = [n \in 0 .. N |-> IF n = 0 THEN <<>>
                            ELSE IF Order[n] \in S THEN Append(c[n - 1], Order[n]) ELSE c[n - 1]]
            c == CHOOSE c : Eq(c)
<1>0. N \in Nat /\ \A n \in 1 .. N : Order[n] \in P
    BY OrderListed
<1>. HIDE DEF N, P
<1>1. step \in [(1 .. N) \X L -> L]
    <2>1. \A x \in (1 .. N) \X L : x[1] \in 1 .. N /\ x[2] \in L
        OBVIOUS
    <2>2. \A s \in L, e \in P : Append(s, e) \in L
        OBVIOUS
    <2>. HIDE DEF L
    <2>. QED BY <1>0, <2>1, <2>2
<1>2. PICK f \in [0 .. N -> L] : f[0] = <<>> /\ \A i \in 1 .. N : f[i] = step[<<i, f[i - 1]>>]
    <2>1. Recursion(L, <<>>, N, step)
        <3>1. <<>> \in L /\ N \in Nat
            BY <1>0, EmptySeq
        <3>. HIDE DEF step, Eq, c, L
        <3>. QED BY <3>1, <1>1, PrimitiveRecursion
    <2>. HIDE DEF step, L
    <2>. QED BY <2>1 DEF Recursion
<1>. HIDE DEF L
<1>3. \A i \in 1 .. N : f[i] = IF Order[i] \in S THEN Append(f[i - 1], Order[i]) ELSE f[i - 1]
    <2>. SUFFICES ASSUME NEW i \in 1 .. N
                  PROVE  f[i] = IF Order[i] \in S THEN Append(f[i - 1], Order[i]) ELSE f[i - 1]
        OBVIOUS
    <2>1. f[i - 1] \in L
        BY <1>0, <1>2
    <2>. QED BY <1>2, <2>1
<1>4. Listing(f, S)
    BY <1>2, <1>3 DEF Listing, N, L, P
<1>5. Eq(f)
    <2>. HIDE DEF step
    <2>1. DOMAIN f = 0 .. N /\ f = [n \in 0 .. N |-> f[n]]
        BY <1>2
    <2>2. \A n \in 0 .. N : n = 0 \/ n \in 1 .. N
        BY <1>0
    <2>3. \A n \in 1 .. N : n # 0
        BY <1>0
    <2>4. \A n \in 0 .. N : f[n] = IF n = 0 THEN <<>>
                ELSE IF Order[n] \in S THEN Append(f[n - 1], Order[n]) ELSE f[n - 1]
        BY <1>2, <1>3, <2>2, <2>3, Zenon
    <2>. QED BY <2>1, <2>4, Zenon
<1>6. Eq(c)
    <2>. HIDE DEF Eq
    <2>. QED BY <1>5
<1>7. Router!BuildChain(S) = c[N]
    BY DEF Router!BuildChain, N
<1>8. c = f
    <2>. DEFINE T == {n \in Nat : n <= N => c[n] = f[n]}
    <2>1. 0 \in T
        <3>1. c[0] = <<>>
            <4>. HIDE DEF c
            <4>. QED BY <1>0, <1>6
        <3>. HIDE DEF c
        <3>. QED BY <1>2, <3>1
    <2>2. ASSUME NEW n \in Nat, n \in T PROVE n + 1 \in T
        <3>. SUFFICES ASSUME n + 1 <= N PROVE c[n + 1] = f[n + 1]
            OBVIOUS
        <3>1. n + 1 \in 1 .. N /\ n + 1 \in 0 .. N /\ n + 1 # 0 /\ (n + 1) - 1 = n
            BY <1>0
        <3>2. c[n] = f[n]
            BY <2>2, <1>0
        <3>3. c[n + 1] = IF Order[n + 1] \in S THEN Append(c[n], Order[n + 1]) ELSE c[n]
            <4>. HIDE DEF c
            <4>. QED BY <1>6, <3>1
        <3>. HIDE DEF c, step
        <3>. QED BY <1>3, <3>1, <3>2, <3>3
    <2>3. Nat \subseteq T
        <3>. HIDE DEF T
        <3>. QED BY <2>1, <2>2, Induct
    <2>. HIDE DEF c
    <2>4. \A n \in 0 .. N : c[n] = f[n]
        BY <1>0, <2>3
    <2>. QED BY <1>2, <1>6, <2>4
<1>. QED BY <1>4, <1>7, <1>8 DEF N

NoneTwice(s) == \A i, j \in 1 .. Len(s) : s[i] = s[j] => i = j

\* A chain names providers of S, none of them twice.
LEMMA ChainBuilt ==
    ASSUME NEW S
    PROVE  Router!BuildChain(S) \in Seq(S) /\ NoneTwice(Router!BuildChain(S))
<1>. DEFINE N == Len(Order)
            P == Router!Providers
<1>1. PICK f : Listing(f, S) /\ Router!BuildChain(S) = f[N]
    BY ChainLoop
<1>2. N \in Nat /\ (\A n \in 1 .. N : Order[n] \in P) /\ (\A i, j \in 1 .. N : Order[i] = Order[j] => i = j)
    BY OrderListed
<1>3. \A n \in 0 .. N : f[n] \in Seq(P)
    BY <1>1 DEF Listing
<1>4. f[0] = <<>>
    BY <1>1 DEF Listing
<1>5. \A n \in 1 .. N : f[n] = IF Order[n] \in S THEN Append(f[n - 1], Order[n]) ELSE f[n - 1]
    BY <1>1 DEF Listing
<1>. HIDE DEF N, P
<1>. DEFINE Good(n) == /\ NoneTwice(f[n])
                       /\ \A i \in 1 .. Len(f[n]) : f[n][i] \in S /\ \E j \in 1 .. n : f[n][i] = Order[j]
            T == {n \in Nat : n <= N => Good(n)}
<1>6. 0 \in T
    <2>1. 1 .. Len(f[0]) = {}
        BY <1>4
    <2>. QED BY <2>1 DEF NoneTwice
<1>7. ASSUME NEW n \in Nat, n \in T PROVE n + 1 \in T
    <2>. SUFFICES ASSUME n + 1 <= N PROVE Good(n + 1)
        OBVIOUS
    <2>1. n + 1 \in 1 .. N /\ (n + 1) - 1 = n /\ n \in 0 .. N /\ Good(n)
        BY <1>2, <1>7
    <2>. DEFINE s == f[n]
                e == Order[n + 1]
                k == Len(s)
    <2>2. s \in Seq(P) /\ k \in Nat /\ e \in P
        BY <1>2, <1>3, <2>1
    <2>3. /\ \A i, j \in 1 .. k : s[i] = s[j] => i = j
          /\ \A i \in 1 .. k : s[i] \in S /\ \E j \in 1 .. n : s[i] = Order[j]
        BY <2>1 DEF NoneTwice
    <2>4. CASE e \notin S
        <3>1. f[n + 1] = s
            BY <1>5, <2>1, <2>4
        <3>2. \A j \in 1 .. n : j \in 1 .. n + 1
            OBVIOUS
        <3>. HIDE DEF s, e, k
        <3>. QED BY <2>3, <3>1, <3>2 DEF NoneTwice, k
    <2>5. CASE e \in S
        <3>1. f[n + 1] = Append(s, e)
            BY <1>5, <2>1, <2>5
        <3>2. \A i \in 1 .. k : s[i] # e
            <4>. SUFFICES ASSUME NEW i \in 1 .. k, s[i] = e PROVE FALSE
                OBVIOUS
            <4>1. PICK j \in 1 .. n : s[i] = Order[j]
                BY <2>3
            <4>2. j \in 1 .. N /\ j # n + 1
                BY <1>2, <2>1
            <4>. QED BY <1>2, <2>1, <4>1, <4>2
        <3>. DEFINE g == Append(s, e)
        <3>3. Len(g) = k + 1 /\ g[k + 1] = e /\ \A i \in 1 .. k : g[i] = s[i]
            BY <2>2
        <3>4. \A i \in 1 .. k + 1 : i \in 1 .. k \/ i = k + 1
            BY <2>2
        <3>5. e = Order[n + 1] /\ n + 1 \in 1 .. n + 1 /\ \A j \in 1 .. n : j \in 1 .. n + 1
            OBVIOUS
        <3>. HIDE DEF s, e, k, g
        <3>6. \A i, j \in 1 .. k + 1 : g[i] = g[j] => i = j
            BY <2>3, <3>2, <3>3, <3>4
        <3>7. \A i \in 1 .. k + 1 : g[i] \in S /\ \E j \in 1 .. n + 1 : g[i] = Order[j]
            BY <2>3, <2>5, <3>3, <3>4, <3>5
        <3>. QED BY <3>1, <3>3, <3>6, <3>7 DEF NoneTwice, g
    <2>. QED BY <2>4, <2>5
<1>8. Nat \subseteq T
    <2>. HIDE DEF T
    <2>. QED BY <1>6, <1>7, Induct
<1>9. Good(N) /\ f[N] \in Seq(P)
    BY <1>2, <1>3, <1>8
<1>10. f[N] \in Seq(S)
    <2>1. Len(f[N]) \in Nat /\ f[N] = [i \in 1 .. Len(f[N]) |-> f[N][i]]
        BY <1>9
    <2>2. \A i \in 1 .. Len(f[N]) : f[N][i] \in S
        BY <1>9
    <2>. DEFINE s == f[N]
    <2>. HIDE DEF s
    <2>3. s \in Seq(S)
        BY <2>1, <2>2 DEF s
    <2>. QED BY <2>3 DEF s
<1>. QED BY <1>1, <1>9, <1>10

\* Calls are numbered from one.
RouterInv ==
    /\ Router!TypeOK
    /\ call \in {"chat", "stream"} => number >= 1

LEMMA RouterSame ==
    /\ \A s : Router!ToSet(s) = {s[i] : i \in DOMAIN s}
    /\ \A s : Router!IsInjective(s) <=> \A i, j \in DOMAIN s : s[i] = s[j] => i = j
BY DEF Router!ToSet, Router!IsInjective

\* The chain of a call: the preferred provider, then the others in their order.
LEMMA ChainTyped ==
    ASSUME NEW p
    PROVE  /\ Router!ChainFor(p) \in Seq(keys)
           /\ Router!IsInjective(Router!ChainFor(p))
<1>1. CASE p \notin keys
    <2>1. Router!ChainFor(p) = Router!BuildChain(keys)
        BY <1>1 DEF Router!ChainFor
    <2>2. Router!BuildChain(keys) \in Seq(keys) /\ NoneTwice(Router!BuildChain(keys))
        BY ChainBuilt
    <2>3. DOMAIN Router!BuildChain(keys) = 1 .. Len(Router!BuildChain(keys))
        BY <2>2
    <2>. QED BY <2>1, <2>2, <2>3, RouterSame DEF NoneTwice
<1>2. CASE p \in keys
    <2>. DEFINE rest == Router!BuildChain(keys \ {p})
                all == <<p>> \o rest
                k == Len(rest)
    <2>1. Router!ChainFor(p) = all
        BY <1>2 DEF Router!ChainFor
    <2>2. rest \in Seq(keys \ {p}) /\ NoneTwice(rest)
        BY ChainBuilt
    <2>. HIDE DEF rest
    <2>3. rest \in Seq(keys) /\ k \in Nat /\ \A i \in 1 .. k : rest[i] # p
        BY <2>2
    <2>4. all \in Seq(keys) /\ Len(all) = k + 1 /\ all[1] = p /\ \A i \in 2 .. k + 1 : all[i] = rest[i - 1]
        BY <1>2, <2>3
    <2>5. DOMAIN all = 1 .. k + 1
        BY <2>3, <2>4
    <2>6. \A i, j \in 1 .. k : rest[i] = rest[j] => i = j
        BY <2>2 DEF NoneTwice
    <2>. HIDE DEF all, k
    <2>7. \A i \in 1 .. k + 1 : i = 1 \/ (i \in 2 .. k + 1 /\ i - 1 \in 1 .. k)
        BY <2>3
    <2>8. ASSUME NEW i \in 1 .. k + 1, NEW j \in 1 .. k + 1, all[i] = all[j] PROVE i = j
        <3>1. CASE i = 1 /\ j = 1
            BY <3>1
        <3>2. CASE i = 1 /\ j # 1
            <4>1. all[i] = p /\ all[j] = rest[j - 1] /\ j - 1 \in 1 .. k
                BY <2>4, <2>7, <3>2
            <4>. QED BY <2>3, <2>8, <4>1
        <3>3. CASE i # 1 /\ j = 1
            <4>1. all[j] = p /\ all[i] = rest[i - 1] /\ i - 1 \in 1 .. k
                BY <2>4, <2>7, <3>3
            <4>. QED BY <2>3, <2>8, <4>1
        <3>4. CASE i # 1 /\ j # 1
            <4>1. all[i] = rest[i - 1] /\ all[j] = rest[j - 1] /\ i - 1 \in 1 .. k /\ j - 1 \in 1 .. k
                BY <2>4, <2>7, <3>4
            <4>2. i - 1 = j - 1
                BY <2>6, <2>8, <4>1
            <4>. QED BY <2>3, <4>2
        <3>. QED BY <3>1, <3>2, <3>3, <3>4
    <2>. QED BY <2>1, <2>4, <2>5, <2>8, RouterSame
<1>. QED BY <1>1, <1>2

LEMMA TailTyped ==
    ASSUME chain \in Seq(keys), Router!IsInjective(chain), chain # <<>>
    PROVE  /\ Head(chain) \in keys
           /\ Tail(chain) \in Seq(keys) /\ Router!IsInjective(Tail(chain))
<1>. DEFINE k == Len(chain)
            rest == Tail(chain)
<1>1. Head(chain) \in keys /\ rest \in Seq(keys) /\ k \in Nat /\ k > 0
    OBVIOUS
<1>2. DOMAIN chain = 1 .. k /\ DOMAIN rest = 1 .. k - 1 /\ \A i \in 1 .. k - 1 : rest[i] = chain[i + 1]
    OBVIOUS
<1>3. \A i, j \in 1 .. k : chain[i] = chain[j] => i = j
    BY <1>2, RouterSame
<1>. HIDE DEF k, rest
<1>4. \A i \in 1 .. k - 1 : i + 1 \in 1 .. k
    BY <1>1
<1>5. \A i, j \in 1 .. k - 1 : rest[i] = rest[j] => i + 1 = j + 1
    BY <1>2, <1>3, <1>4
<1>6. \A i, j \in 1 .. k - 1 : i + 1 = j + 1 => i = j
    BY <1>1
<1>7. \A i, j \in DOMAIN rest : rest[i] = rest[j] => i = j
    BY <1>2, <1>5, <1>6
<1>. QED BY <1>1, <1>7, RouterSame DEF rest

LEMMA RouterTyped == ASSUME RouterInv, Router!Next PROVE RouterInv'
<1>. USE DEF RouterInv, Router!TypeOK
<1>0. /\ MaxChats \in Nat /\ MaxDeltas \in Nat
      /\ <<>> \in Seq(keys) /\ Router!IsInjective(<<>>)
    BY OrderAssumption, RouterSame, EmptySeq
<1>1. ASSUME NEW m \in {"chat", "stream"}, NEW p \in Router!Providers, Router!Begin(m, p) PROVE RouterInv'
    <2>1. chain' \in Seq(keys) /\ Router!IsInjective(chain')
        BY <1>1, ChainTyped DEF Router!Begin
    <2>2. number' = number + 1 /\ number' \in 0 .. MaxChats /\ number' >= 1
        BY <1>0, <1>1 DEF Router!Begin
    <2>3. /\ heard' = {} /\ deltas' = 0 /\ UNCHANGED <<keys, tasks, ledger, charged>>
          /\ call' = IF chain' = <<>> THEN "failed" ELSE m
        BY <1>1 DEF Router!Begin
    <2>4. Router!IsInjective(chain)' <=> Router!IsInjective(chain')
        BY DEF Router!IsInjective
    <2>. QED BY <1>0, <2>1, <2>2, <2>3, <2>4
<1>2. ASSUME Router!Delta PROVE RouterInv'
    <2>1. Head(chain) \in keys /\ Head(chain) \in Router!Providers
        BY <1>2, TailTyped DEF Router!Delta, Router!Trying
    <2>2. deltas' \in 0 .. MaxDeltas
        BY <1>0, <1>2 DEF Router!Delta
    <2>3. heard' \subseteq keys
        BY <1>2, <2>1 DEF Router!Delta
    <2>4. UNCHANGED <<keys, chain, call, tasks, ledger, charged, number>>
        BY <1>2 DEF Router!Delta
    <2>. QED BY <2>2, <2>3, <2>4 DEF Router!IsInjective
<1>3. ASSUME Router!Trying, NEW ok \in BOOLEAN, Router!Record(ok) PROVE tasks' \subseteq Router!Row
    <2>1. Head(chain) \in Router!Providers
        BY <1>3, TailTyped DEF Router!Trying
    <2>2. number \in 1 .. MaxChats
        BY <1>0, <1>3 DEF Router!Trying
    <2>3. [call |-> number, provider |-> Head(chain), ok |-> ok] \in Router!Row
        BY <2>1, <2>2 DEF Router!Row
    <2>. QED BY <1>3, <2>3 DEF Router!Record
<1>4. ASSUME Router!Fail PROVE RouterInv'
    <2>1. tasks' \subseteq Router!Row
        BY <1>3, <1>4 DEF Router!Fail
    <2>2. UNCHANGED <<keys, heard, deltas, ledger, charged, number>>
        BY <1>4 DEF Router!Fail
    <2>3. (chain' = Tail(chain) \/ chain' = <<>>) /\ call' \in {call, "failed"}
        BY <1>4 DEF Router!Fail
    <2>4. chain' \in Seq(keys) /\ Router!IsInjective(chain')
        BY <1>0, <1>4, <2>3, TailTyped DEF Router!Fail, Router!Trying
    <2>5. Router!IsInjective(chain)' <=> Router!IsInjective(chain')
        BY DEF Router!IsInjective
    <2>. QED BY <2>1, <2>2, <2>3, <2>4, <2>5
<1>5. ASSUME Router!Answer PROVE RouterInv'
    <2>1. tasks' \subseteq Router!Row
        BY <1>3, <1>5 DEF Router!Answer
    <2>2. UNCHANGED <<keys, heard, deltas, ledger, number>> /\ chain' = <<>> /\ call' = "answered"
        BY <1>5 DEF Router!Answer
    <2>3. charged' \subseteq charged \cup {number} /\ number \in 1 .. MaxChats
        BY <1>0, <1>5 DEF Router!Answer, Router!Trying
    <2>4. Router!IsInjective(chain)' <=> Router!IsInjective(chain')
        BY DEF Router!IsInjective
    <2>5. Router!IsInjective(chain') /\ chain' \in Seq(keys)
        BY <1>0, <2>2
    <2>. QED BY <2>1, <2>2, <2>3, <2>4, <2>5
<1>6. ASSUME Router!Abandon PROVE RouterInv'
    <2>1. UNCHANGED <<keys, heard, deltas, tasks, ledger, charged, number>>
          /\ chain' = <<>> /\ call' = "abandoned"
        BY <1>6 DEF Router!Abandon
    <2>2. Router!IsInjective(chain)' <=> Router!IsInjective(chain')
        BY DEF Router!IsInjective
    <2>3. Router!IsInjective(chain') /\ chain' \in Seq(keys)
        BY <1>0, <2>1
    <2>. QED BY <2>1, <2>2, <2>3
<1>7. ASSUME NEW r \in tasks, Router!Persist(r) \/ Router!LoseRow(r) PROVE RouterInv'
    BY <1>7 DEF Router!Persist, Router!LoseRow, Router!IsInjective
<1>. QED BY <1>1, <1>2, <1>4, <1>5, <1>6, <1>7 DEF Router!Next

\* Requests for demo activity that may still commit a history.
Loading == {r \in Loads : load[r] # "idle"}

DemoInv ==
    /\ HistoryInv
    /\ leads \in Nat /\ labels \subseteq Personas
    /\ seeder \in [DemoData!Seeders ->
                     [at : {"idle", "look", "insert", "streams", "keys", "done", "failed"},
                      todo : SUBSET Personas, open : BOOLEAN]]
    /\ account \in BOOLEAN /\ own \in Nat
    /\ load \in [Loads -> {"idle", "counted", "published"}]
    /\ own + Cardinality(Loading) <= Cardinality(Loads)
    /\ inject \subseteq Personas
    /\ entries \in 0 .. MaxEntries /\ group \in BOOLEAN /\ cooldowns \in BOOLEAN
    /\ restarts \in 0 .. MaxRestarts

LEMMA LoadsCounted ==
    ASSUME NEW S, S \subseteq Loads
    PROVE  /\ IsFiniteSet(S) /\ Cardinality(S) \in Nat /\ Cardinality(Loads) \in Nat
           /\ Cardinality(S) <= Cardinality(Loads)
<1>1. IsFiniteSet(Loads)
    BY DemoAssumption
<1>. QED BY <1>1, FS_Subset, FS_CardinalityType

LEMMA DemoTyped == ASSUME DemoInv, DemoData!Next PROVE DemoInv'
<1>. USE DEF DemoData!database, DemoData!redis
<1>0. /\ MaxEntries \in Nat /\ MaxRestarts \in Nat /\ Loading \subseteq Loads
      /\ Cardinality(Loading) \in Nat /\ Cardinality(Loads) \in Nat
    BY DemoAssumption, LoadsCounted DEF Loading
<1>1. ASSUME NEW s \in DemoData!Seeders, DemoData!Truncate(s) PROVE DemoInv'
    <2>1. UNCHANGED load /\ own' = 0
        BY <1>1 DEF DemoData!Truncate
    <2>2. Loading' = Loading /\ Cardinality(Loading) <= Cardinality(Loads)
        BY <1>0, <2>1, LoadsCounted DEF Loading
    <2>3. own' + Cardinality(Loading') <= Cardinality(Loads)
        BY <1>0, <2>1, <2>2
    <2>4. seeder' \in [DemoData!Seeders ->
                     [at : {"idle", "look", "insert", "streams", "keys", "done", "failed"},
                      todo : SUBSET Personas, open : BOOLEAN]]
        BY <1>1 DEF DemoInv, DemoData!Truncate
    <2>5. /\ UNCHANGED <<load, inject, entries, group, cooldowns, restarts>>
          /\ histories' = [p \in Personas |-> 0] /\ leads' = 0 /\ labels' = {} /\ account' = FALSE
        BY <1>1 DEF DemoData!Truncate
    <2>6. HistoryInv'
        BY <2>5 DEF HistoryInv
    <2>. QED BY <2>1, <2>3, <2>4, <2>5, <2>6 DEF DemoInv
<1>2. ASSUME UNCHANGED <<load, own>> PROVE own' + Cardinality(Loading') <= Cardinality(Loads)
    <2>1. Loading' = Loading
        BY <1>2 DEF Loading
    <2>. QED BY <1>2, <2>1 DEF DemoInv
<1>3. ASSUME NEW s \in DemoData!Seeders, DemoData!InsertPersona(s) PROVE DemoInv'
    <2>1. own' + Cardinality(Loading') <= Cardinality(Loads)
        BY <1>2, <1>3 DEF DemoData!InsertPersona
    <2>2. seeder' \in [DemoData!Seeders ->
                     [at : {"idle", "look", "insert", "streams", "keys", "done", "failed"},
                      todo : SUBSET Personas, open : BOOLEAN]]
        <3>1. seeder[s].todo \subseteq Personas
            BY DEF DemoInv
        <3>2. CASE seeder' = [seeder EXCEPT ![s] = [at |-> "failed", todo |-> {}, open |-> FALSE]]
            BY <3>2 DEF DemoInv
        <3>3. CASE \E p : seeder' = [seeder EXCEPT ![s] = [at |-> "look", todo |-> @.todo \ {p}, open |-> FALSE]]
            BY <3>1, <3>3 DEF DemoInv
        <3>. QED BY <1>3, <3>2, <3>3 DEF DemoData!InsertPersona
    <2>3. HistoryInv'
        BY <1>3 DEF DemoInv, HistoryInv, DemoData!InsertPersona, DemoData!Taken
    <2>4. UNCHANGED <<leads, labels, account, own, load, inject, entries, group, cooldowns, restarts>>
        BY <1>3 DEF DemoData!InsertPersona
    <2>. QED BY <2>1, <2>2, <2>3, <2>4 DEF DemoInv
<1>4. ASSUME NEW s \in DemoData!Seeders, DemoData!Look(s) PROVE DemoInv'
    <2>1. own' + Cardinality(Loading') <= Cardinality(Loads)
        BY <1>2, <1>4 DEF DemoData!Look
    <2>. DEFINE p == DemoData!Next1(seeder[s].todo)
                me == seeder[s]
    <2>2. seeder' \in [DemoData!Seeders ->
                     [at : {"idle", "look", "insert", "streams", "keys", "done", "failed"},
                      todo : SUBSET Personas, open : BOOLEAN]]
        <3>. HIDE DEF p
        <3>1. CASE seeder' = [seeder EXCEPT ![s] = [me EXCEPT !.todo = me.todo \ {p}, !.open = TRUE]]
            BY <3>1 DEF DemoInv
        <3>2. CASE seeder' = [seeder EXCEPT ![s] = [me EXCEPT !.at = "insert", !.open = TRUE]]
            BY <3>2 DEF DemoInv
        <3>3. \/ seeder' = [seeder EXCEPT ![s] = [me EXCEPT !.todo = me.todo \ {p}, !.open = TRUE]]
              \/ seeder' = [seeder EXCEPT ![s] = [me EXCEPT !.at = "insert", !.open = TRUE]]
            BY <1>4 DEF DemoData!Look, p
        <3>. QED BY <3>1, <3>2, <3>3
    <2>3. UNCHANGED <<histories, leads, labels, account, own, load, inject, entries, group, cooldowns, restarts>>
        BY <1>4 DEF DemoData!Look
    <2>. QED BY <2>1, <2>2, <2>3 DEF DemoInv, HistoryInv
<1>5. ASSUME NEW s \in DemoData!Seeders, DemoData!StartSeed(s) PROVE DemoInv'
    BY <1>2, <1>5 DEF DemoData!StartSeed, DemoInv, HistoryInv
<1>6. ASSUME NEW s \in DemoData!Seeders, DemoData!ExtraLeads(s) PROVE DemoInv'
    <2>1. UNCHANGED <<histories, labels, account, own, load, inject, entries, group, cooldowns, restarts>>
          /\ leads' = leads + 3
        BY <1>6 DEF DemoData!ExtraLeads
    <2>. DEFINE on == IF s \in Resets THEN "streams" ELSE "done"
    <2>2. on \in {"streams", "done"}
        OBVIOUS
    <2>3. seeder' = [seeder EXCEPT ![s] = [@ EXCEPT !.at = on, !.open = FALSE]]
        BY <1>6 DEF DemoData!ExtraLeads
    <2>. HIDE DEF on
    <2>4. seeder' \in [DemoData!Seeders ->
                     [at : {"idle", "look", "insert", "streams", "keys", "done", "failed"},
                      todo : SUBSET Personas, open : BOOLEAN]]
        BY <2>2, <2>3 DEF DemoInv
    <2>5. own' + Cardinality(Loading') <= Cardinality(Loads)
        BY <1>2, <2>1
    <2>. QED BY <2>1, <2>4, <2>5 DEF DemoInv, HistoryInv
<1>7. ASSUME NEW s \in DemoData!Seeders,
             DemoData!DeleteStreams(s) \/ DemoData!DeleteKeys(s) \/ DemoData!SkipDelete(s)
      PROVE  DemoInv'
    <2>1. UNCHANGED <<histories, leads, labels, account, own, load, inject, restarts>>
        BY <1>7 DEF DemoData!DeleteStreams, DemoData!DeleteKeys, DemoData!SkipDelete
    <2>2. entries' \in {entries, 0} /\ group' \in {group, FALSE} /\ cooldowns' \in {cooldowns, FALSE}
        BY <1>7 DEF DemoData!DeleteStreams, DemoData!DeleteKeys, DemoData!SkipDelete, DemoData!GroupAfter
    <2>3. seeder' \in [DemoData!Seeders ->
                     [at : {"idle", "look", "insert", "streams", "keys", "done", "failed"},
                      todo : SUBSET Personas, open : BOOLEAN]]
        <3>1. seeder' = [seeder EXCEPT ![s].at = "keys"] \/ seeder' = [seeder EXCEPT ![s].at = "done"]
            BY <1>7 DEF DemoData!DeleteStreams, DemoData!DeleteKeys, DemoData!SkipDelete, DemoData!Step
        <3>. QED BY <3>1 DEF DemoInv
    <2>4. own' + Cardinality(Loading') <= Cardinality(Loads)
        BY <1>2, <2>1
    <2>5. entries' \in 0 .. MaxEntries
        BY <1>0, <2>2 DEF DemoInv
    <2>6. group' \in BOOLEAN /\ cooldowns' \in BOOLEAN
        BY <2>2, Zenon DEF DemoInv
    <2>. QED BY <2>1, <2>3, <2>4, <2>5, <2>6 DEF DemoInv, HistoryInv
<1>8. ASSUME NEW p \in Personas, DemoData!PublishInjection(p) \/ DemoData!CommitLabel(p) PROVE DemoInv'
    BY <1>0, <1>2, <1>8 DEF DemoData!PublishInjection, DemoData!CommitLabel, DemoInv, HistoryInv
<1>9. ASSUME NEW r \in Loads, DemoData!CountRows(r) PROVE DemoInv'
    <2>1. own' = 0 /\ load' = [load EXCEPT ![r] = "counted"]
        BY <1>9 DEF DemoData!CountRows
    <2>2. Loading' \subseteq Loads
        BY DEF Loading
    <2>3. own' + Cardinality(Loading') <= Cardinality(Loads)
        BY <2>1, <2>2, LoadsCounted
    <2>. QED BY <1>9, <2>3 DEF DemoData!CountRows, DemoInv, HistoryInv
<1>10. ASSUME NEW r \in Loads, DemoData!PublishBurst(r) PROVE DemoInv'
    <2>1. own' = own /\ load' = [load EXCEPT ![r] = "published"] /\ load[r] = "counted"
        BY <1>10 DEF DemoData!PublishBurst
    <2>2. Loading' = Loading
        BY <2>1 DEF Loading, DemoInv
    <2>3. own' + Cardinality(Loading') <= Cardinality(Loads)
        BY <2>1, <2>2 DEF DemoInv
    <2>. QED BY <1>0, <1>10, <2>3 DEF DemoData!PublishBurst, DemoInv, HistoryInv
<1>11. ASSUME NEW r \in Loads, DemoData!CommitLoad(r) PROVE DemoInv'
    <2>1. own' = own + 1 /\ load' = [load EXCEPT ![r] = "idle"] /\ load[r] # "idle"
        BY <1>11 DEF DemoData!CommitLoad
    <2>2. r \in Loading /\ Loading' = Loading \ {r}
        BY <2>1 DEF Loading, DemoInv
    <2>3. Cardinality(Loading') = Cardinality(Loading) - 1
        BY <1>0, <2>2, LoadsCounted, FS_RemoveElement
    <2>4. own' + Cardinality(Loading') <= Cardinality(Loads)
        BY <1>0, <2>1, <2>3 DEF DemoInv
    <2>. QED BY <1>11, <2>4 DEF DemoData!CommitLoad, DemoInv, HistoryInv
<1>12. ASSUME DemoData!Read \/ DemoData!Restart PROVE DemoInv'
    <2>1. UNCHANGED <<histories, leads, labels, account, own, seeder, load, inject>>
        BY <1>12 DEF DemoData!Read, DemoData!Restart
    <2>2. own' + Cardinality(Loading') <= Cardinality(Loads)
        BY <1>2, <2>1
    <2>3. entries' \in 0 .. MaxEntries /\ restarts' \in 0 .. MaxRestarts
        BY <1>0, <1>12 DEF DemoData!Read, DemoData!Restart, DemoInv
    <2>4. group' \in BOOLEAN /\ cooldowns' \in BOOLEAN
        BY <1>12 DEF DemoData!Read, DemoData!Restart, DemoInv
    <2>. QED BY <2>1, <2>2, <2>3, <2>4 DEF DemoInv, HistoryInv
<1>. QED BY <1>1, <1>3, <1>4, <1>5, <1>6, <1>7, <1>8, <1>9, <1>10, <1>11, <1>12 DEF DemoData!Next

\* The whole: each part's types, of which a step changes one.
LEMMA RouterStep == RouterInv /\ [AllNext]_allVars => RouterInv'
<1>. SUFFICES ASSUME RouterInv, [AllNext]_allVars PROVE RouterInv'
    OBVIOUS
<1>1. CASE Router!Next
    BY <1>1, RouterTyped
<1>2. CASE UNCHANGED routerVars
    BY <1>2 DEF routerVars, RouterInv, Router!TypeOK, Router!IsInjective
<1>. QED BY <1>1, <1>2 DEF AllNext, allVars

LEMMA DemoStep == DemoInv /\ [AllNext]_allVars => DemoInv'
<1>. SUFFICES ASSUME DemoInv, [AllNext]_allVars PROVE DemoInv'
    OBVIOUS
<1>1. CASE DemoData!Next
    BY <1>1, DemoTyped
<1>2. CASE UNCHANGED demoVars
    <2>1. Loading' = Loading
        BY <1>2 DEF demoVars, Loading
    <2>. QED BY <1>2, <2>1 DEF demoVars, DemoInv, HistoryInv
<1>. QED BY <1>1, <1>2 DEF AllNext, allVars

LEMMA RouterInit == AllInit => RouterInv
<1>. SUFFICES ASSUME AllInit PROVE RouterInv
    OBVIOUS
<1>1. /\ keys \subseteq Router!Providers /\ chain = <<>> /\ call = "idle" /\ heard = {} /\ deltas = 0
      /\ tasks = {} /\ ledger = {} /\ charged = {} /\ number = 0
    BY DEF AllInit, Router!Init
<1>2. chain \in Seq(keys) /\ Router!IsInjective(chain)
    BY <1>1, EmptySeq, RouterSame
<1>3. 0 \in 0 .. MaxChats /\ 0 \in 0 .. MaxDeltas
    BY OrderAssumption
<1>. QED BY <1>1, <1>2, <1>3 DEF RouterInv, Router!TypeOK

LEMMA DemoInit == AllInit => DemoInv
<1>. SUFFICES ASSUME AllInit PROVE DemoInv
    OBVIOUS
<1>1. /\ leads = 0 /\ labels = {} /\ account = FALSE /\ own = 0 /\ inject = {} /\ entries = 0
      /\ group = TRUE /\ cooldowns = FALSE /\ restarts = 0 /\ load = [r \in Loads |-> "idle"]
    BY DEF AllInit, DemoData!Init
<1>2. Loading = {} /\ load \in [Loads -> {"idle", "counted", "published"}]
    BY <1>1 DEF Loading
<1>3. Cardinality(Loading) = 0 /\ Cardinality(Loads) \in Nat
    BY <1>2, LoadsCounted, FS_EmptySet
<1>4. own \in Nat /\ own + Cardinality(Loading) <= Cardinality(Loads)
    BY <1>1, <1>3
<1>5. seeder \in [DemoData!Seeders ->
                     [at : {"idle", "look", "insert", "streams", "keys", "done", "failed"},
                      todo : SUBSET Personas, open : BOOLEAN]]
    BY DEF AllInit, DemoData!Init
<1>6. HistoryInv
    BY DEF AllInit, DemoData!Init, HistoryInv
<1>7. 0 \in 0 .. MaxEntries /\ 0 \in 0 .. MaxRestarts
    BY DemoAssumption
<1>. QED BY <1>1, <1>2, <1>4, <1>5, <1>6, <1>7 DEF DemoInv

LEMMA PartsTyped ==
    ASSUME TypeOK, BudgetInv, RouterInv, GoalInv, SimInv, RuleInv, DemoInv
    PROVE  TypesOK
<1>1. Budget!TypeOK /\ Router!TypeOK /\ Saving!TypeOK
    BY DEF BudgetInv, RouterInv, GoalInv
<1>2. Sim!TypeOK
    BY DEF SimInv, Sim!TypeOK, StateTyped
<1>3. Rules!TypeOK
    <2>1. \A n \in DOMAIN posted : posted[n] \in PostedRow
        BY DEF RuleInv
    <2>. QED BY <2>1 DEF RuleInv, Rules!TypeOK, PostedRow
<1>4. DemoData!TypeOK
    <2>1. DemoData!Cardinality(Loads) = Cardinality(Loads)
        BY DEF Cardinality, DemoData!Cardinality, IsFiniteSet, DemoData!IsFiniteSet
    <2>2. Loading \subseteq Loads
        BY DEF Loading
    <2>3. Cardinality(Loading) \in Nat /\ Cardinality(Loads) \in Nat
        BY <2>2, LoadsCounted
    <2>4. own \in 0 .. Cardinality(Loads)
        BY <2>3 DEF DemoInv
    <2>5. histories \in [Personas -> Nat]
        BY DEF DemoInv, HistoryInv
    <2>. QED BY <2>1, <2>4, <2>5 DEF DemoData!TypeOK, DemoInv
<1>. QED BY <1>1, <1>2, <1>3, <1>4 DEF TypesOK

\* Every part keeps its types: a chain names no provider twice, calls and loads stay within
\* what was asked for, the counter of the budget within the calls that may be made; no
\* matter how many loads of one customer overlap, as many histories commit at most.
THEOREM PartsKeepTheirTypes == AllSpec => []TypesOK
<1>1. AllInit => Init
    BY DEF AllInit
<1>2. [AllNext]_allVars => [Next]_vars
    BY DEF AllNext, allVars
<1>3. AllSpec => []TypeOK
    BY <1>1, <1>2, TypeCorrect, PTL DEF AllSpec, Spec
<1>4. AllSpec => []RouterInv
    BY RouterInit, RouterStep, PTL DEF AllSpec
<1>5. AllSpec => []DemoInv
    BY DemoInit, DemoStep, PTL DEF AllSpec
<1>. QED BY <1>3, <1>4, <1>5, BudgetAlways, GoalAlways, SimAlways, RuleAlways, PartsTyped, PTL
=============================================================================
