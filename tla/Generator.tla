----------------------------- MODULE Generator -----------------------------
(***************************************************************************)
(* The synthetic transactions of one persona (app/sim/generator.py), the   *)
(* life events that change what comes next (app/sim/events.py) and who     *)
(* drives them: the live runner (app/sim/runner.py), which publishes as    *)
(* it goes and applies an event between two transactions of a day that is  *)
(* already generated, and the batch producers (app/sim/seed.py, the        *)
(* console's injection), which apply it between two days.                  *)
(*                                                                         *)
(* Every random draw is a choice.  Amounts are a few units, a day has six  *)
(* instants: 1 is the night, 2 to 4 lie between 05:00 and 05:31, 5 and 6   *)
(* are the rest of the day.                                                *)
(***************************************************************************)
EXTENDS Integers, Sequences, SequencesExt

CONSTANTS
    Balances,       \* first balances
    Salary, Rent,   \* monthly_income_paise, monthly_rent_paise
    Archetype,      \* "salaried", "gig", "business" or "retiree"
    Events,         \* life events that may be scripted
    Modes,          \* "live" and "batch"
    MaxDay          \* bound: days; they stand for a run of any length

VARIABLES
    mode,
    state,          \* GeneratorState
    event,          \* the life event still to come, or "none": a persona has at most one
    trigger,        \* when the runner applies it: [day, ts]
    day,            \* last_generated_date
    opening,        \* balance before that day
    emitted,        \* the transactions of that day
    published,      \* how many of them are on the stream
    \* history
    dropped         \* categories of funded debits of which one was dropped

vars == <<mode, state, event, trigger, day, opening, emitted, published, dropped>>

Instants  == 1 .. 6
Mandatory == 1      \* MANDATORY_BUFFER_PAISE; the discretionary one is smaller here
Funded    == {"booking", "installment", "venue", "jewellery"}

\* new_state
NewState(b) ==
    [balance |-> b, salary |-> Salary, rent |-> Rent, emis |-> {}, credits |-> {},
     debits |-> {}, drain |-> 0, skip |-> 0, decaying |-> FALSE]

Init ==
    /\ mode \in Modes
    /\ \E b \in Balances : state = NewState(b) /\ opening = b
    /\ event \in Events
    /\ trigger \in IF mode = "live" THEN [day : 1 .. MaxDay, ts : {1, 6}] ELSE {[day |-> 1, ts |-> 1]}
    /\ day = 0 /\ emitted = <<>> /\ published = 0 /\ dropped = {}

(***************************************************************************)
(* What a day proposes, in the order of _generate_day; on, due and amounts *)
(* are drawn, a proposal that is not drawn is absent.                      *)
(***************************************************************************)

\* _TIME_WINDOWS
Window(category) == IF category = "drain" THEN Instants ELSE {5, 6}

\* _DayEmitter.propose: what is not positive is no proposal.
Propose(dir, category, amount, buffer, instants) ==
    IF amount <= 0 THEN {<<>>}
    ELSE {<<[dir |-> dir, category |-> category, amount |-> amount, buffer |-> buffer, ts |-> t]>> :
              t \in instants}
Perhaps(P) == P \cup {<<>>}

Share == 99     \* amount_fraction_of_balance: settled by finalize

Due(S) == {s \in S : s.on <= day + 1}

\* Scheduled items keep the clock time of their script, if it gave one.
Listed(S, dir) ==
    SetToSeq({[dir |-> dir, category |-> s.category, amount |-> s.amount,
               buffer |-> 0, ts |-> s.ts] : s \in Due(S)})

Scheduled == Listed(state.credits, "credit") \o Listed(state.debits, "debit")

\* Only on the very day.
Drain == IF state.drain = day + 1 THEN Propose("debit", "drain", Share, 0, Window("drain"))
         ELSE {<<>>}

\* A salary waits out the cycles a job change skips; the day of the month is drawn.
Income ==
    IF Archetype \in {"gig", "business"} \/ state.skip = 0
    THEN Perhaps(Propose("credit", "income", state.salary, 0, Window("income")))
    ELSE {<<>>}

\* Rent, utilities, insurance, tax and loans leave the buffer alone.
RentDue == Perhaps(Propose("debit", "rent", state.rent, Mandatory, {6}))
Utilities == Perhaps(Propose("debit", "bill", 1, Mandatory, {5}))
Emis == IF \E start \in state.emis : start <= day + 1
        THEN Perhaps(Propose("debit", "emi", 1, Mandatory, {5})) ELSE {<<>>}
Insurance == IF Archetype = "salaried" THEN {<<>>} ELSE Utilities

\* UPI, card and cash; UPI spend thins out under churn (_upi_factor).
Discretionary == Perhaps(Propose("debit", "spend", 1, 0, {6}))

(***************************************************************************)
(* _DayEmitter.finalize                                                    *)
(***************************************************************************)

PaidAmount(p, balance) == IF p.amount = Share THEN (3 * balance) \div 4 ELSE p.amount

\* _try_debit and _credit
Apply(acc, p) ==
    LET amount == PaidAmount(p, acc.balance)
        after  == IF p.dir = "debit" THEN acc.balance - amount ELSE acc.balance + amount
    IN  IF amount <= 0 THEN acc
        ELSE IF p.dir = "debit" /\ after < p.buffer
        THEN [acc EXCEPT !.dropped = @ \cup ({p.category} \cap Funded)]
        ELSE [acc EXCEPT !.balance = after,
                         !.txns = Append(@, [ts |-> p.ts, dir |-> p.dir, amount |-> amount])]

\* sorted() is stable: instant by instant, those of one instant in the order proposed.
Settle(acc, props, t) ==
    LET upto[n \in 0 .. Len(props)] ==
            IF n = 0 THEN acc
            ELSE IF props[n].ts = t THEN Apply(upto[n - 1], props[n]) ELSE upto[n - 1]
    IN  upto[Len(props)]

Finalize(props) ==
    LET by[t \in 0 .. 6] ==
            IF t = 0 THEN [balance |-> state.balance, txns |-> <<>>, dropped |-> {}]
            ELSE Settle(by[t - 1], props, t)
    IN  by[6]

\* _generate_day: a salary day that is skipped uses up a cycle.  A batch is
\* published, if at all, in the order of the days once it is complete.
GenerateDay ==
    /\ day < MaxDay /\ published = Len(emitted)
    /\ \E d \in Drain, i \in Income, r \in RentDue, u \in Utilities, e \in Emis,
          n \in Insurance, s \in Discretionary :
        LET end == Finalize(Scheduled \o (d \o i \o r \o u \o e \o n \o s)) IN
        /\ emitted' = end.txns
        /\ dropped' = dropped \cup end.dropped
        /\ \E skip \in {state.skip} \cup {k - 1 : k \in {state.skip} \ {0}} :
            state' = [state EXCEPT !.balance = end.balance, !.skip = skip,
                                   !.credits = @ \ Due(@), !.debits = @ \ Due(@),
                                   !.drain = IF @ = day + 1 THEN 0 ELSE @]
    /\ day' = day + 1
    /\ opening' = state.balance
    /\ published' = IF mode = "live" THEN 0 ELSE Len(emitted')
    /\ UNCHANGED <<mode, event, trigger>>

(***************************************************************************)
(* The scripts of life events, applied as of day d                         *)
(***************************************************************************)

Item(d, category, amount, ts) == [on |-> d, category |-> category, amount |-> amount, ts |-> ts]

\* Variant: both at the same drawn time of the usual window.
UsualTimes == {<<c, p>> : c \in {5, 6}, p \in {5, 6}}

\* _funding_pair_times: the debit a minute after its credit.
PairTimes == {<<m, m + 1>> : m \in {2, 3}}

\* Adds a funding credit and the debit it funds.
Fund(st, d, category, amount, times) ==
    [st EXCEPT !.credits = @ \cup {Item(d, category, amount, times[1])},
               !.debits  = @ \cup {Item(d, category, amount, times[2])}]

JobChange(st, d) == {[st EXCEPT !.salary = @ + 1, !.skip = IF @ > 1 THEN @ ELSE 1]}

\* Baby essentials are not funded; school fees lie years ahead.
NewChild(st, d) ==
    {[st EXCEPT !.debits = {Item(d + o, "baby", 1, t), Item(d + MaxDay + 1, "fees", 2, t)}] :
        o \in {0, 1}, t \in {5, 6}}

HomePurchase(st, d) ==
    {Fund(Fund([st EXCEPT !.rent = 0, !.emis = @ \cup {d + 2}], d + 1, "booking", 2, s), d + 2, "installment", 3, t) :
        s \in PairTimes, t \in PairTimes}

BonusWindfall(st, d) == {[st EXCEPT !.credits = {Item(d, "bonus", 3 * st.salary, t)}] : t \in {5, 6}}

\* The days are drawn: they may coincide.
Wedding(st, d) ==
    {Fund(Fund(st, d + o, "venue", 3, s), d + p, "jewellery", 2, t) :
        o \in {0, 1}, p \in {0, 1}, s \in PairTimes, t \in PairTimes}

ChurnRisk(st, d) == {[st EXCEPT !.decaying = TRUE, !.drain = d + o] : o \in {1, 2}}

Scripted(name, st, d) ==
    CASE name = "job_change"     -> JobChange(st, d)
      [] name = "new_child"      -> NewChild(st, d)
      [] name = "home_purchase"  -> HomePurchase(st, d)
      [] name = "bonus_windfall" -> BonusWindfall(st, d)
      [] name = "wedding"        -> Wedding(st, d)
      [] name = "churn_risk"     -> ChurnRisk(st, d)

ApplyEvent(d) ==
    /\ event # "none"
    /\ state' \in Scripted(event, state, d)
    /\ event' = "none"

\* Between the two segments of a history; the console before its only one, whose
\* first day is the event's.
BatchEvent ==
    /\ mode = "batch"
    /\ ApplyEvent(IF day = 0 THEN 1 ELSE day)
    /\ UNCHANGED <<mode, trigger, day, opening, emitted, published, dropped>>

\* _run_persona_live: nothing looks at the trigger on a day without transactions.
Triggered ==
    /\ mode = "live" /\ event # "none" /\ published < Len(emitted)
    /\ \/ trigger.day < day
       \/ trigger.day = day /\ trigger.ts <= emitted[published + 1].ts

RunnerEvent ==
    /\ Triggered
    /\ ApplyEvent(trigger.day)
    /\ UNCHANGED <<mode, trigger, day, opening, emitted, published, dropped>>

\* XADD to txn.events.
Publish ==
    /\ ~Triggered /\ published < Len(emitted)
    /\ published' = published + 1
    /\ UNCHANGED <<mode, state, event, trigger, day, opening, emitted, dropped>>

Next == GenerateDay \/ BatchEvent \/ RunnerEvent \/ Publish
Spec == Init /\ [][Next]_vars

(***************************************************************************)
(* Properties                                                              *)
(***************************************************************************)

TypeOK ==
    /\ mode \in Modes /\ day \in 0 .. MaxDay
    /\ state.balance >= 0 /\ opening >= 0 /\ published \in 0 .. Len(emitted)
    /\ event \in Events \cup {"none"} /\ dropped \subseteq Funded

\* A wedding or a home is paid with funds credited the same day: those debits
\* "reliably post", whatever else the days bring, whoever drives the generator
\* and however late the runner applies the event.
FundedDebitsPost == dropped = {}
=============================================================================
