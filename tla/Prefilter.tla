----------------------------- MODULE Prefilter -----------------------------
(***************************************************************************)
(* The rules that decide whether a transaction deserves an agent run       *)
(* (app/workers/prefilter.py), over the history the event consumer loads   *)
(* for them (app/workers/event_consumer.py, app/services/ledger.py).       *)
(*                                                                         *)
(* One customer with one account.  A transaction is posted with the time   *)
(* its event names, which may be earlier than that of a row already there  *)
(* (an entry reclaimed late, a backdated injection); rows of equal time    *)
(* are read back in any order.  Times are days, thresholds are compared    *)
(* by cross-multiplication.                                                *)
(***************************************************************************)
EXTENDS Integers, Sequences, SequencesExt, TLC

CONSTANTS
    Opening,        \* balance before the first row
    Moves,          \* bound: [amount, direction, category, channel] of the events
    Times,          \* bound: days an event may name, and days the consumer may run on
    MaxPosted       \* bound: rows

VARIABLES
    upi,            \* persona["upi_active"]
    posted,         \* the rows of the account in the order they were posted
    now,            \* the day the consumer read the history of the newest row
    matched         \* the rules that matched for it

vars == <<upi, posted, now, matched>>

Lookback == 200     \* HISTORY_WINDOW_DAYS
Income   == {"salary", "pension", "business_inflow", "gig_payout", "pocket_money",
             "household_allowance"}

\* The rule of a group, and its categories.
Groups == [recurring_category_baby    |-> {"pharmacy", "baby_essentials"},
           recurring_category_home    |-> {"builder_payment", "home_loan_emi"},
           recurring_category_wedding |-> {"jewellery", "wedding_catering", "venue_booking"}]

Init == upi \in BOOLEAN /\ posted = <<>> /\ now = 0 /\ matched = {}

(***************************************************************************)
(* Helpers of the rules.  rows is the account with the new transaction as  *)
(* its last row, S a set of positions in it.                               *)
(***************************************************************************)

New(rows) == rows[Len(rows)]

\* _in_window: rows of the last days up to, and with, the new transaction's time.
InWindow(rows, S, days) ==
    {n \in S : New(rows).ts - days <= rows[n].ts /\ rows[n].ts <= New(rows).ts}

Delta(r) == IF r.direction = "credit" THEN r.amount ELSE -r.amount

Net(rows, S) ==
    LET sum[n \in 0 .. Len(rows)] ==
            IF n = 0 THEN 0 ELSE IF n \in S THEN sum[n - 1] + Delta(rows[n]) ELSE sum[n - 1]
    IN  sum[Len(rows)]
Outflow(rows, S) == -Net(rows, {n \in S : rows[n].direction = "debit"})

IsIncome(r) == r.direction = "credit" /\ r.category \in Income

\* Twice statistics.median of the income of the last 180 days.
Incomes(rows, seen) ==
    LET list == SetToSeq({n \in InWindow(rows, seen, 180) : IsIncome(rows[n])})
    IN  SortSeq([n \in DOMAIN list |-> rows[list[n]].amount], <)
Median2(s) == s[(Len(s) + 1) \div 2] + s[Len(s) \div 2 + 1]

\* Variant: the rows are taken in the order they came, which is newest first.
AsItComes(rows, S) ==
    IF S = {} THEN {Len(rows)} ELSE {n \in S : \A m \in S : rows[m].ts <= rows[n].ts}

\* The first of the rows and the new one sorted by time.  The sort is stable, so the
\* rows come before the new one, but those of one time in the order they were read.
Earliest(rows, S) ==
    LET first == {n \in S : \A m \in S : rows[n].ts <= rows[m].ts}
    IN  IF first = {} THEN {Len(rows)} ELSE first

(***************************************************************************)
(* The rules: check_...(history, new_txn), with seen the positions of the  *)
(* history                                                                 *)
(***************************************************************************)

Abs(n) == IF n < 0 THEN -n ELSE n

\* An income that moved by a quarter of the median or more.
SalaryChange(rows, seen) ==
    LET s == Incomes(rows, seen)
    IN  IsIncome(New(rows)) /\ s # <<>> /\ 4 * Abs(2 * New(rows).amount - Median2(s)) >= Median2(s)

\* Any credit of three medians or more.
Windfall(rows, seen) ==
    LET s == Incomes(rows, seen)
    IN  New(rows).direction = "credit" /\ s # <<>> /\ 2 * New(rows).amount >= 3 * Median2(s)

\* The second spend of a group of categories within 45 days.
Recurring(rows, seen, group) ==
    /\ New(rows).category \in Groups[group]
    /\ \E n \in InWindow(rows, seen, 45) : rows[n].category \in Groups[group]

\* Debits of seven days against the balance before the first of their rows.
BalanceDrain(rows, seen, first) ==
    LET week  == InWindow(rows, seen, 7) \cup {Len(rows)}
        start == rows[first].after - Delta(rows[first])
    IN  start > 0 /\ 5 * Outflow(rows, week) >= 3 * start

\* A profile that uses UPI without any use of it for 30 days.
Dormancy(rows, seen) ==
    upi /\ \A n \in InWindow(rows, seen, 30) \cup {Len(rows)} : rows[n].channel # "upi"

EvaluateRules(rows, seen, first) ==
    UNION { IF SalaryChange(rows, seen) THEN {"salary_change"} ELSE {},
            {group \in DOMAIN Groups : Recurring(rows, seen, group)},
            IF BalanceDrain(rows, seen, first) THEN {"balance_drain"} ELSE {},
            IF Windfall(rows, seen) THEN {"windfall"} ELSE {},
            IF Dormancy(rows, seen) THEN {"dormancy"} ELSE {} }

(***************************************************************************)
(* One event                                                               *)
(***************************************************************************)

Balance == IF posted = <<>> THEN Opening ELSE posted[Len(posted)].after

\* get_recent_transactions, without the new row.
History(rows, today) == {n \in 1 .. Len(rows) - 1 : rows[n].ts >= today - Lookback}

\* process_envelope: the row, then the rules.  It matters to one rule only in which order
\* rows of equal time were read.
Receive(move, at, today) ==
    /\ Len(posted) < MaxPosted
    /\ posted' = Append(posted, [ts |-> at, amount |-> move.amount, direction |-> move.direction,
                                 category |-> move.category, channel |-> move.channel,
                                 after |-> Balance + Delta(move)])
    /\ \E first \in Earliest(posted', InWindow(posted', History(posted', today), 7)) :
          matched' = EvaluateRules(posted', History(posted', today), first)
    /\ now' = today
    /\ UNCHANGED upi

Next == \E move \in Moves, at, today \in Times : Receive(move, at, today)

Spec == Init /\ [][Next]_vars

(***************************************************************************)
(* Properties                                                              *)
(***************************************************************************)

Rules == {"salary_change", "balance_drain", "windfall", "dormancy"} \cup DOMAIN Groups

TypeOK ==
    /\ upi \in BOOLEAN /\ now \in Int /\ matched \subseteq Rules
    /\ \A n \in DOMAIN posted : posted[n].ts \in Times /\ posted[n].after \in Int

InTimeOrder == \A m, n \in DOMAIN posted : m < n => posted[m].ts < posted[n].ts

\* What the money did over seven days, added up from the opening balance.
Drained ==
    LET week   == InWindow(posted, DOMAIN posted, 7)
        before == Opening + Net(posted, {n \in DOMAIN posted : posted[n].ts < New(posted).ts - 7})
    IN  before > 0 /\ 5 * Outflow(posted, week) >= 3 * before

\* balance_drain rests on one row's balance_after: while rows are posted in the order
\* of their times and the history reaches back a week before the event, it fires
\* exactly if the debits of that week come to 60% of what the account held before it.
DrainIsReal ==
    (posted # <<>> /\ InTimeOrder /\ now - Lookback <= New(posted).ts - 7)
        => ("balance_drain" \in matched <=> Drained)
=============================================================================
