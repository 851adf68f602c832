------------------------------- MODULE Goals -------------------------------
(***************************************************************************)
(* The savings goals of one customer (app/services/goals.py, the routes of *)
(* app/api/v1/goals.py and the agents' tools): created under a cap,        *)
(* measured against the balance, flipped to achieved with a notification   *)
(* by whoever looks first -- a list request, an agent's tool, the          *)
(* scheduler -- and archived or deleted by the customer.                   *)
(*                                                                         *)
(* Each actor runs in one READ COMMITTED transaction: every query sees     *)
(* what is committed when it runs, an UPDATE or DELETE waits for the row's *)
(* uncommitted writer, and an UPDATE whose row is gone by then raises      *)
(* StaleDataError, which rolls the whole transaction back.                 *)
(***************************************************************************)
EXTENDS Integers, FiniteSets

CONSTANTS
    Goals,          \* ids of the rows
    Target,         \* target_paise, the same for all; a CHECK constraint keeps it positive
    Amount,         \* of every move of the balance
    MaxBalance,     \* bound of the balance
    ActiveCap,      \* MAX_ACTIVE_GOALS
    Evaluators,     \* transactions of evaluate_customer_goals
    Creators,       \* transactions of create_goal
    MinBaseline     \* bound: transfers stop there

VARIABLES
    balance,        \* committed, over the customer's accounts
    row,            \* goal -> its committed row
    notices,        \* goal -> "Goal achieved!" notifications committed
    eval,           \* what each evaluator has read, and the rows it has updated
    create          \* what each creator has read

database == <<balance, row, notices>>
vars     == <<database, eval, create>>

Status   == {"none", "active", "achieved", "archived", "deleted"}
NoEval   == [at |-> "idle", balance |-> 0, todo |-> {}, flipped |-> {}]
NoCreate == [at |-> "idle", baseline |-> 0]

Init ==
    /\ balance \in 0 .. MaxBalance
    /\ row = [g \in Goals |-> [status |-> "none", baseline |-> 0]]
    /\ notices = [g \in Goals |-> 0]
    /\ eval = [e \in Evaluators |-> NoEval]
    /\ create = [c \in Creators |-> NoCreate]

InStatus(s) == {g \in Goals : row[g].status = s}
Unlocked(g) == \A e \in Evaluators : g \notin eval[e].flipped

(***************************************************************************)
(* The balance                                                             *)
(***************************************************************************)

\* A posting; the goal does not know of it.
Move(delta) ==
    /\ balance + delta \in 0 .. MaxBalance
    /\ balance' = balance + delta
    /\ UNCHANGED <<row, notices, eval, create>>

\* A standing instruction set up for a goal moves money out and the baseline with
\* it, whatever the goal's status.
Transfer(g) ==
    /\ balance >= Amount /\ row[g].baseline - Amount >= MinBaseline
    /\ row[g].status \notin {"none", "deleted"} /\ Unlocked(g)
    /\ balance' = balance - Amount
    /\ row' = [row EXCEPT ![g].baseline = @ - Amount]
    /\ UNCHANGED <<notices, eval, create>>

(***************************************************************************)
(* create_goal                                                             *)
(***************************************************************************)

BelowCap == Cardinality(InStatus("active")) < ActiveCap

\* count_active_goals; at the cap the request ends with an error.  Creators that
\* count at the same time exceed it by one each.
CountActive(c) ==
    /\ create[c].at = "idle" /\ BelowCap
    /\ create' = [create EXCEPT ![c].at = "counted"]
    /\ UNCHANGED <<database, eval>>

ReadBaseline(c) ==
    /\ create[c].at = "counted"
    /\ create' = [create EXCEPT ![c] = [at |-> "read", baseline |-> balance]]
    /\ UNCHANGED <<database, eval>>

\* The insert and its commit.
Insert(c, g) ==
    /\ create[c].at = "read" /\ row[g].status = "none"
    /\ row' = [row EXCEPT ![g] = [status |-> "active", baseline |-> create[c].baseline]]
    /\ create' = [create EXCEPT ![c] = NoCreate]
    /\ UNCHANGED <<balance, notices, eval>>

(***************************************************************************)
(* evaluate_customer_goals                                                 *)
(***************************************************************************)

\* The balance is read in a query of its own, before the goals.
ReadBalance(e) ==
    /\ eval[e].at = "idle" /\ InStatus("active") # {}
    /\ eval' = [eval EXCEPT ![e] = [NoEval EXCEPT !.at = "balance", !.balance = balance]]
    /\ UNCHANGED <<balance, row, notices, create>>

Progress(g, b) == IF b > row[g].baseline THEN b - row[g].baseline ELSE 0

\* Variant: every goal is looked at again.
EveryGoal == InStatus("active") \cup InStatus("achieved")

Considered == InStatus("active")
Reached(g, b) == Progress(g, b) >= Target

\* The active goals; _mark_achieved will update those that are there.
Load(e) ==
    /\ eval[e].at = "balance"
    /\ eval' = [eval EXCEPT ![e] = [@ EXCEPT !.at = "flip",
                    !.todo = {g \in Considered : Reached(g, eval[e].balance)}]]
    /\ UNCHANGED <<balance, row, notices, create>>

\* The UPDATE of the next goal, sent by the flush of its notification: with no
\* look at the status the row has by now.
Flip(e, g) ==
    /\ eval[e].at = "flip" /\ g \in eval[e].todo
    /\ row[g].status # "deleted" /\ Unlocked(g)
    /\ eval' = [eval EXCEPT ![e].todo = @ \ {g}, ![e].flipped = @ \cup {g}]
    /\ UNCHANGED <<balance, row, notices, create>>

Commit(e) ==
    /\ eval[e].at = "flip" /\ eval[e].todo = {}
    /\ row' = [g \in Goals |-> IF g \in eval[e].flipped
                               THEN [row[g] EXCEPT !.status = "achieved"] ELSE row[g]]
    /\ notices' = [g \in Goals |-> notices[g] + (IF g \in eval[e].flipped THEN 1 ELSE 0)]
    /\ eval' = [eval EXCEPT ![e] = NoEval]
    /\ UNCHANGED <<balance, create>>

\* A goal to be flipped was deleted meanwhile (StaleDataError); two evaluators each
\* wait for a row of the other, the goals coming in no particular order, and
\* PostgreSQL aborts one; the request, the agent's run or the tick fails otherwise.
RollBack(e) ==
    /\ eval[e].at # "idle"
    /\ eval' = [eval EXCEPT ![e] = NoEval]
    /\ UNCHANGED <<database, create>>

(***************************************************************************)
(* update_goal and delete_goal                                             *)
(***************************************************************************)

\* Archive: for an active or an achieved goal.
Archive(g) ==
    /\ row[g].status \in {"active", "achieved"} /\ Unlocked(g)
    /\ row' = [row EXCEPT ![g].status = "archived"]
    /\ UNCHANGED <<balance, notices, eval, create>>

Delete(g) ==
    /\ row[g].status \notin {"none", "deleted"} /\ Unlocked(g)
    /\ row' = [row EXCEPT ![g].status = "deleted"]
    /\ UNCHANGED <<balance, notices, eval, create>>

Next ==
    \/ Move(Amount) \/ Move(-Amount)
    \/ \E c \in Creators : CountActive(c) \/ ReadBaseline(c) \/ \E g \in Goals : Insert(c, g)
    \/ \E e \in Evaluators : ReadBalance(e) \/ Load(e) \/ Commit(e) \/ RollBack(e)
                            \/ \E g \in Goals : Flip(e, g)
    \/ \E g \in Goals : Transfer(g) \/ Archive(g) \/ Delete(g)

Spec == Init /\ [][Next]_vars

(***************************************************************************)
(* Properties                                                              *)
(***************************************************************************)

TypeOK ==
    /\ balance \in 0 .. MaxBalance
    /\ row \in [Goals -> [status : Status, baseline : MinBaseline .. MaxBalance]]
    /\ notices \in [Goals -> Nat]
    /\ eval \in [Evaluators -> [at : {"idle", "balance", "flip"}, balance : 0 .. MaxBalance,
                                todo : SUBSET Goals, flipped : SUBSET Goals]]
    /\ create \in [Creators -> [at : {"idle", "counted", "read"}, baseline : 0 .. MaxBalance]]

\* An achieved goal has been announced; and not more often than evaluators can
\* have seen it active together.  (Twice does happen.)
AnnouncedPerOverlap == \A g \in Goals :
    /\ row[g].status = "achieved" => notices[g] >= 1
    /\ notices[g] <= Cardinality(Evaluators)
=============================================================================
