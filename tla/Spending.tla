------------------------------ MODULE Spending ------------------------------
(***************************************************************************)
(* The daily LLM budget: the override staff set from the console           *)
(* (app/core/runtime_settings.py and the settings routes of                *)
(* app/api/v1/console.py), the spend counter of the day                    *)
(* (app/llm/budget.py) and the automated agent runs it holds back.         *)
(*                                                                         *)
(* The override is a Redis key, the audit of a change a database row of a  *)
(* later transaction.  A read that fails counts as unset, or as nothing    *)
(* spent; a write that fails is an error (override) or ignored (spend).    *)
(***************************************************************************)
EXTENDS Integers, FiniteSets

CONSTANTS
    Staff,          \* console requests, one at a time each
    Runs,           \* automated agent runs at the same time
    Asked,          \* budgets staff ask for, NotANumber among them if wanted
    NotANumber,
    StaticBudget,   \* llm_daily_budget_usd
    BudgetMax,      \* _BUDGET_MAX; _BUDGET_MIN is zero
    MaxCalls,       \* bound: LLM calls of one run
    MaxChanges,     \* bound: accepted changes
    MaxFaults       \* bound: failed Redis commands and requests that stop

VARIABLES
    override,       \* the Redis key, or Unset
    audited,        \* values the committed audit rows show as the new ones
    patch,          \* what each console request is doing
    spent,          \* the day's counter
    run,            \* what each automated run is doing
    changes,
    faults,
    \* history
    automated       \* what runs under a budget, not the chat, have spent today

settings == <<override, audited, patch, changes>>
vars     == <<settings, spent, run, faults, automated>>

Unset  == -1
Quiet  == [at |-> "idle", new |-> Unset]
NoRun  == [at |-> "idle", budget |-> 0, calls |-> 0]
SpentMax == BudgetMax + (Cardinality(Runs) + 1) * MaxCalls       \* bound of the counter

Init ==
    /\ override = Unset /\ audited = {Unset}
    /\ patch = [s \in Staff |-> Quiet]
    /\ changes = 0
    /\ spent = 0
    /\ run = [r \in Runs |-> NoRun]
    /\ faults = 0
    /\ automated = 0

Fails == faults < MaxFaults /\ faults' = faults + 1
Works == faults' = faults

(***************************************************************************)
(* patch_runtime_setting and delete_runtime_setting                        *)
(***************************************************************************)

\* Variant: any number is stored.
Unclamped(v) == v

\* validate_value: clamped, not refused.
Clamped(v) == IF v < 0 THEN 0 ELSE IF v > BudgetMax THEN BudgetMax ELSE v

\* Variant: the audit row shows what was asked for.
SetOverrideAsAsked(s, v) ==
    /\ patch[s].at = "idle" /\ v # NotANumber /\ changes < MaxChanges
    /\ override' = Clamped(v)
    /\ patch' = [patch EXCEPT ![s] = [at |-> "audit", new |-> v]]
    /\ changes' = changes + 1
    /\ UNCHANGED <<audited, spent, run, faults, automated>>

\* set_override; what is no number is a 422.
SetOverride(s, v) ==
    /\ patch[s].at = "idle" /\ v # NotANumber /\ changes < MaxChanges
    /\ override' = Clamped(v)
    /\ patch' = [patch EXCEPT ![s] = [at |-> "audit", new |-> Clamped(v)]]
    /\ changes' = changes + 1
    /\ UNCHANGED <<audited, spent, run, faults, automated>>

ClearOverride(s) ==
    /\ patch[s].at = "idle" /\ changes < MaxChanges
    /\ override' = Unset
    /\ patch' = [patch EXCEPT ![s] = [at |-> "audit", new |-> Unset]]
    /\ changes' = changes + 1
    /\ UNCHANGED <<audited, spent, run, faults, automated>>

\* The audit row, with its commit; rows are appended in any order.
AuditChange(s) ==
    /\ patch[s].at = "audit"
    /\ audited' = audited \cup {patch[s].new}
    /\ patch' = [patch EXCEPT ![s] = Quiet]
    /\ UNCHANGED <<override, changes, spent, run, faults, automated>>

\* The request stops after Redis took the change.
LoseAudit(s) ==
    /\ patch[s].at = "audit" /\ Fails
    /\ patch' = [patch EXCEPT ![s] = Quiet]
    /\ UNCHANGED <<override, audited, changes, spent, run, automated>>

(***************************************************************************)
(* LlmBudgetGuard                                                          *)
(***************************************************************************)

Effective == IF override = Unset THEN StaticBudget ELSE override

\* effective_budget, at the start of run_event_trigger.
ReadBudget(r) ==
    /\ run[r].at = "idle"
    /\ \E seen \in {Effective, StaticBudget} :
        /\ IF seen = Effective THEN Works ELSE Fails
        /\ run' = [run EXCEPT ![r] = [at |-> "check", budget |-> seen, calls |-> 0]]
    /\ UNCHANGED <<settings, spent, automated>>

\* raise_if_over: "a zero/negative budget disables the guard entirely".
OverBudget(budget, seen) == budget > 0 /\ seen >= budget

\* spent_today, zero when Redis fails.
CheckSpent(r) ==
    /\ run[r].at = "check"
    /\ \E seen \in {spent, 0} :
        /\ IF seen = spent THEN Works ELSE Fails
        /\ run' = [run EXCEPT ![r] = IF OverBudget(run[r].budget, seen) THEN NoRun
                                     ELSE [@ EXCEPT !.at = "calls"]]
    /\ UNCHANGED <<settings, spent, automated>>

\* A router call of the run, and record; a counter that cannot be written is skipped.
Call(r) ==
    /\ run[r].at = "calls" /\ run[r].calls < MaxCalls /\ spent < SpentMax
    /\ automated' = IF run[r].budget > 0 THEN automated + 1 ELSE automated
    /\ \/ spent' = spent + 1 /\ Works
       \/ spent' = spent /\ Fails
    /\ run' = [run EXCEPT ![r].calls = @ + 1]
    /\ UNCHANGED settings

RunEnds(r) ==
    /\ run[r].at = "calls"
    /\ run' = [run EXCEPT ![r] = NoRun]
    /\ UNCHANGED <<settings, spent, faults, automated>>

\* The chat never asks the guard.
Chat ==
    /\ spent < BudgetMax
    /\ spent' = spent + 1
    /\ UNCHANGED <<settings, run, faults, automated>>

\* The next UTC day has a counter of its own.
Midnight ==
    /\ spent > 0
    /\ spent' = 0 /\ automated' = 0
    /\ UNCHANGED <<settings, run, faults>>

Next ==
    \/ \E s \in Staff : ClearOverride(s) \/ AuditChange(s) \/ LoseAudit(s)
                            \/ \E v \in Asked : SetOverride(s, v)
    \/ \E r \in Runs : ReadBudget(r) \/ CheckSpent(r) \/ Call(r) \/ RunEnds(r)
    \/ Chat \/ Midnight

Spec == Init /\ [][Next]_vars

(***************************************************************************)
(* Properties                                                              *)
(***************************************************************************)

TypeOK ==
    /\ override \in {Unset} \cup Int /\ audited \subseteq Int
    /\ patch \in [Staff -> [at : {"idle", "audit"}, new : Int]]
    /\ changes \in 0 .. MaxChanges
    /\ spent \in 0 .. SpentMax /\ automated \in 0 .. SpentMax + MaxFaults
    /\ run \in [Runs -> [at : {"idle", "check", "calls"}, budget : Int, calls : 0 .. MaxCalls]]
    /\ faults \in 0 .. MaxFaults

\* "A hard rail so a fat-fingered console entry can never uncork spend": the
\* automated runs of a day that have a budget begin below the largest one, so they
\* spend less than it plus the calls of the runs under way, and of one more for every
\* failure.  (A budget of zero takes the rail away.)
SpendUnderRail ==
    automated < BudgetMax + (Cardinality(Runs) + faults) * MaxCalls

\* Whatever order changes and audits interleave in, the value in force is one
\* the audit trail shows, or one whose audit is still to come.
ValueInForceAudited ==
    \/ override \in audited
    \/ \E s \in Staff : patch[s].at = "audit" /\ patch[s].new = override
    \/ faults > 0
=============================================================================
