------------------------------ MODULE Platform ------------------------------
(* What runs around the pipeline: the sweep of the scheduler, the budget, the *)
(* provider router, the rules, savings goals, the generator and the demo data  *)
(* share no variable here, so each behaviour explores one of them (area) and  *)
(* TLC sees the sum of their state spaces, not their product.                 *)
EXTENDS SchedulerTick, Integers, Sequences, TLC

CONSTANTS
    Areas,
    Staff, Runs, Asked, NotANumber, StaticBudget, BudgetMax, MaxCalls, MaxChanges,
    Order, Priced, MaxDeltas, MaxChats,
    Goals, Target, Amount, MaxBalance, ActiveCap, Evaluators, Creators, MinBaseline,
    Balances, Salary, Rent, Archetype, Events, Modes, SimDays,
    Opening, Moves, Times, MaxPosted,
    Personas, Resets, Seeds, Loads, MaxEntries, MaxRestarts

\* Finitely many processes; the configured budget is within the rail, as its default is
\* (config.py), since only what the console sets is clamped; a persona starts with no debt,
\* and the life events are those that have a script.
ASSUME PlatformAssumption ==
    /\ IsFiniteSet(Runs) /\ IsFiniteSet(Evaluators)
    /\ MaxCalls \in Nat \ {0} /\ MaxChanges \in Nat
    /\ BudgetMax \in Nat \ {0} /\ StaticBudget \in Int /\ StaticBudget <= BudgetMax
    /\ Asked \ {NotANumber} \subseteq Int
    /\ Balances \subseteq Nat /\ Salary \in Nat /\ Rent \in Nat /\ SimDays \in Nat
    /\ Events \subseteq {"none", "job_change", "new_child", "home_purchase", "bonus_windfall",
                        "wedding", "churn_risk"}
    /\ Amount \in Nat /\ MaxBalance \in Nat /\ MinBaseline \in Int /\ MinBaseline <= 0

\* No provider is twice in PROVIDER_ORDER.
ASSUME OrderAssumption ==
    /\ Order \in Seq({Order[i] : i \in DOMAIN Order})
    /\ \A i, j \in DOMAIN Order : Order[i] = Order[j] => i = j
    /\ MaxDeltas \in Nat /\ MaxChats \in Nat

\* Amounts are not negative.
ASSUME MoveAssumption ==
    Opening \in Int /\ Times \subseteq Int /\ \A move \in Moves : move.amount \in Nat

ASSUME DemoAssumption == IsFiniteSet(Loads) /\ MaxEntries \in Nat /\ MaxRestarts \in Nat

VARIABLES
    area,
    override, audited, patch, spent, run, changes, budgetFaults, automated,
    keys, chain, call, heard, deltas, tasks, ledger, charged, number,
    balance, row, notices, eval, create,
    mode, state, event, trigger, day, opening, emitted, published, dropped,
    upi, posted, now, matched,
    histories, leads, labels, seeder, account, own, load, inject, entries, group,
    cooldowns, restarts

Budget == INSTANCE Spending WITH faults <- budgetFaults
Router == INSTANCE Router WITH spent <- charged, MaxCalls <- MaxChats
Saving == INSTANCE Goals
Sim    == INSTANCE Generator WITH MaxDay <- SimDays
Rules  == INSTANCE Prefilter
DemoData == INSTANCE Demo

budgetVars == <<override, audited, patch, spent, run, changes, budgetFaults, automated>>
routerVars == <<keys, chain, call, heard, deltas, tasks, ledger, charged, number>>
goalVars   == <<balance, row, notices, eval, create>>
simVars    == <<mode, state, event, trigger, day, opening, emitted, published, dropped>>
ruleVars   == <<upi, posted, now, matched>>
demoVars   == <<histories, leads, labels, seeder, account, own, load, inject, entries, group,
                cooldowns, restarts>>
allVars    == <<area, vars, budgetVars, routerVars, goalVars, simVars, ruleVars, demoVars>>

\* A module that is not the area keeps its first state; the choices in it are made once.
AllInit ==
    /\ area \in Areas
    /\ Init /\ Budget!Init /\ Router!Init /\ Saving!Init /\ Sim!Init /\ Rules!Init /\ DemoData!Init
    /\ area # "router" => keys = {}
    /\ area # "rules" => upi = FALSE
    /\ area # "goals" => balance = 0
    /\ area # "generator" => mode = "batch" /\ event = "wedding" /\ opening = 1

AllNext ==
    \/ area = "scheduler" /\ Next
       /\ UNCHANGED <<area, budgetVars, routerVars, goalVars, simVars, ruleVars, demoVars>>
    \/ area = "budget" /\ Budget!Next
       /\ UNCHANGED <<area, vars, routerVars, goalVars, simVars, ruleVars, demoVars>>
    \/ area = "router" /\ Router!Next
       /\ UNCHANGED <<area, vars, budgetVars, goalVars, simVars, ruleVars, demoVars>>
    \/ area = "goals" /\ Saving!Next
       /\ UNCHANGED <<area, vars, budgetVars, routerVars, simVars, ruleVars, demoVars>>
    \/ area = "generator" /\ Sim!Next
       /\ UNCHANGED <<area, vars, budgetVars, routerVars, goalVars, ruleVars, demoVars>>
    \/ area = "rules" /\ Rules!Next
       /\ UNCHANGED <<area, vars, budgetVars, routerVars, goalVars, simVars, demoVars>>
    \/ area = "demo" /\ DemoData!Next
       /\ UNCHANGED <<area, vars, budgetVars, routerVars, goalVars, simVars, ruleVars>>

AllSpec == AllInit /\ [][AllNext]_allVars

\* The type invariants of the seven modules.
TypesOK ==
    /\ TypeOK /\ Budget!TypeOK /\ Router!TypeOK /\ Saving!TypeOK
    /\ Sim!TypeOK /\ Rules!TypeOK /\ DemoData!TypeOK
\* Automated runs stop at the daily budget, but for the calls already under way.
SpendUnderRail == Budget!SpendUnderRail
\* The budget in force is one the audit trail shows.
ValueInForceAudited == Budget!ValueInForceAudited
\* The text of one call comes from one provider.
OneVoice == Router!OneVoice
\* An achieved goal has been announced, at most once by each overlapping evaluation.
AnnouncedPerOverlap == Saving!AnnouncedPerOverlap
\* Funded debits are never dropped by the overdraft guard.
FundedDebitsPost == Sim!FundedDebitsPost
\* A rule fires for a drain exactly when the account was drained.
DrainIsReal == Rules!DrainIsReal
\* Overlapping resets and seeds leave one history per persona.
OneHistoryPerPersona == DemoData!OneHistoryPerPersona
=============================================================================
