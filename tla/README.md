# Sarathi: a TLA+ development of the backend

Sarathi is a bank assistant: a FastAPI backend (`src/backend/app`) over Postgres
(READ COMMITTED) and Redis, one worker process that runs a stream consumer and a
scheduler side by side, a mesh of LLM agents, and a Next.js frontend. This directory
models the parts of the backend whose correctness depends on the order of concurrent
steps, on what is lost between them, or on an algorithm that tests reach only in part:
money posted to the ledger, live events and the rules over them, staff decisions with
their audit trail, recurring transfers, savings goals, sign-in and sessions, chat turns
of the agents, what they remember and offer, the budget and the providers of the
language models, and the simulator. The modules are translated from the source; each
definition carries the source's name where it can, and `PROJECT.json` gives the lines
it stands for.

Contents: 1 the system, 2 what is modelled and how it maps to the code, 3 the runs,
4 fairness and deadlock, 5 the proofs, 6 divergences found, 7 what is not modelled,
8 how the modules were ordered and what could follow.

## 1. The system

### Processes and shared state

| Who runs | Concurrency | State it shares |
|---|---|---|
| API (`app/main.py`, `app/api/v1`) | asyncio, one database session per request | Postgres rows; Redis sessions, settings, rate buckets; publishes to `txn.events` |
| Worker, consumer task (`app/workers/event_consumer.py`) | one loop per process, each under a consumer name of its own; one process is deployed (`infra/DEPLOY.md:209`), a second may overlap while it is replaced | the consumer group of `txn.events`, cooldown keys, `txn.events.dlq`, the ledger |
| Worker, scheduler task (`app/workers/scheduler.py`) | a tick every half hour, in the same process as the consumer | standing instructions with their Redis run locks, goals, daily sweep counters |
| Agent mesh (`app/agents`) | called by the API and by both worker tasks | proposals, handoffs, notifications, audit log, spend counters |

Processes interact through the database and Redis only. A request or a delivery is one
or several database transactions; between them, and between a Redis call and a commit,
other processes run and any process may die. `SELECT ... FOR UPDATE`, the unique index
on `transactions.event_id`, the audit advisory lock, Redis `SET NX` and the consumer
group's pending list are all the synchronisation there is.

### Components

| Component | State | Operations | Hard behaviour | Module |
|---|---|---|---|---|
| Ledger (`services/ledger.py`) | accounts with `balance_paise`, transactions with `balance_after` and `event_id` | open, post, post once per event | a session keeps a loaded account across the row lock; a duplicate races the first insert | `Ledger`, `Statement` |
| Event consumer (`workers/event_consumer.py`) | group cursor, pending entries, delivery counts, cooldown keys, dead letters | read, reclaim, post, gate rules, run agent, ack, dead-letter | reclaim of an entry still being processed; crash between post, rules, dead letter and ack | `EventConsumer` |
| Rule prefilter (`workers/prefilter.py`) | none: a function of a history | five rules | windows, late and backdated rows, ties, thresholds | `Prefilter` |
| Staff decisions (`api/v1/console.py`, `agents/entrypoints.py`) | proposals, handoffs, signatures | approve, reject, claim, resolve, notes | status checked without a lock; opposite lock orders; an email leaves before the commit | `StaffDecisions` |
| Audit trail (`agents/guardrails.py`) | hash-chained rows | record, verify | concurrent appends, rollbacks | `StaffDecisions` |
| Standing instructions (`services/standing.py`) | status, next run date, runs, run-lock keys | create, pause, resume, cancel, tick | overlapping ticks; requests between a tick's load and its commit; a rolled back batch leaves its keys | `StandingInstructions` |
| Scheduler sweep (`workers/scheduler.py`) | daily counter, per-customer cooldown, master switch | tick | counter read before and written after a run; failing Redis commands | `SchedulerTick` |
| Savings goals (`services/goals.py`) | goals with baseline and status | create, evaluate, archive, delete | overlapping evaluators; a goal deleted while it is flipped | `Goals` |
| Sessions (`core/security.py`, `api/v1/auth.py`) | Redis session keys, cookies | sign in, refresh, log out, list, revoke | rotation in several commands; answers out of order | `Sessions` |
| Sign-in (`api/v1/auth.py`) | users, customers, codes | code, Google | the session is set before the commit; unique indexes decide races | `SignIn` |
| Passkeys (`api/v1/auth.py`) | challenges, credentials, sign counts | register, sign in, delete | replayed and reordered assertions | `Passkeys` |
| Rate limiter (`core/ratelimit.py`) | counter with a TTL | hit | a crash between INCR and EXPIRE | `RateLimiter` |
| Agent mesh (`agents/`) | a turn's session, the thread's checkpoint, trace, messages | route, call tools, synthesise, reply | four places with commits of their own; overlapping turns | `ChatTurns` |
| Identity check (`services/kyc.py`) | fields of a thread | collect, verify | a checksum with tables typed by hand | `Kyc` |
| Agent memory (`agents/memory.py`) | episodes and facts | remember, extract, prune, forget | rows older than their visibility; overlapping extractions | `Memory` |
| Products and holdings (`services/products.py`, `api/v1/products.py`) | holdings, offers, a cache | browse, rank, apply, execute | a cache per set of holdings; a model's ranking; lookup before insert | `Holdings` |
| LLM router (`llm/router.py`) | cost ledger | chat, stream | a stream broken half-way; rows written by detached tasks | `Router` |
| Budget and settings (`llm/budget.py`, `core/runtime_settings.py`) | spend of the day, overrides | check, record, set, clear | check and record apart; Redis first, audit second | `Spending` |
| Simulator (`sim/`) | generator state | days, life events, live and batch drivers | an event applied in the middle of a day | `Generator` |
| Seed, demo, reset (`seed.py`, `api/v1/demo.py`, `api/v1/console.py`) | persona rows, stream and group | seed, reset, inject, load | overlapping seeders and resets; a stream deleted under the worker | `Demo` |

Components without a protocol of their own are listed in `PROJECT.json` with the reason
they are left out. The hazards of the code, at their lines, are there too, each with the
properties that would notice it, or with a note why none does.

## 2. What is modelled

### Ledger and Statement

`Ledger` models every caller that posts money as a database **session** going through
`idle -> loaded -> (locked) -> checked -> flushed -> idle`. The code behind the steps:

| Action | Code |
|---|---|
| `OpenAccount` | `open_account`: the INSERT of an account with a fresh id, then its opening deposit |
| `LoadForEvent` | `process_envelope`: `list_accounts` puts the account into the session's identity map |
| `LoadForStanding` | `_run_one`: `session.get(Account)` and the cushion check on that object |
| `Lock` | the `SELECT ... FOR UPDATE` in `post_transaction` and `post_transaction_idempotent` |
| `AlreadyApplied`, `NotYetApplied` | the lookup of `event_id` under the lock |
| `Flush`, `LostInsertRace` | the balance and the row are flushed, or the unique index refuses them |
| `Commit`, `Abort` | the caller's commit; any exception, cancellation, lost connection, death |

The variable that carries the interesting part is `known`: the balance in the session's
identity map. SQLAlchemy does not refresh an object that is already loaded when a query
with `FOR UPDATE` returns it again, so `AfterLock` is `known`, not `balance`. Event
posts may go negative (`allow_overdraft`), the others not. A session waits for the row
of its account and for another session's uncommitted row with the same `event_id`.

`Statement` is the abstract specification: one growing list of rows per account, an
event id used once, each `balance_after` equal to an **earlier committed** balance of
that account plus the amount, standing debits leaving the cushion. `Ledger!Abs` is the
refinement mapping `statement <- rows`. It does not say that the latest balance is
extended, because the code does not guarantee that (section 6).

### EventConsumer

The stream is the range `1..published`; the group is `cursor` (last delivered), `owner`
(the pending list), `deliveries`, `idle` (pending for longer than `CLAIM_MIN_IDLE_MS`).
Every worker alternates `ConsumeNew` (`XREADGROUP`) and `ReclaimStale` (`XAUTOCLAIM`)
and handles the entries of its batch in order. `process_envelope` is cut where another
process can interfere: `SkipUnknown`/`SkipDuplicate`/`Post` (everything up to and
including the ledger commit is one step, which `Ledger` justifies), one `SET NX` per matched
rule (`AcquireCooldown`/`SkipCooling`), the guarded run (`RunAgent`, `PauseForBudget`,
`TimeOut`), then `_handle_delivery`'s `Ack`, `LeavePending`, `DeadLetter` (the `XADD`,
then the `XACK` as a step of its own). `ProcessingRaises` is an error at any of these
points; `LoseBatch` is the death of the process or an error of the loop itself.
`BecomeIdle` may happen while the owner is still at work, which is what
makes two workers process one entry. The cooldown key cannot expire under the run that
set it: 300 s against a run timeout of 120 s.

What a rule matches (`Matches`), which payloads are unpostable or belong to no known
customer (`KindOf`), and which entries carry the same event (`EventOf`) are constants.

### StaffDecisions

Each console request is one transaction: it reads a status without a lock (`Begin...`),
then takes the row lock by its UPDATE (`UpdateRow`) and the advisory lock by
`AuditTrail.record` (`AppendAudit`), approvals after dispatching (`Dispatch`) and in the
order audit lock, row; all others row, audit lock. `Commit` writes the columns the
request changed over whatever the row holds by then, appends the audit row, releases
both locks. `Refuse` is an action that cannot be dispatched, `Abort` a failure,
`DeadlockVictim` the rollback Postgres chooses when two requests wait for each other.
An audit row's hash is its position in `log`; `TailHashes` is the tail query of the
code (a row nobody chains from), evaluated on what is committed. `landed` counts what
reached the customer: an email when the call returns, a nudge or an offer at the commit.

### StandingInstructions

One customer's instructions: committed `status`, `due` (`next_run_date`) and `outcomes`
(a ghost: the due date dealt with and the day that was). Requests read and check
(`Ask...`), then save (`Save...`). A tick loads the oldest due ones (`SelectDue`), and
for each takes a Redis run lock keyed by instruction **and due date** (`AcquireRunLock`
or `SkipLocked`), runs it (`RunOne`), and commits them all (`CommitTick`) or none
(`RollBack`); the keys stay either way until they expire.

Abstractions: a date is a day number and a cadence a number of days; no tick spans
midnight (a tick takes seconds); whether the balance suffices is a choice (`Ledger` has
the debit); completed and cancelled are both `ended`; the goal's baseline, month
arithmetic and validation of amounts are left out.

### Sessions, SignIn, Passkeys, RateLimiter

`Sessions`: a sign-in starts a chain; `AskRefresh`, `GetOld`, `Consume` (the `DELETE`,
whose count decides), `Issue` are the commands of `rotate_session`. `AskLogout` and
`AskRevoke` delete a key; `Answer` brings cookies to the browser in any order; `Stop` is
a request that dies between two commands; `Expire` the TTL. `revoked` is history.

`SignIn`: one request is one transaction, committed **after** its answer
(`get_db`); the session key in Redis is set before. `OtpMatch` marks a code,
`SelectBySub`, `SelectByEmail`, `LinkUser`, `InsertUser`, `InsertRefused` find or make
the user under the unique indexes, `EnsureCustomer` the profile, then `SetSession`,
`Welcome`, `Commit`.

`Passkeys`: challenges under Redis keys, assertions made for them that may arrive twice
and in any order, credentials with their sign counts. Signatures are external: an
assertion is one an authenticator made.

`RateLimiter`: `Incr`, `Ttl`, `Stamp` (EXPIRE) and `Judge` as separate commands with
crashes between them; `Rearms` distinguishes `rate_limit`, which repairs a bucket
without a TTL, from the counter of the code route, which does not (section 6).

### ChatTurns, Kyc, Memory, Holdings

`ChatTurns`: a turn reads the checkpoint (`Begin`), is routed (`Supervise`), calls
tools (`CreateLead`, `Qualify`, `Collect`, `Verify`, `Open`, `RequestHandoff`; what the
language model chooses is arbitrary), saves the checkpoint after each node (`Save`),
synthesises, commits or rolls back its session, and leaves a reply. Titles, renaming
and deletion of the thread run beside it. A failing write, a broken session
(`AfterBroken`) and a cancelled request are faults. `audited`, `committed` and `peak`
(turns in flight) are history.

`Kyc`: the tables of the Verhoeff checksum as they stand in the code, the number an
applicant types with a slip or without, and the verdict with its order of branches. The
bucket of the hash is chosen once for a set of fields. The loop of the checksum is a
recursive function on the places (`Folded`), so that it can be reasoned about; so is the
filter of a model's ranking in `Holdings` (`Parse`).

`Memory`: episodes and facts carry `born`, the start of their transaction, which is
not the order they become visible in. `Extract` looks a fact up before it is inserted;
`Prune` ranks and deletes; `Forget` is the customer's.

`Holdings`: the eligibility rules as a list of tests (`Tests`, `Fails`), read twice as the
code reads them: all of them (`_is_eligible`) and the first that fails
(`_ineligibility_reason`); `Rank` with any answer of a model and its fallback; the page
with its cache; `Apply`, `StartExecution`, `SelectHolding`, `WriteHolding`.

### SchedulerTick, Goals, Spending, Router, Prefilter, Generator, Demo

`SchedulerTick`: `Begin` (switch, budget, cap, candidates), then per customer `Check`
(cap again), `Acquire` (the cooldown key), the run with its three outcomes, `Count`.
Any Redis command may fail (`RedisFails`). Days pass, and customers get runs of their
own (`EventRun`) that take them out of the candidates. Its first step is module
`StandingInstructions`, its last two are the evaluation in `Goals` and the pruning in
`Memory`.

`Goals`: each transaction's queries see what is committed then; an UPDATE waits for the
row's uncommitted writer and does not look at the status again; one whose row is gone
rolls the transaction back. Transfers of standing instructions move the baseline.

`Spending`: `SetOverride` clamps and writes Redis, `AuditChange` or `LoseAudit` is the
transaction after it; `ReadBudget`, `CheckSpent`, `Call` are the steps of an automated
run; chat spends without asking. A failed read counts as unset or as nothing spent. A
budget of zero or less switches the guard off in the code, so `automated`, which the
bound is about, counts the calls of runs that were given a positive one.

`Router`: the chain of providers in order, the stream that commits to one with its first
delta, the rows of the ledger written by tasks nobody waits for.

`Prefilter`: the five rules as operators over a history that the consumer loads newest
first, ties in any order; a state is the rows of an account in the order they were
posted with the times their events name. Rows are named by their position, so that a
history and a window are sets of positions.

`Generator`: a day is proposed category by category, settled instant by instant under the
overdraft guard (`Settle`, `Finalize`), and published item by item; a life event changes the state between two
days (batch) or between two items (live).

`Demo`: seeders that look and insert persona by persona, resets that truncate and then
delete streams and keys, injections and loads with their publish before commit, and
whether the consumer group exists.

## 3. The runs

| Run | Instance | Shows |
|---|---|---|
| `ledger` | 2 accounts, 2 sessions, 2 events that may reach either account, 2 rows each | `EventAppliedOnce`, `CushionKept` with failures at every step; no row lock is leaked (`LockReleased`); the refinement of `Statement` (`AbsSpec`) |
| `ledger_lost_update` | 1 account | the stale identity map loses an update (violation) |
| `consumer_safety` | 2 workers, two events matching one rule and a poison entry, 1 fault, 1 budget change | `AckedMeansHandled`, `DeliveredIsPendingOrAcked`, `OneRunPerWindow` |
| `consumer_liveness` | 1 worker, an event published twice, an unknown customer, a poison entry, 2 faults | `EventuallyAcked` |
| `console_safety` | 2 requests, an email proposal, an offer, a handoff, a note, 1 abort | `ChainLinear`, `LogTellsStatus`, `LandingsAudited` |
| `console_liveness` | 2 requests, an email proposal, a handoff | `RequestsEnd`, deadlocks included |
| `console_executed_once` | 2 requests | double execution (violation) |
| `standing` | 2 ticks, 1 caller, 2 instructions, 4 days, 3 requests, 1 rollback | `NoSameDayDoublePost`, `CrashedTickSelfHeals` |
| `standing_double_post` | 2 ticks, 1 instruction, no fault | one due date posted twice (violation) |
| `customer` | eight areas, below | `OneSessionPerChain`, `RevokedChainStaysOut`; `CodeNotWasted`, `WelcomedOnce`; `ChallengeSignsInOnce`; `RefusalsEnd`; `RepliesWereCommitted`, `AccountsFollowVerification`, `DuplicatesNeedOverlap`; `SlipsRefused`; `SuggestionsSound`; `OnlyTheOutrankedFade` |
| `aadhaar_checksum` | the identity area alone | a number the code computes and keeps is not a Verhoeff number (violation) |
| `platform` | seven areas, below | `OneSweepPerWindow`, `SweepsWithinCap`; `SpendUnderRail`, `ValueInForceAudited`; `OneVoice`; `AnnouncedPerOverlap`; `FundedDebitsPost`; `DrainIsReal`; `OneHistoryPerPersona` |

All passing runs are exhaustive: from about 34 thousand (`ledger`) to 2 million distinct
states (`consumer_safety`), in one to about two and a half minutes each. Type invariants
are part of the runs of `Ledger`, `StaffDecisions`, `StandingInstructions`, and as
`TypesOK` of `customer` and `platform`; that of `EventConsumer` is proved.

**Areas.** `Customer` and `Platform` compose modules that share no variable in
the code (`MCCustomer` and `MCPlatform` only give their constants values): what they have in common (a customer, a Redis server) carries no state from
one to the other. A behaviour picks one of them at its start (`area`) and the others
stay still, so TLC explores each completely and the sum of their state spaces instead of
the product. A property of an area is that area's module's property, guarded by it.
Modules that do share state are one module: the lock, the row and the audit trail in
`StaffDecisions`, or the stream, the cooldown and the ledger commit in `EventConsumer`.

**Bounds and why they are enough.** All are named constants and appear only in guards.

- Two of each concurrent actor: one worker is deployed, two may overlap while it is
  replaced (the run locks and per-process consumer names are there for that), and
  every race described above is between two. `SignIn` has four requests: a code that is
  sent, two uses of it and a Google sign-in. The safety results that are proved hold for
  any number (section 5).
- `MaxRows = 2` rows per account bounds new posts, not redeliveries. Overlap needs a
  committed row before and one by each racer; posts already begun may exceed the bound,
  so up to three rows occur. The amounts give one event that debits and one that
  credits, and a transfer with `FloorBuffer = 1` whose check succeeds on a balance that
  a concurrent debit has already spent.
- `MaxDeliveries = 2` or `3`: the limit is reached by a poison entry, and by a good one
  with two faults. `BatchCount = 2` leaves an entry outside a batch.
- `Period = 2`, `Ttl = 1`: a key expires within a cadence, as in the code. `MaxPerTick = 1`
  with two instructions makes a held key block the head of the queue. `DailyCap = 1` with
  three customers and `BatchSize = 2`: the cap is met in the middle of a batch.
- `MaxFaults`, `MaxCrashes`, `MaxPauses`, `MaxLandings`, `MaxNotes`, `MaxCalls`,
  `MaxChanges`, `MaxForgets`, `MaxRestarts` and `MaxDay` let the case happen at least
  once while another actor is at any of its steps; where a property grants a slot per
  fault (`SweepsWithinCap`, `SpendUnderRail`) one fault shows the slot is enough for it.
- Rules: three rows at days 0, 5, 7 and 207 lie inside, on and outside the windows of a
  week and of the 200 days of history, in every order, with equal times among them.
- Identity: ten numbers that put every digit at every place, and every wrong digit in
  them. For all numbers of any length `SlipsRefused` is proved.
- Spending: overrides of 0 and 2 are asked for, and clamped to at most 1.
- Products: two products whose rules and three customers whose columns fail each rule,
  absent values included.
- Generator: three days stand for a run of any length, as every state of a life event
  (salary moved, instalments left, drain) can be reached within them.

## 4. Fairness and deadlock

- `Ledger`: strong fairness of a session's own steps. asyncio keeps scheduling the
  coroutine and Postgres grants a free lock to a waiter; a lock that is free again and
  again is obtained. New calls and failures are not promised.
- `EventConsumer`: weak fairness of each worker's loop (`run_forever` leaves it only at
  shutdown) and of the passing of the idle time. Publishing, faults, timeouts, expiry
  and budget changes are not promised.
- `StaffDecisions`: a transaction's next statement is sent, the server breaks deadlocks
  (weak), a lock goes to a waiter in the end (strong).
- `StandingInstructions`: the scheduler ticks many times a day. `DailyNext` leaves out
  the ticks that would find every key of their selection held, which change nothing in
  the table, and lets midnight come only when the head of the queue is done or its key is held.
  Workers are weakly fair; midnight is strongly fair because a tick may be under way at any instant.
- `RateLimiter`: Redis expires a key with a TTL, and a client goes on and asks again
  (`RefusalsEnd` is about callers that do). Crashes are not promised.

`CHECK_DEADLOCK FALSE` is set where a bound really ends the behaviour: `ledger` (all
accounts full), the console runs (everything decided, notes written), the standing runs
(last day over, everything run or ended), and the areas of `customer` and `platform`
(each request of the instance made, each day over). The consumer's loop never stops, so
its runs check deadlock.

## 5. The proofs

All are checked by TLAPS for every value of the constants that satisfies the module's
named assumptions. The bounds are constants too, so the theorems hold for any bound. The
assumptions are types of the constants, finitely many processes of each kind, distinct
"nobody" values, in `Customer` numbers of one length of at least two digits, a limit that
admits somebody and a period of extraction of at least one turn, and in `Platform` a
configured budget within the rail, as its default is, a persona without debt at its
start, life events that have a script, an order of providers without repetition, and
amounts that are not negative.

| Module | Theorems |
|---|---|
| `Ledger_proofs` | `TypeCorrect`, `EventsApplyOnce`, `CushionIsKept`, `WritersExcludeEachOther`, `LedgerImplementsStatement` |
| `EventConsumer_proofs` | `TypeCorrect`, `NothingIsLost`, `DeliveredStaysClaimable`, `RunsOncePerWindow` |
| `StaffDecisions_proofs` | `TypeCorrect`, `ChainNeverForks`, `AuditExplainsTheTables`, `LandingsShowInTheLog` |
| `StandingInstructions_proofs` | `TypeCorrect`, `RunLockWorks` |
| `Customer_proofs` | `SessionsTyped`, `ChainsNeverFork`, `RevocationIsFinal` of the sessions; `CodesAreNotWasted`, `AccountsAreWelcomedOnce`, `ChallengesSignInOnce`, `RepliesStandForCommits`, `AccountsAreVerified`, `DuplicatesComeFromOverlap`, `MemoriesFadeInOrder` |
| `Onboarding_proofs` | `SlipsAreRefused`, `SuggestionsAreSound`; `CustomersKeepTheirTypes` for all areas of `Customer` |
| `Recursion_proofs` | the lemmas `Induct`, `Recursion`, `PrimitiveRecursion`, which the proofs about loops cite |
| `Platform_proofs` | `TypeCorrect`, `SweptOncePerWindow`, `CapWithOvershoot` of the sweep; `AutomatedSpendUnderRail`, `BudgetInForceAudited`, `StreamsHaveOneVoice`, `GoalsAreAnnounced`, `SeedsDoNotDuplicate`, `FundedDebitsAlwaysPost`, `DrainRuleIsReal`; `PartsKeepTheirTypes` for all areas of `Platform` |

The properties talk about what is committed or acknowledged; what was committed was
decided earlier by a process that has since been interleaved with others. Each inductive
invariant therefore says what a process in the middle of its work carries.

- **Ledger.** `KnownInv`: a session's loaded balance was committed once (`Past`), and a
  standing job's loaded balance covers amount and cushion. `DraftInv`: the draft extends
  it. `FreshDrafts`: its event id is in no committed row and in no other draft, which the
  unique-index wait establishes and every commit keeps. `HoldsLock` gives the exclusion
  of writers. The refinement is then one lemma: only `Commit` changes `rows`, and with
  `KnownInv` and `FreshDrafts` it is a `Post` of `Statement`; all else stutters. The
  cushion survives exactly because the object that was checked is the one that is debited.
- **EventConsumer.** `BatchDelivered`: what a worker holds has been delivered.
  `StepMeans`: where it stands tells what is already true (in `rules` the event is
  applied, in `drop` the dead letter is written), so an `Ack` is justified when it comes.
  `RunsWonWindow`: a worker inside a run owns the window and no other runs that rule.
- **StaffDecisions.** `AuditHeld` and `PrevIsTail`: a request with an audit row inserted
  holds the advisory lock and its `prev` is still the length of the log; `TailIsLast`
  shows that under a linear chain the tail query returns just the last row.
  `LogTellsStatus` is inductive with these, since a commit writes both sides at once.
  `LandingInv` counts: what has landed in the app is the approvals in the log, what has
  landed by mail is those and the approvals that have sent and not committed (`Sent`),
  and a request that sent is an approval of that proposal. An abort takes a request out
  of `Sent` and leaves its mail, hence "at least".
- **StandingInstructions.** `DoneHeld`: what a tick deals with has its key. `Apart`: no
  two ticks deal with the same due date. `PastDone`: what was committed today still has
  its key and is nobody's. The key outlives the commit, which is what carries the first
  two over it.
- **Sessions.** A chain is carried by its key in Redis or by the one request that has
  consumed it and not yet issued the next token; `ChainsBegun` says that carriers and
  revocations belong to chains that have signed in, so a new sign-in starts a chain
  nobody carries. Most steps create no carrier (`QuietStep`); `Consume` moves one and
  `Issue` gives it back. A revoked chain has none, and nothing makes one.
- **SchedulerTick.** `Window`: one sweep was begun under a cooldown key, none without
  one. The cap needs two facts. `Counted`: the sweeps of a day are at most the counter,
  the ticks about to count and the counts lost to faults. `Capped`: the sweeps and the
  ticks let through are at most the cap, one for each further worker of the day
  (`Spare`) and the faults. A check that read a counter below the cap re-establishes the
  second from the first: what the counter has not seen belongs to other workers or to
  faults. The overshoot of the theorem is therefore not slack, it is the argument.
- **Sign-in.** `FoundInv`: what a request found with one query still holds at the next,
  although nothing is locked, because users, profiles and used codes are never undone.
  `CreatedInv`: of the requests that are not rolled back at most one has inserted the
  user row of an email, which the unique index decides. Only that one mails, so the
  welcomes are counted by the requests that mailed (`MailInv`).
- **Passkeys.** `ChallengeInv`: a challenge is unused, open, past the DELETE of one
  request, or answered, one after the other.
- **Chat.** `ReplyInv`: a turn about to reply has committed. `GateInv`: unless a commit
  failed, nobody is verified in a checkpoint, a turn or what a tool opened on the strength
  of it before the trail shows it. For duplicates, `MadeInv` says that a turn makes a
  customer only for a prospect and `CountInv` compares customers with `peak`: one whose
  turn is through owns the thread, which closes it to more prospects, or its reply was
  lost; before that its turn is among those in flight together. `Asking` does it for
  handoffs.
- **Memory.** A row is born when its transaction starts and seen later; no two are born at
  one moment (`BornInv`). `FadeInv`: what a pruner has chosen is outranked by `KeepRecent`
  newer ones (`Outranked`), which later steps only add to, so it still is when the delete
  commits. `FactInv`: the copies of a fact and the writers about to commit one (`Storing`)
  are at most the extractions that overlapped.
- **Identity.** The table `_D` is a group (`Dihedral` gives it in closed form) and every
  row of `_P` is injective, although one row is not the scheme's (section 6). A wrong
  digit at one place leaves the partial checksums before it alone, and makes its own and
  by cancellation all later ones differ (`WrongDigit`). `CheckDigitWorks`: the partial
  checksums of a number with its digit are those of its body, shifted, multiplied from
  the left by the check digit, which is the inverse of the last of them.
- **Products.** Holdings only grow (`HeldStaysHeld`), so what a page took as held is held
  when it is shown; `ParseSound` is about any answer, `ScoredSound` about the fallback,
  `ReasonGiven` about the reason of a refusal.
- **Spending.** The property counts what is spent; `RailInv` counts what may still be
  spent too: the calls that runs already let past the guard have left (`Allowance`).
  `CounterInv` says what the counter of the day misses: one call per failure.
- **Rule prefilter.** `Balanced`: the balance a row carries is what the rows up to it add
  up to from the opening balance, whatever times they name. `RuleInv` adds that what
  matched follows from those rows. While rows are in the order of their times the rows
  before the earliest of a week are exactly those before the week, so the balance the
  rule takes off one row is the account's (`BeforeTheWeek`). The premise on the order is
  needed: without it two rows posted in the reverse order of their times refute the
  property.
- **Router, goals, demo.** `HeardInv`: what was heard came from the head of the chain, and
  a chain that has been heard is not switched. `NoticeInv` counts a goal's notices with
  the evaluators that have seen it active and will announce it (`Announcing`).
  `HistoryInv` is the count itself, which the unique key of a persona's rows keeps.
- **Types.** A type is seldom inductive alone. What a load has counted on its own stays
  below the loads there are because those under way are counted with it (`DemoInv`); a
  chain repeats no provider because `BuildChain` takes each place of the order once
  (`RouterInv`); a cached ranking stays eligible because what it was made for is cached
  with it, and an execution has a proposal to update because none disappears
  (`ShopRest`); a stored sign count was signed (`PasskeyRest`). Of the areas of `Customer`
  the safety theorems had most of the types, and the `...Rest` invariants are what was
  missing.
- **Generator.** `SimInv`: the scheduled items are funded pairs, one per category with the
  debit one instant after its credit and no drain (`Paired`), or fund nothing (`Plain`).
  Either way the day is `Orderly`: what is funded lies before all that could take its
  money. Within the day the invariant of the loops is `Covered`: the balance is at least
  what is owed, the funded debits whose credit has come and which are not paid; a credit
  raises both alike, a debit lowers both, and the buffer of a funded debit is zero. The
  guard then never drops one, whatever balance the day began with. That a persona has one
  event at most is used: a drain of an earlier event could fall between the two.

**Loops.** What a loop computes is proved for inputs of every length: the check digit and
the parsing of an answer in `Onboarding_proofs`, the settling of a day, the sums over a
history (`Net`) and the chain of providers (`BuildChain`) in `Platform_proofs`. The induction theorems of the library take an operator as a
parameter, which the installed provers cannot instantiate; a *set* of numbers that
contains 0 and with each number the next contains all of them, which follows from the
well-foundedness of `<` (`Induct`, from `WFMin`). `PrimitiveRecursion` then shows that a
function defined by its first value and a step exists, without which a recursive
definition says nothing.

**Only model-checked.** Everything temporal (`LockReleased`, `EventuallyAcked`,
`RequestsEnd`, `CrashedTickSelfHeals`, `RefusalsEnd`), since liveness under fairness is
out of the prover's reach. Every safety property of the passing runs is a theorem.

## 6. Divergences between the code and what it says of itself

The first four are runs that end in a counterexample; the lines are quoted in
`PROJECT.json`.

1. `ledger_lost_update`: `ledger.py:164` promises that concurrent posts cannot lose an
   update. Both concurrent callers have the account loaded before the lock
   (`event_consumer.py:226`, `standing.py:328`) and the locking query (`ledger.py:175`)
   has no `populate_existing`, so the second writes an absolute balance computed from
   the old one.
2. `console_executed_once`: `tests/agents/test_proposals.py:98` expects a second execution
   to be refused; two concurrent ones both execute (`entrypoints.py:567`).
3. `standing_double_post`: the run lock is said to exclude a double post of one run
   (`standing.py:28`). A resume between the load and the commit of a tick gives a second
   tick another key, the first commit moves the date back, and the date is posted again
   after the key has expired. The same-day guarantee of `standing.py:76` does hold and is
   proved.
4. `aadhaar_checksum`: the check digit is said to be that of the real scheme
   (`kyc.py:5`). The third row of the permutation table (`kyc.py:43`) is not the second
   applied twice, as it is in Verhoeff's scheme and as the other rows of the table
   follow from each other. Numbers the code completes fail elsewhere and real ones fail
   here; a wrong digit is still noticed (`SlipsRefused`), some swaps are not.

Seen while modelling, and part of the models without a run of their own:

- A budget pause is said to let "the next matching event" run normally
  (`event_consumer.py:171`); the cooldown key it took stays (`PauseForBudget`).
- An error after the ledger commit is said to be retried (`event_consumer.py:21`); the
  retry sees a duplicate, acknowledges, and the rules are never gated (`SkipDuplicate`).
- "only the claimer resolves a claimed one" (`console.py:1896`) does not hold against a
  claim committed between the check and the update.
- The drain rule is documented as more than 60% (`prefilter.py:128`); the code fires at
  60% (`BalanceDrain`), and counts the gross outflow, so money that came back counts too.
- The per-email counter of the code route (`auth.py:641`) is a copy of the limiter
  without its repair: a crash between INCR and EXPIRE leaves it without a TTL
  (`Rearms = FALSE`).
- The tick reads the master switch before each customer; a failed read counts as on
  (`runtime_settings.py`, `RedisFails`).
- After a reset the worker gets NOGROUP from every XREADGROUP until it is restarted,
  since `ensure_group` runs once at its start (`console.py:2175`, `DeleteStreams`).
- Two overlapping evaluations announce a goal twice (`AnnouncedPerOverlap` states the
  bound that does hold), and two creators at the cap both get in.

## 7. Not modelled

What a language model answers is an arbitrary choice wherever it matters. Left out, with
the reason:

- texts, scores, formatting, redaction and compliance terms: their content is data, and
  the order of steps around them is modelled;
- provider adapters, embeddings, email transport: translations to external services
  without state here;
- read endpoints, projections, insights, the activity feed: they change nothing;
- schemas, errors, logging, migrations: declarations; constraints that matter (unique
  `event_id`, email, hash; positive targets) are in the modules that rely on them;
- the tools of the adoption and engagement agents: they read, or draft what becomes a
  proposal, whose life is in `StaffDecisions` and `Holdings`;
- the creation of re-engagement proposals (a check and an insert in one request), the
  cap of standing instructions under two callers, a batch of a tick as several account
  locks in `Ledger`: single check-then-act steps whose overlap is described in
  `PROJECT.json` and needs no exploration to be seen;
- the format of a PAN and the similarity of names: text matching with one outcome;
- the frontend and the deployment, but for the cookie jar and the number of processes.

## 8. How the modules were ordered and what could follow

Money first (`Ledger`, `Statement`), then what posts it (`EventConsumer`,
`StandingInstructions`) and what a human decides (`StaffDecisions`); around them what
admits requests (`Sessions`, `SignIn`, `Passkeys`, `RateLimiter`), what the agents do
(`ChatTurns`, `Kyc`, `Memory`, `Holdings`), what paces and pays for them (`SchedulerTick`,
`Spending`, `Router`, `Goals`), and where the events come from (`Generator`, `Prefilter`,
`Demo`). The proofs follow the same order as far as section 5.

Worth doing next: what the drain rule may get wrong when rows come late, as a bound; a
deletion of the stream in `EventConsumer` itself once the worker recreates its group; two accounts
per session in `Ledger`.
