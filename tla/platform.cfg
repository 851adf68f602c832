\* Scheduler: 2 workers, 3 customers, cap 1.  Budget: 2 runs of 2 calls.  Router: 3
\* providers.  Goals: 2, 2 evaluators.  Generator: 3 days.  Rules: 3 rows.  Demo: 2 resets, 1 seed.
SPECIFICATION AllSpec
CONSTANTS
    Areas = {"scheduler", "budget", "router", "goals", "generator", "rules", "demo"}
    Workers = {1, 2}
    Customers = {1, 2, 3}
    Spenders = {1}
    BatchSize = 2
    DailyCap = 1
    MaxDay = 2
    MaxFaults = 1
    Staff = {1, 2}
    Runs = {1, 2}
    Asked = {0, 2}
    NotANumber = 99
    StaticBudget = 1
    BudgetMax = 1
    MaxCalls = 2
    MaxChanges = 2
    Order <- ProviderOrder
    Priced = {"a", "b"}
    MaxDeltas = 2
    MaxChats = 2
    Goals = {1, 2}
    Target = 1
    Amount = 1
    MaxBalance = 1
    ActiveCap = 1
    Evaluators = {1, 2}
    Creators = {1}
    MinBaseline <- LowestBaseline
    Balances = {1}
    Salary = 2
    Rent = 1
    Archetype = "salaried"
    Events = {"job_change", "new_child", "home_purchase", "bonus_windfall", "wedding", "churn_risk"}
    Modes = {"live", "batch"}
    SimDays = 3
    Opening = 4
    Moves <- SomeMoves
    Times = {0, 5, 7, 207}
    MaxPosted = 3
    Personas = {1}
    Resets = {1, 2}
    Seeds = {3}
    Loads = {1}
    MaxEntries = 1
    MaxRestarts = 1
INVARIANTS
    TypesOK
    OneSweepPerWindow
    SweepsWithinCap
    
    
    OneVoice
    AnnouncedPerOverlap
    FundedDebitsPost
    
    OneHistoryPerPersona
CHECK_DEADLOCK FALSE
