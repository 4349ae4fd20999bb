CONSTANTS
    w1 = w1
    w2 = w2
    Workers = {w1, w2}
    NoOne = NoOne
    NudgeAfter = 1
    OfferAfter = 2
    Tier1 = 1
    Tier2 = 2
    Tier3 = 5
    Cooldown = 1
    MaxChecks = 2
    MaxReminders = 1
    MaxAsked = 3
    MaxFaults = 2
SPECIFICATION Spec
SYMMETRY WorkerSymmetry
CONSTRAINT OneGroup
INVARIANTS
    TypeOK
    RemindersCapped
    HoursMadeOnce
    OncePerWait
    OneGreetingADay
    ChecksCapped
PROPERTIES
    ChecksSpaced
