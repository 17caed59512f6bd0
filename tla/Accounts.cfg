CONSTANTS
    Names = {"admin", "bob", "cat"}
    Seed = "admin"
    Initial <- MCInitial
    MaxAttempts = 3
    Window = 2
    LockFor = 2
    PerSecond = 2
    Lifetime = 1
    Guessed = {"bob"}
    FirstTick = 1
    MaxClock = 4
    MaxTokens = 2
    MaxOps = 2
SPECIFICATION Spec
INVARIANTS
    SomeSuperAdmin
    TokensFollowAuthority
    GuessesAreBounded
CHECK_DEADLOCK FALSE
