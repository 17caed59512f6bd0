CONSTANTS
    Names = {"root", "sam", "amy"}
    Ips = {"x", "y", "z"}
    Outset <- MCOutset
    Holders = {"amy"}
    MaxRows = 3
    MaxJobs = 2
    MaxOps = 4
SPECIFICATION Spec
INVARIANTS
    PairsAreMutual
    WriteIsEarned
CHECK_DEADLOCK FALSE
