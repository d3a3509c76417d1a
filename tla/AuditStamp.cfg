SPECIFICATION Spec
CONSTANTS
    Writers = {1, 2, 3}
    AuditID <- DistinctIDs
    Value <- DistinctValues
    Exponent = {}
    Legacy = {}
    Precision = 1
    MaxClock = 3
    MaxRollbacks = 0
    MaxEdits = 0
    Plans = {"plan"}
    Ended = {}
    Commands = {"start", "control", "bare"}
    Refused = {"control"}
    PlanOf <- OnePlan
    Starts = {"start"}
    Bare = {"bare"}
    Callers = {"start", "bare"}
    Calls <- Calling
    Reconcilers = {"r"}
    Limit = 2
    MaxFaults = 1
INVARIANTS NoUncausedBreak
CHECK_DEADLOCK FALSE
