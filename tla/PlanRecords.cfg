SPECIFICATION Spec
CONSTANTS
    Writers = {1, 2, 3, 4}
    AuditID <- ReplayIDs
    Value <- ReplayValues
    Exponent = {2, 4}
    Legacy = {9}
    Precision = 2
    MaxClock = 4
    MaxRollbacks = 1
    MaxEdits = 1
    Plans = {"plan"}
    Ended = {}
    Commands = {"start", "control", "bare"}
    Refused = {"control"}
    PlanOf <- OnePlan
    Starts = {"start"}
    Bare = {"bare"}
    Callers = {"start", "bare"}
    Calls <- Calling
    Reconcilers = {"r"}
    Limit = 2
    MaxFaults = 1
INVARIANTS VerifierIsRight AnswersHold
PROPERTIES RecoveryDelivers
CHECK_DEADLOCK FALSE
