SPECIFICATION FairSpec
CONSTANTS
    Nodes = {1, 2, 3}
    Initial = {1, 2, 3}
    Delta <- NoDelta
    Edges <- JoinEdges
    Join <- JoinAll
    Conditions <- JoinConditions
    MaxAttempts <- TwoAttempts
    MaxParallel = 1
    MaxExpansions = 0
    Budget = 0
    Cost = 0
    Supports = {}
    Unmapped = {}
    BadInput = {}
    Strict = {1}
    Timed = {1}
    Messages <- NoMessages
    MaxSends = 0
    Options = {}
INVARIANTS OneLiveRun NoStall
PROPERTIES Termination
