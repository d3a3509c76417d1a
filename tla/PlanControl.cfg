SPECIFICATION Spec
CONSTANTS
    Nodes = {1, 2}
    Initial = {1, 2}
    Delta <- NoDelta
    Edges <- ChainEdges
    Join <- JoinAll
    Conditions <- AllTrue
    MaxAttempts <- OneAttempt
    MaxParallel = 1
    MaxExpansions = 0
    Budget = 0
    Cost = 0
    Supports = {1}
    Unmapped = {}
    BadInput = {}
    Strict = {}
    Timed = {}
    Messages <- ControlMessages
    MaxSends = 2
    Options = {"continue"}
INVARIANTS AppliedOnce
