SPECIFICATION Spec
CONSTANTS
    Nodes = {1, 2, 3, 4}
    Initial = {1, 4}
    Delta <- OneDelta
    Edges <- ExpansionEdges
    Join <- JoinAll
    Conditions <- AllTrue
    MaxAttempts <- TwoAtFour
    MaxParallel = 2
    MaxExpansions = 1
    Budget = 1
    Cost = 1
    Supports = {}
    Unmapped = {2}
    BadInput = {4}
    Strict = {}
    Timed = {}
    Messages <- CancelMessages
    MaxSends = 1
    Options = {"deadline", "iterations", "opfault", "fault"}
INVARIANTS ClosedPlanTerminal
PROPERTIES TerminalPlanIsFinal
