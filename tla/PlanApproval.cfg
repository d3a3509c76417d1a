SPECIFICATION FairSpec
CONSTANTS
    Nodes = {1, 2}
    Initial = {1, 2}
    Delta <- NoDelta
    Edges <- ChainEdges
    Join <- JoinAll
    Conditions <- AllTrue
    MaxAttempts <- TwoAttempts
    MaxParallel = 1
    MaxExpansions = 0
    Budget = 0
    Cost = 0
    Supports = {1}
    Unmapped = {}
    BadInput = {}
    Strict = {}
    Timed = {}
    Messages <- ApprovalMessages
    MaxSends = 1
    Options = {"approval"}
INVARIANTS QuietClose
PROPERTIES TerminationUnlessPaused ImplementsPlanGraph
