SPECIFICATION Spec
CONSTANTS
  Callers = {"x", "y"}
  Runs = {"r", "s"}
  Keys = {"k"}
  Backends = {"a", "b"}
  Requests <- MCRequests
  Signals = {"m", "o"}
  Controls = {"n"}
  Bare = {"o"}
  MaxSent = 2
  MaxFaults = 1
  Workloads <- MCWorkloads
  Mapped = {"cancel", "external_event"}
  Workers = {"w"}
  MaxStartTries = 2
  MaxStatusTries = 2
  MaxCancelTries = 2
  MaxNexusFaults = 2
  Setups <- MCSetups
  MaxToolRounds = 2
  MaxAttempts = 2
  MaxSignals = 2
  ChildSetup <- MCChildSetup
  Queues <- MCQueues
  Mutations <- MCMutations
  MaxRounds = 6
  MaxSends = 2
  Preps = {"a", "b"}
  Demands <- MCDemands
  Policy <- MCPolicy
  Tools <- MCTools
  Resolutions = {"public", "private"}
  MaxMcpFaults = 1
  DshRuns = {"r", "s"}
  Sessions <- MCSessions
  NotifyBuffer = 1
  MaxOutages = 1
  Triggers = {"t", "u"}
  Declarations <- MCDeclarations
  Appliers = {"x", "y"}
  Overlaps = {"skip", "buffer_all", "cancel_previous", "allow_concurrent", "none"}
  MaxApplies = 3
  MaxCommands = 2
  MaxDue = 2
INVARIANTS ScopeLatch PromiseIsTheRun  StepsHold  CompletedIsWhole 
PROPERTIES RunHasOneOwner EndIsLearned SentIsApplied
CHECK_DEADLOCK FALSE
