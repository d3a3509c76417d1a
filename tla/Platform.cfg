SPECIFICATION Spec
CONSTANTS
  Scripts <- AllScripts
  Scenarios <- MCScenarios
  MaxAttempts = 2
  MaxFaults = 2
  MaxRuns = 3
  Clients = {"c1", "c2"}
  Workloads <- MCWorkloads
  Wired = {"runs", "plans", "platform"}
  Replicas = {g, w}
  MaxSends = 2
  MaxEvents = 4
  ConsoleMax = 2
  Runs = {1, 2, 3}
  Threads = {"t"}
  Messages = {"m"}
  Sweepers = {"s1", "s2"}
  ThreadOf <- MCThreadOf
  KeyOf <- MCKeyOf
  TurnScripts <- MCTurnScripts
  MaxSweepFaults = 1
  None = None
INVARIANTS  LedgerIsDense  ThreadIsSerial
PROPERTIES ImplementsRecordStore AppliedInTurn TimelineIsReplay ThreadReleased
