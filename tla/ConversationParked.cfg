SPECIFICATION Spec
CONSTANTS
  Scripts <- NoScripts
  Scenarios = {}
  MaxAttempts = 2
  MaxFaults = 0
  MaxRuns = 1
  Clients = {"c1"}
  Workloads = {}
  Wired = {}
  Replicas = {}
  MaxSends = 0
  MaxEvents = 0
  ConsoleMax = 1
  Runs = {1, 2, 3}
  Threads = {"t"}
  Messages = {"m"}
  Sweepers = {"s1"}
  ThreadOf <- MCThreadOf
  KeyOf <- MCKeyOf
  TurnScripts <- PlainTurns
  MaxSweepFaults = 0
  None = None
PROPERTIES ParkedTurnStarts
