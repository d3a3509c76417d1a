SPECIFICATION Spec
CONSTANTS
  Recorders = {p, q}
  Drainers = {d, e}
  Milestones = 2
  DrainBatch = 2
  MaxAttempts = 2
  MaxDeliver = 2
  MaxSeq = 2
  MaxFaults = 2
  Procs = {"x", "y"}
  Plans <- MCPlans
  Domains = {"run", "conv"}
  Shards = 2
  BatchSize = 2
  MaxIngressDeliver = 2
  MaxIngressFaults = 2
  Assemblies <- MCAssemblies
  Stoppers = {"owner", "other"}
INVARIANTS FactsAreKept AcknowledgedIsTaken
PROPERTIES Reconstructed StopIsOrderly
CHECK_DEADLOCK FALSE
