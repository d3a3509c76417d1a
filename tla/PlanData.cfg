SPECIFICATION Spec
CONSTANTS
  g = g
  w = w
  Plans <- MCPlans
  Creators <- MCCreators
  Attempts <- MCAttempts
  Scenarios <- MCScenarios
  Transitions = 2
  Extra = 2
  MaxTries = 2
  MaxCrashes = 1
  Page = 2
  Writers <- MCWriters
  Buses <- MCBuses
  Kinds <- MCKinds
  After <- MCAfter
  MaxEvents = 3
  MaxRepublish = 1
  MaxLost = 1
  Buffer = 2
  History = 2
  Journals <- MCJournals
  Exporters <- MCExporters
  BatchSize = 2
  Limit = 2
  MaxPasses = 3
  MaxMetricFaults = 1
  ArtifactScenarios <- MCArtifactScenarios
  MaxDeaths = 1
  Replicas = {g, w}
  Configs <- MCConfigs
  MaxBoots = 2
  Tenants = {"t", "u"}
  StartSpecs <- MCStartSpecs
  EventKeys = {"e", "f"}
  Versions = {1, 2}
  MemoryLimit = 1
  MaxOps = 4
  Submitted <- MCSubmitted
  Published <- MCPublished
  Capabilities <- MCCapabilities
  Schemas <- MCSchemas
  Defaults <- MCDefaults
  Compiles = {"ok"}
INVARIANTS JournalIsTruth JoinIsSeamless ExportIsExact   ValidationIsExact
CHECK_DEADLOCK FALSE
