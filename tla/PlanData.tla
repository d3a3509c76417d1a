------------------------------ MODULE PlanData ------------------------------
(***************************************************************************)
(* The data of a plan around its workflow: the transactions that append    *)
(* its events and keep its status, the streams that carry them to a        *)
(* consumer, the metrics exported from them, the artifacts of its nodes,   *)
(* the catalogs it is validated against, the memory store used without a   *)
(* database, and the validation of a submitted plan and of its expansions. *)
(*                                                                         *)
(* The parts share a plan and no row that one changes while another reads  *)
(* it, so a behaviour is one of any part; the others have nothing to do.   *)
(***************************************************************************)
EXTENDS Naturals, Sequences

CONSTANTS Plans, Creators, Attempts, Scenarios, Transitions, Extra, MaxTries, MaxCrashes,
          Page,
          Writers, Buses, Kinds, After, MaxEvents, MaxRepublish, MaxLost, Buffer, History,
          Journals, Exporters, BatchSize, Limit, MaxPasses, MaxMetricFaults,
          ArtifactScenarios, MaxDeaths,
          Replicas, Configs, MaxBoots,
          Tenants, StartSpecs, EventKeys, Versions, MemoryLimit, MaxOps,
          Submitted, Published, Capabilities, Schemas, Defaults, Compiles

VARIABLES part,
          store, rows, nodeRows, events, lock, cr, wf, at, ex, rd, crashes, overwritten,
          bus, kind, stored, pub, hist, wire, sub, live, got, lost, republished, overlapped,
          journal, len, recent, ckpt, samples, x, passes, mfaults,
          backing, calls, ends, refs, tmp, final, inode, node, publisher, published, loc,
          deaths,
          capability, schema, proc,
          specs, statuses, planKeys, kept, digests, commands, audits, metrics, creator,
          lent, saved, ops,
          submitted, accepted, doc, expansions, answer

storeVars == <<store, rows, nodeRows, events, lock, cr, wf, at, ex, rd, crashes, overwritten>>
streamVars == <<bus, kind, stored, pub, hist, wire, sub, live, got, lost, republished,
                overlapped>>
metricVars == <<journal, len, recent, ckpt, samples, x, passes, mfaults>>
artifactVars == <<backing, calls, ends, refs, tmp, final, inode, node, publisher, published,
                  loc, deaths>>
catalogVars == <<capability, schema, proc>>
memoryVars == <<specs, statuses, planKeys, kept, digests, commands, audits, metrics,
                creator, lent, saved, ops>>
planVars == <<submitted, accepted, doc, expansions, answer>>
vars == <<part, storeVars, streamVars, metricVars, artifactVars, catalogVars, memoryVars, planVars>>

S == INSTANCE PlanStore
D == INSTANCE DataPlane
M == INSTANCE PlanMetrics
A == INSTANCE PlanArtifacts WITH rows <- refs, wf <- publisher, Scenarios <- ArtifactScenarios
C == INSTANCE Catalogs
N == INSTANCE MemoryPlanStore WITH events <- kept, cr <- creator, Limit <- MemoryLimit
V == INSTANCE PlanValidation

ASSUME PlanDataAssumption == C!CatalogAssumption /\ N!MemoryAssumption /\ D!StreamAssumption

Off == "off"

StoreOff ==
  /\ store = Off /\ rows = Off /\ nodeRows = Off /\ events = Off /\ lock = Off /\ cr = Off
  /\ wf = Off /\ at = Off /\ ex = Off /\ rd = Off /\ crashes = Off /\ overwritten = Off
StreamOff ==
  /\ bus = Off /\ kind = Off /\ stored = Off /\ pub = Off /\ hist = Off /\ wire = Off
  /\ sub = Off /\ live = Off /\ got = Off /\ lost = Off /\ republished = Off
  /\ overlapped = Off
MetricOff ==
  /\ journal = Off /\ len = Off /\ recent = Off /\ ckpt = Off /\ samples = Off /\ x = Off
  /\ passes = Off /\ mfaults = Off
ArtifactOff ==
  /\ backing = Off /\ calls = Off /\ ends = Off /\ refs = Off /\ tmp = Off /\ final = Off
  /\ inode = Off /\ node = Off /\ publisher = Off /\ published = Off /\ loc = Off
  /\ deaths = Off
CatalogOff ==
  /\ capability = Off /\ schema = Off /\ proc = Off
MemoryOff ==
  /\ specs = Off /\ statuses = Off /\ planKeys = Off /\ kept = Off /\ digests = Off
  /\ commands = Off /\ audits = Off /\ metrics = Off /\ creator = Off /\ lent = Off
  /\ saved = Off /\ ops = Off
PlanOff ==
  /\ submitted = Off /\ accepted = Off /\ doc = Off /\ expansions = Off /\ answer = Off

Init ==
  \/ part = "store" /\ S!Init /\ StreamOff /\ MetricOff /\ ArtifactOff /\ CatalogOff /\ MemoryOff /\ PlanOff
  \/ part = "stream" /\ D!Init /\ StoreOff /\ MetricOff /\ ArtifactOff /\ CatalogOff /\ MemoryOff /\ PlanOff
  \/ part = "metrics" /\ M!Init /\ StoreOff /\ StreamOff /\ ArtifactOff /\ CatalogOff /\ MemoryOff /\ PlanOff
  \/ part = "artifacts" /\ A!Init /\ StoreOff /\ StreamOff /\ MetricOff /\ CatalogOff /\ MemoryOff /\ PlanOff
  \/ part = "catalogs" /\ C!Init /\ StoreOff /\ StreamOff /\ MetricOff /\ ArtifactOff /\ MemoryOff /\ PlanOff
  \/ part = "memory" /\ N!Init /\ StoreOff /\ StreamOff /\ MetricOff /\ ArtifactOff /\ CatalogOff /\ PlanOff
  \/ part = "validation" /\ V!Init /\ StoreOff /\ StreamOff /\ MetricOff /\ ArtifactOff /\ CatalogOff /\ MemoryOff

Next ==
  \/ part = "store" /\ S!Next /\ UNCHANGED <<part, streamVars, metricVars, artifactVars, catalogVars, memoryVars, planVars>>
  \/ part = "stream" /\ D!Next /\ UNCHANGED <<part, storeVars, metricVars, artifactVars, catalogVars, memoryVars, planVars>>
  \/ part = "metrics" /\ M!Next /\ UNCHANGED <<part, storeVars, streamVars, artifactVars, catalogVars, memoryVars, planVars>>
  \/ part = "artifacts" /\ A!Next /\ UNCHANGED <<part, storeVars, streamVars, metricVars, catalogVars, memoryVars, planVars>>
  \/ part = "catalogs" /\ C!Next /\ UNCHANGED <<part, storeVars, streamVars, metricVars, artifactVars, memoryVars, planVars>>
  \/ part = "memory" /\ N!Next /\ UNCHANGED <<part, storeVars, streamVars, metricVars, artifactVars, catalogVars, planVars>>
  \/ part = "validation" /\ V!Next /\ UNCHANGED <<part, storeVars, streamVars, metricVars, artifactVars, catalogVars, memoryVars>>

Spec == Init /\ [][Next]_vars
-----------------------------------------------------------------------------
(* What each part promises; see the modules of the parts.                  *)

\* The journal is the truth about a plan: its status and node rows belong to
\* the last transition, every attempt of a transition is answered the one
\* event of its key, and a consumer that pages with the last sequence it saw
\* misses none (PersistPlanTransition, CreatePlan, ListPlanEvents).
JournalIsTruth ==
  part = "store" => /\ S!StatusFollowsJournal
                    /\ S!AnswerIsTheEvent
                    /\ S!CursorMissesNothing

\* The join of replay and live tail misses nothing that was published, gives
\* nothing twice that it replayed, and keeps the order of the bus
\* (SubscribePlan, membus pump).
JoinIsSeamless == part = "stream" => D!NoSilentGap /\ D!ReplayedOnce /\ D!BusOrder

\* What the exporters recorded is the projection of a prefix of the journal,
\* and a pass that ends well has covered the journal it found (Export).
ExportIsExact == part = "metrics" => M!ExportedIsProjection /\ M!PassIsComplete



\* A plan is accepted exactly when it is well formed: so is an accepted one
\* after every expansion, and none is refused for a graph that is in order
\* (Validate, ApplyDelta).
ValidationIsExact == part = "validation" => V!AcceptedIsWellFormed /\ V!RefusedHasReason
=============================================================================
