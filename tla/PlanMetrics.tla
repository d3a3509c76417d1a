---------------------------- MODULE PlanMetrics ----------------------------
(***************************************************************************)
(* The exporter that projects the journals of the plans into metric        *)
(* samples.  A pass lists the plans, the one updated longest ago first,    *)
(* and catches up each of them in batches from the exporter's checkpoint:  *)
(* it projects a batch, records its samples one by one and saves the       *)
(* checkpoint with the state of the projection.  Replicas run the same     *)
(* exporter at the same time; each fails, stops or dies anywhere.          *)
(*                                                                         *)
(* Plan, tenant, event id and time of a sample are those of its event and  *)
(* are left out.  A sample is recorded as [key, fact].                     *)
(***************************************************************************)
EXTENDS Integers, Sequences, FiniteSets, Functions

CONSTANTS
  Journals,        \* scenarios: plan -> [requested, nodes, events, have]
  Exporters,       \* replicas of the exporter
  BatchSize,
  Limit,           \* plans listed in a pass
  MaxPasses,       \* bound: passes of all replicas together
  MaxMetricFaults  \* bound: failed calls and crashes

VARIABLES
  journal,         \* the scenario
  len,             \* plan -> events committed so far
  recent,          \* the plans, the one updated longest ago first
  ckpt,            \* plan -> [seq, start, starts]: the checkpoint row
  samples,         \* plan -> the sample rows
  x,               \* exporter -> its pass
  passes, mfaults

vars == <<journal, len, recent, ckpt, samples, x, passes, mfaults>>

MetricPlans == DOMAIN journal
Events(p, from, to) == SubSeq(journal[p].events, from, to)
\* The nodes of the stored spec: an expansion adds its own in the same transaction.
SpecNodes(p) ==
  journal[p].nodes \cup {e.node : e \in {f \in Range(Events(p, 1, len[p])) : f.type = "expanded"}}

NoStarts == <<>>
EmptyState == [seq |-> 0, start |-> 0, starts |-> NoStarts]

-----------------------------------------------------------------------------
(* The projection: a state of open starts and the samples emitted.         *)

metricSample(e, name, value, label) ==
  [key |-> <<name, e.node, e.run, e.seq>>, fact |-> <<value, label>>]

secondsBetween(from, to) == to - from

Without(f, k) == [y \in DOMAIN f \ {k} |-> f[y]]
With(f, k, v) == [y \in DOMAIN f \cup {k} |-> IF y = k THEN v ELSE f[y]]
When(c, s) == IF c THEN <<s>> ELSE <<>>

planLifecycleForEvent ==
  [plan_succeeded |-> "succeeded", plan_failed |-> "failed", plan_canceled |-> "canceled"]

nodeLifecycleForEvent ==
  [node_succeeded |-> "succeeded", node_failed |-> "failed", node_canceled |-> "canceled",
   node_skipped |-> "skipped"]

recordPlanStarted(p, e, spec) ==
  [p EXCEPT !.start = e.at,
            !.out = @ \o <<metricSample(e, "plan_started", 1, "")>>
                      \o When(spec.requested # 0,
                              metricSample(e, "plan_queue", secondsBetween(spec.requested, e.at), ""))]

recordPlanCompleted(p, e) ==
  LET life == planLifecycleForEvent[e.type] IN
  [p EXCEPT !.start = 0,
            !.out = @ \o <<metricSample(e, "plan_completed", 1, life)>>
                      \o When(p.start # 0,
                              metricSample(e, "plan_duration", secondsBetween(p.start, e.at), life))]

\* nodeRequestedAt: the node's own request time, or the plan's.
recordNodeStarted(p, e, spec) ==
  [p EXCEPT !.starts = With(@, <<e.node, e.run>>, e.at),
            !.out = @ \o <<metricSample(e, "node_started", 1, "")>>
                      \o When(spec.requested # 0,
                              metricSample(e, "node_queue", secondsBetween(spec.requested, e.at), ""))]

recordNodeCompleted(p, e) ==
  LET key == <<e.node, e.run>>
      life == nodeLifecycleForEvent[e.type] IN
  [p EXCEPT !.starts = Without(@, key),
            !.out = @ \o <<metricSample(e, "node_completed", 1, life)>>
                      \o When(key \in DOMAIN p.starts,
                              metricSample(e, "node_duration", secondsBetween(p.starts[key], e.at), life))
                      \o When(life = "failed", metricSample(e, "backend_errors", 1, ""))]

\* A sample of an artifact carries the node and run of the artifact.
artifactMetricSamples(e) ==
  [i \in DOMAIN e.artifacts |->
     [key |-> <<"artifact_bytes", e.artifacts[i].node, e.artifacts[i].run, e.seq>>,
      fact |-> <<e.artifacts[i].size, e.artifacts[i].kind>>]]

budgetMetricSamples(e) ==
  <<metricSample(e, "budget_delta", e.delta, ""), metricSample(e, "budget_spent", e.spent, "")>>

apply(p, e, spec) ==
  CASE e.type = "plan_started" -> recordPlanStarted(p, e, spec)
    [] e.type \in DOMAIN planLifecycleForEvent -> recordPlanCompleted(p, e)
    [] e.type = "node_started" -> recordNodeStarted(p, e, spec)
    [] e.type \in DOMAIN nodeLifecycleForEvent -> recordNodeCompleted(p, e)
    [] e.type = "published" -> [p EXCEPT !.out = @ \o artifactMetricSamples(e)]
    [] e.type = "usage" -> [p EXCEPT !.out = @ \o budgetMetricSamples(e)]
    [] e.type = "expanded" -> [p EXCEPT !.out = Append(@, metricSample(e, "expansions", 1, ""))]
    [] e.type = "retry" -> [p EXCEPT !.out = Append(@, metricSample(e, "retries", 1, ""))]
    [] OTHER -> p

newMetricProjection(state) == [start |-> state.start, starts |-> state.starts, out |-> <<>>]

Projected(spec, state, events) ==
  LET after[i \in 0..Len(events)] ==
        IF i = 0 THEN newMetricProjection(state) ELSE apply(after[i - 1], events[i], spec)
  IN after[Len(events)]

BuildPlanMetricSamplesFromStateMutant(spec, state, events) == Projected(spec, EmptyState, events)

BuildPlanMetricSamplesFromState(spec, state, events) == Projected(spec, state, events)

lastMetricEventSequence(events) == events[Len(events)].seq

\* A started or completed node the spec does not have is a nil node, and using
\* it panics.
panics(nodes, events) ==
  \E e \in Range(events) : e.type \in {"node_started"} \cup DOMAIN nodeLifecycleForEvent /\ e.node \notin nodes

-----------------------------------------------------------------------------
(* The exporter.                                                           *)

Idle == [pc |-> "idle", refs |-> <<>>, nodes |-> {}, ckpt |-> EmptyState, full |-> FALSE, todo |-> <<>>,
         goal |-> <<>>]

Set(e, rec) == x' = [x EXCEPT ![e] = rec]
Plan(e) == Head(x[e].refs)
Journal == <<journal, len, recent>>
Tables == <<ckpt, samples>>
Counters == <<passes, mfaults>>

\* SELECT ... ORDER BY updated_at LIMIT.
listPlanRefs == SubSeq(recent, 1, IF Len(recent) < Limit THEN Len(recent) ELSE Limit)

\* A pass of the loop, on its tick: it begins with the list of plans.
runPlanMetricsExportPass(e) ==
  /\ x[e].pc \in {"idle", "exported"} /\ passes < MaxPasses
  /\ Set(e, [Idle EXCEPT !.pc = "plan", !.refs = listPlanRefs, !.goal = len])
  /\ passes' = passes + 1
  /\ UNCHANGED <<Journal, Tables, mfaults>>

\* exportPlan reads the spec once, then the checkpoint, then batches of events.
exportPlan(e) ==
  /\ x[e].pc = "plan" /\ x[e].refs # <<>>
  /\ Set(e, [x[e] EXCEPT !.nodes = SpecNodes(Plan(e)), !.pc = "load"])
  /\ UNCHANGED <<Journal, Tables, Counters>>

\* Export returns nil: every plan it listed is caught up.
Export(e) ==
  /\ x[e].pc = "plan" /\ x[e].refs = <<>>
  /\ Set(e, [x[e] EXCEPT !.pc = "exported"])
  /\ UNCHANGED <<Journal, Tables, Counters>>

loadMetricCheckpoint(e) ==
  /\ x[e].pc = "load"
  /\ Set(e, [x[e] EXCEPT !.ckpt = ckpt[Plan(e)], !.pc = "events"])
  /\ UNCHANGED <<Journal, Tables, Counters>>

PlanDone(e) == [x[e] EXCEPT !.refs = Tail(@), !.pc = "plan", !.nodes = {}, !.ckpt = EmptyState, !.full = FALSE]

\* The next batch, projected; a panic takes the process down and its restart is
\* the next pass.
ListPlanEvents(e) ==
  LET p == Plan(e)
      seq == x[e].ckpt.seq
      batch == Events(p, seq + 1, IF seq + BatchSize < len[p] THEN seq + BatchSize ELSE len[p])
      proj == BuildPlanMetricSamplesFromState(journal[p], x[e].ckpt, batch)
  IN /\ x[e].pc = "events"
     /\ Set(e, IF batch = <<>> THEN PlanDone(e)
               ELSE IF panics(x[e].nodes, batch) THEN Idle
               ELSE [x[e] EXCEPT !.full = Len(batch) = BatchSize, !.todo = proj.out, !.pc = "record",
                                 !.ckpt = [seq |-> lastMetricEventSequence(batch), start |-> proj.start,
                                           starts |-> proj.starts]])
     /\ UNCHANGED <<Journal, Tables, Counters>>

getPlanMetricSampleByKey(rows, key) == {t \in rows : t.key = key}

\* INSERT ... ON CONFLICT DO NOTHING.
recordPlanMetric(rows, s) == IF getPlanMetricSampleByKey(rows, s.key) = {} THEN rows \cup {s} ELSE rows

ValidatePlanMetricSampleIdempotency(existing, requested) == existing.fact = requested.fact

\* A sample that is there already must be the same fact.
RecordPlanMetric(e) ==
  LET s == Head(x[e].todo)
      p == Plan(e)
      same == \A t \in getPlanMetricSampleByKey(samples[p], s.key) : ValidatePlanMetricSampleIdempotency(t, s)
  IN /\ x[e].pc = "record" /\ x[e].todo # <<>>
     /\ samples' = [samples EXCEPT ![p] = recordPlanMetric(@, s)]
     /\ Set(e, IF same THEN [x[e] EXCEPT !.todo = Tail(@)] ELSE Idle)
     /\ UNCHANGED <<Journal, ckpt, Counters>>

\* INSERT ... ON CONFLICT DO UPDATE ... WHERE sequence <= EXCLUDED.sequence.
savePlanMetricCheckpoint(row, new) == IF row.seq <= new.seq THEN new ELSE row

\* Only forward; a replica that was overtaken gets an error and ends its pass.
SavePlanMetricCheckpoint(e) ==
  LET p == Plan(e)
      forward == savePlanMetricCheckpoint(ckpt[p], x[e].ckpt) = x[e].ckpt
  IN /\ x[e].pc = "record" /\ x[e].todo = <<>>
     /\ ckpt' = [ckpt EXCEPT ![p] = savePlanMetricCheckpoint(@, x[e].ckpt)]
     /\ Set(e, IF ~forward THEN Idle
               ELSE IF x[e].full THEN [x[e] EXCEPT !.pc = "events"] ELSE PlanDone(e))
     /\ UNCHANGED <<Journal, samples, Counters>>

\* A call fails, the process dies, or Stop cancels the pass and the loop ends.
PassFails(e) ==
  /\ x[e].pc \notin {"idle", "exported", "stopped"} /\ mfaults < MaxMetricFaults
  /\ \E pc \in {"idle", "stopped"} : Set(e, [Idle EXCEPT !.pc = pc])
  /\ mfaults' = mfaults + 1
  /\ UNCHANGED <<Journal, Tables, passes>>

\* The plan's workflow commits its next event and touches the plan.
AppendEvent(p) ==
  /\ len[p] < Len(journal[p].events)
  /\ len' = [len EXCEPT ![p] = @ + 1]
  /\ recent' = Append(SelectSeq(recent, LAMBDA q : q # p), p)
  /\ UNCHANGED <<journal, Tables, x, Counters>>

Init ==
  /\ journal \in Journals
  /\ len = [p \in MetricPlans |-> journal[p].have] /\ recent \in {s \in [1..Cardinality(MetricPlans) -> MetricPlans] : IsInjective(s)}
  /\ ckpt = [p \in MetricPlans |-> EmptyState] /\ samples = [p \in MetricPlans |-> {}]
  /\ x = [e \in Exporters |-> Idle] /\ passes = 0 /\ mfaults = 0

Next ==
  \/ \E p \in MetricPlans : AppendEvent(p)
  \/ \E e \in Exporters :
       \/ runPlanMetricsExportPass(e) \/ exportPlan(e) \/ Export(e)
       \/ loadMetricCheckpoint(e) \/ ListPlanEvents(e) \/ RecordPlanMetric(e)
       \/ SavePlanMetricCheckpoint(e) \/ PassFails(e)

Spec == Init /\ [][Next]_vars
-----------------------------------------------------------------------------
(* Properties.                                                             *)

\* The time of the last start with no completion since, in the whole journal.
OpenStart(events, i, starts(_), ends(_)) ==
  LET before == {j \in 1..(i - 1) : starts(events[j])}
      open == {j \in before : ~\E k \in (j + 1)..(i - 1) : starts(events[k]) \/ ends(events[k])}
  IN {events[j].at : j \in open}

\* The durations a journal has, whatever batches it was read in.
Durations(events, n) ==
  LET planEnd(f) == f.type \in DOMAIN planLifecycleForEvent
      nodeEnd(f) == f.type \in DOMAIN nodeLifecycleForEvent
  IN UNION {LET e == events[i]
                same(f) == f.node = e.node /\ f.run = e.run
            IN {metricSample(e, "plan_duration", e.at - at, planLifecycleForEvent[e.type]) :
                  at \in IF ~planEnd(e) THEN {}
                         ELSE OpenStart(events, i, LAMBDA f : f.type = "plan_started", planEnd)}
               \cup
               {metricSample(e, "node_duration", e.at - at, nodeLifecycleForEvent[e.type]) :
                  at \in IF ~nodeEnd(e) THEN {}
                         ELSE OpenStart(events, i, LAMBDA f : f.type = "node_started" /\ same(f),
                                        LAMBDA f : nodeEnd(f) /\ same(f))}
            : i \in 1..n}

\* The samples that need nothing but their event.
Counts(p, n) ==
  LET one(e) == BuildPlanMetricSamplesFromState(journal[p], EmptyState, <<e>>).out
  IN UNION {Range(one(journal[p].events[i])) : i \in 1..n}

Expected(p, n) == Counts(p, n) \cup Durations(journal[p].events, n)

\* Up to the checkpoint the sample rows are exactly what the journal read at
\* once would give, and past it a part of that: no crash, retry or replica loses,
\* repeats or changes a sample, and a duration spans the batches its start and
\* end fell into.  (Export: "A returned error means the failing plan checkpoint
\* was not advanced beyond the last fully recorded sample batch.")
ExportedIsProjection ==
  \A p \in MetricPlans :
    /\ Expected(p, ckpt[p].seq) \subseteq samples[p]
    /\ samples[p] \subseteq Expected(p, len[p])

\* A pass that returns nil has exported every event that was in the journal of
\* the plans it covers when it began, a full last batch included.
PassIsComplete ==
  \A e \in Exporters :
    x[e].pc = "exported" /\ Cardinality(MetricPlans) <= Limit =>
      \A p \in MetricPlans : ckpt[p].seq >= x[e].goal[p]
=============================================================================
