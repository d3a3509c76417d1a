----------------------------- MODULE PlanStore -----------------------------
(***************************************************************************)
(* The durable plan store: the transaction behind every plan event.        *)
(*                                                                         *)
(* A plan is one row of plans (spec, status, event_sequence), one row of   *)
(* plan_nodes per node, and its journal plan_events.  Callers are          *)
(*   creators   CreatePlan of concurrent and repeated StartPlan calls;     *)
(*   attempts   activity attempts of the plan workflow's transitions, the  *)
(*              late ones of an earlier transition included;               *)
(*   appenders  IngestExternalPlanEvent, under the source's event id;      *)
(*   readers    consumers that page through the journal with a cursor      *)
(*              (SubscribePlan's replay, the metrics exporter).            *)
(* Each statement group of the Postgres repository that other sessions can *)
(* interleave with is an action; a transaction that ends before its commit *)
(* leaves nothing.  The in-memory store takes its mutex for each step.     *)
(*                                                                         *)
(* Data: a status is the number of the transition it belongs to (0 is the  *)
(* pending status of NewState), a node row holds the status number it was  *)
(* written with, and a digest is the pair it is computed from.             *)
(***************************************************************************)
EXTENDS Naturals, FiniteSets, Sequences

CONSTANTS
  Plans,          \* plan ids
  Creators,       \* concurrent CreatePlan calls
  Attempts,       \* activity attempts that may be running at once
  Scenarios,      \* [store, requests, external (the concurrent IngestExternalPlanEvent
                  \* calls), expandAt, reads, reader]
  Transitions,    \* transitions the workflow persists
  Extra,          \* the node that PlanDelta adds
  MaxTries,       \* attempts of one transition
  MaxCrashes,     \* transactions cut off before their commit
  Page            \* ListPlanEvents limit of a reader

Free == "free"
Micro == 2        \* time units in the durable precision

VARIABLES
  store,          \* which store the process runs on
  rows,           \* plans table: <<>> or <<[spec, version, seq]>>
  nodeRows,       \* plan_nodes: node -> version
  events,         \* plan_events
  lock,           \* holder of the plan's row lock
  cr, wf, at, ex, rd,
  crashes,
  overwritten     \* history: plans whose row a late create replaced

vars == <<store, rows, nodeRows, events, lock, cr, wf, at, ex, rd, crashes, overwritten>>

-----------------------------------------------------------------------------
(* Identity of requests, snapshots and events.                             *)

NormalizeDurableTimestamp(t) == ((t + Micro \div 2) \div Micro) * Micro

Normalized(spec) == [spec EXCEPT !.at = NormalizeDurableTimestamp(@)]

ValidatePlanStartIdempotency(existing, requested) == existing = requested

planStateIdentity(spec) == <<spec.id, spec.tenant, spec.key, spec.at, spec.inputs>>

validateTopologyExpansion(existing, requested) == existing.nodes \subseteq requested.nodes

ValidatePlanStateIdentity(existing, requested) ==
  /\ planStateIdentity(existing) = planStateIdentity(requested)
  /\ validateTopologyExpansion(existing, requested)

NewPlanTransitionSnapshotIdentity(version) == <<"t", version>>

ValidatePlanTransitionIdempotency(digest, requested) == digest = requested

ValidatePlanEventIdempotency(existing, requested) == existing.body = requested.body

ValidatePlanTenantAccess(tenant, spec) == spec.tenant = tenant

ScopePlanEventToSpec(e, spec) == [e EXCEPT !.tenant = spec.tenant]

-----------------------------------------------------------------------------
(* The tables.                                                             *)

Exists(p) == rows[p] # <<>>
Row(p) == rows[p][1]

getPlanByIdempotencyKey(tenant, key) ==
  {p \in Plans : Exists(p) /\ Row(p).spec.tenant = tenant /\ Row(p).spec.key = key}

getPlanEventByIdempotencyKey(tenant, p, key) ==
  {e \in events : e.plan = p /\ e.tenant = tenant /\ e.key = key}

listPlanEvents(p, tenant, after, limit) ==
  LET found == {e \in events : e.plan = p /\ e.tenant = tenant /\ e.seq > after}
      before(e) == {f \in found : f.seq < e.seq}
  IN [i \in 1..(IF Cardinality(found) < limit THEN Cardinality(found) ELSE limit) |->
        CHOOSE e \in found : Cardinality(before(e)) = i - 1]

\* transition wf.expandAt applies a PlanDelta
NodesOf(spec, v) == spec.nodes \cup (IF v >= wf.expandAt THEN {Extra} ELSE {})

NewState(spec) == [spec |-> spec, version |-> 0]

Snapshot(spec, v) == [spec |-> [spec EXCEPT !.nodes = NodesOf(spec, v)], version |-> v]

\* NewStateFromStatus restores a status only over exactly the spec's nodes
NewStateFromStatus(spec, nodes) == DOMAIN nodes = spec.nodes

\* the columns the trigger protect_plan_identity guards on an update
protect_plan_identity(p, spec) == Exists(p) => planStateIdentity(Row(p).spec) = planStateIdentity(spec)

upsertPlan(p, snap) ==
  rows' = [rows EXCEPT ![p] =
             <<[spec |-> snap.spec, version |-> snap.version,
                seq |-> IF Exists(p) THEN Row(p).seq ELSE 0]>>]

upsertPlanNode(p, snap) ==
  nodeRows' = [nodeRows EXCEPT ![p] = [n \in snap.spec.nodes |-> snap.version]]

\* protect_plan_node_identity refuses to delete the row of a node
deleteStalePlanNodes(p, snap) == DOMAIN nodeRows[p] \subseteq snap.spec.nodes

validatePlanStateSaveTarget(found, p, spec, allowCreate) ==
  IF found THEN ValidatePlanStateIdentity(Row(p).spec, spec) ELSE allowCreate

savePlanState(p, snap) == upsertPlan(p, snap) /\ upsertPlanNode(p, snap)

-----------------------------------------------------------------------------
(* CreatePlan.  A creator looks the key up, then the plan id, each lookup  *)
(* reading the plan row and the node rows in two statements, and then      *)
(* opens the transaction that saves the initial snapshot.                  *)

Answer(c, a) == cr' = [cr EXCEPT ![c].pc = "done", ![c].answer = a]

\* what a lookup that found row and nodes tells the caller
Existing(row, nodes, spec) ==
  IF NewStateFromStatus(row.spec, nodes) /\ ValidatePlanStartIdempotency(row.spec, spec)
  THEN [kind |-> "existing", version |-> row.version]
  ELSE [kind |-> "error", version |-> 0]

LookupRow(c, found, from, miss) ==
  /\ cr[c].pc = from
  /\ IF found = {}
     THEN cr' = [cr EXCEPT ![c].pc = miss]
     ELSE \E p \in found : cr' = [cr EXCEPT ![c].pc = "nodes", ![c].row = <<Row(p)>>]
  /\ UNCHANGED <<store, rows, nodeRows, events, lock, wf, at, ex, rd, crashes, overwritten>>

planByIdempotencyKey(c) ==
  /\ store = "postgres"
  /\ LookupRow(c, getPlanByIdempotencyKey(cr[c].spec.tenant, cr[c].spec.key), "start", "id")

GetPlan(c) ==
  /\ store = "postgres"
  /\ LookupRow(c, {p \in {cr[c].spec.id} : Exists(p)}, "id", "begin")

planStateFromDocuments(c) ==
  /\ cr[c].pc = "nodes"
  /\ Answer(c, Existing(cr[c].row[1], nodeRows[cr[c].row[1].spec.id], cr[c].spec))
  /\ UNCHANGED <<store, rows, nodeRows, events, lock, wf, at, ex, rd, crashes, overwritten>>

\* SELECT spec_json ... FOR UPDATE: locks the row it finds
planSpecForUpdate(c) ==
  LET p == cr[c].spec.id
      spec == Normalized(cr[c].spec)
  IN /\ cr[c].pc = "begin"
     /\ lock[p] = Free
     /\ IF ~Exists(p)
        THEN cr' = [cr EXCEPT ![c].pc = "insert"] /\ UNCHANGED lock
        ELSE IF validatePlanStateSaveTarget(TRUE, p, spec, TRUE)
        THEN /\ cr' = [cr EXCEPT ![c].pc = "save"]
             /\ lock' = [lock EXCEPT ![p] = c]
        ELSE Answer(c, [kind |-> "error", version |-> 0]) /\ UNCHANGED lock
     /\ UNCHANGED <<store, rows, nodeRows, events, wf, at, ex, rd, crashes, overwritten>>

\* the upsert and the commit; a row inserted since the select is updated
createPlanState(c) ==
  LET spec == Normalized(cr[c].spec)
      p == spec.id
      snap == NewState(spec)
      taken == getPlanByIdempotencyKey(spec.tenant, spec.key) \ {p}
  IN /\ \/ cr[c].pc = "save" /\ lock[p] = c
        \/ cr[c].pc = "insert" /\ lock[p] = Free
     /\ IF taken # {} /\ ~Exists(p)
        THEN /\ cr' = [cr EXCEPT ![c].pc = "conflict"]
             /\ UNCHANGED <<rows, nodeRows, overwritten>>
        ELSE IF protect_plan_identity(p, spec) /\ deleteStalePlanNodes(p, snap)
        THEN /\ savePlanState(p, snap)
             /\ overwritten' = overwritten \cup {q \in {p} : Exists(p)}
             /\ Answer(c, [kind |-> "created", version |-> 0])
        ELSE /\ Answer(c, [kind |-> "error", version |-> 0])
             /\ UNCHANGED <<rows, nodeRows, overwritten>>
     /\ lock' = [lock EXCEPT ![p] = Free]
     /\ UNCHANGED <<store, events, wf, at, ex, rd, crashes>>

\* a unique violation of the key index is answered from the row that owns the key
resolvePlanCreateConflict(c) ==
  /\ cr[c].pc = "conflict"
  /\ \E p \in getPlanByIdempotencyKey(cr[c].spec.tenant, cr[c].spec.key) :
       cr' = [cr EXCEPT ![c].pc = "nodes", ![c].row = <<Row(p)>>]
  /\ UNCHANGED <<store, rows, nodeRows, events, lock, wf, at, ex, rd, crashes, overwritten>>

\* The in-memory store: two lookups under the read lock, then both again and
\* the save under the write lock.
memoryLookup(c) ==
  LET spec == cr[c].spec
      byKey == getPlanByIdempotencyKey(spec.tenant, spec.key)
      found == IF byKey # {} THEN byKey ELSE {p \in {spec.id} : Exists(p)}
  IN /\ store = "memory"
     /\ cr[c].pc \in {"start", "again"}
     /\ IF found # {}
        THEN /\ \E p \in found : Answer(c, Existing(Row(p), nodeRows[p], spec))
             /\ UNCHANGED <<rows, nodeRows>>
        ELSE IF cr[c].pc = "start"
        THEN cr' = [cr EXCEPT ![c].pc = "again"] /\ UNCHANGED <<rows, nodeRows>>
        ELSE /\ savePlanState(spec.id, NewState(Normalized(spec)))
             /\ Answer(c, [kind |-> "created", version |-> 0])
     /\ UNCHANGED <<store, events, lock, wf, at, ex, rd, crashes, overwritten>>

-----------------------------------------------------------------------------
(* PersistPlanTransition.                                                  *)

TransitionEvent(v) ==
  [plan |-> wf.spec.id, tenant |-> wf.spec.tenant, seq |-> 0, key |-> <<"t", v>>,
   body |-> <<"t", v>>, digest |-> NewPlanTransitionSnapshotIdentity(v)]

\* the workflow starts on the spec of a call that was told it created the plan,
\* or found it still pending
executePlanWorkflow(c) ==
  /\ wf.cur = Free /\ wf.v = 0
  /\ cr[c].answer.kind \in {"created", "existing"} /\ cr[c].answer.version = 0
  /\ wf' = [wf EXCEPT !.spec = Normalized(cr[c].spec), !.v = 1]
  /\ UNCHANGED <<store, rows, nodeRows, events, lock, cr, at, ex, rd, crashes, overwritten>>

\* the workflow schedules the activity; a retry after a timeout leaves the
\* earlier attempt running
PersistPlanStateActivity(a) ==
  /\ wf.v \in 1..Transitions
  /\ wf.tries < MaxTries
  /\ wf.cur # a
  /\ at[a].pc = "idle"
  /\ at' = [at EXCEPT ![a] = [pc |-> "begin", v |-> wf.v, seq |-> 0, answer |-> 0]]
  /\ wf' = [wf EXCEPT !.cur = a, !.tries = @ + 1]
  /\ UNCHANGED <<store, rows, nodeRows, events, lock, cr, ex, rd, crashes, overwritten>>

\* what the existing event of the key answers: its sequence, or a refusal
existingPlanTransitionEvent(found, v) ==
  IF \A e \in found : /\ ValidatePlanEventIdempotency(e, TransitionEvent(v))
                      /\ ValidatePlanTransitionIdempotency(e.digest, NewPlanTransitionSnapshotIdentity(v))
  THEN [at |-> (CHOOSE e \in found : TRUE).seq] ELSE [at |-> 0]

lockPlanRow(a) ==
  LET p == wf.spec.id
      v == at[a].v
      found == getPlanEventByIdempotencyKey(wf.spec.tenant, p, <<"t", v>>)
  IN /\ at[a].pc = "begin"
     /\ lock[p] = Free
     /\ IF found # {}
        THEN /\ at' = [at EXCEPT ![a].pc = "done", ![a].answer = existingPlanTransitionEvent(found, v).at]
             /\ UNCHANGED lock
        ELSE IF validatePlanStateSaveTarget(Exists(p), p, Snapshot(wf.spec, v).spec, FALSE)
        THEN /\ at' = [at EXCEPT ![a].pc = "commit", ![a].seq = Row(p).seq + 1]
             /\ lock' = [lock EXCEPT ![p] = a]
        ELSE at' = [at EXCEPT ![a].pc = "done"] /\ UNCHANGED lock
     /\ UNCHANGED <<store, rows, nodeRows, events, cr, wf, ex, rd, crashes, overwritten>>

buildAndInsertPlanEvent(p, e, n) ==
  events' = events \cup {[ScopePlanEventToSpec(e, Row(p).spec) EXCEPT !.seq = n]}

\* UpsertPlan, the node rows, AdvancePlanEventSequence, InsertPlanEvent, commit
PersistPlanTransition(a) ==
  LET p == wf.spec.id
      snap == Snapshot(wf.spec, at[a].v)
  IN /\ at[a].pc = "commit"
     /\ rows' = [rows EXCEPT ![p] = <<[spec |-> snap.spec, version |-> snap.version, seq |-> at[a].seq]>>]
     /\ upsertPlanNode(p, snap)
     /\ buildAndInsertPlanEvent(p, TransitionEvent(at[a].v), at[a].seq)
     /\ lock' = [lock EXCEPT ![p] = Free]
     /\ at' = [at EXCEPT ![a].pc = "done", ![a].answer = at[a].seq]
     /\ UNCHANGED <<store, cr, wf, ex, rd, crashes, overwritten>>

\* the workflow takes the answer of the attempt it waits for; a refused or cut
\* off attempt is retried, an abandoned one's answer goes nowhere
Completed(a) ==
  /\ at[a].pc = "done"
  /\ at' = [at EXCEPT ![a].pc = "idle"]
  /\ wf' = IF wf.cur # a THEN wf
           ELSE IF at[a].answer = 0 THEN [wf EXCEPT !.cur = Free]
           ELSE [wf EXCEPT !.cur = Free, !.tries = 0, !.v = @ + 1,
                           !.acked = @ \cup {<<at[a].v, at[a].answer>>}]
  /\ UNCHANGED <<store, rows, nodeRows, events, lock, cr, ex, rd, crashes, overwritten>>

-----------------------------------------------------------------------------
(* AppendPlanEvent, for an external event.                                 *)

\* Mutant: the sequence is handed out when it is read, outside the transaction
lockPlanEventSequenceMutant(x, p) ==
  /\ rows' = [rows EXCEPT ![p][1].seq = @ + 1]
  /\ UNCHANGED lock

lockPlanEventSequence(x, p) ==
  /\ lock' = [lock EXCEPT ![p] = x]
  /\ UNCHANGED rows

appendPlanEventWithTx(x) ==
  LET e == ex[x].event
      found == getPlanEventByIdempotencyKey(Row(e.plan).spec.tenant, e.plan, e.key)
  IN /\ ex[x].pc = "start"
     /\ lock[e.plan] = Free
     /\ IF ~Exists(e.plan)
        THEN ex' = [ex EXCEPT ![x].pc = "refused"] /\ UNCHANGED <<lock, rows>>
        ELSE IF found # {}
        THEN /\ ex' = [ex EXCEPT ![x].pc = IF \A f \in found : ValidatePlanEventIdempotency(f, e)
                                           THEN "done" ELSE "refused",
                                 ![x].seq = (CHOOSE f \in found : TRUE).seq]
             /\ UNCHANGED <<lock, rows>>
        ELSE /\ ex' = [ex EXCEPT ![x].pc = "commit", ![x].seq = Row(e.plan).seq + 1]
             /\ lockPlanEventSequence(x, e.plan)
     /\ UNCHANGED <<store, nodeRows, events, cr, wf, at, rd, crashes, overwritten>>

AppendPlanEvent(x) ==
  LET e == ex[x].event
  IN /\ ex[x].pc = "commit"
     /\ rows' = [rows EXCEPT ![e.plan][1].seq = ex[x].seq]
     /\ buildAndInsertPlanEvent(e.plan, e, ex[x].seq)
     /\ lock' = [lock EXCEPT ![e.plan] = Free]
     /\ ex' = [ex EXCEPT ![x].pc = "done"]
     /\ UNCHANGED <<store, nodeRows, cr, wf, at, rd, crashes, overwritten>>

-----------------------------------------------------------------------------
(* A session cut off inside its transaction: the server rolls it back.     *)
Rollback(p) ==
  /\ lock[p] # Free
  /\ crashes < MaxCrashes
  /\ crashes' = crashes + 1
  /\ lock' = [lock EXCEPT ![p] = Free]
  /\ cr' = [c \in Creators |-> IF lock[p] = c
                               THEN [cr[c] EXCEPT !.pc = "done", !.answer = [kind |-> "error", version |-> 0]]
                               ELSE cr[c]]
  /\ at' = [a \in Attempts |-> IF lock[p] = a THEN [at[a] EXCEPT !.pc = "done"] ELSE at[a]]
  /\ ex' = [x \in DOMAIN ex |-> IF lock[p] = x THEN [ex[x] EXCEPT !.pc = "start", !.seq = 0] ELSE ex[x]]
  /\ UNCHANGED <<store, rows, nodeRows, events, wf, rd, overwritten>>

-----------------------------------------------------------------------------
(* A consumer that pages: it authorizes against the plan (a load of its    *)
(* own) and lists the events after its cursor.                             *)

authorizePlanStreamScope ==
  /\ rd.pc = "start"
  /\ Exists(rd.plan)
  /\ rd' = [rd EXCEPT !.pc = IF ValidatePlanTenantAccess(rd.tenant, Row(rd.plan).spec)
                             THEN "list" ELSE "denied"]
  /\ UNCHANGED <<store, rows, nodeRows, events, lock, cr, wf, at, ex, crashes, overwritten>>

ListPlanEvents ==
  LET page == listPlanEvents(rd.plan, rd.tenant, rd.cursor, Page)
  IN /\ rd.pc = "list"
     /\ page # <<>>
     /\ rd' = [rd EXCEPT !.pc = "start", !.cursor = page[Len(page)].seq,
                         !.got = @ \o [i \in DOMAIN page |-> page[i].seq]]
     /\ UNCHANGED <<store, rows, nodeRows, events, lock, cr, wf, at, ex, crashes, overwritten>>

-----------------------------------------------------------------------------
InitCreator(spec) ==
  [pc |-> "start", spec |-> spec, row |-> <<>>, answer |-> [kind |-> "none", version |-> 0]]

Init ==
  \E s \in Scenarios :
    /\ store = s.store
    /\ rows = [p \in Plans |-> <<>>]
    /\ nodeRows = [p \in Plans |-> <<>>]
    /\ events = {}
    /\ lock = [p \in Plans |-> Free]
    /\ cr = [c \in Creators |-> InitCreator(s.requests[c])]
    /\ wf = [spec |-> s.requests[CHOOSE c \in Creators : TRUE], v |-> 0, cur |-> Free, tries |-> 0, acked |-> {},
             expandAt |-> s.expandAt]
    /\ at = [a \in Attempts |-> [pc |-> "idle", v |-> 0, seq |-> 0, answer |-> 0]]
    /\ ex = [x \in DOMAIN s.external |-> [pc |-> "start", event |-> s.external[x], seq |-> 0]]
    /\ rd = [pc |-> "start", plan |-> s.reads, tenant |-> s.reader, cursor |-> 0, got |-> <<>>]
    /\ crashes = 0
    /\ overwritten = {}

CreatePlan(c) ==
  \/ planByIdempotencyKey(c) \/ GetPlan(c) \/ planStateFromDocuments(c)
  \/ planSpecForUpdate(c) \/ createPlanState(c) \/ resolvePlanCreateConflict(c)
  \/ memoryLookup(c)

Next ==
  \/ \E c \in Creators : CreatePlan(c) \/ executePlanWorkflow(c)
  \/ \E a \in Attempts : \/ PersistPlanStateActivity(a) \/ lockPlanRow(a)
                         \/ PersistPlanTransition(a) \/ Completed(a)
  \/ \E x \in DOMAIN ex : appendPlanEventWithTx(x) \/ AppendPlanEvent(x)
  \/ \E p \in Plans : Rollback(p)
  \/ authorizePlanStreamScope \/ ListPlanEvents

Spec == Init /\ [][Next]_vars

-----------------------------------------------------------------------------
(* Properties.                                                             *)

StatusNumbers(p) == {0} \cup {e.digest[2] : e \in {f \in events : f.plan = p}}

\* The status row and every node row of a plan belong to the last transition of
\* its journal: PersistPlanTransition "atomically saves the given plan state
\* snapshot and appends its transition event", so neither a retried, a late nor
\* a cut off attempt leaves a status without its event or brings an older one
\* back.  Only a create whose lookups ran before the plan existed may reset it.
StatusFollowsJournal ==
  \A p \in Plans : Exists(p) /\ p \notin overwritten =>
    /\ Row(p).version \in StatusNumbers(p) /\ \A v \in StatusNumbers(p) : v <= Row(p).version
    /\ nodeRows[p] = [n \in Row(p).spec.nodes |-> Row(p).version]

\* Each idempotency key has one event in the journal, and the event the workflow
\* was answered for a transition is that one: every attempt of a transition gets
\* the same sequence, and later transitions get later ones.
AnswerIsTheEvent ==
  /\ \A e, f \in events : e.plan = f.plan /\ (e.key = f.key \/ e.seq = f.seq) => e = f
  /\ \A m \in wf.acked : \E e \in events : e.plan = wf.spec.id /\ e.key = <<"t", m[1]>> /\ e.seq = m[2]
  /\ \A m, n \in wf.acked : m[1] < n[1] => m[2] < n[2]

\* A consumer that pages through ListPlanEvents with the last sequence it saw
\* reads every event once and in order: no event is committed behind a sequence
\* that was already readable, whatever transactions overlap.
CursorMissesNothing == rd.got = [i \in 1..rd.cursor |-> i]

=============================================================================
