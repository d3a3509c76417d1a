-------------------------- MODULE MemoryPlanStore --------------------------
(***************************************************************************)
(* MemoryPlanStore, the plan store of an embedded runtime: the plan rows,  *)
(* journal, command outbox, audit records and metric checkpoints as Go     *)
(* maps behind one mutex.  Two things distinguish it from the Postgres     *)
(* store: CreatePlan takes the lock three times, and its records are Go    *)
(* values, so a record shared with a caller changes when the caller        *)
(* changes it.  A record here is [v, inner, owner]: its contents, the part *)
(* that only a pointer reaches (the approval of a status, the policy of a  *)
(* spec), and whether the store or a caller holds the value; the clone     *)
(* functions give a value another owner and leave inner shared.            *)
(***************************************************************************)
EXTENDS Naturals, Sequences

CONSTANTS Plans,        \* plan ids
          Creators,     \* concurrent CreatePlan calls
          Tenants,      \* account and project of a caller
          StartSpecs,   \* assignments of a spec [plan, tenant, key] to creators
          EventKeys,    \* idempotency keys of events
          Versions,     \* statuses a transition may save
          Limit,        \* events of one page
          MaxOps        \* operations after the creates

VARIABLES specs, statuses,     \* plan -> record or Missing
          planKeys,            \* <<tenant, key>> -> plan
          events,              \* plan -> sequence of [key, v, seq]
          digests,             \* <<plan, key>> of a transition -> the version it saved
          commands, audits,    \* <<plan, key>> -> record
          metrics,             \* plan -> checkpoint sequence
          cr,                  \* creator -> [pc, spec, answer]
          lent,                \* plans whose stored status a caller was handed
          saved,               \* history: plan -> version the last write saved
          ops

vars == <<specs, statuses, planKeys, events, digests, commands, audits, metrics, cr, lent, saved, ops>>

\* a CreatePlan call is for a plan of the store
MemoryAssumption == \A s \in StartSpecs : \A c \in Creators : s[c].plan \in Plans

Missing == [v |-> "missing"]
Changed == 99     \* contents no operation of the store writes
Empty == [x \in {} |-> 0]
Put(map, key, value) == [k \in DOMAIN map \cup {key} |-> IF k = key THEN value ELSE map[k]]

Argument(v) == [v |-> v, inner |-> "saved", owner |-> "caller"]


cloneRunPlanStatus(r, owner) == [r EXCEPT !.owner = owner]
cloneRunPlanSpec(r, owner) == [r EXCEPT !.owner = owner]
clonePlanEvent(e, owner) == [e EXCEPT !.owner = owner]

(* --- Rules the Postgres store shares -------------------------------------- *)

ValidatePlanStartIdempotency(p, spec) == specs[p].v = spec
ValidatePlanStateIdentity(p, spec) == specs[p].v = spec
ValidatePlanTenantAccess(p, tenant) == specs[p] # Missing /\ specs[p].v.tenant = tenant

(* --- CreatePlan ------------------------------------------------------------ *)

lookupExistingPlanLocked(spec) ==
    IF <<spec.tenant, spec.key>> \in DOMAIN planKeys
    THEN {planKeys[<<spec.tenant, spec.key>>]} ELSE {}

lookupExistingPlanIDLocked(spec) == {p \in {spec.plan} : specs[p] # Missing}

Existing(p, spec) == IF ValidatePlanStartIdempotency(p, spec) THEN "existing" ELSE "refused"

Stop(c, answer) == cr' = [cr EXCEPT ![c].pc = "done", ![c].answer = answer]

lookupExistingPlan(c) ==
    LET found == lookupExistingPlanLocked(cr[c].spec)
    IN /\ cr[c].pc = "key"
       /\ IF found = {} THEN cr' = [cr EXCEPT ![c].pc = "id"]
          ELSE Stop(c, Existing(CHOOSE p \in found : TRUE, cr[c].spec))
       /\ UNCHANGED <<specs, statuses, planKeys, events, digests, commands, audits, metrics, lent, saved, ops>>

lookupExistingPlanByID(c) ==
    LET found == lookupExistingPlanIDLocked(cr[c].spec)
    IN /\ cr[c].pc = "id"
       /\ IF found = {} THEN cr' = [cr EXCEPT ![c].pc = "create"]
          ELSE Stop(c, Existing(CHOOSE p \in found : TRUE, cr[c].spec))
       /\ UNCHANGED <<specs, statuses, planKeys, events, digests, commands, audits, metrics, lent, saved, ops>>

savePlanStateLocked(spec, version) ==
    /\ specs' = [specs EXCEPT ![spec.plan] = cloneRunPlanSpec(Argument(spec), "store")]
    /\ statuses' = [statuses EXCEPT ![spec.plan] = cloneRunPlanStatus(Argument(version), "store")]
    /\ planKeys' = Put(planKeys, <<spec.tenant, spec.key>>, spec.plan)
    /\ saved' = [saved EXCEPT ![spec.plan] = version]

\* Both lookups again, then the save, under the write lock.
createPlanSnapshot(c) ==
    LET spec == cr[c].spec
        byKey == lookupExistingPlanLocked(spec)
        found == IF byKey # {} THEN byKey ELSE lookupExistingPlanIDLocked(spec)
    IN /\ cr[c].pc = "create"
       /\ IF found = {}
          THEN savePlanStateLocked(spec, 0) /\ Stop(c, "created")
          ELSE /\ Stop(c, Existing(CHOOSE p \in found : TRUE, spec))
               /\ UNCHANGED <<specs, statuses, planKeys, saved>>
       /\ UNCHANGED <<events, digests, commands, audits, metrics, lent, ops>>

(* --- State and journal ------------------------------------------------------ *)

Operation == ops < MaxOps /\ ops' = ops + 1

\* A save for a plan that does not exist, or under another identity, is refused.
normalizeMemoryPlanStateSnapshot(spec) == spec.plan # "" /\ spec.key # ""

SavePlanState(spec, version) ==
    /\ Operation
    /\ normalizeMemoryPlanStateSnapshot(spec)
    /\ specs[spec.plan] # Missing /\ ValidatePlanStateIdentity(spec.plan, spec)
    /\ savePlanStateLocked(spec, version)
    /\ UNCHANGED <<events, digests, commands, audits, metrics, cr, lent>>

EventOf(p, key) == {i \in DOMAIN events[p] : events[p][i].key = key}

appendPlanEventLocked(p, key, body) ==
    events' = [events EXCEPT ![p] =
                 Append(@, clonePlanEvent([key |-> key, v |-> body, seq |-> Len(@) + 1, owner |-> "caller"], "store"))]

\* A key that is known is answered with its event, when the event and the digest
\* agree, and refused otherwise; nothing is written in either case.
PersistPlanTransition(spec, key, version) ==
    /\ Operation
    /\ normalizeMemoryPlanStateSnapshot(spec)
    /\ specs[spec.plan] # Missing /\ ValidatePlanStateIdentity(spec.plan, spec)
    /\ IF EventOf(spec.plan, key) # {}
       THEN UNCHANGED <<specs, statuses, planKeys, saved, events, digests>>
       ELSE /\ savePlanStateLocked(spec, version)
            /\ appendPlanEventLocked(spec.plan, key, version)
            /\ digests' = Put(digests, <<spec.plan, key>>, version)
    /\ UNCHANGED <<commands, audits, metrics, cr, lent>>

AppendPlanEvent(p, key, body) ==
    /\ Operation
    /\ specs[p] # Missing
    /\ IF EventOf(p, key) # {} THEN UNCHANGED events ELSE appendPlanEventLocked(p, key, body)
    /\ UNCHANGED <<specs, statuses, planKeys, digests, commands, audits, metrics, cr, lent, saved>>

(* --- Commands, audits, checkpoints ------------------------------------------- *)

\* The tenant of a record is the plan's, whatever the caller wrote.
RecordAudit(p, key) ==
    /\ Operation
    /\ specs[p] # Missing
    /\ <<p, key>> \notin DOMAIN audits
    /\ audits' = Put(audits, <<p, key>>, [tenant |-> specs[p].v.tenant, key |-> key])
    /\ UNCHANGED <<specs, statuses, planKeys, events, digests, commands, metrics, cr, lent, saved>>

RecordPlanCommand(p, key) ==
    /\ Operation
    /\ specs[p] # Missing
    /\ <<p, key>> \notin DOMAIN commands
    /\ commands' = Put(commands, <<p, key>>, [tenant |-> specs[p].v.tenant, status |-> "pending"])
    /\ UNCHANGED <<specs, statuses, planKeys, events, digests, audits, metrics, cr, lent, saved>>

ValidatePlanCommandStatusTransition(from, to) == from # "delivered" \/ to = "delivered"

updatePlanCommandStatus(p, key, status) ==
    /\ Operation
    /\ <<p, key>> \in DOMAIN commands
    /\ ValidatePlanCommandStatusTransition(commands[<<p, key>>].status, status)
    /\ status = "delivered" => <<p, key>> \in DOMAIN audits
    /\ commands' = [commands EXCEPT ![<<p, key>>].status = status]
    /\ UNCHANGED <<specs, statuses, planKeys, events, digests, audits, metrics, cr, lent, saved>>

SavePlanMetricCheckpoint(p, tenant, seq) ==
    /\ Operation
    /\ ValidatePlanTenantAccess(p, tenant)
    /\ seq >= metrics[p]
    /\ metrics' = [metrics EXCEPT ![p] = seq]
    /\ UNCHANGED <<specs, statuses, planKeys, events, digests, commands, audits, cr, lent, saved>>

(* --- Reads -------------------------------------------------------------------- *)

\* A read hands the caller a value; the stored one is lent when the value is not
\* the caller's own.
Lends(p) == cloneRunPlanStatus(statuses[p], "caller").owner # "caller"

GetPlan(p) ==
    /\ Operation
    /\ specs[p] # Missing
    /\ lent' = lent \cup {q \in {p} : Lends(q)}
    /\ UNCHANGED <<specs, statuses, planKeys, events, digests, commands, audits, metrics, cr, saved>>

GetPlanByRef(p, tenant) == ValidatePlanTenantAccess(p, tenant) /\ GetPlan(p)

LoadPlanState(p) == GetPlan(p)

ListPlanEvents(p, tenant, after, limit) ==
    IF ~ValidatePlanTenantAccess(p, tenant) THEN <<>>
    ELSE LET found == SelectSeq(events[p], LAMBDA e : e.seq > after)
         IN SubSeq(found, 1, IF Len(found) < limit THEN Len(found) ELSE limit)

ListPlanRefs(tenant) == {p \in Plans : ValidatePlanTenantAccess(p, tenant)}

ListRecoverablePlanCommands(tenant) ==
    {k \in DOMAIN commands : commands[k].tenant = tenant /\ commands[k].status # "delivered"}

\* A caller changes the values it holds: what the clones leave shared changes in
\* the store too, and all of a record does when the record itself is shared.
CallerChanges(p) ==
    /\ specs[p] # Missing
    /\ statuses' = [statuses EXCEPT ![p].inner = "changed",
                                    ![p].v = IF statuses[p].owner = "caller" \/ p \in lent
                                             THEN Changed ELSE @]
    /\ events' = [events EXCEPT ![p] =
                    [i \in DOMAIN @ |-> IF @[i].owner = "caller" THEN [@[i] EXCEPT !.v = Changed] ELSE @[i]]]
    /\ UNCHANGED <<specs, planKeys, digests, commands, audits, metrics, cr, lent, saved, ops>>

Init ==
    /\ specs = [p \in Plans |-> Missing]
    /\ statuses = [p \in Plans |-> Missing]
    /\ planKeys = Empty
    /\ events = [p \in Plans |-> <<>>]
    /\ digests = Empty
    /\ commands = Empty
    /\ audits = Empty
    /\ metrics = [p \in Plans |-> 0]
    /\ cr \in {[c \in Creators |-> [pc |-> "key", spec |-> s[c], answer |-> "none"]] : s \in StartSpecs}
    /\ lent = {}
    /\ saved = [p \in Plans |-> 0]
    /\ ops = 0

Next ==
    \/ \E c \in Creators : lookupExistingPlan(c) \/ lookupExistingPlanByID(c) \/ createPlanSnapshot(c)
    \/ \E c \in Creators, v \in Versions :
          \/ SavePlanState(cr[c].spec, v)
          \/ \E k \in EventKeys : PersistPlanTransition(cr[c].spec, k, v)
    \/ \E p \in Plans, k \in EventKeys :
          \/ AppendPlanEvent(p, k, 0)
          \/ RecordAudit(p, k) \/ RecordPlanCommand(p, k)
    \/ \E t \in Tenants : \E k \in ListRecoverablePlanCommands(t), s \in {"failed", "delivered"} :
          updatePlanCommandStatus(k[1], k[2], s)
    \/ \E p \in Plans : LoadPlanState(p) \/ CallerChanges(p)
    \/ \E p \in Plans, t \in Tenants : GetPlanByRef(p, t)
    \/ \E t \in Tenants : \E p \in ListPlanRefs(t) :
          LET page == ListPlanEvents(p, t, metrics[p], Limit)
          IN \E i \in DOMAIN page : SavePlanMetricCheckpoint(p, t, page[i].seq)

Spec == Init /\ [][Next]_vars

(* --- Properties ----------------------------------------------------------------- *)

\* Of the CreatePlan calls for one plan id, or one tenant's key, exactly one is
\* told it created the plan, however the three lock sections of the calls
\* interleave (createPlanSnapshot repeats both lookups under the write lock).
MemoryCreatesOnce ==
    \A c, d \in Creators :
       (c # d /\ cr[c].answer = "created" /\ cr[d].answer = "created") =>
          /\ cr[c].spec.plan # cr[d].spec.plan
          /\ <<cr[c].spec.tenant, cr[c].spec.key>> # <<cr[d].spec.tenant, cr[d].spec.key>>

\* The status the store answers is the one the last write saved, and each key has
\* one event, at the place its sequence names: no caller changes either through a
\* value it passed in or was handed (cloneRunPlanStatus, clonePlanEvent), and no
\* write that is refused or replayed leaves half of itself behind.
StoredIsSaved ==
    \A p \in Plans :
       /\ specs[p] # Missing => statuses[p].v = saved[p]
       /\ \A i, j \in DOMAIN events[p] :
             events[p][i].seq = i /\ (events[p][i].key = events[p][j].key => i = j)
       /\ \A k \in EventKeys : <<p, k>> \in DOMAIN digests =>
             \E i \in EventOf(p, k) : events[p][i].v = digests[<<p, k>>]
=============================================================================
