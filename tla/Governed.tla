------------------------------ MODULE Governed ------------------------------
(***************************************************************************)
(* Governed actions, worksets and the ledger: requests that carry an       *)
(* idempotency key, run by the runtimes of internal/usecase/agentosaction, *)
(* agentosbatch and agentosledger over one of two stores.  The memory      *)
(* store does each operation under a mutex.  The Postgres store reads,     *)
(* checks and writes in separate statements, and only the claim of a key   *)
(* and the projection it belongs to share a transaction.                   *)
(*                                                                         *)
(* Calls run concurrently; a call that times out is issued again under the *)
(* key it had.  Any statement can fail and its call with it.               *)
(***************************************************************************)
EXTENDS PlatformContracts

CONSTANTS
    Scripts      \* the scenarios, a sequence of [domain, store, calls]

VARIABLES
    sid,         \* the scenario of this behaviour
    records,     \* id :> [spec, status]: governed_actions / worksets
    statusKeys,  \* <<id, key>> :> document: the status-updates table
    chunkKeys,   \* <<id, chunk, key>> :> [ok, doc]: the chunk-results table
    ledger,      \* {[spec, seq]}: the ledger table
    pc,          \* where each call is
    next,        \* the status a call has computed and not yet stored
    answer       \* what a call was answered

store == <<records, statusKeys, chunkKeys, ledger>>
vars == <<sid, store, pc, next, answer>>

script == Scripts[sid]
Calls == DOMAIN script.calls
Memory == script.store = "memory"

(* Statuses.  An action's gates are "" when they are not required.  The    *)
(* item totals, timestamps and reasons of the source's documents follow    *)
(* these fields and are left out.                                          *)
NoDoc == [tenant |-> "", life |-> ""]
NoAnswer == [err |-> "none", doc |-> NoDoc]
Ok(doc) == [err |-> "", doc |-> doc]
Err(why) == [err |-> why, doc |-> NoDoc]

-----------------------------------------------------------------------------
(* The domain rules of governed actions.                                   *)

initialActionStatus(spec) ==
    [tenant |-> spec.tenant,
     life |-> IF spec.dryRunRequired THEN "waiting_dry_run"
              ELSE IF spec.approvalRequired THEN "waiting_approval" ELSE "ready",
     dry |-> IF spec.dryRunRequired THEN "pending" ELSE "",
     approval |-> IF spec.approvalRequired THEN "pending" ELSE "",
     exec |-> "pending"]

lifecycleAfterDryRun(spec) ==
    IF spec.approvalRequired THEN "waiting_approval" ELSE "ready"

lifecycleAfterApproval(spec, dry) ==
    IF spec.dryRunRequired /\ dry # "succeeded" THEN "waiting_dry_run" ELSE "ready"

actionReadyForExecution(st) ==
    /\ st.life \in {"ready", "executing"}
    /\ st.dry \in {"", "succeeded"}
    /\ st.approval \in {"", "approved"}

RecordActionDryRun(spec, st, ok) ==
    IF ok THEN [st EXCEPT !.dry = "succeeded", !.life = lifecycleAfterDryRun(spec)]
          ELSE [st EXCEPT !.dry = "failed", !.life = "failed", !.exec = "failed"]


ResolveActionApproval(spec, st, ok) ==
    IF ok THEN [st EXCEPT !.approval = "approved", !.life = lifecycleAfterApproval(spec, st.dry)]
          ELSE [st EXCEPT !.approval = "rejected", !.life = "canceled"]

CompleteAction(st, ok) ==
    IF ok THEN [st EXCEPT !.life = "executed", !.exec = "succeeded"]
          ELSE [st EXCEPT !.life = "failed", !.exec = "failed"]

CancelAction(st) == [st EXCEPT !.life = "canceled"]

-----------------------------------------------------------------------------
(* The domain rules of worksets.  A workset without chunks is one chunk    *)
(* that has the workset's own id.                                          *)

worksetChunkCount(spec) == IF spec.chunks = <<>> THEN 1 ELSE Len(spec.chunks)

initialWorksetStatus(spec) ==
    [tenant |-> spec.tenant, life |-> "running",
     total |-> worksetChunkCount(spec), completed |-> 0, failed |-> 0]

worksetChunkIDs(spec) ==
    IF spec.chunks = <<>> THEN {spec.id} ELSE {spec.chunks[i].id : i \in DOMAIN spec.chunks}

worksetHasChunk(spec, chunk) == chunk \in worksetChunkIDs(spec)

worksetLifecycleAfterChunk(total, completed, failed) ==
    IF failed > 0 THEN "failed" ELSE IF completed >= total THEN "succeeded" ELSE "running"

RecordWorksetChunk(st, ok) ==
    LET completed == st.completed + 1
        failed == IF ok THEN st.failed ELSE st.failed + 1
    IN [st EXCEPT !.completed = completed, !.failed = failed,
                  !.life = worksetLifecycleAfterChunk(st.total, completed, failed)]

CancelWorkset(st) == [st EXCEPT !.life = "canceled"]

-----------------------------------------------------------------------------
(* What each operation needs of the status it read, and makes of it.       *)

Admits(call, spec, st) ==
    CASE call.op = "dryrun" -> st.dry # ""
      [] call.op = "approval" -> st.approval # ""
      [] call.op = "complete" -> actionReadyForExecution(st)
      [] call.op = "cancel" -> st.life # "executed"
      [] call.op = "chunk" -> worksetHasChunk(spec, call.chunk)
      [] call.op = "cancel_workset" -> TRUE

Updated(call, spec, st) ==
    CASE call.op = "dryrun" -> RecordActionDryRun(spec, st, call.ok)
      [] call.op = "approval" -> ResolveActionApproval(spec, st, call.ok)
      [] call.op = "complete" -> CompleteAction(st, call.ok)
      [] call.op = "cancel" -> CancelAction(st)
      [] call.op = "chunk" -> RecordWorksetChunk(st, call.ok)
      [] call.op = "cancel_workset" -> CancelWorkset(st)

Creates == {"request", "start"}
Updates == {"dryrun", "approval", "complete", "cancel", "chunk", "cancel_workset"}

(* Every result, decision and control request names its idempotency key,   *)
(* and a chunk result its chunk.                                           *)
ValidResult(call) == call.key # "" /\ (call.op = "chunk" => call.chunk # "")

ValidSpec(spec) ==
    IF script.domain = "action" THEN ValidateGovernedActionSpec(spec)
    ELSE IF script.domain = "workset" THEN ValidateWorksetSpec(spec)
    ELSE ValidateLedgerEntrySpec(spec)

initialStatus(spec) ==
    IF script.domain = "action" THEN initialActionStatus(spec) ELSE initialWorksetStatus(spec)

-----------------------------------------------------------------------------
(* Steps of a call.                                                        *)

(* A table with a row under a key that it does not have.                   *)
Added(table, key, row) ==
    [k \in DOMAIN table \cup {key} |-> IF k \in DOMAIN table THEN table[k] ELSE row]

Goto(c, l) == pc' = [pc EXCEPT ![c] = l]
Answer(c, a) == Goto(c, "done") /\ answer' = [answer EXCEPT ![c] = a]
Unanswered == UNCHANGED answer

(* The lookups: start keys are unique in a tenant, ids over all tenants.   *)
RecordsByKey(tenant, key) ==
    {id \in DOMAIN records : records[id].spec.tenant = tenant /\ records[id].spec.key = key}
RecordsByID(id) == {id} \cap DOMAIN records

(* The store compares a repeated request with the first: any difference    *)
(* is an error, and no difference a replay that answers today's status.    *)
ReplayCreate(spec, id) ==
    IF records[id].spec = spec THEN Ok(records[id].status) ELSE Err("conflict")

(* RequestAction, StartWorkset, AppendLedgerEntry: the contract first.     *)
BeginCreate(c) ==
    LET spec == script.calls[c].spec IN
    /\ pc[c] = "begin" /\ script.calls[c].op \in Creates \cup {"append"}
    /\ IF ValidSpec(spec) THEN Goto(c, "key") /\ Unanswered ELSE Answer(c, Err("invalid"))
    /\ UNCHANGED <<sid, store, next>>

(* The memory stores look the start key up, then the id.                   *)
ExistingLocked(spec) ==
    LET hits == RecordsByKey(spec.tenant, spec.key)
    IN IF hits # {} THEN hits ELSE RecordsByID(spec.id)

(* CreateAction and CreateWorkset of the memory stores, under the mutex.   *)
MemoryCreate(c) ==
    LET spec == script.calls[c].spec IN
    /\ pc[c] = "key" /\ Memory
    /\ IF ExistingLocked(spec) # {}
         THEN /\ Answer(c, ReplayCreate(spec, CHOOSE id \in ExistingLocked(spec) : TRUE))
              /\ UNCHANGED records
         ELSE /\ records' = Added(records, spec.id, [spec |-> spec, status |-> initialStatus(spec)])
              /\ Answer(c, Ok(initialStatus(spec)))
    /\ UNCHANGED <<sid, statusKeys, chunkKeys, ledger, next>>

CreateAction(c) == script.calls[c].op = "request" /\ MemoryCreate(c)
CreateWorkset(c) == script.calls[c].op = "start" /\ MemoryCreate(c)

(* platformReplay: by key, then by id.                                     *)
ReplayByKey(c) ==
    LET spec == script.calls[c].spec
        hits == RecordsByKey(spec.tenant, spec.key) IN
    /\ pc[c] = "key" /\ ~Memory /\ script.calls[c].op \in Creates
    /\ \/ hits = {} /\ Goto(c, "id") /\ Unanswered
       \/ \E id \in hits : Answer(c, ReplayCreate(spec, id))
    /\ UNCHANGED <<sid, store, next>>

ReplayByID(c) ==
    LET spec == script.calls[c].spec IN
    /\ pc[c] = "id" /\ script.calls[c].op \in Creates
    /\ IF RecordsByID(spec.id) = {} THEN Goto(c, "insert") /\ Unanswered
                                    ELSE Answer(c, ReplayCreate(spec, spec.id))
    /\ UNCHANGED <<sid, store, next>>

InsertRecordMutant(c) ==
    LET spec == script.calls[c].spec IN
    /\ pc[c] = "insert"
    /\ records' = [id \in DOMAIN records \cup {spec.id} |->
                     IF id = spec.id THEN [spec |-> spec, status |-> initialStatus(spec)] ELSE records[id]]
    /\ Answer(c, Ok(initialStatus(spec)))
    /\ UNCHANGED <<sid, statusKeys, chunkKeys, ledger, next>>

(* The insert, against the primary key and the unique key index.           *)
InsertRecord(c) ==
    LET spec == script.calls[c].spec IN
    /\ pc[c] = "insert"
    /\ IF RecordsByID(spec.id) \cup RecordsByKey(spec.tenant, spec.key) # {}
         THEN Goto(c, "conflict") /\ UNCHANGED <<records, answer>>
         ELSE /\ records' = Added(records, spec.id, [spec |-> spec, status |-> initialStatus(spec)])
              /\ Answer(c, Ok(initialStatus(spec)))
    /\ UNCHANGED <<sid, statusKeys, chunkKeys, ledger, next>>

(* A lost insert is resolved by reading the key in the status-updates      *)
(* table, where a create stores none.                                      *)
ResolveInsertConflict(c) ==
    LET k == <<script.calls[c].spec.id, script.calls[c].spec.key>> IN
    /\ pc[c] = "conflict"
    /\ Answer(c, IF k \in DOMAIN statusKeys THEN Ok(statusKeys[k]) ELSE Err("exists"))
    /\ UNCHANGED <<sid, store, next>>

-----------------------------------------------------------------------------
(* Updates: read the record, check, compute the next status; then write.   *)

TenantOwns(call) == call.id \in DOMAIN records /\ records[call.id].spec.tenant = call.tenant

(* requireAction / requireWorkset, then the checks of the operation: a     *)
(* call its status does not admit is refused before its key is looked up.  *)
Load(c) ==
    LET call == script.calls[c] IN
    /\ pc[c] = "begin" /\ call.op \in Updates
    /\ IF ~ValidateActionRef([id |-> call.id, tenant |-> call.tenant])
            \/ ~TenantOwns(call) \/ ~ValidResult(call)
         THEN Answer(c, Err("invalid")) /\ UNCHANGED next
       ELSE IF ~Admits(call, records[call.id].spec, records[call.id].status)
         THEN Answer(c, Err("refused")) /\ UNCHANGED next
       ELSE /\ next' = [next EXCEPT ![c] = Updated(call, records[call.id].spec, records[call.id].status)]
            /\ Goto(c, "write") /\ Unanswered
    /\ UNCHANGED <<sid, store>>

(* StatusAction, StatusWorkset: the tenant's own record or an error.       *)
ReadRecord(c) ==
    LET call == script.calls[c] IN
    /\ pc[c] = "begin" /\ call.op = "get"
    /\ Answer(c, IF ValidateActionRef([id |-> call.id, tenant |-> call.tenant]) /\ TenantOwns(call)
                   THEN Ok(records[call.id].status) ELSE Err("invalid"))
    /\ UNCHANGED <<sid, store, next>>

GetAction(c) == script.domain = "action" /\ ReadRecord(c)
GetWorkset(c) == script.domain = "workset" /\ ReadRecord(c)

(* ListActions, ListWorksets: records of the scope's tenant that match     *)
(* every filter it sets, the latest ones up to its limit.                  *)
StatusMatchesScope(id, scope) ==
    /\ records[id].spec.tenant = scope.tenant
    /\ scope.process # "" => records[id].spec.process = scope.process
    /\ scope.resource.kind # "" => records[id].spec.resource = scope.resource
    /\ scope.kind # "" => records[id].spec.kind = scope.kind
    /\ scope.life # "" => records[id].status.life = scope.life

ValidScope(scope) ==
    IF script.domain = "action" THEN ValidateActionScope(scope)
    ELSE IF script.domain = "workset" THEN ValidateWorksetScope(scope)
    ELSE ValidateLedgerScope(scope)

ReadPage(c) ==
    LET call == script.calls[c]
        found == {id \in DOMAIN records : StatusMatchesScope(id, call.scope)} IN
    /\ pc[c] = "begin" /\ call.op = "list"
    /\ \/ ~ValidScope(call.scope) /\ Answer(c, Err("invalid"))
       \/ /\ ValidScope(call.scope)
          /\ \E page \in SUBSET found :
                /\ page # found => call.scope.limit > 0 /\ Cardinality(page) = call.scope.limit
                /\ Within(call.scope.limit, Cardinality(page))
                /\ Answer(c, Ok([tenant |-> call.tenant, life |-> "list", ids |-> page]))
    /\ UNCHANGED <<sid, store, next>>

ListActions(c) == script.domain = "action" /\ ReadPage(c)
ListWorksets(c) == script.domain = "workset" /\ ReadPage(c)

(* The key an update claims: a chunk result has a table of its own.        *)
IsChunk(c) == script.calls[c].op = "chunk"
StatusKey(c) == <<script.calls[c].id, script.calls[c].key>>
ChunkKey(c) == <<script.calls[c].id, script.calls[c].chunk, script.calls[c].key>>
Claimed(c) == IF IsChunk(c) THEN ChunkKey(c) \in DOMAIN chunkKeys
                            ELSE StatusKey(c) \in DOMAIN statusKeys
Stored(c) == IF IsChunk(c) THEN chunkKeys[ChunkKey(c)].doc ELSE statusKeys[StatusKey(c)]

(* The key with its document, and the projection.                          *)
StoreUpdate(c) ==
    /\ chunkKeys' = IF IsChunk(c) THEN Added(chunkKeys, ChunkKey(c), [ok |-> script.calls[c].ok, doc |-> next[c]])
                                  ELSE chunkKeys
    /\ statusKeys' = IF IsChunk(c) THEN statusKeys ELSE Added(statusKeys, StatusKey(c), next[c])
    /\ records' = [records EXCEPT ![script.calls[c].id].status = next[c]]
    /\ Answer(c, Ok(next[c]))
    /\ UNCHANGED <<sid, ledger, next>>

(* The memory stores: the key, or the update, under the mutex.             *)
MemoryUpdate(c) ==
    /\ pc[c] = "write" /\ Memory
    /\ IF Claimed(c) THEN Answer(c, Ok(Stored(c))) /\ UNCHANGED <<sid, store, next>>
                     ELSE StoreUpdate(c)

UpdateActionStatus(c) == script.domain = "action" /\ MemoryUpdate(c)
UpdateWorksetStatus(c) == script.domain = "workset" /\ ~IsChunk(c) /\ MemoryUpdate(c)
MemoryApplyChunk(c) == IsChunk(c) /\ MemoryUpdate(c)

(* updatePlatformStatus looks the key up before its transaction, and reads *)
(* the record again for its tenant, which no operation changes.            *)
LookupKey(c) ==
    /\ pc[c] = "write" /\ ~Memory /\ ~IsChunk(c)
    /\ IF Claimed(c) THEN Answer(c, Ok(Stored(c)))
       ELSE IF ~TenantOwns(script.calls[c]) THEN Answer(c, Err("invalid"))
       ELSE Goto(c, "claim") /\ Unanswered
    /\ UNCHANGED <<sid, store, next>>

(* ApplyChunkResult reads the record and goes straight to the claim.       *)
ApplyChunkResult(c) ==
    /\ pc[c] = "write" /\ ~Memory /\ IsChunk(c)
    /\ IF TenantOwns(script.calls[c]) THEN Goto(c, "claim") /\ Unanswered
                                      ELSE Answer(c, Err("invalid"))
    /\ UNCHANGED <<sid, store, next>>

(* INSERT ... ON CONFLICT DO NOTHING waits for another transaction that    *)
(* holds the key and has not finished.                                     *)
KeyHeld(c) ==
    \E d \in Calls \ {c} :
        /\ pc[d] \in {"project", "commit"}
        /\ IsChunk(c) = IsChunk(d)
        /\ IF IsChunk(c) THEN ChunkKey(c) = ChunkKey(d) ELSE StatusKey(c) = StatusKey(d)

ClaimKey(c) ==
    /\ pc[c] = "claim" /\ ~KeyHeld(c)
    /\ IF Claimed(c) THEN Answer(c, Ok(Stored(c))) ELSE Goto(c, "project") /\ Unanswered
    /\ UNCHANGED <<sid, store, next>>

(* The update of the row waits for the row's other writer.                 *)
ProjectStatus(c) ==
    /\ pc[c] = "project"
    /\ \A d \in Calls \ {c} : ~(pc[d] = "commit" /\ script.calls[d].id = script.calls[c].id)
    /\ Goto(c, "commit") /\ Unanswered
    /\ UNCHANGED <<sid, store, next>>

CommitUpdate(c) == pc[c] = "commit" /\ StoreUpdate(c)

-----------------------------------------------------------------------------
(* The ledger.                                                             *)

EntriesByKey(spec) == {e \in ledger : e.spec.tenant = spec.tenant /\ e.spec.key = spec.key}
EntriesByID(spec) == {e \in ledger : e.spec.id = spec.id}
(* The memory store numbers all its entries, Postgres those of a tenant.   *)
NextSequence(tenant) ==
    1 + Cardinality(IF Memory THEN ledger ELSE {e \in ledger : e.spec.tenant = tenant})
EntryDoc(e) == [tenant |-> e.spec.tenant, life |-> "entry", seq |-> e.seq]

AppendReplay(spec) ==
    LET e == CHOOSE x \in EntriesByKey(spec) : TRUE
    IN IF e.spec = spec THEN Ok(EntryDoc(e)) ELSE Err("conflict")

MemoryAppend(c) ==
    LET spec == script.calls[c].spec
        e == [spec |-> spec, seq |-> NextSequence(spec.tenant)] IN
    /\ pc[c] = "key" /\ Memory /\ script.calls[c].op = "append"
    /\ IF EntriesByKey(spec) # {} THEN Answer(c, AppendReplay(spec)) /\ UNCHANGED ledger
       ELSE IF EntriesByID(spec) # {} THEN Answer(c, Err("exists")) /\ UNCHANGED ledger
       ELSE ledger' = ledger \cup {e} /\ Answer(c, Ok(EntryDoc(e)))
    /\ UNCHANGED <<sid, records, statusKeys, chunkKeys, next>>

LookupEntry(c) ==
    LET spec == script.calls[c].spec IN
    /\ script.calls[c].op = "append" /\ ~Memory
    /\ \/ /\ pc[c] = "key"
          /\ IF EntriesByKey(spec) # {} THEN Answer(c, AppendReplay(spec))
                                        ELSE Goto(c, "id") /\ Unanswered
       \/ /\ pc[c] = "id"
          /\ IF EntriesByID(spec) # {} THEN Answer(c, Err("exists"))
                                       ELSE Goto(c, "snapshot") /\ Unanswered
    /\ UNCHANGED <<sid, store, next>>

(* AppendLedgerEntry is one statement: its snapshot is taken when it       *)
(* starts, and the advisory lock it asks for is waited on afterwards, so   *)
(* the maximum it reads may be behind what the lock's last holder stored.  *)
SnapshotSequence(c) ==
    LET spec == script.calls[c].spec IN
    /\ pc[c] = "snapshot"
    /\ next' = [next EXCEPT ![c] = [tenant |-> spec.tenant, life |-> "entry",
                                    seq |-> NextSequence(spec.tenant)]]
    /\ Goto(c, "append") /\ Unanswered
    /\ UNCHANGED <<sid, store>>

InsertEntryMutant(c) ==
    LET spec == script.calls[c].spec IN
    /\ pc[c] = "append"
    /\ ledger' = ledger \cup {[spec |-> spec, seq |-> next[c].seq]} /\ Answer(c, Ok(next[c]))
    /\ UNCHANGED <<sid, records, statusKeys, chunkKeys, next>>

(* The insert meets the unique indexes on id, key and sequence.            *)
InsertEntry(c) ==
    LET spec == script.calls[c].spec
        taken == {e \in ledger : e.spec.tenant = spec.tenant /\ e.seq = next[c].seq} IN
    /\ pc[c] = "append"
    /\ IF EntriesByKey(spec) \cup EntriesByID(spec) \cup taken = {}
         THEN ledger' = ledger \cup {[spec |-> spec, seq |-> next[c].seq]} /\ Answer(c, Ok(next[c]))
         ELSE Goto(c, "resolve") /\ UNCHANGED <<ledger, answer>>
    /\ UNCHANGED <<sid, records, statusKeys, chunkKeys, next>>

(* resolveLedgerInsertErr: the key again, and the answer without the       *)
(* comparison the first lookup makes.                                      *)
ResolveEntryConflict(c) ==
    LET hits == EntriesByKey(script.calls[c].spec) IN
    /\ pc[c] = "resolve"
    /\ \/ \E e \in hits : Answer(c, Ok(EntryDoc(e)))
       \/ hits = {} /\ Answer(c, Err("exists"))
    /\ UNCHANGED <<sid, store, next>>

(* ListLedgerEntries: the first entries of the tenant after a sequence.    *)
ledgerEntryMatchesScope(e, scope) ==
    /\ e.spec.tenant = scope.tenant /\ e.seq > scope.after
    /\ scope.process # "" => e.spec.process = scope.process
    /\ scope.resource.kind # "" => e.spec.resource = scope.resource
    /\ scope.kind # "" => e.spec.kind = scope.kind

ListEntries(c) ==
    LET call == script.calls[c]
        found == {e \in ledger : ledgerEntryMatchesScope(e, call.scope)}
        page == {e \in found : Within(call.scope.limit, Cardinality({x \in found : x.seq <= e.seq}))} IN
    /\ pc[c] = "begin" /\ call.op = "list" /\ script.domain = "ledger"
    /\ Answer(c, IF ~ValidScope(call.scope) THEN Err("invalid")
                 ELSE Ok([tenant |-> call.tenant, life |-> "list", entries |-> page]))
    /\ UNCHANGED <<sid, store, next>>

-----------------------------------------------------------------------------
(* A statement of the Postgres store fails, or the caller's context ends:  *)
(* an open transaction is rolled back, and no later step runs.             *)
StoreFails(c) ==
    /\ ~Memory /\ pc[c] \notin {"begin", "done"}
    /\ Answer(c, Err("store"))
    /\ UNCHANGED <<sid, store, next>>

Init ==
    /\ sid \in DOMAIN Scripts
    /\ records = <<>> /\ statusKeys = <<>> /\ chunkKeys = <<>> /\ ledger = {}
    /\ pc = [c \in Calls |-> "begin"]
    /\ next = [c \in Calls |-> NoDoc]
    /\ answer = [c \in Calls |-> NoAnswer]

CallStep(c) ==
    \/ BeginCreate(c) \/ CreateAction(c) \/ CreateWorkset(c) \/ ReplayByKey(c) \/ ReplayByID(c)
    \/ InsertRecord(c) \/ ResolveInsertConflict(c)
    \/ GetAction(c) \/ GetWorkset(c) \/ ListActions(c) \/ ListWorksets(c)
    \/ Load(c) \/ UpdateActionStatus(c) \/ UpdateWorksetStatus(c) \/ MemoryApplyChunk(c)
    \/ LookupKey(c) \/ ApplyChunkResult(c) \/ ClaimKey(c)
    \/ ProjectStatus(c) \/ CommitUpdate(c)
    \/ MemoryAppend(c) \/ LookupEntry(c) \/ SnapshotSequence(c)
    \/ InsertEntry(c) \/ ResolveEntryConflict(c) \/ ListEntries(c)

(* Nothing is left to do.  A call that waits for ever would be a deadlock. *)
Finished == (\A c \in Calls : pc[c] = "done") /\ UNCHANGED vars

Next == (\E c \in Calls : CallStep(c) \/ StoreFails(c)) \/ Finished

Spec == Init /\ [][Next]_vars

-----------------------------------------------------------------------------
(* Properties.                                                             *)

Answered(c) == answer[c].err = ""

Abstract == INSTANCE RecordStore WITH
    status <- [id \in DOMAIN records |-> records[id].status],
    claimed <- [k \in DOMAIN statusKeys \cup DOMAIN chunkKeys |->
                   IF k \in DOMAIN statusKeys THEN statusKeys[k] ELSE chunkKeys[k].doc]

(* The protocol of either store implements the idempotent record store of  *)
(* RecordStore: a record appears once, moves only in a step that claims a  *)
(* fresh key for it, and what a key was answered with never changes.       *)
ImplementsRecordStore == Abstract!Spec

(* However retries, failures and other writers interleave, every update    *)
(* answered under one key of one record gets the same document: the claim  *)
(* of a key and the projection share a transaction, "so a replay can never *)
(* advance the record".                                                    *)
SameKeySameAnswer ==
    \A c, d \in Calls :
        /\ Answered(c) /\ Answered(d)
        /\ script.calls[c].op \in Updates /\ script.calls[d].op \in Updates
        /\ IsChunk(c) = IsChunk(d)
        /\ IF IsChunk(c) THEN ChunkKey(c) = ChunkKey(d) ELSE StatusKey(c) = StatusKey(d)
        => answer[c].doc = answer[d].doc

(* No action is ready or executed while a gate its request asked for is    *)
(* open: two gates resolved at the same time may lose one resolution, but  *)
(* what is stored never passes a gate that was not passed.                 *)
ReadyMeansGated ==
    script.domain = "action" =>
        \A id \in DOMAIN records :
            LET spec == records[id].spec
                st == records[id].status
            IN st.life \in {"ready", "executed"} =>
                 /\ spec.dryRunRequired => st.dry = "succeeded"
                 /\ spec.approvalRequired => st.approval = "approved"

(* A workset is recorded as succeeded only when every one of its chunks    *)
(* has a stored result, and all of those succeeded, although the counters  *)
(* are read and written in separate statements.                            *)
SucceededWorksetIsComplete ==
    script.domain = "workset" =>
        \A id \in DOMAIN records :
            records[id].status.life = "succeeded" =>
                \A ch \in worksetChunkIDs(records[id].spec) :
                    /\ \E k \in DOMAIN chunkKeys : k[1] = id /\ k[2] = ch
                    /\ \A k \in DOMAIN chunkKeys : k[1] = id /\ k[2] = ch => chunkKeys[k].ok

(* What waits passes its gate only with what it waits for.                 *)
GatesHold == ReadyMeansGated /\ SucceededWorksetIsComplete

(* The entries of a tenant, or of the memory store, are numbered 1, 2, 3,  *)
(* ... without a gap or a repetition, so a reader that lists the entries   *)
(* after the last one it has misses none; and an answered append has its   *)
(* number under its own key, whatever snapshot its statement had.          *)
LedgerIsDense ==
    /\ \A t \in {e.spec.tenant : e \in ledger} :
          LET mine == {e \in ledger : Memory \/ e.spec.tenant = t}
          IN {e.seq : e \in mine} = 1..Cardinality(mine)
    /\ \A c \in Calls : script.calls[c].op = "append" /\ Answered(c) =>
          \E e \in EntriesByKey(script.calls[c].spec) : e.seq = answer[c].doc.seq

(* No call is answered with, or writes, a record of another tenant, even   *)
(* where two tenants use one record id or one key.                         *)
TenantScoped ==
    \A c \in Calls :
        /\ Answered(c) => answer[c].doc.tenant = script.calls[c].tenant
        /\ Answered(c) /\ script.calls[c].op = "list" =>
              IF script.domain = "ledger"
                THEN \A e \in answer[c].doc.entries : e.spec.tenant = script.calls[c].tenant
                ELSE \A id \in answer[c].doc.ids : records[id].spec.tenant = script.calls[c].tenant
        /\ pc[c] \in {"write", "claim", "project", "commit"} =>
              records[script.calls[c].id].spec.tenant = script.calls[c].tenant

=============================================================================
