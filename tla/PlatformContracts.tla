-------------------------- MODULE PlatformContracts --------------------------
(***************************************************************************)
(* The request contracts of the durable process platform: what a process,  *)
(* a governed action, a workset and a ledger entry must look like before   *)
(* any store sees them.  A missing string is "", as in the source; account *)
(* and project always travel together and are one value, the tenant.       *)
(***************************************************************************)
EXTENDS Integers, FiniteSets, Sequences

NoResource == [kind |-> "", id |-> "", tenant |-> ""]

ValidateResourceRef(ref) == ref.kind # "" /\ ref.id # "" /\ ref.tenant # ""

(* A resource is optional, but one that is given is complete and in the    *)
(* request's own tenant.                                                   *)
validateOptionalScopeResource(tenant, resource) ==
    resource = NoResource \/ (ValidateResourceRef(resource) /\ resource.tenant = tenant)

(* A pointer to data names its kind and where the data is.                 *)
validateLedgerDataRef(ref) == ref.kind # "" /\ (ref.uri # "" \/ ref.artifact # "")

-----------------------------------------------------------------------------
(* Governed actions.                                                       *)

validateGovernedActionIdentity(spec) ==
    spec.id # "" /\ spec.key # "" /\ spec.tenant # "" /\ spec.kind # ""

validateGovernedActionScope(spec) ==
    /\ spec.process # "" \/ spec.resource.kind # ""
    /\ validateOptionalScopeResource(spec.tenant, spec.resource)

validateActionRefs(refs) == \A r \in refs : validateLedgerDataRef(r)

ValidateGovernedActionSpec(spec) ==
    /\ validateGovernedActionIdentity(spec)
    /\ validateGovernedActionScope(spec)
    /\ validateActionRefs(spec.refs)

ValidateActionRef(ref) == ref.id # "" /\ ref.tenant # ""

ValidateActionScope(scope) ==
    scope.tenant # "" /\ scope.limit >= 0 /\ validateOptionalScopeResource(scope.tenant, scope.resource)

-----------------------------------------------------------------------------
(* Worksets: a batch of items cut in chunks, under a policy whose zero     *)
(* limits mean "no limit".                                                 *)

validateWorksetIdentity(spec) ==
    spec.id # "" /\ spec.key # "" /\ spec.tenant # "" /\ spec.kind # ""

validateWorksetScope(spec) ==
    /\ spec.process # "" \/ spec.resource.kind # ""
    /\ validateOptionalScopeResource(spec.tenant, spec.resource)

validateWorksetItemsRef(items) == validateLedgerDataRef(items) /\ items.count >= 0

Within(limit, n) == limit > 0 => n <= limit

validateWorksetChunk(chunk, policy) ==
    /\ chunk.id # "" /\ chunk.size >= 0
    /\ Within(policy.maxChunkSize, chunk.size)
    /\ Within(policy.maxConcurrency, chunk.concurrency)
    /\ validateWorksetItemsRef(chunk.items)

validateWorksetChunks(chunks, policy) ==
    /\ Within(policy.maxChunks, Len(chunks))
    /\ \A i \in DOMAIN chunks : validateWorksetChunk(chunks[i], policy)

ValidateWorksetSpec(spec) ==
    /\ validateWorksetIdentity(spec)
    /\ validateWorksetScope(spec)
    /\ validateWorksetItemsRef(spec.items)
    /\ validateWorksetChunks(spec.chunks, spec.policy)

ValidateWorksetScope(scope) ==
    scope.tenant # "" /\ scope.limit >= 0 /\ validateOptionalScopeResource(scope.tenant, scope.resource)

-----------------------------------------------------------------------------
(* Ledger entries.                                                         *)

validateLedgerEntryIdentity(spec) ==
    spec.id # "" /\ spec.key # "" /\ spec.tenant # "" /\ spec.kind # ""

validateLedgerEntryScope(spec) ==
    /\ validateOptionalScopeResource(spec.tenant, spec.resource)
    /\ spec.process # "" \/ spec.resource.kind # ""

ValidateLedgerEntrySpec(spec) ==
    /\ validateLedgerEntryIdentity(spec)
    /\ validateLedgerEntryScope(spec)
    /\ \A r \in spec.refs : validateLedgerDataRef(r)

ValidateLedgerScope(scope) ==
    scope.tenant # "" /\ scope.limit >= 0 /\ validateOptionalScopeResource(scope.tenant, scope.resource)

-----------------------------------------------------------------------------
(* Processes: a resource is required, the proactive history threshold may  *)
(* not exceed the ceiling, and a timer is due at a time or after a delay,  *)
(* never both.                                                             *)

validateProcessStartIdentity(spec) ==
    /\ spec.id # "" /\ spec.kind # "" /\ spec.tenant # "" /\ spec.key # ""
    /\ ValidateResourceRef(spec.resource) /\ spec.resource.tenant = spec.tenant

validateProcessPolicy(policy) ==
    /\ policy.timeoutSeconds >= 0 /\ policy.maxHistoryEvents >= 0 /\ policy.continueAsNewEvents >= 0
    /\ Within(policy.maxHistoryEvents, policy.continueAsNewEvents)

validateProcessTimer(timer) ==
    /\ timer.id # ""
    /\ (timer.fireAt # 0) # (timer.afterSeconds > 0)
    /\ timer.afterSeconds >= 0

ValidateProcessSpec(spec) ==
    /\ validateProcessStartIdentity(spec)
    /\ validateProcessPolicy(spec.policy)
    /\ \A t \in spec.timers : validateProcessTimer(t)
=============================================================================
