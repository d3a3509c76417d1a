--------------------------- MODULE PlanValidation ---------------------------
(***************************************************************************)
(* The validation of run plans: what Validator.Validate accepts of a       *)
(* submitted plan, of a plan grown by the plan_delta artifacts of a        *)
(* finished run (NextPlanDelta, ApplyDelta) and of a plan imported from a  *)
(* Serverless Workflow document; with the graph algorithms it uses as they *)
(* are written.  Node ids are numbers, whose order stands for the order of *)
(* strings; 0, "" and <<>> are empty values.                               *)
(***************************************************************************)
EXTENDS Naturals, Sequences, FiniteSetsExt

CONSTANTS Submitted,   \* specs clients submit: [scoped, wire, nodes, edges, policy]
          Published,   \* artifacts a run publishes: sequences of refs
          Capabilities,\* catalog: name -> [max, accepts, atLeast]
          Schemas,     \* schema_ref -> "valid", "broken" or "strict"
          Defaults,    \* [nodes, depth, expansions]: the validator's defaults
          Compiles     \* expressions the CEL environment compiles

VARIABLES submitted,   \* the spec a client submitted
          accepted,    \* the accepted spec, <<>> before
          doc,         \* an exported Serverless Workflow document, <<>> before
          expansions,  \* expansions applied
          answer       \* the last answer

vars == <<submitted, accepted, doc, expansions, answer>>

Distinct(seq) == Cardinality(Range(seq)) = Len(seq)
Ids(nodes) == {n.id : n \in Range(nodes)}
Node(spec, id) == CHOOSE n \in Range(spec.nodes) : n.id = id

(* --- Contracts of a node ------------------------------------------------------ *)

normalizePolicy(p) ==
    [nodes |-> IF p.nodes <= 0 THEN Defaults.nodes ELSE p.nodes,
     depth |-> IF p.depth <= 0 THEN Defaults.depth ELSE p.depth,
     expansions |-> IF p.expansions <= 0 THEN Defaults.expansions ELSE p.expansions,
     history |-> p.history, continue |-> p.continue]

validatePlanEnvelope(spec) ==
    LET p == normalizePolicy(spec.policy)
    IN /\ spec.scoped
       /\ ~(p.history > 0 /\ p.continue > p.history)
       /\ spec.nodes # <<>>
       /\ Len(spec.nodes) <= p.nodes

compileExpression(x) == x = "" \/ x \in Compiles

\* The source of a mapping's value; "" when its fields do not say one.
validateInputMappingShape(m) ==
    IF m.target = "" THEN ""
    ELSE IF m.expression # ""
         THEN IF m.artifact # "" \/ m.source # 0 \/ m.path # "" THEN "" ELSE "expression"
    ELSE IF m.artifact # "" THEN IF m.source = 0 THEN "" ELSE "artifact"
    ELSE IF m.source # 0 THEN ""
    ELSE IF m.path # "" THEN "input" ELSE ""

validateNodeIdentity(n) ==
    n.id # 0 /\ n.run # "" /\ n.backend # "" /\ n.join \in {"", "all", "any", "first"}

validateNodeExpressions(n) ==
    /\ \A c \in Range(n.conditions) : compileExpression(c)
    /\ \A m \in Range(n.inputs) :
          /\ validateInputMappingShape(m) # ""
          /\ validateInputMappingShape(m) = "expression" => compileExpression(m.expression)

ValidateArtifactSpecs(specs) ==
    /\ \A s \in Range(specs) : s.name # "" /\ s.kind # ""
    /\ Distinct([i \in DOMAIN specs |-> specs[i].name])

ValidateArtifactSchemaRefs(specs) ==
    \A s \in Range(specs) : s.schema # "" => s.schema \in DOMAIN Schemas /\ Schemas[s.schema] # "broken"

validateNodeBatchLimits(n, c) ==
    c.max = 0 \/ (n.items # "absent" /\ n.items # "scalar" /\ n.size <= c.max)

validateNodeCapability(n) ==
    n.capability = "" \/ (/\ n.capability \in DOMAIN Capabilities
                          /\ Capabilities[n.capability].accepts
                          /\ validateNodeBatchLimits(n, Capabilities[n.capability]))

validateNode(n) ==
    /\ validateNodeIdentity(n) /\ validateNodeExpressions(n)
    /\ ValidateArtifactSpecs(n.outputs) /\ ValidateArtifactSchemaRefs(n.outputs)
    /\ validateNodeCapability(n)

validateNodes(spec) ==
    (\A n \in Range(spec.nodes) : validateNode(n)) /\ Distinct([i \in DOMAIN spec.nodes |-> spec.nodes[i].id])

(* --- Edges ----------------------------------------------------------------------- *)

validateEdgeIdentity(e, ids) ==
    /\ e.from \in ids /\ e.to \in ids /\ e.from # e.to
    /\ e.on \in {"", "success", "error", "complete", "always"}

\* An edge without an id is never a duplicate.
validateUniqueEdgeID(edges) == Distinct(SelectSeq([i \in DOMAIN edges |-> edges[i].id], LAMBDA id : id # ""))

\* A mapping of an edge must have a shape; its expression is not compiled here.
validateEdge(e, ids) ==
    /\ validateEdgeIdentity(e, ids)
    /\ compileExpression(e.condition)
    /\ \A m \in Range(e.mappings) :
          /\ validateInputMappingShape(m) # ""
          /\ validateInputMappingShape(m) = "artifact" => m.source = e.from

validateEdges(spec) ==
    (\A e \in Range(spec.edges) : validateEdge(e, Ids(spec.nodes))) /\ validateUniqueEdgeID(spec.edges)

(* --- Graph algorithms --------------------------------------------------------------- *)

Sorted(S) == [i \in 1..Cardinality(S) |-> CHOOSE n \in S : Cardinality({m \in S : m < n}) = i - 1]

\* One round of Kahn's algorithm over incoming counts: parallel edges count each;
\* the queue is kept sorted.
Kahn(spec, k) ==
    IF k.queue = {} THEN k
    ELSE LET current == Min(k.queue)
             rest == [n \in DOMAIN k.incoming |->
                        k.incoming[n] - Cardinality({i \in DOMAIN spec.edges : spec.edges[i].from = current
                                                                            /\ spec.edges[i].to = n})]
         IN [queue |-> (k.queue \ {current}) \cup {n \in DOMAIN rest : rest[n] = 0 /\ k.incoming[n] # 0},
             incoming |-> rest, order |-> Append(k.order, current)]

\* A node is queued once, so the queue is empty after a round for each.
topoSort(spec) ==
    LET ids == Ids(spec.nodes)
        incoming == [n \in ids |-> Cardinality({i \in DOMAIN spec.edges : spec.edges[i].to = n})]
        round[n \in 0..Cardinality(ids)] ==
            IF n = 0 THEN [queue |-> {m \in ids : incoming[m] = 0}, incoming |-> incoming, order |-> <<>>]
            ELSE Kahn(spec, round[n - 1])
    IN round[Cardinality(ids)].order

\* One round of the breadth first search; a node that was visited is not queued again.
Search(spec, s, to) ==
    IF s.found \/ s.queue = <<>> THEN s
    ELSE LET targets == {e.to : e \in {x \in Range(spec.edges) : x.from = Head(s.queue)}}
         IN [found |-> to \in targets, queue |-> Tail(s.queue) \o Sorted(targets \ s.visited),
             visited |-> s.visited \cup targets]

\* The node itself counts as visited.
hasDependencyPath(spec, from, to) ==
    LET round[n \in 0..Cardinality(Ids(spec.nodes))] ==
            IF n = 0 THEN [found |-> FALSE, queue |-> <<from>>, visited |-> {from}]
            ELSE Search(spec, round[n - 1], to)
    IN round[Cardinality(Ids(spec.nodes))].found

\* The depths once the edges of a node, the next in the order, are relaxed.
Depths(spec, depth, current) ==
    [n \in DOMAIN depth |->
       IF (\E e \in Range(spec.edges) : e.from = current /\ e.to = n) /\ depth[n] < depth[current] + 1
       THEN depth[current] + 1 ELSE depth[n]]

maxDepth(spec, order) ==
    LET after[n \in 0..Len(order)] ==
            IF n = 0 THEN [m \in Ids(spec.nodes) |-> 0] ELSE Depths(spec, after[n - 1], order[n])
    IN 1 + Max(Range(after[Len(order)]))

(* --- Mappings, and the whole ------------------------------------------------------------ *)

nodeDeclaresArtifact(n, name) == \E s \in Range(n.outputs) : s.name = name

validateArtifactMappingSource(spec, n, m) ==
    /\ m.source \in Ids(spec.nodes) /\ m.source # n.id
    /\ nodeDeclaresArtifact(Node(spec, m.source), m.artifact)
    /\ hasDependencyPath(spec, m.source, n.id)

validateEdgeInputMappingContracts(spec, e) ==
    \A m \in Range(e.mappings) : m.artifact # "" => nodeDeclaresArtifact(Node(spec, e.from), m.artifact)

validateInputMappingContracts(spec) ==
    /\ \A n \in Range(spec.nodes) : \A m \in Range(n.inputs) :
          m.artifact # "" => validateArtifactMappingSource(spec, n, m)
    /\ \A e \in Range(spec.edges) : validateEdgeInputMappingContracts(spec, e)

Validate(spec) ==
    /\ validatePlanEnvelope(spec) /\ validateNodes(spec) /\ validateEdges(spec)
    /\ LET order == topoSort(spec)
       IN /\ Len(order) = Cardinality(Ids(spec.nodes))
          /\ validateInputMappingContracts(spec)
          /\ maxDepth(spec, order) <= normalizePolicy(spec.policy).depth

(* --- Published artifacts and expansion ----------------------------------------------------- *)

validatePublishedArtifacts(refs) ==
    (\A r \in Range(refs) : r.name # "" /\ r.kind # "") /\ Distinct([i \in DOMAIN refs |-> refs[i].name])

matchRefsAgainstSpecs(specs, refs) ==
    \A r \in Range(refs) : \E s \in Range(specs) :
       s.name = r.name /\ s.kind = r.kind /\ (s.media # "" => s.media = r.media)

checkRequiredArtifacts(specs, refs) ==
    \A s \in Range(specs) : s.required => \E r \in Range(refs) : r.name = s.name

ValidateArtifactsAgainstSpecs(specs, refs) ==
    /\ ValidateArtifactSpecs(specs) /\ validatePublishedArtifacts(refs)
    /\ specs # <<>> => matchRefsAgainstSpecs(specs, refs) /\ checkRequiredArtifacts(specs, refs)

\* Each payload published under a declared schema is fetched and validated.
ValidateArtifactPayloadsAgainstSchemas(specs, refs) ==
    \A s \in Range(specs) : s.schema # "" =>
       \A r \in Range(refs) : r.name = s.name =>
          r.id # "" /\ r.stored /\ (Schemas[s.schema] = "strict" => r.conforms)

\* The output schema of a capability, over the document of the published refs.
ValidateCapabilityOutputArtifacts(n, refs) ==
    n.capability # "" => Len(refs) >= Capabilities[n.capability].atLeast

planDeltaArtifacts(refs) == SelectSeq(refs, LAMBDA r : r.kind = "plan_delta")

Grown(spec, delta) == [spec EXCEPT !.nodes = @ \o delta.nodes, !.edges = @ \o delta.edges]

\* The deltas of all plan_delta artifacts in their order; <<>> when one has no id or
\* payload, or together they are empty.
NextPlanDelta(refs) ==
    LET deltas == planDeltaArtifacts(refs)
    IN IF \E d \in Range(deltas) : d.id = "" \/ ~d.stored THEN <<>>
       ELSE LET merged[i \in 0..Len(deltas)] ==
                    IF i = 0 THEN [nodes |-> <<>>, edges |-> <<>>] ELSE Grown(merged[i - 1], deltas[i])
                delta == merged[Len(deltas)]
            IN IF delta.nodes = <<>> /\ delta.edges = <<>> THEN <<>> ELSE <<delta>>

\* Mutant: the grown plan is not validated again
ApplyDeltaMutant(spec, delta, count) ==
    LET p == normalizePolicy(spec.policy)
    IN count < p.expansions /\ Len(spec.nodes) + Len(delta.nodes) <= p.nodes

ApplyDelta(spec, delta, count) ==
    LET p == normalizePolicy(spec.policy)
    IN /\ count < p.expansions
       /\ Len(spec.nodes) + Len(delta.nodes) <= p.nodes
       /\ Validate(Grown(spec, delta))

(* --- Steps ------------------------------------------------------------------------------------ *)

\* Strict decoding: no unknown field, nothing after the document; in YAML no alias,
\* no key twice and no tag but those of plain values.
DecodeWireJSON(wire) == wire.defects \cap {"unknown_field", "trailing"} = {}
DecodeWireYAML(wire) == wire.defects \cap {"alias", "duplicate_key", "tag"} = {} /\ DecodeWireJSON(wire)

\* CompileJSON and CompileYAML: decode, then validate.
Compile(spec) ==
    /\ IF spec.wire.form = "yaml" THEN DecodeWireYAML(spec.wire) ELSE DecodeWireJSON(spec.wire)
    /\ Validate(spec)

Submit ==
    /\ answer = "none"
    /\ IF Compile(submitted) THEN accepted' = <<submitted>> /\ answer' = "accepted"
       ELSE answer' = "refused" /\ UNCHANGED accepted
    /\ UNCHANGED <<submitted, doc, expansions>>

Refused == answer' = "failed" /\ UNCHANGED <<submitted, accepted, doc, expansions>>

\* A node's run ends and publishes: its artifacts are checked, then their deltas
\* are applied; an error grows nothing.
RunEnds(n, refs) ==
    /\ accepted # <<>> /\ n \in Range(accepted[1].nodes)
    /\ IF ~ValidateArtifactsAgainstSpecs(n.outputs, refs)
            \/ ~ValidateArtifactPayloadsAgainstSchemas(n.outputs, refs)
            \/ ~ValidateCapabilityOutputArtifacts(n, refs) THEN Refused
       ELSE IF planDeltaArtifacts(refs) = <<>>
       THEN answer' = "published" /\ UNCHANGED <<submitted, accepted, doc, expansions>>
       ELSE IF NextPlanDelta(refs) = <<>> \/ ~ApplyDelta(accepted[1], NextPlanDelta(refs)[1], expansions)
       THEN Refused
       ELSE /\ accepted' = <<Grown(accepted[1], NextPlanDelta(refs)[1])>>
            /\ expansions' = expansions + 1
            /\ answer' = "expanded"
            /\ UNCHANGED <<submitted, doc>>

\* The only success successor of a node, 0 when there is none or more than one.
nextSuccessNode(spec, id) ==
    LET next == SelectSeq(spec.edges, LAMBDA e : e.from = id /\ e.on \in {"", "success"})
    IN IF Len(next) = 1 THEN next[1].to ELSE 0

Export ==
    /\ accepted # <<>> /\ doc = <<>>
    /\ doc' = <<[dsl |-> "1.0.3", spec |-> accepted[1],
                 tasks |-> [i \in DOMAIN accepted[1].nodes |->
                              [name |-> accepted[1].nodes[i].id,
                               next |-> nextSuccessNode(accepted[1], accepted[1].nodes[i].id)]]]>>
    /\ UNCHANGED <<submitted, accepted, expansions, answer>>

\* The document is edited between export and import: another dialect, or the
\* embedded plan replaced.
EditDocument(spec, dsl) ==
    /\ doc # <<>> /\ doc[1].dsl = "1.0.3" /\ doc[1].spec = accepted[1]
    /\ doc' = <<[doc[1] EXCEPT !.spec = spec, !.dsl = dsl]>>
    /\ UNCHANGED <<submitted, accepted, expansions, answer>>

\* Only the embedded plan is read; the task list is not compared with it.
Import ==
    /\ doc # <<>> /\ answer # "imported"
    /\ IF doc[1].dsl # "1.0.3" \/ ~Validate(doc[1].spec) THEN Refused
       ELSE /\ accepted' = <<doc[1].spec>> /\ answer' = "imported" /\ expansions' = 0
            /\ UNCHANGED <<submitted, doc>>

Init ==
    /\ submitted \in Submitted
    /\ accepted = <<>> /\ doc = <<>> /\ expansions = 0 /\ answer = "none"

Next ==
    \/ Submit
    \/ \E n \in (IF accepted = <<>> THEN {} ELSE Range(accepted[1].nodes)), refs \in Published : RunEnds(n, refs)
    \/ Export \/ Import
    \/ EditDocument(submitted, "2.0") \/ \E s \in {[submitted EXCEPT !.nodes = Tail(@)]} : EditDocument(s, "1.0.3")

Spec == Init /\ [][Next]_vars

(* --- Properties ---------------------------------------------------------------------------------- *)

\* a precedes b: b is in every set that has a's successors and is closed under the edges.
Precedes(spec, a, b) ==
    \A S \in SUBSET Ids(spec.nodes) :
       (\A e \in Range(spec.edges) : (e.from = a \/ e.from \in S) => e.to \in S) => b \in S
Before(spec) == [p \in Ids(spec.nodes) \X Ids(spec.nodes) |-> Precedes(spec, p[1], p[2])]
Chains(spec, before) ==
    {S \in SUBSET Ids(spec.nodes) : \A a, b \in S : a # b => before[a, b] \/ before[b, a]}

\* A plan the workflow works on is a plan in the sense of graph theory, after every
\* submission, expansion and import: no node precedes itself, no chain of nodes is
\* longer than the depth allowed, and every artifact a node takes is declared by a
\* node that precedes it (Validate: topoSort, maxDepth and hasDependencyPath agree
\* with what precedes what along the edges).
AcceptedIsWellFormed ==
    accepted # <<>> =>
       LET spec == accepted[1]  p == normalizePolicy(spec.policy)  before == Before(spec)
       IN /\ \A n \in Ids(spec.nodes) : ~before[n, n]
          /\ \A S \in Chains(spec, before) : Cardinality(S) <= p.depth
          /\ Len(spec.nodes) <= p.nodes /\ expansions <= p.expansions
          /\ \A n \in Range(spec.nodes) : \A m \in Range(n.inputs) : m.artifact # "" =>
                before[m.source, n.id] /\ nodeDeclaresArtifact(Node(spec, m.source), m.artifact)

\* Nothing is refused for its graph that graph theory allows: a submitted plan
\* whose nodes and edges are each in order, without a cycle, within its limits, and
\* whose mappings take declared artifacts of preceding nodes, is accepted.
RefusedHasReason ==
    (answer = "refused" /\ submitted.wire.defects = {} /\ validatePlanEnvelope(submitted)
       /\ validateNodes(submitted) /\ validateEdges(submitted))
       => LET before == Before(submitted)
          IN \/ \E n \in Ids(submitted.nodes) : before[n, n]
             \/ \E S \in Chains(submitted, before) : Cardinality(S) > normalizePolicy(submitted.policy).depth
             \/ \E n \in Range(submitted.nodes) : \E m \in Range(n.inputs) :
                   /\ m.artifact # ""
                   /\ \/ m.source \notin Ids(submitted.nodes)
                      \/ ~before[m.source, n.id]
                      \/ ~nodeDeclaresArtifact(Node(submitted, m.source), m.artifact)
             \/ \E e \in Range(submitted.edges) : ~validateEdgeInputMappingContracts(submitted, e)
=============================================================================
