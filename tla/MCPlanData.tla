----------------------------- MODULE MCPlanData -----------------------------
(***************************************************************************)
(* Small inputs for every part of PlanData.                                *)
(***************************************************************************)
EXTENDS PlanData, TLC

CONSTANTS g, w   \* the gateway and a worker, which register the catalogs

-----------------------------------------------------------------------------
(* Two creators, two attempts, two appenders and one paging consumer over  *)
(* two plan ids; two writers, three events and one consumer on either bus. *)

MCCreators == {"c1", "c2"}
MCAttempts == {"a1", "a2"}
MCPlans == {"p", "q"}

Plan(id, tenant, key, time, nodes) ==
  [id |-> id, tenant |-> tenant, key |-> key, at |-> time, inputs |-> 0, nodes |-> nodes]

External(plan, key, body) ==
  [plan |-> plan, tenant |-> "", seq |-> 0, key |-> <<"x", key>>, body |-> <<"x", body>>, digest |-> <<"", 0>>]

First == Plan("p", "t1", "k", 2, {1})

\* the second call: a retry, the key under another plan, the plan of another
\* tenant or with another topology; the second caller's tenant is the consumer's
Second == {First, Plan("q", "t1", "k", 2, {1}), Plan("p", "t2", "k", 2, {1}), Plan("p", "t1", "k", 2, {1, 3})}

Scenario(st, second, when, ext, t) ==
  [store |-> st, requests |-> [c \in MCCreators |-> IF c = "c1" THEN First ELSE second],
   external |-> ext,
   expandAt |-> when, reads |-> "p", reader |-> t]

MCScenarios ==
  {Scenario("postgres", r, 2, <<>>, r.tenant) : r \in Second}
  \cup {Scenario("postgres", First, 3, [x1 |-> External("p", 1, 1)], "t1"),
        Scenario("postgres", First, 1, [x1 |-> External("q", 1, 1)], "t1")}
  \cup {Scenario("memory", Plan("p", "t1", "k2", 2, {1}), 1,
                 [x1 |-> External("p", 1, 1), x2 |-> External("p", 1, b)], "t1") : b \in {1, 2}}

MCWriters == {"w1", "w2"}
MCBuses == {"memstream", "centrifugo"}
MCKinds == {"plan", "run"}
MCAfter == {0, 1}

-----------------------------------------------------------------------------
(* Journals of one or two plans, read by two exporters: a retried node, an *)
(* expanded plan, a budget and artifacts, two artifacts of one run.        *)

Ev(seq, type, n, run, time) ==
  [seq |-> seq, type |-> type, node |-> n, run |-> run, at |-> time,
   artifacts |-> <<>>, delta |-> 0, spent |-> 0]
Node(i, type, n, r) == Ev(i, type, n, r, 2 * i)
Art(r, size) == [node |-> "a", run |-> r, size |-> size, kind |-> "file"]
PublishedAt(i, arts) == [Node(i, "published", "a", "r1") EXCEPT !.artifacts = arts]
Usage(i) == [Node(i, "usage", "a", "r1") EXCEPT !.delta = 3, !.spent = 5]
JournalOf(requested, have, evs) == [requested |-> requested, nodes |-> {"a"}, events |-> evs, have |-> have]
RetriedNode == JournalOf(1, 3, <<Node(1, "node_started", "a", "r1"), Node(2, "node_failed", "a", "r1"),
                                 Node(3, "retry", "a", ""), Node(4, "node_canceled", "a", "r1")>>)
Expanded == JournalOf(0, 0, <<Node(1, "expanded", "b", ""), Node(2, "node_started", "b", "r1"),
                              Node(3, "blocked", "", ""), Node(4, "node_succeeded", "b", "r1")>>)
Short == JournalOf(1, 0, <<Ev(1, "plan_started", "", "", 2), Ev(2, "plan_succeeded", "", "", 4)>>)
Costly == JournalOf(0, 2, <<Usage(1), PublishedAt(2, <<Art("r1", 3), Art("r2", 4)>>)>>)
Clashing == JournalOf(0, 1, <<PublishedAt(1, <<Art("r1", 3), Art("r1", 4)>>)>>)
MCJournals == {[p |-> RetriedNode], [p |-> Expanded], [p |-> Costly, q |-> Short], [p |-> Clashing]}
MCExporters == {"e1", "e2"}

-----------------------------------------------------------------------------
(* Two writers of one artifact, a reader and a mapper, on each blob store; *)
(* a node whose first run fails.                                           *)

Payload(b, t) == [body |-> b, type |-> t]
Ref(id, run) == [id |-> id, run |-> run, name |-> "out", kind |-> "object", media |-> "", uri |-> <<>>, digest |-> ""]
PutCall(run, id, key, p) == [kind |-> "put", run |-> run, key |-> key, payload |-> p, ref |-> Ref(id, run)]
Publish(run, checked) ==
  [kind |-> "publish", run |-> run, schema |-> checked,
   specs |-> {[name |-> "out", kind |-> "object", media |-> "", required |-> TRUE]}]
MapInput(required) == [kind |-> "map", name |-> "out", required |-> required]
KeyOf(run) == <<run, "out">>
Text == Payload("d1", "text")
Bytes == Payload("d2", "bytes")
Object == Payload("d3", "object")
OneRun ==
  {<<PutCall("r1", <<>>, KeyOf("r1"), Text), PutCall("r1", <<>>, KeyOf("r1"), Text), Publish("r1", TRUE),
     Publish("r1", FALSE), MapInput(TRUE)>>,
   <<PutCall("r1", <<"a">>, KeyOf("r1"), Text), PutCall("r1", <<"a">>, KeyOf("r1"), Bytes), Publish("r1", TRUE), MapInput(TRUE)>>,
   <<[PutCall("r1", <<>>, KeyOf("r1"), Text) EXCEPT !.ref.name = ""], Publish("r1", TRUE), MapInput(TRUE)>>,
   <<PutCall("r1", <<"a">>, KeyOf("r1"), Object), PutCall("r1", <<"a">>, <<"x">>, Bytes), Publish("r1", TRUE), MapInput(TRUE)>>}
TwoRuns ==
  {<<PutCall("r1", <<>>, KeyOf("r1"), Object), Publish("r1", FALSE), Publish("r1", FALSE),
     PutCall("r2", <<>>, KeyOf("r2"), Bytes), Publish("r2", TRUE), MapInput(FALSE)>>}
MCArtifactScenarios ==
  {[backing |-> b, ends |-> [r1 |-> TRUE, r2 |-> TRUE], calls |-> c] : b \in {"local", "s3", "memory"}, c \in OneRun}
  \cup {[backing |-> b, ends |-> [r1 |-> FALSE, r2 |-> TRUE], calls |-> c] : b \in {"local", "s3", "memory"}, c \in TwoRuns}

-----------------------------------------------------------------------------
(* Catalogs declared in two versions, in either order of their keys.       *)

Declared(k, name, body, order) == [kind |-> k, name |-> name, body |-> body, order |-> order]
MCConfigs ==
  {<<Declared("capability", "run", "v1", "jsonb"), Declared("capability", "search", b[1], b[2]), Declared("schema", "doc", s[1], s[2])>> :
     b \in {<<"v1", "jsonb">>, <<"v2", "jsonb">>, <<"v1", "other">>},
     s \in {<<"v1", "sorted">>, <<"v2", "other">>}}

-----------------------------------------------------------------------------
(* Two starts in the memory store: a retry, a key under another plan, a    *)
(* plan of another tenant.                                                 *)

StartOf(p, t, k) == [plan |-> p, tenant |-> t, key |-> k]
MCStartSpecs == {("c1" :> StartOf("p", "t", "k")) @@ ("c2" :> s) :
                   s \in {StartOf("p", "t", "k"), StartOf("q", "t", "k"), StartOf("p", "u", "k")}}

-----------------------------------------------------------------------------
(* Every graph of up to three edges over three nodes, and plans with one   *)
(* thing wrong; deltas that extend them.                                   *)

PlanNode(id) ==
  [id |-> id, run |-> "r", backend |-> "native", join |-> "", conditions |-> <<>>, inputs |-> <<>>,
   outputs |-> <<>>, capability |-> "", items |-> "absent", size |-> 0]
Out(name, k, s, required) == [name |-> name, kind |-> k, schema |-> s, required |-> required, media |-> ""]
From(id) == [target |-> "t", expression |-> "", artifact |-> "x", source |-> id, path |-> ""]
Edge(a, b) == [id |-> "", from |-> a, to |-> b, on |-> "", condition |-> "", mappings |-> <<>>]
PolicyOf(n, d) == [nodes |-> n, depth |-> d, expansions |-> 1, history |-> 0, continue |-> 0]
PlanOf(nodes, edges, policy) ==
  [scoped |-> TRUE, wire |-> [form |-> "json", defects |-> {}], nodes |-> nodes, edges |-> edges, policy |-> policy]

Producer == [PlanNode(1) EXCEPT !.outputs = <<Out("x", "k", "s", TRUE), Out("d", "plan_delta", "", FALSE)>>]
Pairs == {<<1, 2>>, <<1, 3>>, <<2, 1>>, <<2, 3>>, <<3, 1>>, <<3, 2>>}
EdgeLists == UNION {[1..k -> Pairs] : k \in 0..3}
Topologies ==
  {PlanOf(<<Producer, PlanNode(2), [PlanNode(3) EXCEPT !.inputs = m]>>,
          [i \in DOMAIN es |-> Edge(es[i][1], es[i][2])], PolicyOf(4, d)) :
     es \in EdgeLists, m \in {<<>>, <<From(1)>>}, d \in {2, 3}}

Base(n) == PlanOf(<<n, PlanNode(2)>>, <<Edge(n.id, 2)>>, PolicyOf(3, 0))
One == PlanNode(1)
Odd ==
  {Base(PlanNode(0)), Base(PlanNode(2)), Base([One EXCEPT !.run = ""]), Base([One EXCEPT !.join = "some"]),
   Base([One EXCEPT !.conditions = <<"bad">>]), Base([One EXCEPT !.inputs = <<From(1)>>]),
   Base([One EXCEPT !.inputs = <<[From(0) EXCEPT !.artifact = "", !.expression = "ok"]>>]),
   Base([One EXCEPT !.inputs = <<[From(0) EXCEPT !.artifact = "", !.path = "p"]>>]),
   Base([One EXCEPT !.capability = "batch", !.items = "array", !.size = 2]),
   Base([One EXCEPT !.capability = "batch", !.items = "array", !.size = 3]),
   Base([One EXCEPT !.outputs = <<Out("x", "k", "gone", TRUE)>>]),
   [Base(One) EXCEPT !.edges = <<[Edge(1, 2) EXCEPT !.mappings = <<From(2)>>]>>],
   [Base(One) EXCEPT !.edges = <<[Edge(1, 2) EXCEPT !.id = "e"], [Edge(1, 2) EXCEPT !.id = "e"]>>],
   [Base(One) EXCEPT !.edges = <<Edge(1, 1)>>], [Base(One) EXCEPT !.edges = <<Edge(1, 9)>>],
   [Base(One) EXCEPT !.policy.continue = 2, !.policy.history = 1],
   [Base(One) EXCEPT !.policy.nodes = 1], [Base(One) EXCEPT !.wire.defects = {"trailing"}],
   [Base(One) EXCEPT !.wire = [form |-> "yaml", defects |-> {"alias"}]],
   [Base(One) EXCEPT !.wire = [form |-> "yaml", defects |-> {}]]}
MCSubmitted == Topologies \cup Odd

Produced(id, conforms) ==
  [name |-> "x", kind |-> "k", media |-> "", id |-> id, stored |-> TRUE, conforms |-> conforms,
   nodes |-> <<>>, edges |-> <<>>]
Delta(nodes, edges, id) ==
  [name |-> "d", kind |-> "plan_delta", media |-> "", id |-> id, stored |-> TRUE,
   conforms |-> TRUE, nodes |-> nodes, edges |-> edges]
Deltas ==
  {Delta(<<PlanNode(4)>>, <<Edge(1, 4)>>, "j"), Delta(<<>>, <<Edge(3, 1)>>, "j"), Delta(<<>>, <<Edge(2, 3)>>, "j"),
   Delta(<<PlanNode(4), PlanNode(5)>>, <<>>, "j"), Delta(<<>>, <<>>, "j"), Delta(<<PlanNode(4)>>, <<>>, "")}
MCPublished ==
  {<<Produced("i", TRUE)>>, <<Produced("i", FALSE)>>, <<>>, <<Produced("i", TRUE), Produced("i", TRUE)>>}
  \cup {<<Produced("i", TRUE), d>> : d \in Deltas}
MCCapabilities == [c \in {"batch"} |-> [max |-> 2, accepts |-> TRUE, atLeast |-> 1]]
MCSchemas == [s \in {"s"} |-> "strict"]
MCDefaults == [nodes |-> 4, depth |-> 2, expansions |-> 1]
=============================================================================
