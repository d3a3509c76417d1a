----------------------------- MODULE MCBackbone -----------------------------
(***************************************************************************)
(* Small instances of Backbone: two recorders and two drainers, a dead-    *)
(* letter and a delivery limit within reach of the faults allowed; two     *)
(* ingress processes that share a consumer and then split its shards, or   *)
(* start under configurations that are refused; a job group as the         *)
(* backbone builds it and one as the ingress does.                         *)
(***************************************************************************)
EXTENDS Backbone

Fact(id, e, s, t) ==
  [id |-> id, entity |-> e, shard |-> s, domain |-> "run", type |-> t, schema |-> "known", key |-> TRUE]
Route == [domain |-> "run", type |-> "done", workflow |-> "w"]
Config(spec) == [queue |-> TRUE, spec |-> spec, prefix |-> "in", routes |-> <<Route>>]
Both == [Config(<<>>) EXCEPT !.routes = <<Route, [Route EXCEPT !.domain = "conv"]>>]
Shared == <<Fact("f1", "a", 0, "done"), Fact("f2", "b", 1, "done")>>
Mixed == <<Fact("f1", "a", 0, "done"), [Fact("f2", "a", 0, "done") EXCEPT !.schema = "future"],
           [Fact("f3", "b", 1, "done") EXCEPT !.domain = "conv"]>>

MCPlans ==
  {\* one consumer for two processes, then the shards are split
   [log |-> Shared, configs |-> [x |-> <<Config(<<>>), Config(<<<<0, 0>>>>)>>,
                                 y |-> <<Config(<<>>), Config(<<<<1, 1>>>>)>>]],
   \* two domains, undecodable and unrouted facts, refused configurations
   [log |-> Mixed, configs |-> [x |-> <<Both, Both>>,
      y |-> <<[Config(<<>>) EXCEPT !.queue = FALSE], Config(<<<<1, 0>>>>), Config(<<<<0, 2>>>>),
              [Config(<<>>) EXCEPT !.prefix = ""], [Config(<<>>) EXCEPT !.routes = <<>>],
              [Config(<<>>) EXCEPT !.routes = <<[Route EXCEPT !.domain = "none"]>>], Config(<<<<0, 1>>>>)>>]]}

Go(n) == [op |-> "go", name |-> n]
Defer(n) == [op |-> "defer", name |-> n]
MCAssemblies ==
  {[todo |-> <<Go("drain"), Go("projection"), Defer("reader"), Defer("publisher")>>,
    failed |-> FALSE, ingress |-> FALSE],
   [todo |-> <<Defer("reader"), Go("run"), Defer("reader2"), Go("conv")>>,
    failed |-> FALSE, ingress |-> TRUE]}
=============================================================================
