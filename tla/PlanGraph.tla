----------------------------- MODULE PlanGraph -----------------------------
(***************************************************************************)
(* What the execution of a run plan promises, without the workflow that    *)
(* carries it out: a plan starts, blocks and unblocks, its nodes start     *)
(* only while it is open, only when the scheduler's rules let them and     *)
(* only within its capacity, and once it has ended nothing starts.         *)
(* A running plan is open.  A blocked plan is not, until it is unblocked   *)
(* or somebody retries a node that waits for its next attempt.             *)
(* PlanWorkflow implements this specification.                             *)
(***************************************************************************)
EXTENDS Naturals, FiniteSets, PlanScheduler

CONSTANTS Nodes, Initial, Delta, Edges, Join, Conditions, MaxParallel

VARIABLES plan, open, topo, node

vars == <<plan, open, topo, node>>

Ended == {"succeeded", "failed", "canceled"}
Live  == {"running", "blocked"}

E == {e \in Edges : e.from \in topo /\ e.to \in topo}

RunningNodes == {n \in topo : node[n] = "running"}

Init ==
    /\ plan = "pending" /\ open = TRUE
    /\ topo = Initial
    /\ node = [n \in Nodes |-> "pending"]

Begin == plan = "pending" /\ plan' = "running" /\ UNCHANGED <<open, topo, node>>

Block ==
    /\ plan \in Live /\ plan' = "blocked"
    /\ open' = FALSE /\ UNCHANGED <<topo, node>>

Unblock ==
    /\ plan \in Live /\ plan' = "running"
    /\ open' = TRUE /\ UNCHANGED <<topo, node>>

\* All the nodes that can no longer run are skipped together.
Skip ==
    /\ plan \in Live /\ open
    /\ \E F \in Conditions :
         node' = [n \in Nodes |-> IF n \in SkippedNodes(topo, E, Join, node, F)
                                  THEN "skipped" ELSE node[n]]
    /\ UNCHANGED <<plan, open, topo>>

\* A ready node starts; or it is refused before it runs and fails or waits for
\* its next attempt.
Start(n) ==
    /\ plan \in Live /\ open
    /\ \E F \in Conditions : n \in ReadyNodes(topo, E, Join, node, F)
    /\ Cardinality(RunningNodes) < MaxParallel
    /\ \E s \in {"running", "ready", "failed"} : node' = [node EXCEPT ![n] = s]
    /\ UNCHANGED <<plan, open, topo>>

\* The attempt of a running node ends; a node that succeeds may add its delta.
Settle(n) ==
    /\ plan \in Live
    /\ n \in RunningNodes
    /\ \/ /\ \E s \in {"succeeded", "failed", "canceled", "ready"} :
                node' = [node EXCEPT ![n] = s]
          /\ UNCHANGED topo
       \/ /\ node' = [node EXCEPT ![n] = "succeeded"]
          /\ topo' = topo \cup Delta[n]
    /\ UNCHANGED <<plan, open>>

\* An operator retries a failed node, which unblocks the plan ...
Retry(n) ==
    /\ plan \in Live /\ plan' = "running"
    /\ n \in topo /\ node[n] = "failed"
    /\ node' = [node EXCEPT ![n] = "ready"]
    /\ open' = TRUE /\ UNCHANGED topo

\* ... or a node that is to be tried again anyway: the plan opens and stays
\* blocked, until it is blocked anew.
Acknowledge(n) ==
    /\ plan \in Live
    /\ n \in topo /\ node[n] = "ready"
    /\ open' = TRUE /\ UNCHANGED <<plan, topo, node>>

Succeed ==
    /\ plan \in Live
    /\ \A n \in topo : node[n] \in {"succeeded", "skipped"}
    /\ plan' = "succeeded" /\ UNCHANGED <<open, topo, node>>

\* The plan fails or is canceled, with or without canceling what still runs, all
\* of it or, where the cancelation is interrupted, some.
Stop ==
    /\ plan \notin Ended /\ plan' \in {plan, "failed", "canceled"}
    /\ \E S \in SUBSET RunningNodes :
         node' = [n \in Nodes |-> IF n \in S THEN "canceled" ELSE node[n]]
    /\ UNCHANGED <<open, topo>>

\* A cancelation that was recorded ends in an error.
Fail == plan = "canceled" /\ plan' = "failed" /\ UNCHANGED <<open, topo, node>>

Next ==
    \/ Begin \/ Block \/ Unblock \/ Skip \/ Succeed \/ Stop \/ Fail
    \/ \E n \in topo : Start(n) \/ Settle(n) \/ Retry(n) \/ Acknowledge(n)

Spec == Init /\ [][Next]_vars

============================================================================
