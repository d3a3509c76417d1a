--------------------------- MODULE PlanScheduler ---------------------------
(***************************************************************************)
(* The scheduler of a run plan: which nodes of the graph may start and     *)
(* which can no longer run, as a function of the state of every node.      *)
(* Models internal/usecase/agentosplan/scheduler.go.                       *)
(*                                                                         *)
(* The graph is an argument: T is the set of node ids, E a set of edges    *)
(* [from, to, on], join a function from nodes to join strategies, st the   *)
(* lifecycle of every node.  Condition expressions are abstracted to their *)
(* outcome: F.nodes and F.edges are those whose condition is false.        *)
(***************************************************************************)
EXTENDS Naturals, FiniteSets

Schedulable  == {"pending", "ready"}
TerminalNode == {"succeeded", "failed", "skipped", "canceled"}
NodeStates   == Schedulable \cup {"running"} \cup TerminalNode

Triggers == {"success", "error", "complete", "always"}
Joins    == {"all", "any", "first"}

\* edgeSatisfied, for the parent states evaluateEdges asks it about.
EdgeSatisfied(on, s) ==
    \/ on = "success"  /\ s = "succeeded"
    \/ on = "error"    /\ s = "failed"
    \/ on = "complete" /\ s \in TerminalNode
    \/ on = "always"   /\ s \notin {"pending", "ready", "running"}

Incoming(E, n) == {e \in E : e.to = n}

\* The three counters of evaluateEdges, as sets of edges.  An edge whose
\* parent has not finished waits whatever its condition; an edge whose
\* condition is false is not active and counts nowhere.
WaitingEdges(E, n, st) ==
    {e \in Incoming(E, n) : st[e.from] \notin TerminalNode}

ActiveEdges(E, n, st, F) ==
    {e \in Incoming(E, n) : st[e.from] \in TerminalNode /\ e \notin F.edges}

SatisfiedEdges(E, n, st, F) ==
    {e \in ActiveEdges(E, n, st, F) : EdgeSatisfied(e.on, st[e.from])}

ImpossibleEdges(E, n, st, F) ==
    ActiveEdges(E, n, st, F) \ SatisfiedEdges(E, n, st, F)

\* evaluateDependencies with evaluateAllJoin and evaluateAnyJoin: the node may
\* start.
DependenciesReady(E, join, n, st, F) ==
    \/ Incoming(E, n) = {}
    \/ /\ join[n] = "all"
       /\ ImpossibleEdges(E, n, st, F) = {}
       /\ WaitingEdges(E, n, st) = {}
       /\ ActiveEdges(E, n, st, F) # {}
    \/ /\ join[n] # "all"
       /\ SatisfiedEdges(E, n, st, F) # {}

DependenciesImpossibleMutant(E, join, n, st, F) ==
    /\ Incoming(E, n) # {}
    /\ \/ join[n] = "all" /\ ImpossibleEdges(E, n, st, F) # {}
       \/ /\ join[n] # "all"
          /\ SatisfiedEdges(E, n, st, F) = {}
          /\ WaitingEdges(E, n, st) = {}

\* evaluateDependencies: the node can no longer become runnable.
DependenciesImpossible(E, join, n, st, F) ==
    /\ Incoming(E, n) # {}
    /\ \/ /\ join[n] = "all"
          /\ \/ ImpossibleEdges(E, n, st, F) # {}
             \/ /\ WaitingEdges(E, n, st) = {}
                /\ ActiveEdges(E, n, st, F) = {}
       \/ /\ join[n] # "all"
          /\ SatisfiedEdges(E, n, st, F) = {}
          /\ WaitingEdges(E, n, st) = {}

\* Scheduler.Decide: the nodes still to be scheduled split into ready,
\* skipped and (in neither set) waiting.
ReadyNodes(T, E, join, st, F) ==
    {n \in T : /\ st[n] \in Schedulable
               /\ n \notin F.nodes
               /\ DependenciesReady(E, join, n, st, F)}

SkippedNodes(T, E, join, st, F) ==
    {n \in T : /\ st[n] \in Schedulable
               /\ \/ n \in F.nodes
                  \/ DependenciesImpossible(E, join, n, st, F)}

\* What topoSort accepts: every nonempty set of nodes has one without a parent
\* in the set.
Acyclic(T, E) ==
    \A S \in SUBSET T :
        S # {} => \E n \in S : \A e \in Incoming(E, n) : e.from \notin S

============================================================================
