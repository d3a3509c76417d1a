------------------------ MODULE PlanWorkflowProofs ------------------------
(***************************************************************************)
(* Theorems about the scheduler's decision, for every graph, and the types *)
(* of PlanWorkflow, for every plan, every policy and every set of messages *)
(***************************************************************************)
EXTENDS PlanWorkflow, FiniteSetTheorems, WellFoundedInduction, TLAPS

-----------------------------------------------------------------------------
(* What the scheduler's decision guarantees for every graph: it never      *)
(* contradicts itself, it is never empty when a plan has nothing else to   *)
(* wait for, and it stays right while other nodes go on.                   *)

\* Scheduler.Decide never puts a node in both lists: no node is started and
\* skipped by one decision.
THEOREM DecisionsDisjoint ==
    ASSUME NEW T, NEW E, NEW join, NEW st, NEW F
    PROVE  ReadyNodes(T, E, join, st, F) \cap SkippedNodes(T, E, join, st, F) = {}
BY DEF ReadyNodes, SkippedNodes, DependenciesReady, DependenciesImpossible

\* The scheduler decides about some node of an acyclic plan whenever a node is
\* left and none is running, whatever the conditions say.
THEOREM SomeNodeIsDecided ==
    ASSUME NEW T, NEW E, NEW join, NEW st, NEW F,
           Acyclic(T, E),
           \A e \in E : e.from \in T,
           \A n \in T : st[n] \in NodeStates \ {"running"},
           NEW m \in T, st[m] \in Schedulable
    PROVE  ReadyNodes(T, E, join, st, F) \cup SkippedNodes(T, E, join, st, F) # {}
<1> DEFINE S == {n \in T : st[n] \in Schedulable}
<1>1. S \in SUBSET T /\ S # {}
  OBVIOUS
<1>2. PICK n \in S : \A e \in Incoming(E, n) : e.from \notin S
  BY <1>1 DEF Acyclic
<1>3. \A e \in Incoming(E, n) : st[e.from] \in TerminalNode
  BY <1>2 DEF Incoming, NodeStates, Schedulable
<1>4. WaitingEdges(E, n, st) = {}
  BY <1>3 DEF WaitingEdges
<1>5. \/ n \in F.nodes
      \/ DependenciesReady(E, join, n, st, F)
      \/ DependenciesImpossible(E, join, n, st, F)
  BY <1>4 DEF DependenciesReady, DependenciesImpossible
<1>6. n \in T /\ st[n] \in Schedulable
  OBVIOUS
<1>7. QED
  BY <1>5, <1>6 DEF ReadyNodes, SkippedNodes

\* Finished parents of n stay as they are.
SameParents(E, n, st, st2) ==
    \A e \in Incoming(E, n) : st[e.from] \in TerminalNode => st2[e.from] = st[e.from]

\* Edges from finished parents keep their verdict.
LEMMA FinishedParents ==
    ASSUME NEW E, NEW n, NEW st, NEW st2, NEW F, SameParents(E, n, st, st2)
    PROVE  /\ ActiveEdges(E, n, st, F) \subseteq ActiveEdges(E, n, st2, F)
           /\ SatisfiedEdges(E, n, st, F) \subseteq SatisfiedEdges(E, n, st2, F)
           /\ ImpossibleEdges(E, n, st, F) \subseteq ImpossibleEdges(E, n, st2, F)
           /\ WaitingEdges(E, n, st2) \subseteq WaitingEdges(E, n, st)
BY DEF SameParents, ActiveEdges, SatisfiedEdges, ImpossibleEdges, WaitingEdges

\* ... are all of them when none is waiting.
LEMMA AllParentsFinished ==
    ASSUME NEW E, NEW n, NEW st, NEW st2, NEW F, SameParents(E, n, st, st2),
           WaitingEdges(E, n, st) = {}
    PROVE  /\ ActiveEdges(E, n, st2, F) = ActiveEdges(E, n, st, F)
           /\ SatisfiedEdges(E, n, st2, F) = SatisfiedEdges(E, n, st, F)
           /\ ImpossibleEdges(E, n, st2, F) = ImpossibleEdges(E, n, st, F)
           /\ WaitingEdges(E, n, st2) = {}
<1>1. \A e \in Incoming(E, n) : st[e.from] \in TerminalNode /\ st2[e.from] = st[e.from]
  BY DEF SameParents, WaitingEdges
<1>2. ActiveEdges(E, n, st2, F) = ActiveEdges(E, n, st, F)
  BY <1>1 DEF ActiveEdges
<1>3. \A e \in ActiveEdges(E, n, st, F) : st2[e.from] = st[e.from]
  BY <1>1 DEF ActiveEdges
<1>4. SatisfiedEdges(E, n, st2, F) = SatisfiedEdges(E, n, st, F)
  BY <1>2, <1>3 DEF SatisfiedEdges
<1>5. ImpossibleEdges(E, n, st2, F) = ImpossibleEdges(E, n, st, F)
  BY <1>2, <1>4 DEF ImpossibleEdges
<1>6. WaitingEdges(E, n, st2) = {}
  BY <1>1 DEF WaitingEdges
<1>7. QED
  BY <1>2, <1>4, <1>5, <1>6

\* startReadyPlanNodes works through a list decided earlier.  While finished
\* nodes stay finished, a node of the list that has not been scheduled remains
\* one the scheduler would start.
THEOREM ReadyIsStable ==
    ASSUME NEW T, NEW E, NEW join, NEW st, NEW st2, NEW F,
           \A e \in E : e.from \in T,
           \A m \in T : st[m] \in TerminalNode => st2[m] = st[m],
           NEW n \in ReadyNodes(T, E, join, st, F), st2[n] \in Schedulable
    PROVE  n \in ReadyNodes(T, E, join, st2, F)
<1>0. SameParents(E, n, st, st2)
  BY DEF SameParents, Incoming
<1>1. n \in T /\ n \notin F.nodes /\ DependenciesReady(E, join, n, st, F)
  BY DEF ReadyNodes
<1>2. DependenciesReady(E, join, n, st2, F)
  <2>1. CASE Incoming(E, n) = {}
    BY <2>1 DEF DependenciesReady
  <2>2. CASE /\ join[n] = "all" /\ ImpossibleEdges(E, n, st, F) = {}
             /\ WaitingEdges(E, n, st) = {} /\ ActiveEdges(E, n, st, F) # {}
    <3>0. WaitingEdges(E, n, st) = {}
      BY <2>2
    <3>1. /\ ActiveEdges(E, n, st2, F) = ActiveEdges(E, n, st, F)
          /\ ImpossibleEdges(E, n, st2, F) = ImpossibleEdges(E, n, st, F)
          /\ WaitingEdges(E, n, st2) = {}
      BY <1>0, <3>0, AllParentsFinished
    <3>2. QED
      BY <2>2, <3>1 DEF DependenciesReady
  <2>3. CASE join[n] # "all" /\ SatisfiedEdges(E, n, st, F) # {}
    BY <2>3, <1>0, FinishedParents DEF DependenciesReady
  <2>4. QED
    BY <1>1, <2>1, <2>2, <2>3 DEF DependenciesReady
<1>3. QED
  BY <1>1, <1>2 DEF ReadyNodes

\* Skipping is final, so it must never be premature: what can no longer run
\* under the given conditions can no longer run later either.
THEOREM SkippedIsStable ==
    ASSUME NEW T, NEW E, NEW join, NEW st, NEW st2, NEW F,
           \A e \in E : e.from \in T,
           \A m \in T : st[m] \in TerminalNode => st2[m] = st[m],
           NEW n \in SkippedNodes(T, E, join, st, F), st2[n] \in Schedulable
    PROVE  n \in SkippedNodes(T, E, join, st2, F)
<1>0. SameParents(E, n, st, st2)
  BY DEF SameParents, Incoming
<1>1. n \in T /\ (n \in F.nodes \/ DependenciesImpossible(E, join, n, st, F))
  BY DEF SkippedNodes
<1>2. ASSUME DependenciesImpossible(E, join, n, st, F)
      PROVE  DependenciesImpossible(E, join, n, st2, F)
  <2>1. CASE join[n] = "all" /\ ImpossibleEdges(E, n, st, F) # {}
    BY <1>2, <2>1, <1>0, FinishedParents DEF DependenciesImpossible
  <2>2. CASE WaitingEdges(E, n, st) = {}
    <3>1. /\ ActiveEdges(E, n, st2, F) = ActiveEdges(E, n, st, F)
          /\ SatisfiedEdges(E, n, st2, F) = SatisfiedEdges(E, n, st, F)
          /\ ImpossibleEdges(E, n, st2, F) = ImpossibleEdges(E, n, st, F)
          /\ WaitingEdges(E, n, st2) = {}
      BY <1>0, <2>2, AllParentsFinished
    <3>2. QED
      BY <1>2, <2>2, <3>1 DEF DependenciesImpossible
  <2>3. QED
    BY <1>2, <2>1, <2>2 DEF DependenciesImpossible
<1>3. QED
  BY <1>1, <1>2 DEF SkippedNodes

-----------------------------------------------------------------------------
(* The nodes of a plan.                                                    *)

USE DEF planVars, nodeVars, loopVars, mailVars, opVars, runVars

\* Attempts stay within the policy, a node that may be started has one left,
\* and a node that runs or has timed out has used one: the run ids the workflow
\* names exist.
AttemptsOK ==
    \A n \in Nodes :
        /\ attempts[n] <= MaxAttempts[n]
        /\ node[n] \in Schedulable => attempts[n] < MaxAttempts[n]
        /\ node[n] = "running" \/ n \in nodeExpired => attempts[n] >= 1

NodeInv == NodeTypeOK /\ AttemptsOK

TypeInv == TypeOK /\ AttemptsOK

-----------------------------------------------------------------------------
LEMMA KeyExists ==
    ASSUME NEW n \in Nodes, NEW a \in Nat, a >= 1, a <= MaxAttempts[n]
    PROVE  <<n, a>> \in Keys
<1>1. a \in 1 .. MaxAttempts[n]
  BY PolicyAssumption
<1>2. QED
  BY <1>1 DEF Keys

\* The nodes that have used an attempt.
Started == {n \in Nodes : attempts[n] >= 1}

LEMMA StartedKey ==
    ASSUME NodeInv, NEW n \in Started
    PROVE  n \in Nodes /\ Key(n) \in Keys
BY KeyExists DEF NodeInv, NodeTypeOK, AttemptsOK, Started, Key

LEMMA RunningStarted ==
    ASSUME NodeInv
    PROVE  Running \subseteq Started
BY DEF NodeInv, NodeTypeOK, AttemptsOK, Running, Started

LEMMA PlanEventType ==
    ASSUME PlanTypeOK, NEW event \in PlanEvents, ApplyPlanEvent(event)
    PROVE  PlanTypeOK'
BY DEF PlanTypeOK, PlanEvents, ApplyPlanEvent, LifecycleFor, GateAfter, PlanStates,
       GateStates

\* What an attempt that ends, in whichever way, does to its node.
AttemptEnds(n) ==
    /\ node' \in [Nodes -> NodeStates] /\ attempts' \in [Nodes -> Nat]
    /\ nodeExpired' \in SUBSET Nodes
    /\ AttemptsOK'

LEMMA FailAttemptType ==
    ASSUME NodeInv, NEW n \in Nodes, FailAttempt(n)
    PROVE  AttemptEnds(n)
<1>1. MaxAttempts[n] \in Nat \ {0} /\ \A m \in Nodes : MaxAttempts[m] \in Nat
  BY PolicyAssumption
<1>2. CASE FailedAttempt(n) < MaxAttempts[n]
  BY <1>1, <1>2 DEF FailAttempt, RetryNode, SetNode, FailedAttempt, NodeInv, NodeTypeOK,
     AttemptsOK, AttemptEnds, NodeStates, Schedulable
<1>3. CASE ~(FailedAttempt(n) < MaxAttempts[n])
  BY <1>1, <1>3 DEF FailAttempt, SetNode, NodeInv, NodeTypeOK, AttemptsOK, AttemptEnds,
     NodeStates, Schedulable, TerminalNode
<1>4. QED
  BY <1>2, <1>3

LEMMA SetNodeType ==
    ASSUME NodeInv, NEW n \in Nodes, NEW s \in TerminalNode, SetNode(n, s),
           UNCHANGED attempts
    PROVE  AttemptEnds(n)
BY DEF SetNode, NodeInv, NodeTypeOK, AttemptsOK, AttemptEnds, NodeStates, Schedulable,
       TerminalNode

LEMMA RunTerminalType ==
    ASSUME NodeInv, PlanTypeOK, LoopTypeOK, NEW n \in Nodes, ApplyRunTerminal(n)
    PROVE  NodeInv' /\ gate' \in GateStates /\ todo' \in SUBSET Nodes
<1>1. spent' \in Nat
  BY PolicyAssumption DEF ApplyRunTerminal, NodeInv, NodeTypeOK
<1>2. topo' \in SUBSET Nodes /\ expansions' \in Nat
  <2>1. Delta[n] \subseteq Nodes
    BY NodesAssumption
  <2>2. /\ topo' = topo \/ topo' = topo \cup Delta[n]
        /\ expansions' = expansions \/ expansions' = expansions + 1
    BY Zenon DEF ApplyRunTerminal
  <2>3. QED
    BY <2>1, <2>2 DEF NodeInv, NodeTypeOK
<1>3. todo' \in SUBSET Nodes
  BY DEF ApplyRunTerminal, LoopTypeOK
<1>4. gate' \in GateStates
  BY DEF ApplyRunTerminal, PlanTypeOK, GateStates
<1>5. AttemptEnds(n)
  <2>1. CASE FailAttempt(n)
    BY <2>1, FailAttemptType
  <2>2. CASE \E s \in TerminalNode : SetNode(n, s) /\ UNCHANGED attempts
    BY <2>2, SetNodeType
  <2>3. QED
    BY <2>1, <2>2 DEF ApplyRunTerminal, TerminalNode
<1>6. QED
  BY <1>1, <1>2, <1>3, <1>4, <1>5 DEF AttemptEnds, NodeInv, NodeTypeOK

LEMMA PromiseType ==
    ASSUME NodeInv, PlanTypeOK, LoopTypeOK, RunTypeOK, NEW n \in Nodes, ApplyPromise(n)
    PROVE  /\ NodeInv' /\ gate' \in GateStates /\ todo' \in SUBSET Nodes
           /\ registry' \in SUBSET Keys
<1>1. registry' \in SUBSET Keys
  BY DEF ApplyPromise, RunTypeOK
<1>2. CASE ApplyRunTerminal(n)
  BY <1>1, <1>2, RunTerminalType
<1>3. CASE ApplyOperationFailure(n)
  <2>1. AttemptEnds(n)
    BY <1>3, SetNodeType DEF ApplyOperationFailure, TerminalNode
  <2>2. QED
    BY <1>1, <1>3, <2>1 DEF ApplyOperationFailure, AttemptEnds, NodeInv, NodeTypeOK,
       PlanTypeOK, LoopTypeOK
<1>4. QED
  BY <1>2, <1>3 DEF ApplyPromise

LEMMA ActiveRunsType ==
    ASSUME NodeInv, NEW S \in SUBSET Started
    PROVE  ActiveRuns(S) \in SUBSET Keys
BY StartedKey DEF ActiveRuns

LEMMA ControlRunsType ==
    ASSUME NodeInv, RunTypeOK, NEW S \in SUBSET Started, ControlRuns(S)
    PROVE  cancelReq' \in SUBSET Keys
<1>1. ActiveRuns(S) \in SUBSET Keys
  BY ActiveRunsType
<1>2. QED
  BY <1>1 DEF ControlRuns, RunTypeOK

LEMMA CancelActiveType ==
    ASSUME NodeInv, PlanTypeOK, RunTypeOK, NEW event \in PlanEvents, CancelActive(event)
    PROVE  NodeInv' /\ PlanTypeOK' /\ cancelReq' \in SUBSET Keys
<1>1. PlanTypeOK'
  BY PlanEventType DEF CancelActive
<1>2. cancelReq' \in SUBSET Keys
  BY ControlRunsType, RunningStarted DEF CancelActive
<1>3. NodeInv'
  BY DEF CancelActive, NodeInv, NodeTypeOK, AttemptsOK, NodeStates, Schedulable,
     TerminalNode
<1>4. QED
  BY <1>1, <1>2, <1>3

LEMMA CancelRefusedType ==
    ASSUME NodeInv, RunTypeOK, CancelRefused
    PROVE  NodeInv' /\ cancelReq' \in SUBSET Keys
<1>1. PICK S \in SUBSET Running : ControlRuns(S) /\ UNCHANGED nodeVars
  BY DEF CancelRefused
<1>2. cancelReq' \in SUBSET Keys
  BY <1>1, ControlRunsType, RunningStarted
<1>3. QED
  BY <1>1, <1>2 DEF NodeInv, NodeTypeOK, AttemptsOK

LEMMA CancelInterruptedType ==
    ASSUME NodeInv, PlanTypeOK, RunTypeOK, NEW event \in PlanEvents, CancelInterrupted(event)
    PROVE  NodeInv' /\ PlanTypeOK' /\ cancelReq' \in SUBSET Keys
<1>1. PICK S \in SUBSET Running :
        /\ node' = [n \in Nodes |-> IF n \in S THEN "canceled" ELSE node[n]]
        /\ nodeExpired' = nodeExpired \ S
        /\ UNCHANGED planVars \/ ApplyPlanEvent(event)
  BY DEF CancelInterrupted
<1>2. PlanTypeOK'
  BY <1>1, PlanEventType DEF PlanTypeOK
<1>3. cancelReq' \in SUBSET Keys
  BY ControlRunsType, RunningStarted DEF CancelInterrupted
<1>4. UNCHANGED <<topo, attempts, spent, expansions>>
  BY DEF CancelInterrupted
<1>5. NodeInv'
  BY <1>1, <1>4 DEF NodeInv, NodeTypeOK, AttemptsOK, NodeStates, Schedulable, TerminalNode
<1>6. QED
  BY <1>2, <1>3, <1>5

LEMMA ReceiveControlType ==
    ASSUME MailTypeOK, NEW m \in Messages, ReceiveControl(m)
    PROVE  MailTypeOK'
BY DEF MailTypeOK, ReceiveControl, Receive

LEMMA ReceiveSignalType ==
    ASSUME MailTypeOK, NEW m \in Messages, ReceiveSignal(m)
    PROVE  MailTypeOK'
BY DEF MailTypeOK, ReceiveSignal, Receive

\* A nonempty set of nodes has a first one.
LEMMA FirstNode ==
    ASSUME NEW S \in SUBSET Nodes, S # {}
    PROVE  \E n \in S : \A m \in S : n <= m
<1>1. S \subseteq Nat
  BY NodesAssumption
<1>2. PICK n \in S : \A m \in S : ~(<<m, n>> \in OpToRel(<, Nat))
  BY <1>1, NatLessThanWellFounded, WFMin
<1>3. \A m \in S : ~(m < n)
  BY <1>1, <1>2 DEF OpToRel
<1>4. QED
  BY <1>1, <1>3

LEMMA TerminalEventType ==
    ASSUME NodeInv
    PROVE  TerminalEvent \in {"succeeded", "failed", "canceled"}
<1> DEFINE bad == {n \in topo : node[n] \in {"failed", "canceled"}}
           first == CHOOSE n \in bad : \A m \in bad : n <= m
<1>1. CASE bad = {}
  BY <1>1 DEF TerminalEvent
<1>2. CASE bad # {}
  <2>1. bad \in SUBSET Nodes
    BY DEF NodeInv, NodeTypeOK
  <2>2. \E n \in bad : \A m \in bad : n <= m
    BY <1>2, <2>1, FirstNode
  <2>3. first \in bad
    BY <2>2
  <2>4. QED
    BY <1>2, <2>3 DEF TerminalEvent
<1>3. QED
  BY <1>1, <1>2

LEMMA RetryType ==
    ASSUME NodeInv, NEW n \in Nodes, MayRetry(n), RetryNode(n),
           UNCHANGED <<topo, spent, expansions>>
    PROVE  NodeInv'
<1>1. \A m \in Nodes : MaxAttempts[m] \in Nat
  BY PolicyAssumption
<1>2. QED
  BY <1>1 DEF MayRetry, RetryNode, SetNode, FailedAttempt, NodeInv, NodeTypeOK, AttemptsOK,
     NodeStates, Schedulable

LEMMA LaunchType ==
    ASSUME NodeInv, RunTypeOK, NEW n \in Nodes, node[n] \in Schedulable,
           StartNode(n) \/ InputFails(n) \/ DispatchFails(n),
           UNCHANGED <<topo, spent, expansions>>
    PROVE  NodeInv' /\ registry' \in SUBSET Keys /\ op' \in [Keys -> OpStates]
<1>1. \A m \in Nodes : MaxAttempts[m] \in Nat
  BY PolicyAssumption
<1>2. CASE StartNode(n)
  <2>1. <<n, attempts[n] + 1>> \in Keys
    BY <1>1, KeyExists DEF NodeInv, NodeTypeOK, AttemptsOK
  <2>2. NodeInv'
    BY <1>1, <1>2 DEF StartNode, NodeInv, NodeTypeOK, AttemptsOK, NodeStates, Schedulable
  <2>3. QED
    BY <1>2, <2>1, <2>2 DEF StartNode, RunTypeOK, OpStates
<1>3. CASE InputFails(n)
  BY <1>3, FailAttemptType DEF InputFails, AttemptEnds, NodeInv, NodeTypeOK, RunTypeOK
<1>4. CASE DispatchFails(n)
  BY <1>1, <1>4 DEF DispatchFails, SetNode, NodeInv, NodeTypeOK, AttemptsOK, NodeStates,
     Schedulable, TerminalNode, RunTypeOK
<1>5. QED
  BY <1>2, <1>3, <1>4

LEMMA PollNodeType ==
    ASSUME TypeInv, NEW n \in Nodes,
           TimeOutNode(n) \/ PollPromise(n) \/ PollStatus(n)
    PROVE  /\ NodeInv' /\ gate' \in GateStates /\ todo' \in SUBSET Nodes
           /\ registry' \in SUBSET Keys /\ opCancel' \in SUBSET Keys
           /\ cancelReq' \in SUBSET Keys
<1> USE DEF TypeInv, TypeOK, NodeInv
<1>1. CASE TimeOutNode(n)
  <2>1. AttemptEnds(n)
    BY <1>1, FailAttemptType DEF TimeOutNode
  <2>2. cancelReq' \in SUBSET Keys
    BY <1>1, ControlRunsType DEF TimeOutNode, Started, AttemptsOK
  <2>3. QED
    BY <1>1, <2>1, <2>2 DEF TimeOutNode, AttemptEnds, NodeTypeOK, PlanTypeOK, LoopTypeOK,
       RunTypeOK
<1>2. CASE PollPromise(n)
  BY <1>2, PromiseType DEF PollPromise, RunTypeOK
<1>3. CASE PollStatus(n)
  <2>1. CASE ApplyRunTerminal(n)
    BY <1>3, <2>1, RunTerminalType DEF PollStatus, RunTypeOK
  <2>2. CASE SetNode(n, "failed") /\ todo' = todo \ {n}
             /\ UNCHANGED <<gate, topo, attempts, spent, expansions>>
    <3>1. AttemptEnds(n)
      BY <2>2, SetNodeType DEF TerminalNode
    <3>2. QED
      BY <1>3, <2>2, <3>1 DEF PollStatus, AttemptEnds, NodeTypeOK, PlanTypeOK, LoopTypeOK,
         RunTypeOK
  <2>3. QED
    BY <1>3, <2>1, <2>2 DEF PollStatus
<1>4. QED
  BY <1>1, <1>2, <1>3

LEMMA CardinalityOfRunning ==
    ASSUME NodeTypeOK
    PROVE  IsFiniteSet(Running) /\ Cardinality(Running) \in Nat
BY NodesAssumption, FS_Subset, FS_CardinalityType DEF NodeTypeOK, Running

\* What a step leaves alone keeps its type.
LEMMA Frames ==
    ASSUME TypeInv
    PROVE  /\ UNCHANGED planVars => PlanTypeOK'
           /\ UNCHANGED nodeVars => NodeInv'
           /\ UNCHANGED <<planExpired, loopVars>> => LoopTypeOK'
           /\ UNCHANGED mailVars => MailTypeOK'
           /\ UNCHANGED <<opVars, runVars>> => RunTypeOK'
<1> USE DEF TypeInv, TypeOK
<1>1. UNCHANGED planVars => PlanTypeOK'
  BY DEF PlanTypeOK
<1>2. UNCHANGED nodeVars => NodeInv'
  BY DEF NodeInv, NodeTypeOK, AttemptsOK
<1>3. UNCHANGED <<planExpired, loopVars>> => LoopTypeOK'
  BY DEF LoopTypeOK
<1>4. UNCHANGED mailVars => MailTypeOK'
  BY DEF MailTypeOK
<1>5. UNCHANGED <<opVars, runVars>> => RunTypeOK'
  BY DEF RunTypeOK
<1>6. QED
  BY <1>1, <1>2, <1>3, <1>4, <1>5

LEMMA Pieces ==
    /\ TypeInv => PlanTypeOK /\ NodeInv /\ LoopTypeOK /\ MailTypeOK /\ RunTypeOK
    /\ PlanTypeOK' /\ NodeInv' /\ LoopTypeOK' /\ MailTypeOK' /\ RunTypeOK' => TypeInv'
BY DEF TypeInv, TypeOK, NodeInv

\* Operations, runs and clients move without the workflow.
LEMMA EnvironmentType ==
    ASSUME TypeInv,
           \/ \E k \in Keys : \/ StartOperation(k) \/ ResolveOperation(k) \/ FailOperation(k)
                              \/ CancelOperation(k) \/ EndRun(k)
           \/ \E m \in Messages : Send(m)
    PROVE  TypeInv'
<1>1. ASSUME NEW k \in Keys,
             \/ StartOperation(k) \/ ResolveOperation(k) \/ FailOperation(k)
             \/ CancelOperation(k) \/ EndRun(k)
      PROVE  TypeInv'
  <2>1. UNCHANGED <<planVars, nodeVars, planExpired, loopVars, mailVars>>
    BY <1>1, Zenon DEF StartOperation, ResolveOperation, FailOperation, CancelOperation, EndRun
  <2>2. op' \in [Keys -> OpStates]
    BY <1>1, Pieces DEF StartOperation, ResolveOperation, FailOperation, CancelOperation, EndRun,
       RunTypeOK, OpStates
  <2>3. run' \in [Keys -> RunStates]
    BY <1>1, Pieces DEF StartOperation, ResolveOperation, FailOperation, CancelOperation, EndRun,
       RunTypeOK, RunStates
  <2>4. /\ registry' \in SUBSET Keys /\ opCancel' \in SUBSET Keys
        /\ cancelReq' \in SUBSET Keys /\ pausedRuns' \in SUBSET Keys
    BY <1>1, Pieces DEF StartOperation, ResolveOperation, FailOperation, CancelOperation, EndRun,
       RunTypeOK
  <2>5. RunTypeOK'
    BY <2>2, <2>3, <2>4 DEF RunTypeOK
  <2>6. QED
    BY <2>1, <2>5, Frames, Pieces
<1>2. ASSUME NEW m \in Messages, Send(m) PROVE TypeInv'
  <2>1. MailTypeOK'
    <3>1. \A ch \in Seq(Messages) : Append(ch, m) \in Seq(Messages)
      OBVIOUS
    <3>2. controlCh' \in Seq(Messages) /\ signalCh' \in Seq(Messages)
      BY <1>2, <3>1, Pieces, Zenon DEF Send, MailTypeOK
    <3>3. sent' \in [Messages -> Nat]
      BY <1>2, Pieces DEF Send, MailTypeOK
    <3>4. UNCHANGED <<processed, applied>>
      BY <1>2 DEF Send
    <3>5. QED
      BY <3>2, <3>3, <3>4, Pieces DEF MailTypeOK
  <2>2. UNCHANGED <<planVars, nodeVars, planExpired, loopVars, opVars, runVars>>
    BY <1>2, Zenon DEF Send
  <2>3. QED
    BY <2>1, <2>2, Frames, Pieces
<1>3. QED
  BY <1>1, <1>2

\* Deadlines pass.
LEMMA ClockType ==
    ASSUME TypeInv, (\E n \in Nodes : NodeDeadline(n)) \/ PlanDeadline \/ GateDeadline
    PROVE  TypeInv'
<1>1. UNCHANGED <<mailVars, opVars, runVars, loopVars, plan, gate, topo, node, attempts, spent,
                  expansions>>
  BY DEF NodeDeadline, PlanDeadline, GateDeadline
<1>2. NodeInv'
  BY <1>1, Pieces DEF NodeDeadline, PlanDeadline, GateDeadline, NodeInv, NodeTypeOK, AttemptsOK,
     Running
<1>3. PlanTypeOK' /\ LoopTypeOK'
  BY <1>1, Pieces DEF NodeDeadline, PlanDeadline, GateDeadline, PlanTypeOK, LoopTypeOK
<1>4. QED
  BY <1>1, <1>2, <1>3, Frames, Pieces

LEMMA ScheduleType ==
    ASSUME TypeInv, Schedule
    PROVE  TypeInv'
<1>1. UNCHANGED <<planVars, mailVars, opVars, runVars>>
  BY DEF Schedule
<1>2. NodeInv'
  <2>1. UNCHANGED <<topo, attempts, nodeExpired, spent, expansions>>
    BY DEF Schedule
  <2>2. PICK skipped \in SUBSET Nodes :
          node' = [n \in Nodes |-> IF n \in skipped THEN "skipped" ELSE node[n]]
    BY Pieces DEF Schedule, SkippedNodes, NodeInv, NodeTypeOK
  <2>3. node' \in [Nodes -> NodeStates]
    <3>1. node \in [Nodes -> NodeStates] /\ "skipped" \in NodeStates
      BY Pieces DEF NodeInv, NodeTypeOK, NodeStates, Schedulable, TerminalNode
    <3>2. QED
      BY <2>2, <3>1
  <2>4. \A n \in Nodes : node'[n] = node[n] \/ node'[n] = "skipped"
    BY <2>2
  <2>5. QED
    BY <2>1, <2>3, <2>4, Pieces DEF NodeInv, NodeTypeOK, AttemptsOK, Schedulable
<1>3. cap' \in Nat
  BY Pieces, PolicyAssumption, CardinalityOfRunning DEF Schedule, Capacity, NodeInv
<1>4. LoopTypeOK'
  BY <1>3, Pieces DEF Schedule, Goto, ReadyNodes, NodeInv, NodeTypeOK, LoopTypeOK, Phases, Exits
<1>5. QED
  BY <1>1, <1>2, <1>4, Frames, Pieces

\* The messages that change the plan, the loop or the paused runs, but no node.
LEMMA MessageType ==
    ASSUME TypeInv, NEW m \in Messages,
           PausePlan(m) \/ ResumePlan(m) \/ ApprovePlan(m) \/ ForwardSignal(m)
    PROVE  TypeInv'
<1>1. UNCHANGED <<nodeVars, planExpired, todo, cap, paced, opVars, run, cancelReq>>
  BY DEF PausePlan, ResumePlan, ApprovePlan, ForwardSignal, SignalInvalid
<1>2. MailTypeOK'
  BY Pieces, ReceiveControlType, ReceiveSignalType DEF PausePlan, ResumePlan, ApprovePlan, ForwardSignal
<1>3. PlanTypeOK'
  <2>1. CASE UNCHANGED planVars
    BY <2>1, Frames
  <2>2. CASE \E event \in PlanEvents : ApplyPlanEvent(event)
    BY <2>2, Pieces, PlanEventType
  <2>3. QED
    BY <2>1, <2>2 DEF PausePlan, ResumePlan, ApprovePlan, ForwardSignal, SignalInvalid, FailIteration,
       PlanEvents
<1>4. /\ pc' = pc \/ pc' = "drain"
      /\ exit' = exit \/ exit' = "error"
      /\ paused' \in BOOLEAN /\ progressed' \in BOOLEAN
  BY Pieces DEF PausePlan, ResumePlan, ApprovePlan, ForwardSignal, SignalInvalid, FailIteration, Leave,
     LoopTypeOK
<1>5. LoopTypeOK'
  BY <1>1, <1>4, Pieces DEF LoopTypeOK, Phases, Exits
<1>6. RunTypeOK'
  <2>1. \A S \in SUBSET Running : ActiveRuns(S) \in SUBSET Keys
    BY Pieces, ActiveRunsType, RunningStarted
  <2>2. \/ UNCHANGED pausedRuns
        \/ \E S \in SUBSET Running : \/ pausedRuns' = pausedRuns \cup ActiveRuns(S)
                                     \/ pausedRuns' = pausedRuns \ ActiveRuns(S)
    BY DEF PausePlan, ResumePlan, ApprovePlan, ForwardSignal
  <2>3. pausedRuns' \in SUBSET Keys
    BY <2>1, <2>2, Pieces DEF RunTypeOK
  <2>4. QED
    BY <1>1, <2>3, Pieces DEF RunTypeOK
<1>7. QED
  BY <1>1, <1>2, <1>3, <1>5, <1>6, Frames, Pieces

LEMMA LaunchStepType ==
    ASSUME TypeInv, Launch
    PROVE  TypeInv'
<1>1. UNCHANGED <<planVars, mailVars, topo, spent, expansions, planExpired, exit, paused, paced,
                  opCancel, runVars>>
  BY DEF Launch, Goto
<1>2. PICK n \in todo : /\ node[n] \in Schedulable
                        /\ StartNode(n) \/ InputFails(n) \/ DispatchFails(n)
                        /\ todo' = todo \ {n}
  BY DEF Launch
<1>3. n \in Nodes
  BY Pieces DEF LoopTypeOK
<1>4. NodeInv' /\ registry' \in SUBSET Keys /\ op' \in [Keys -> OpStates]
  BY <1>1, <1>2, <1>3, LaunchType, Pieces
<1>5. RunTypeOK'
  BY <1>1, <1>4, Pieces DEF RunTypeOK
<1>6. LoopTypeOK'
  BY <1>1, <1>2, Pieces DEF Launch, Goto, LoopTypeOK, Phases
<1>7. QED
  BY <1>1, <1>4, <1>5, <1>6, Frames, Pieces

LEMMA BudgetType ==
    ASSUME TypeInv, CheckBudgetAfterLaunch
    PROVE  TypeInv'
<1>1. UNCHANGED <<planExpired, paused, paced, progressed, cap, mailVars, opVars, run,
                  pausedRuns>>
  BY DEF CheckBudgetAfterLaunch
<1>2. NodeInv' /\ PlanTypeOK' /\ cancelReq' \in SUBSET Keys
  <2>1. CASE UNCHANGED <<planVars, nodeVars, cancelReq>>
    BY <2>1, Frames, Pieces DEF RunTypeOK
  <2>2. CASE CancelActive("failed")
    BY <2>2, Pieces, CancelActiveType DEF PlanEvents
  <2>3. CASE CancelRefused /\ UNCHANGED planVars
    BY <2>3, Pieces, Frames, CancelRefusedType
  <2>4. CASE CancelInterrupted("failed")
    BY <2>4, Pieces, CancelInterruptedType DEF PlanEvents
  <2>5. QED
    BY <2>1, <2>2, <2>3, <2>4 DEF CheckBudgetAfterLaunch
<1>3. RunTypeOK'
  BY <1>1, <1>2, Pieces DEF RunTypeOK
<1>4. LoopTypeOK'
  BY <1>1, Pieces DEF CheckBudgetAfterLaunch, Goto, Leave, LoopTypeOK, Phases, Exits
<1>5. QED
  BY <1>1, <1>2, <1>3, <1>4, Frames, Pieces

LEMMA PollErrorType ==
    ASSUME TypeInv, PollError
    PROVE  TypeInv'
<1>1. UNCHANGED <<planExpired, paused, paced, progressed, todo, cap, mailVars, op, opCancel,
                  runVars>>
  BY DEF PollError
<1>2. /\ UNCHANGED <<topo, node, attempts, nodeExpired, expansions>>
      /\ spent' = spent \/ spent' = spent + Cost
      /\ registry' = registry \/ \E n \in todo : registry' = registry \ {Key(n)}
  BY DEF PollError, ExpansionRefused
<1>3. NodeInv'
  BY <1>2, PolicyAssumption, Pieces DEF NodeInv, NodeTypeOK, AttemptsOK
<1>4. RunTypeOK'
  BY <1>1, <1>2, Pieces DEF RunTypeOK
<1>5. PlanTypeOK' /\ LoopTypeOK'
  BY <1>1, Pieces, PlanEventType DEF PollError, FailIteration, Leave, PlanEvents, LoopTypeOK,
     Phases, Exits
<1>6. QED
  BY <1>1, <1>3, <1>4, <1>5, Frames, Pieces

LEMMA SettleErrorType ==
    ASSUME TypeInv, SettleError
    PROVE  TypeInv'
<1>1. UNCHANGED <<planVars, planExpired, paused, paced, progressed, todo, cap, mailVars, op,
                  opCancel, runVars, topo, node, attempts, nodeExpired, expansions>>
  BY DEF SettleError, ExpansionRefused
<1>2. /\ spent' = spent + Cost
      /\ \E n \in todo : registry' = registry \ {Key(n)}
  BY DEF SettleError, ExpansionRefused
<1>3. NodeInv'
  BY <1>1, <1>2, PolicyAssumption, Pieces DEF NodeInv, NodeTypeOK, AttemptsOK
<1>4. RunTypeOK'
  BY <1>1, <1>2, Pieces DEF RunTypeOK
<1>5. LoopTypeOK'
  BY <1>1, Pieces DEF SettleError, Leave, LoopTypeOK, Phases, Exits
<1>6. QED
  BY <1>1, <1>3, <1>4, <1>5, Frames, Pieces

LEMMA DropType ==
    ASSUME TypeInv, DropProcessedControl \/ DropProcessedSignal
    PROVE  TypeInv'
<1>1. UNCHANGED <<planVars, nodeVars, planExpired, loopVars, opVars, runVars>>
  BY DEF DropProcessedControl, DropProcessedSignal
<1>2. \A ch \in Seq(Messages) : ch # <<>> => Tail(ch) \in Seq(Messages)
  OBVIOUS
<1>3. controlCh' \in Seq(Messages) /\ signalCh' \in Seq(Messages)
  BY <1>2, Pieces DEF DropProcessedControl, DropProcessedSignal, MailTypeOK
<1>4. UNCHANGED <<processed, sent, applied>>
  BY DEF DropProcessedControl, DropProcessedSignal
<1>5. MailTypeOK'
  BY <1>3, <1>4, Pieces DEF MailTypeOK
<1>6. QED
  BY <1>1, <1>5, Frames, Pieces

LEMMA TypeInvStep ==
    ASSUME TypeInv, [Next]_vars
    PROVE  TypeInv'
<1> USE DEF TypeInv, TypeOK, NodeInv, PlanTypeOK, NodeTypeOK, LoopTypeOK, MailTypeOK,
        RunTypeOK, AttemptsOK, Phases, Exits
<1>1. CASE StartWorkflow
  BY <1>1, PlanEventType DEF StartWorkflow, PlanEvents
<1>2. CASE FailSetup
  BY <1>2, PlanEventType DEF FailSetup, PlanEvents
<1>3. CASE ExceedIterations
  BY <1>3, PlanEventType DEF ExceedIterations, FailIteration, Leave, PlanEvents
<1>4. CASE BeginIteration
  BY <1>4 DEF BeginIteration, Goto, HasRunningPendingPromise
<1>5. CASE SettleWaitEnds
  BY <1>5 DEF SettleWaitEnds, Goto, Running
<1>6. CASE ApplySettled
  BY <1>6, PromiseType DEF ApplySettled
<1>7. CASE PassUnsettled
  BY <1>7 DEF PassUnsettled
<1>8. CASE SettleError
  BY <1>8, SettleErrorType
<1>9. CASE SettleDone
  BY <1>9 DEF SettleDone, Goto
<1>10. CASE DropProcessedControl \/ DropProcessedSignal
  BY <1>10, DropType
<1>11. CASE ControlsDrained
  BY <1>11 DEF ControlsDrained, Goto
<1>12. ASSUME NEW m \in Messages, CancelPlan(m) PROVE TypeInv'
  BY <1>12, ReceiveControlType, CancelActiveType, CancelRefusedType, CancelInterruptedType,
     PlanEventType DEF CancelPlan, Goto, FailIteration, Leave, PlanEvents
<1>13. ASSUME NEW m \in Messages, PausePlan(m) PROVE TypeInv'
  BY <1>13, MessageType
<1>14. ASSUME NEW m \in Messages, ResumePlan(m) PROVE TypeInv'
  BY <1>14, MessageType
<1>16. CASE SignalsDrained
  BY <1>16 DEF SignalsDrained, Goto
<1>17. ASSUME NEW m \in Messages, ApprovePlan(m) PROVE TypeInv'
  BY <1>17, MessageType
<1>18. ASSUME NEW m \in Messages, RejectPlan(m) PROVE TypeInv'
  BY <1>18, ReceiveSignalType, CancelActiveType, CancelRefusedType, CancelInterruptedType,
     PlanEventType DEF RejectPlan, Goto, SignalInvalid, FailIteration, Leave, PlanEvents
<1>19. ASSUME NEW m \in Messages, RetryFromSignal(m) PROVE TypeInv'
  <2>1. MailTypeOK'
    BY <1>19, ReceiveSignalType DEF RetryFromSignal
  <2>2. PlanTypeOK'
    BY <1>19, PlanEventType DEF RetryFromSignal, SignalInvalid, FailIteration, PlanEvents
  <2>3. NodeInv'
    BY <1>19, RetryType, MessageAssumption DEF RetryFromSignal, SignalInvalid
  <2>4. QED
    BY <1>19, <2>1, <2>2, <2>3 DEF RetryFromSignal, SignalInvalid, FailIteration, Leave
<1>20. ASSUME NEW m \in Messages, ForwardSignal(m) PROVE TypeInv'
  BY <1>20, MessageType
<1>21. ASSUME NEW event \in {"failed", "rejected"}, ApplyDeadline(event) PROVE TypeInv'
  BY <1>21, CancelActiveType, CancelRefusedType, CancelInterruptedType DEF ApplyDeadline, Leave,
     PlanEvents
<1>22. CASE FinishPlan
  BY <1>22, TerminalEventType, PlanEventType DEF FinishPlan, Leave, PlanEvents
<1>23. CASE GuardsPassed
  BY <1>23 DEF GuardsPassed, Goto
<1>24. CASE StayPaused
  BY <1>24 DEF StayPaused, Goto, Leave
<1>25. CASE Schedule
  BY <1>25, ScheduleType
<1>26. CASE ScheduleError
  BY <1>26, PlanEventType DEF ScheduleError, FailIteration, Leave, PlanEvents
<1>27. CASE Launch
  BY <1>27, LaunchStepType
<1>28. CASE CheckBudgetAfterLaunch
  BY <1>28, BudgetType
<1>29. CASE LaunchDone
  BY <1>29 DEF LaunchDone, Goto, Running
<1>30. CASE PollNode
  BY <1>30, PollNodeType DEF PollNode
<1>31. CASE PollNothingNew
  BY <1>31 DEF PollNothingNew
<1>32. CASE PollError
  BY <1>32, PollErrorType
<1>33. CASE PollDone
  BY <1>33 DEF PollDone, Goto
<1>34. CASE CheckBudgetAfterPoll
  BY <1>34, CancelActiveType, CancelRefusedType, CancelInterruptedType DEF CheckBudgetAfterPoll, Leave,
     PlanEvents
<1>35. CASE EndIteration
  BY <1>35 DEF EndIteration, Goto
<1>36. CASE FinishIteration
  BY <1>36, PlanEventType DEF FinishIteration, Goto, Leave, PlanEvents
<1>37. CASE DrainOperations
  BY <1>37 DEF DrainOperations, Goto
<1>38. CASE CloseExecution
  <2>1. <<>> \in Seq(Messages)
    OBVIOUS
  <2>2. MailTypeOK'
    BY <1>38, <2>1 DEF CloseExecution
  <2>3. LoopTypeOK'
    BY <1>38 DEF CloseExecution, Goto
  <2>4. QED
    BY <1>38, <2>2, <2>3 DEF CloseExecution
<1>39. CASE ActivityExhausted
  BY <1>39, PlanEventType DEF ActivityExhausted, FailIteration, Leave,
     PlanEvents
<1>47. CASE RecordFailure
  BY <1>47, PlanEventType DEF RecordFailure, FailIteration, Leave, PlanEvents
<1>40. ASSUME NEW k \in Keys,
             \/ StartOperation(k) \/ ResolveOperation(k) \/ FailOperation(k)
             \/ CancelOperation(k) \/ EndRun(k)
       PROVE  TypeInv'
  BY <1>40, EnvironmentType
<1>41. ASSUME NEW n \in Nodes, NodeDeadline(n) PROVE TypeInv'
  BY <1>41, ClockType
<1>42. CASE PlanDeadline \/ GateDeadline
  BY <1>42, ClockType
<1>43. ASSUME NEW m \in Messages, Send(m) PROVE TypeInv'
  BY <1>43, EnvironmentType
<1>44. CASE UNCHANGED vars
  BY <1>44, Frames, Pieces DEF vars
<1>45. CASE WorkflowStep
  BY <1>45, <1>1, <1>2, <1>3, <1>4, <1>5, <1>6, <1>7, <1>8, <1>9, <1>10, <1>11, <1>12,
     <1>13, <1>14, <1>16, <1>17, <1>18, <1>19, <1>20, <1>21, <1>22, <1>23, <1>24,
     <1>25, <1>26, <1>27, <1>28, <1>29, <1>30, <1>31, <1>32, <1>33, <1>34, <1>35, <1>36,
     <1>37, <1>38, <1>39, <1>47 DEF WorkflowStep, Deliver
<1>46. QED
  BY <1>40, <1>41, <1>42, <1>43, <1>44, <1>45
     DEF Next, OperationStep, ClockStep, Closed

LEMMA TypeInvInit ==
    ASSUME Init
    PROVE  TypeInv
<1>1. PlanTypeOK /\ NodeTypeOK /\ LoopTypeOK
  BY NodesAssumption DEF Init, PlanTypeOK, NodeTypeOK, LoopTypeOK, PlanStates, GateStates,
     NodeStates, Schedulable, Phases, Exits
<1>2. MailTypeOK /\ RunTypeOK
  BY DEF Init, MailTypeOK, RunTypeOK, OpStates, RunStates
<1>3. AttemptsOK
  BY PolicyAssumption DEF Init, AttemptsOK
<1>4. QED
  BY <1>1, <1>2, <1>3 DEF TypeInv, TypeOK

LEMMA TypeInvariant == Spec => []TypeInv
<1>1. Init => TypeInv
  BY TypeInvInit
<1>2. TypeInv /\ [Next]_vars => TypeInv'
  BY TypeInvStep
<1>3. QED
  BY <1>1, <1>2, PTL DEF Spec

\* Type correctness of the whole workflow, with the run ids it names: no path
\* through retries, manual retries and expansions starts an attempt beyond the
\* node's policy.
THEOREM TypeCorrect == Spec => []TypeOK
<1>1. TypeInv => TypeOK
  BY DEF TypeInv
<1>2. QED
  BY <1>1, TypeInvariant, PTL

=============================================================================
