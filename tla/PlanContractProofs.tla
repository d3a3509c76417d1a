------------------------ MODULE PlanContractProofs ------------------------
(***************************************************************************)
(* What a plan promises its observers, for every plan: the workflow        *)
(* implements PlanGraph, an attempt runs alone, a plan that ends quietly   *)
(* leaves no run behind, and a closed execution has reported the end.      *)
(***************************************************************************)
EXTENDS PlanSafetyProofs

USE DEF planVars, nodeVars, loopVars, mailVars, opVars, runVars

Sends(type) == \E m \in Messages : m.type = type

-----------------------------------------------------------------------------
(* The operators of the abstract plan are those of the scheduler.          *)

LEMMA SameDecision ==
    ASSUME NEW T, NEW S, NEW join, NEW st, NEW F
    PROVE  /\ Graph!ReadyNodes(T, S, join, st, F) = ReadyNodes(T, S, join, st, F)
           /\ Graph!SkippedNodes(T, S, join, st, F) = SkippedNodes(T, S, join, st, F)
<1> USE DEF Incoming, Graph!Incoming, TerminalNode, Graph!TerminalNode
<1>1. \A n : /\ Graph!Incoming(S, n) = Incoming(S, n)
             /\ Graph!WaitingEdges(S, n, st) = WaitingEdges(S, n, st)
             /\ Graph!ActiveEdges(S, n, st, F) = ActiveEdges(S, n, st, F)
  BY DEF WaitingEdges, Graph!WaitingEdges, ActiveEdges, Graph!ActiveEdges
<1>2. \A n : Graph!SatisfiedEdges(S, n, st, F) = SatisfiedEdges(S, n, st, F)
  BY <1>1 DEF SatisfiedEdges, Graph!SatisfiedEdges, EdgeSatisfied, Graph!EdgeSatisfied
<1>3. \A n : Graph!ImpossibleEdges(S, n, st, F) = ImpossibleEdges(S, n, st, F)
  BY <1>1, <1>2 DEF ImpossibleEdges, Graph!ImpossibleEdges
<1>4. Schedulable = Graph!Schedulable
  BY DEF Schedulable, Graph!Schedulable
<1>5. \A n : /\ Graph!DependenciesReady(S, join, n, st, F) = DependenciesReady(S, join, n, st, F)
             /\ Graph!DependenciesImpossible(S, join, n, st, F)
                  = DependenciesImpossible(S, join, n, st, F)
  BY <1>1, <1>2, <1>3 DEF DependenciesReady, Graph!DependenciesReady,
     DependenciesImpossible, Graph!DependenciesImpossible
<1>6. QED
  BY <1>4, <1>5 DEF ReadyNodes, Graph!ReadyNodes, SkippedNodes, Graph!SkippedNodes

LEMMA SameGraph ==
    /\ Graph!E = TopoEdges
    /\ Graph!RunningNodes = Running
    /\ Graph!Ended = TerminalPlan
    /\ Graph!Live = {"running", "blocked"}
BY DEF Graph!E, TopoEdges, Graph!RunningNodes, Running, Graph!Ended, TerminalPlan, Graph!Live

LEMMA SameCardinality == Graph!Cardinality(Running) = Cardinality(Running)
BY DEF Graph!Cardinality, Cardinality

-----------------------------------------------------------------------------
(* How far the plan is in each phase.                                      *)

Leaving == {"drain", "draining", "closed"}

\* The list startReadyPlanNodes works through follows from one evaluation of
\* the conditions, and still does.
Decided ==
    \E F \in Conditions : \A n \in todo :
        node[n] \in Schedulable => n \in ReadyNodes(topo, TopoEdges, Join, node, F)

\* A plan is paused only while it is blocked, or when it ended so.
StageInv ==
    /\ pc = "start" /\ exit # "continue" => plan = "pending"
    /\ plan = "pending" => pc \in {"start", "closed"}
    /\ exit = "continue" => plan \in {"running", "blocked"} /\ pc \in Leaving \cup {"start"}
    /\ paused => plan \notin {"pending", "running"}
    /\ pc \in {"schedule", "launch", "launched"} => ~paused
    /\ pc \in {"apply", "poll"} => todo \subseteq Running
    /\ pc \in {"poll", "polled"} /\ plan \in TerminalPlan => Running = {}
    /\ pc \in {"launch", "launched"} => Decided

LEMMA PlanInPhase ==
    ASSUME TypeInv, FinalInv, StageInv
    PROVE  /\ pc \notin Leaving \cup {"start", "failing", "poll", "polled"} =>
                plan \in {"running", "blocked"}
           /\ pc \in {"poll", "polled"} =>
                \/ plan \in {"running", "blocked"}
                \/ plan = "failed" /\ todo = {} /\ Running = {} /\ Overspent
           /\ pc = "failing" => plan \in {"running", "blocked", "failed", "canceled"}
           /\ pc \in {"schedule", "launch", "launched"} => ~paused
<1>1. plan \in PlanStates
  BY DEF TypeInv, TypeOK, PlanTypeOK
<1>2. pc \notin Leaving \cup {"start", "failing", "poll", "polled"} => plan \in {"running", "blocked"}
  BY <1>1 DEF PlanStates, TerminalPlan, FinalInv, StageInv, Leaving
<1>3. pc \in {"poll", "polled"} =>
        \/ plan \in {"running", "blocked"}
        \/ plan = "failed" /\ todo = {} /\ Running = {} /\ Overspent
  BY <1>1 DEF PlanStates, TerminalPlan, FinalInv, StageInv
<1>4. pc = "failing" => plan \in {"running", "blocked", "failed", "canceled"}
  BY <1>1 DEF PlanStates, TerminalPlan, FinalInv, StageInv
<1>5. QED
  BY <1>2, <1>3, <1>4, Zenon DEF StageInv

-----------------------------------------------------------------------------
(* Every step of the workflow is a step of the abstract plan.              *)

LEMMA StopIsAllowed ==
    ASSUME plan \notin TerminalPlan, plan' \in {plan, "failed", "canceled"},
           UNCHANGED <<topo, paused>>, NEW S \in SUBSET Running,
           node' = [n \in Nodes |-> IF n \in S THEN "canceled" ELSE node[n]]
    PROVE  Graph!Next
BY SameGraph DEF Graph!Next, Graph!Stop

LEMMA FailIsAllowed ==
    ASSUME TypeInv, plan \notin TerminalPlan, plan' \in {plan, "failed", "canceled"},
           UNCHANGED <<topo, paused, node>>
    PROVE  Graph!Next
<1>1. node' = [n \in Nodes |-> IF n \in {} THEN "canceled" ELSE node[n]]
  BY DEF TypeInv, TypeOK, NodeTypeOK
<1>2. {} \in SUBSET Running
  OBVIOUS
<1>3. QED
  BY <1>1, <1>2, StopIsAllowed

LEMMA CancelIsAllowed ==
    ASSUME NEW event \in {"failed", "rejected", "canceled"}, plan \notin TerminalPlan,
           CancelActive(event) \/ CancelInterrupted(event), UNCHANGED paused
    PROVE  Graph!Next
<1>1. PICK S \in SUBSET Running :
        node' = [n \in Nodes |-> IF n \in S THEN "canceled" ELSE node[n]]
  BY Zenon DEF CancelActive, CancelInterrupted
<1>2. UNCHANGED topo /\ plan' \in {plan, "failed", "canceled"}
  BY DEF CancelActive, CancelInterrupted, ApplyPlanEvent, LifecycleFor
<1>3. QED
  BY <1>1, <1>2, StopIsAllowed

\* Pausing, approving, resuming, and restoring a plan that was continued.
LEMMA BlockIsAllowed ==
    ASSUME plan \in {"running", "blocked"}, UNCHANGED <<topo, node>>,
           \/ plan' = "blocked" /\ paused' = TRUE
           \/ plan' = "running" /\ paused' = FALSE
    PROVE  Graph!Next
<1>1. CASE plan' = "blocked" /\ paused' = TRUE
  BY <1>1, SameGraph DEF Graph!Next, Graph!Block
<1>2. CASE plan' = "running" /\ paused' = FALSE
  BY <1>2, SameGraph DEF Graph!Next, Graph!Unblock
<1>3. QED
  BY <1>1, <1>2

\* What the end of an attempt may do to its node and to the topology.
Ends(n) ==
    \/ /\ \E s \in {"succeeded", "failed", "canceled", "ready"} : node' = [node EXCEPT ![n] = s]
       /\ UNCHANGED topo
    \/ node' = [node EXCEPT ![n] = "succeeded"] /\ topo' = topo \cup Delta[n]

LEMMA SettleIsAllowed ==
    ASSUME plan \in {"running", "blocked"}, UNCHANGED <<plan, paused>>, NEW n \in Running, Ends(n)
    PROVE  Graph!Next
<1>1. Graph!Settle(n)
  BY SameGraph DEF Graph!Settle, Ends
<1>2. n \in topo
  BY DEF Running
<1>3. QED
  BY <1>1, <1>2 DEF Graph!Next

LEMMA FailAttemptEnds ==
    ASSUME NEW n, FailAttempt(n), UNCHANGED topo
    PROVE  Ends(n)
BY DEF FailAttempt, RetryNode, SetNode, Ends

LEMMA RunTerminalEnds ==
    ASSUME NEW n, ApplyRunTerminal(n)
    PROVE  Ends(n)
<1>1. \/ FailAttempt(n) /\ UNCHANGED topo
      \/ \E s \in {"failed", "canceled", "succeeded"} : SetNode(n, s) /\ UNCHANGED topo
      \/ SetNode(n, "succeeded") /\ topo' = topo \cup Delta[n]
  BY Zenon DEF ApplyRunTerminal
<1>2. CASE FailAttempt(n) /\ UNCHANGED topo
  BY <1>2, FailAttemptEnds
<1>3. CASE \E s \in {"failed", "canceled", "succeeded"} : SetNode(n, s) /\ UNCHANGED topo
  BY <1>3 DEF SetNode, Ends
<1>4. CASE SetNode(n, "succeeded") /\ topo' = topo \cup Delta[n]
  BY <1>4 DEF SetNode, Ends
<1>5. QED
  BY <1>1, <1>2, <1>3, <1>4

LEMMA PromiseEnds ==
    ASSUME NEW n, ApplyPromise(n)
    PROVE  Ends(n)
<1>1. CASE ApplyRunTerminal(n)
  BY <1>1, RunTerminalEnds
<1>2. CASE ApplyOperationFailure(n)
  BY <1>2 DEF ApplyOperationFailure, SetNode, Ends
<1>3. QED
  BY <1>1, <1>2 DEF ApplyPromise

LEMMA PollEnds ==
    ASSUME NEW n, TimeOutNode(n) \/ PollPromise(n) \/ PollStatus(n)
    PROVE  Ends(n)
<1>1. CASE TimeOutNode(n)
  BY <1>1, FailAttemptEnds DEF TimeOutNode
<1>2. CASE PollPromise(n)
  BY <1>2, PromiseEnds DEF PollPromise
<1>3. CASE PollStatus(n)
  <2>1. CASE ApplyRunTerminal(n)
    BY <2>1, RunTerminalEnds
  <2>2. CASE SetNode(n, "failed") /\ UNCHANGED topo
    BY <2>2 DEF SetNode, Ends
  <2>3. QED
    BY <1>3, <2>1, <2>2 DEF PollStatus
<1>4. QED
  BY <1>1, <1>2, <1>3

LEMMA LaunchIsAllowed ==
    ASSUME TypeInv, GraphInv, FinalInv, StageInv, ParallelInv, Launch
    PROVE  Graph!Next
<1>1. PICK n \in todo : /\ node[n] \in Schedulable
                        /\ StartNode(n) \/ InputFails(n) \/ DispatchFails(n)
  BY DEF Launch
<1>2. pc = "launch" /\ cap > 0 /\ UNCHANGED <<plan, paused, topo>>
  BY DEF Launch
<1>3. plan \in Graph!Live /\ ~paused
  BY <1>2, PlanInPhase, SameGraph DEF Leaving
<1>4. n \in topo /\ \E F \in Conditions : n \in Graph!ReadyNodes(topo, Graph!E, Join, node, F)
  BY <1>1, <1>2, SameDecision, SameGraph DEF StageInv, Decided, GraphInv
<1>5. Graph!Cardinality(Graph!RunningNodes) < MaxParallel
  <2>1. Cardinality(Running) \in Nat /\ cap \in Nat /\ MaxParallel \in Nat
    BY CardinalityOfRunning, PolicyAssumption DEF TypeInv, TypeOK, LoopTypeOK
  <2>2. Cardinality(Running) + cap <= MaxParallel
    BY <1>2 DEF ParallelInv
  <2>3. QED
    BY <1>2, <2>1, <2>2, SameGraph, SameCardinality
<1>6. \E s \in {"running", "ready", "failed"} : node' = [node EXCEPT ![n] = s]
  BY <1>1 DEF StartNode, InputFails, DispatchFails, FailAttempt, RetryNode, SetNode
<1>7. Graph!Start(n)
  BY <1>2, <1>3, <1>4, <1>5, <1>6, Zenon DEF Graph!Start
<1>8. QED
  BY <1>4, <1>7 DEF Graph!Next

LEMMA FinishIsAllowed ==
    ASSUME TypeInv, FinishPlan, plan \in {"running", "blocked"}
    PROVE  Graph!Next
<1>1. UNCHANGED <<topo, node, paused>> /\ NodesTerminal /\ plan' = LifecycleFor(TerminalEvent)
  BY DEF FinishPlan, ApplyPlanEvent
<1>2. TerminalEvent \in {"succeeded", "failed", "canceled"}
  BY TerminalEventType, Pieces
<1>3. CASE TerminalEvent = "succeeded"
  <2>1. \A n \in topo : node[n] \in {"succeeded", "skipped"}
    BY <1>1, <1>3, SucceededEvent
  <2>2. plan' = "succeeded"
    BY <1>1, <1>3 DEF LifecycleFor
  <2>3. QED
    BY <1>1, <2>1, <2>2, SameGraph DEF Graph!Next, Graph!Succeed
<1>4. CASE TerminalEvent \in {"failed", "canceled"}
  BY <1>1, <1>4, FailIsAllowed DEF LifecycleFor, TerminalPlan
<1>5. QED
  BY <1>2, <1>3, <1>4

LEMMA RetryIsAllowed ==
    ASSUME TypeInv, FinalInv, StageInv, NEW m \in Messages, RetryFromSignal(m)
    PROVE  [Graph!Next]_(Graph!vars)
<1>1. plan \in {"running", "blocked"}
  BY PlanInPhase DEF RetryFromSignal, ReceiveSignal, Leaving
<1>2. CASE /\ RetryAlreadyScheduled(m.node) /\ paused' = FALSE
           /\ UNCHANGED <<planVars, nodeVars>>
  <2>1. Graph!Acknowledge(m.node)
    BY <1>1, <1>2, SameGraph DEF Graph!Acknowledge, RetryAlreadyScheduled
  <2>2. QED
    BY <1>2, <2>1 DEF Graph!Next, RetryAlreadyScheduled
<1>3. CASE SignalInvalid
  BY <1>1, <1>3, FailIsAllowed DEF SignalInvalid, FailIteration, ApplyPlanEvent, LifecycleFor,
     TerminalPlan
<1>4. CASE /\ MayRetry(m.node) /\ RetryNode(m.node) /\ UNCHANGED topo /\ paused' = FALSE
           /\ IF plan \in {"blocked", "failed"}
              THEN ApplyPlanEvent("approved") ELSE UNCHANGED planVars
  <2>1. Graph!Retry(m.node)
    BY <1>1, <1>4, SameGraph DEF Graph!Retry, MayRetry, RetryNode, SetNode, ApplyPlanEvent,
       LifecycleFor
  <2>2. QED
    BY <1>4, <2>1 DEF Graph!Next, MayRetry
<1>5. QED
  BY <1>2, <1>3, <1>4, Zenon DEF RetryFromSignal

LEMMA GraphStep ==
    ASSUME TypeInv, GraphInv, FinalInv, StageInv, ParallelInv, [Next]_vars
    PROVE  [Graph!Next]_(Graph!vars)
<1> DEFINE Goal == [Graph!Next]_(Graph!vars)
           Same == UNCHANGED <<plan, paused, topo, node>>
<1>0. Same => Goal
  BY DEF Graph!vars
<1>1. CASE \/ BeginIteration \/ SettleWaitEnds \/ PassUnsettled \/ SettleError \/ SettleDone
           \/ DropProcessedControl \/ ControlsDrained \/ DropProcessedSignal \/ SignalsDrained
           \/ GuardsPassed \/ StayPaused \/ LaunchDone \/ PollNothingNew \/ PollDone
           \/ EndIteration \/ DrainOperations \/ CloseExecution
  BY <1>0, <1>1, Zenon DEF BeginIteration, SettleWaitEnds, PassUnsettled, SettleError, ExpansionRefused,
     SettleDone, DropProcessedControl, ControlsDrained, DropProcessedSignal, SignalsDrained,
     GuardsPassed, StayPaused, LaunchDone, PollNothingNew, PollDone, EndIteration,
     DrainOperations, CloseExecution
<1>2. ASSUME \/ ClockStep \/ UNCHANGED vars
             \/ \E k \in Keys : OperationStep(k) \/ EndRun(k)
             \/ \E m \in Messages : Send(m)
      PROVE  Same
  BY <1>2, Zenon DEF ClockStep, NodeDeadline, PlanDeadline, GateDeadline, vars, OperationStep,
     StartOperation, ResolveOperation, FailOperation, CancelOperation, EndRun, Send
<1>3. CASE StartWorkflow
  <2>1. CASE exit = "continue"
    <3>1. /\ plan \in {"running", "blocked"} /\ UNCHANGED <<plan, topo, node>>
          /\ paused' = (plan = "blocked")
      BY <1>3, <2>1, Zenon DEF StartWorkflow, StageInv
    <3>2. CASE plan = "blocked"
      BY <3>1, <3>2, BlockIsAllowed
    <3>3. CASE plan = "running"
      BY <3>1, <3>3, BlockIsAllowed
    <3>4. QED
      BY <3>1, <3>2, <3>3
  <2>2. CASE exit # "continue"
    <3>1. plan = "pending" /\ plan' = "running" /\ UNCHANGED <<topo, node>>
      BY <1>3, <2>2 DEF StartWorkflow, ApplyPlanEvent, LifecycleFor, StageInv
    <3>2. UNCHANGED paused
      <4>1. paused \in BOOLEAN /\ ~paused
        BY <3>1, Zenon DEF StageInv, TypeInv, TypeOK, LoopTypeOK
      <4>2. paused' = (plan' = "blocked")
        BY <1>3, Zenon DEF StartWorkflow
      <4>3. plan' # "blocked"
        BY <3>1
      <4>4. QED
        BY <4>1, <4>2, <4>3, Zenon
    <3>3. QED
      BY <3>1, <3>2 DEF Graph!Next, Graph!Begin
  <2>3. QED
    BY <2>1, <2>2
<1>4. CASE FailSetup \/ ExceedIterations \/ ScheduleError \/ FinishIteration \/ ActivityExhausted
           \/ PollError
  <2>1. UNCHANGED <<topo, node, paused>> /\ (UNCHANGED plan \/ plan' = "failed")
    BY <1>4 DEF FailSetup, ExceedIterations, ScheduleError, FinishIteration, ActivityExhausted,
       PollError, ExpansionRefused, FailIteration, ApplyPlanEvent, LifecycleFor
  <2>2. pc \notin Leaving /\ (pc = "failing" => UNCHANGED plan \/ plan' = "failed")
    BY <1>4 DEF FailSetup, ExceedIterations, ScheduleError, FinishIteration, ActivityExhausted,
       PollError, Leaving
  <2>3. plan \notin TerminalPlan \/ plan = "failed" \/ UNCHANGED plan
    BY <1>4, <2>2 DEF FinalInv, Leaving, FailSetup, ExceedIterations, ScheduleError,
       FinishIteration, ActivityExhausted, PollError
  <2>4. QED
    BY <1>0, <2>1, <2>3, FailIsAllowed
<1>5. CASE FinishPlan
  <2>1. pc = "guard" \/ (pc = "polled" /\ ~Overspent)
    BY <1>5 DEF FinishPlan
  <2>2. plan \in {"running", "blocked"}
    BY <2>1, PlanInPhase DEF Leaving
  <2>3. QED
    BY <1>5, <2>2, FinishIsAllowed
<1>6. ASSUME NEW m \in Messages, CancelPlan(m) \/ RejectPlan(m) PROVE Goal
  <2>1. plan \in {"running", "blocked"}
    BY <1>6, PlanInPhase DEF CancelPlan, RejectPlan, ReceiveControl, ReceiveSignal, Leaving
  <2>2. UNCHANGED paused
    BY <1>6, Zenon DEF CancelPlan, RejectPlan, SignalInvalid
  <2>3. CASE \E event \in {"rejected", "canceled"} : CancelActive(event) \/ CancelInterrupted(event)
    BY <2>1, <2>2, <2>3, CancelIsAllowed DEF TerminalPlan
  <2>4. CASE FailIteration /\ UNCHANGED nodeVars
    BY <2>1, <2>2, <2>4, FailIsAllowed DEF FailIteration, ApplyPlanEvent, LifecycleFor, TerminalPlan
  <2>5. QED
    BY <1>6, <2>3, <2>4, Zenon DEF CancelPlan, RejectPlan, CancelRefused, SignalInvalid
<1>7. ASSUME NEW event \in {"failed", "rejected"}, ApplyDeadline(event) PROVE Goal
  <2>1. plan \in {"running", "blocked"}
    BY <1>7, PlanInPhase DEF ApplyDeadline, Leaving
  <2>2. QED
    BY <1>0, <1>7, <2>1, CancelIsAllowed, Zenon DEF ApplyDeadline, CancelRefused, TerminalPlan
<1>8. CASE CheckBudgetAfterLaunch
  <2>1. plan \in {"running", "blocked"}
    BY <1>8, PlanInPhase DEF CheckBudgetAfterLaunch, Leaving
  <2>2. QED
    BY <1>0, <1>8, <2>1, CancelIsAllowed, Zenon DEF CheckBudgetAfterLaunch, CancelRefused, TerminalPlan
<1>9. CASE CheckBudgetAfterPoll
  <2>1. CASE plan \in {"running", "blocked"}
    BY <1>0, <1>9, <2>1, CancelIsAllowed, Zenon DEF CheckBudgetAfterPoll, CancelRefused, TerminalPlan
  <2>2. CASE plan = "failed" /\ Running = {}
    <3>1. Same
      BY <1>9, <2>2 DEF CheckBudgetAfterPoll, CancelActive, CancelRefused, CancelInterrupted,
         ApplyPlanEvent, LifecycleFor, TypeInv, TypeOK, NodeTypeOK
    <3>2. QED
      BY <1>0, <3>1
  <2>3. QED
    BY <1>9, <2>1, <2>2, PlanInPhase DEF CheckBudgetAfterPoll
<1>10. ASSUME NEW m \in Messages,
              PausePlan(m) \/ ResumePlan(m) \/ ApprovePlan(m) \/ ForwardSignal(m)
       PROVE  Goal
  <2>1. plan \in {"running", "blocked"}
    BY <1>10, PlanInPhase DEF PausePlan, ResumePlan, ApprovePlan, ForwardSignal, ReceiveControl,
       ReceiveSignal, Leaving
  <2>2. CASE FailIteration /\ UNCHANGED <<nodeVars, paused>>
    BY <2>1, <2>2, FailIsAllowed DEF FailIteration, ApplyPlanEvent, LifecycleFor, TerminalPlan
  <2>3. CASE PausePlan(m) \/ ResumePlan(m)
    BY <2>1, <2>3, BlockIsAllowed DEF PausePlan, ResumePlan, ApplyPlanEvent, LifecycleFor
  <2>4. CASE ApplyPlanEvent("approved") /\ paused' = FALSE /\ UNCHANGED nodeVars
    BY <2>1, <2>4, BlockIsAllowed DEF ApplyPlanEvent, LifecycleFor
  <2>5. CASE UNCHANGED <<planVars, nodeVars, paused>>
    BY <1>0, <2>5
  <2>6. QED
    BY <1>10, <2>2, <2>3, <2>4, <2>5, Zenon DEF ApprovePlan, ForwardSignal, SignalInvalid
<1>11. ASSUME NEW m \in Messages, RetryFromSignal(m) PROVE Goal
  BY <1>11, RetryIsAllowed
<1>12. CASE ApplySettled
  <2>1. PICK n \in todo : ApplyPromise(n)
    BY <1>12 DEF ApplySettled
  <2>2. n \in Running /\ plan \in {"running", "blocked"} /\ UNCHANGED <<plan, paused>>
    BY <1>12, PlanInPhase DEF ApplySettled, StageInv, Leaving
  <2>3. QED
    BY <2>1, <2>2, PromiseEnds, SettleIsAllowed
<1>13. CASE PollNode
  <2>1. PICK n \in todo : TimeOutNode(n) \/ PollPromise(n) \/ PollStatus(n)
    BY <1>13 DEF PollNode
  <2>2. n \in Running /\ plan \in {"running", "blocked"} /\ UNCHANGED <<plan, paused>>
    BY <1>13, PlanInPhase DEF PollNode, StageInv
  <2>3. QED
    BY <2>1, <2>2, PollEnds, SettleIsAllowed
<1>14. CASE Schedule
  <2>1. plan \in Graph!Live /\ ~paused /\ UNCHANGED <<plan, paused, topo>>
    BY <1>14, PlanInPhase, SameGraph DEF Schedule, Leaving
  <2>2. \E F \in Conditions :
          node' = [n \in Nodes |-> IF n \in SkippedNodes(topo, TopoEdges, Join, node, F)
                                   THEN "skipped" ELSE node[n]]
    BY <1>14 DEF Schedule
  <2>3. \A F : Graph!SkippedNodes(topo, Graph!E, Join, node, F)
               = SkippedNodes(topo, TopoEdges, Join, node, F)
    BY SameDecision, SameGraph
  <2>4. Graph!Skip
    BY <2>1, <2>2, <2>3 DEF Graph!Skip
  <2>5. QED
    BY <2>4 DEF Graph!Next
<1>15. CASE Launch
  BY <1>15, LaunchIsAllowed
<1>18. CASE RecordFailure
  <2>1. /\ plan \in {"running", "blocked", "failed", "canceled"} /\ plan' = "failed"
        /\ UNCHANGED <<topo, node, paused>>
    BY <1>18, PlanInPhase DEF RecordFailure, FailIteration, ApplyPlanEvent, LifecycleFor
  <2>2. CASE plan = "canceled"
    BY <2>1, <2>2 DEF Graph!Next, Graph!Fail
  <2>3. QED
    BY <1>0, <2>1, <2>2, FailIsAllowed DEF TerminalPlan
<1>16. CASE WorkflowStep
  BY <1>16, <1>18, <1>1, <1>3, <1>4, <1>5, <1>6, <1>7, <1>8, <1>9, <1>10, <1>11, <1>12, <1>13,
     <1>14, <1>15 DEF WorkflowStep, Deliver
<1>17. QED
  BY <1>0, <1>2, <1>16 DEF Next, Closed

-----------------------------------------------------------------------------
(* StageInv is inductive.                                                  *)

LEMMA DecidedStays ==
    ASSUME TypeInv, GraphInv, Decided, todo' \subseteq todo, UNCHANGED topo,
           \A n \in topo : node[n] \in TerminalNode => node'[n] = node[n],
           \A n \in topo : node'[n] \in Schedulable => node[n] \in Schedulable
    PROVE  Decided'
<1>1. PICK F \in Conditions : \A n \in todo :
        node[n] \in Schedulable => n \in ReadyNodes(topo, TopoEdges, Join, node, F)
  BY DEF Decided
<1>2. TopoEdges' = TopoEdges /\ \A e \in TopoEdges : e.from \in topo
  BY DEF TopoEdges
<1>3. ASSUME NEW n \in todo', node'[n] \in Schedulable
      PROVE  n \in ReadyNodes(topo, TopoEdges, Join, node', F)
  <2>1. n \in topo /\ n \in todo
    BY <1>3 DEF GraphInv
  <2>2. n \in ReadyNodes(topo, TopoEdges, Join, node, F)
    BY <1>1, <1>3, <2>1, Zenon
  <2>3. QED
    BY <1>2, <1>3, <2>2, ReadyIsStable
<1>4. QED
  BY <1>2, <1>3 DEF Decided

LEMMA ScheduleIsDecided ==
    ASSUME TypeInv, GraphInv, Schedule
    PROVE  Decided'
<1>1. PICK F \in Conditions :
        /\ node' = [n \in Nodes |-> IF n \in SkippedNodes(topo, TopoEdges, Join, node, F)
                                    THEN "skipped" ELSE node[n]]
        /\ todo' = ReadyNodes(topo, TopoEdges, Join, node, F)
  BY DEF Schedule
<1>2. UNCHANGED topo /\ topo \subseteq Nodes
  BY DEF Schedule, TypeInv, TypeOK, NodeTypeOK
<1>3. TopoEdges' = TopoEdges /\ \A e \in TopoEdges : e.from \in topo
  BY <1>2 DEF TopoEdges
<1>4. \A n \in topo : node[n] \in TerminalNode => node'[n] = node[n]
  BY <1>1, <1>2 DEF SkippedNodes, TerminalNode, Schedulable
<1>5. \A n \in todo' : node'[n] \in Schedulable => n \in ReadyNodes(topo, TopoEdges, Join, node', F)
  BY <1>1, <1>3, <1>4, ReadyIsStable
<1>6. QED
  BY <1>2, <1>3, <1>5 DEF Decided

LEMMA LaunchStaysDecided ==
    ASSUME TypeInv, GraphInv, Decided, Launch
    PROVE  Decided'
<1>1. PICK n \in todo : /\ node[n] \in Schedulable /\ todo' = todo \ {n}
                        /\ StartNode(n) \/ InputFails(n) \/ DispatchFails(n)
  BY DEF Launch
<1>2. UNCHANGED topo /\ topo \subseteq Nodes /\ n \in topo
  BY DEF Launch, GraphInv, TypeInv, TypeOK, NodeTypeOK
<1>3. \E s : node' = [node EXCEPT ![n] = s]
  BY <1>1 DEF StartNode, InputFails, DispatchFails, FailAttempt, RetryNode, SetNode
<1>4. \A m \in topo : m # n => node'[m] = node[m]
  BY <1>2, <1>3 DEF TypeInv, TypeOK, NodeTypeOK
<1>5. /\ \A m \in topo : node[m] \in TerminalNode => node'[m] = node[m]
      /\ \A m \in topo : node'[m] \in Schedulable => node[m] \in Schedulable
  BY <1>1, <1>4, Zenon DEF TerminalNode, Schedulable
<1>6. QED
  BY <1>1, <1>2, <1>5, DecidedStays

LEMMA EndsKeepsOthersRunning ==
    ASSUME TypeInv, GraphInv, NEW n \in todo, Ends(n), todo \subseteq Running,
           todo' \subseteq todo \ {n}
    PROVE  todo' \subseteq Running'
BY DEF Ends, Running, TypeInv, TypeOK, NodeTypeOK, LoopTypeOK

LEMMA StageStep ==
    ASSUME TypeInv, GraphInv, FinalInv, StageInv, [Next]_vars
    PROVE  StageInv'
<1> USE DEF TerminalPlan
<1>1. CASE \/ BeginIteration \/ SettleWaitEnds \/ PassUnsettled \/ SettleError \/ SettleDone
           \/ DropProcessedControl \/ ControlsDrained \/ DropProcessedSignal \/ SignalsDrained
  <2>1. /\ pc \in {"iteration", "settle", "apply", "control", "signal"}
        /\ \/ pc' \in {"settle", "apply", "control", "signal", "guard"} /\ UNCHANGED exit
           \/ pc' = "drain" /\ exit' = "error"
        /\ UNCHANGED <<plan, paused, topo>>
    <3>1. CASE BeginIteration
      BY <3>1 DEF BeginIteration, Goto
    <3>2. CASE SettleError
      BY <3>2 DEF SettleError, ExpansionRefused, Leave
    <3>3. CASE \/ SettleWaitEnds \/ PassUnsettled \/ SettleDone \/ DropProcessedControl
               \/ ControlsDrained \/ DropProcessedSignal \/ SignalsDrained
      BY <3>3, Zenon DEF SettleWaitEnds, PassUnsettled, SettleDone, DropProcessedControl,
         ControlsDrained, DropProcessedSignal, SignalsDrained, Goto
    <3>4. QED
      BY <1>1, <3>1, <3>2, <3>3
  <2>2. pc' = "apply" => todo' \subseteq Running'
    BY <1>1, Zenon DEF BeginIteration, SettleWaitEnds, PassUnsettled, SettleError, SettleDone,
       DropProcessedControl, ControlsDrained, DropProcessedSignal, SignalsDrained, Goto, Leave,
       StageInv, Running
  <2>3. QED
    BY <2>1, <2>2 DEF StageInv, Leaving
<1>2. CASE \/ GuardsPassed \/ StayPaused \/ LaunchDone \/ PollNothingNew \/ PollDone
           \/ EndIteration \/ DrainOperations \/ CloseExecution
  <2>1. CASE GuardsPassed \/ StayPaused \/ EndIteration
    <3>1. /\ \/ pc = "guard" /\ pc' \in {"schedule", "iteration"} /\ UNCHANGED exit
             \/ pc = "guard" /\ pc' = "drain" /\ exit' = "continue"
             \/ pc = "polled" /\ pc' \in {"iteration", "finish"} /\ UNCHANGED exit
          /\ UNCHANGED <<plan, paused>>
      BY <2>1 DEF GuardsPassed, StayPaused, EndIteration, Goto, Leave
    <3>2. pc' = "schedule" => ~paused'
      BY <2>1 DEF GuardsPassed, StayPaused, EndIteration, Goto, Leave
    <3>3. pc = "guard" => plan \in {"running", "blocked"}
      BY PlanInPhase DEF Leaving
    <3>4. QED
      BY <3>1, <3>2, <3>3 DEF StageInv, Leaving
  <2>5. CASE DrainOperations \/ CloseExecution
    <3>1. /\ pc \in {"drain", "draining"} /\ UNCHANGED <<plan, paused, exit>>
          /\ pc' \in {"draining", "closed"} \/ (pc' = "start" /\ exit = "continue")
      BY <2>5, Zenon DEF DrainOperations, CloseExecution, Goto
    <3>2. QED
      BY <3>1 DEF StageInv, Leaving
  <2>2. CASE LaunchDone
    <3>1. plan \in {"running", "blocked"}
      BY <2>2, PlanInPhase DEF LaunchDone, Leaving
    <3>2. QED
      BY <2>2, <3>1 DEF LaunchDone, Goto, StageInv, Running, Leaving
  <2>3. CASE PollNothingNew \/ PollDone
    BY <2>3 DEF PollNothingNew, PollDone, Goto, StageInv, Running, Leaving
  <2>4. QED
    BY <1>2, <2>1, <2>2, <2>3, <2>5
<1>3. CASE StartWorkflow
  <2>1. pc' = "iteration" /\ exit' = "none" /\ plan' \in {"running", "blocked"}
    BY <1>3 DEF StartWorkflow, ApplyPlanEvent, LifecycleFor, StageInv
  <2>2. paused' => plan' = "blocked"
    BY <1>3, Zenon DEF StartWorkflow
  <2>3. QED
    BY <2>1, <2>2 DEF StageInv, Leaving
<1>4. CASE FailSetup \/ ExceedIterations \/ ScheduleError \/ FinishIteration \/ ActivityExhausted
           \/ PollError \/ RecordFailure
  BY <1>4, PlanInPhase DEF RecordFailure, FailSetup, ExceedIterations, ScheduleError, FinishIteration, ActivityExhausted,
     PollError, FailIteration, ApplyPlanEvent, LifecycleFor, Leave, Goto, StageInv, Leaving
<1>5. CASE FinishPlan
  <2>1. pc' = "drain" /\ exit' \in {"done", "error"} /\ plan' \in {"succeeded", "failed", "canceled"}
    BY <1>5, TerminalEventType, Pieces DEF FinishPlan, Leave, ApplyPlanEvent, LifecycleFor
  <2>2. QED
    BY <2>1 DEF StageInv
<1>6. ASSUME NEW m \in Messages, CancelPlan(m) \/ RejectPlan(m) PROVE StageInv'
  <2>1. /\ \/ pc' = "drain" /\ exit' # "continue"
           \/ pc' = "failing" /\ UNCHANGED exit
        /\ plan' \in {plan, "failed", "canceled"} /\ pc \in {"control", "signal"}
        /\ UNCHANGED paused
    BY <1>6 DEF CancelPlan, RejectPlan, CancelActive, CancelInterrupted, SignalInvalid,
       FailIteration, ApplyPlanEvent, LifecycleFor, Leave, Goto, ReceiveControl, ReceiveSignal
  <2>2. plan \in {"running", "blocked"}
    BY <2>1, PlanInPhase DEF Leaving
  <2>3. QED
    BY <2>1, <2>2 DEF StageInv, Leaving
<1>7. ASSUME NEW event \in {"failed", "rejected"}, ApplyDeadline(event) PROVE StageInv'
  <2>1. /\ pc' = "drain" /\ exit' # "continue" /\ plan' \in {"failed", plan}
        /\ pc = "guard" /\ UNCHANGED paused
    BY <1>7 DEF ApplyDeadline, CancelActive, CancelInterrupted, ApplyPlanEvent, LifecycleFor, Leave
  <2>2. QED
    BY <2>1 DEF StageInv, Leaving
<1>8. CASE CheckBudgetAfterLaunch
  <2>1. CASE ~Overspent
    <3>1. pc = "launched" /\ pc' = "launch" /\ UNCHANGED <<plan, topo, node, todo, paused, exit>>
      BY <1>8, <2>1 DEF CheckBudgetAfterLaunch, Goto
    <3>2. Decided'
      BY <3>1 DEF StageInv, Decided, TopoEdges
    <3>3. QED
      BY <3>1, <3>2 DEF StageInv, Leaving
  <2>2. CASE CancelActive("failed") /\ Goto("poll") /\ todo' = {}
    <3>1. Running' = {}
      BY <2>2 DEF CancelActive, Running, TypeInv, TypeOK, NodeTypeOK
    <3>2. /\ plan' = "failed" /\ pc = "launched" /\ pc' = "poll" /\ todo' = {}
          /\ UNCHANGED <<exit, paused>>
      BY <1>8, <2>2 DEF CheckBudgetAfterLaunch, CancelActive, ApplyPlanEvent, LifecycleFor, Goto
    <3>3. QED
      BY <3>1, <3>2 DEF StageInv, Leaving
  <2>3. CASE /\ Leave("error")
             /\ UNCHANGED planVars \/ CancelInterrupted("failed")
    <3>1. /\ plan' \in {plan, "failed"} /\ pc = "launched" /\ pc' = "drain" /\ exit' = "error"
          /\ UNCHANGED paused
      BY <1>8, <2>3 DEF CheckBudgetAfterLaunch, CancelInterrupted, ApplyPlanEvent, LifecycleFor,
         Leave
    <3>2. QED
      BY <3>1 DEF StageInv
  <2>4. QED
    BY <1>8, <2>1, <2>2, <2>3, Zenon DEF CheckBudgetAfterLaunch
<1>9. CASE CheckBudgetAfterPoll
  <2>1. /\ plan' \in {plan, "failed"} /\ pc = "polled" /\ pc' = "drain"
        /\ exit' # "continue" /\ UNCHANGED paused
    BY <1>9 DEF CheckBudgetAfterPoll, CancelActive, CancelInterrupted, ApplyPlanEvent,
       LifecycleFor, Leave
  <2>2. QED
    BY <2>1 DEF StageInv
<1>10. ASSUME NEW m \in Messages, PausePlan(m) \/ ResumePlan(m) PROVE StageInv'
  <2>2. pc = "control" /\ UNCHANGED <<pc, exit>>
    BY <1>10 DEF PausePlan, ResumePlan, ReceiveControl
  <2>3. (plan' = "running" /\ ~paused') \/ plan' = "blocked"
    BY <1>10 DEF PausePlan, ResumePlan, ApplyPlanEvent, LifecycleFor
  <2>4. QED
    BY <2>2, <2>3 DEF StageInv, Leaving
<1>11. ASSUME NEW m \in Messages, ApprovePlan(m) \/ ForwardSignal(m) \/ RetryFromSignal(m)
       PROVE  StageInv'
  <2>1. pc = "signal" /\ plan \in {"running", "blocked"}
    BY <1>11, PlanInPhase DEF ApprovePlan, ForwardSignal, RetryFromSignal, ReceiveSignal, Leaving
  <2>2. \/ pc' = "drain" /\ exit' = "error" /\ plan' = "failed"
        \/ UNCHANGED <<pc, exit>> /\ plan' \in {plan, "running"} /\ ~paused'
        \/ UNCHANGED <<pc, exit, plan, paused>>
    BY <1>11 DEF ApprovePlan, ForwardSignal, RetryFromSignal, SignalInvalid, FailIteration, Leave,
       ApplyPlanEvent, LifecycleFor
  <2>3. QED
    BY <2>1, <2>2 DEF StageInv, Leaving
<1>13. CASE ApplySettled
  <2>1. PICK n \in todo : ApplyPromise(n)
    BY <1>13 DEF ApplySettled
  <2>2. pc = "apply" /\ UNCHANGED <<plan, pc, exit, paused>>
    BY <1>13 DEF ApplySettled
  <2>3. todo' \subseteq todo \ {n}
    BY <2>1, Zenon DEF ApplyPromise, ApplyOperationFailure, ApplyRunTerminal
  <2>4. todo' \subseteq Running'
    BY <2>1, <2>2, <2>3, PromiseEnds, EndsKeepsOthersRunning DEF StageInv
  <2>5. QED
    BY <2>2, <2>4 DEF StageInv, Leaving
<1>14. CASE PollNode
  <2>1. PICK n \in todo : TimeOutNode(n) \/ PollPromise(n) \/ PollStatus(n)
    BY <1>14 DEF PollNode
  <2>2. pc = "poll" /\ UNCHANGED <<plan, pc, exit, paused>>
    BY <1>14 DEF PollNode
  <2>3. todo' \subseteq todo \ {n}
    BY <2>1, Zenon DEF TimeOutNode, PollPromise, PollStatus, ApplyPromise, ApplyOperationFailure,
       ApplyRunTerminal
  <2>4. todo' \subseteq Running'
    BY <2>1, <2>2, <2>3, PollEnds, EndsKeepsOthersRunning DEF StageInv
  <2>5. plan \notin TerminalPlan
    BY <2>2 DEF FinalInv
  <2>6. QED
    BY <2>2, <2>4, <2>5 DEF StageInv, Leaving
<1>15. CASE Schedule
  <2>1. Decided' /\ pc = "schedule" /\ pc' = "launch" /\ UNCHANGED <<plan, paused, exit>>
    BY <1>15, ScheduleIsDecided, Zenon DEF Schedule, Goto
  <2>2. QED
    BY <2>1 DEF StageInv, Leaving
<1>16. CASE Launch
  <2>1. pc = "launch" /\ pc' = "launched" /\ UNCHANGED <<plan, paused, exit>>
    BY <1>16 DEF Launch, Goto
  <2>2. Decided'
    BY <1>16, <2>1, LaunchStaysDecided DEF StageInv
  <2>3. QED
    BY <2>1, <2>2 DEF StageInv, Leaving
<1>17. ASSUME \/ ClockStep \/ UNCHANGED vars
              \/ \E k \in Keys : OperationStep(k) \/ EndRun(k)
              \/ \E m \in Messages : Send(m)
       PROVE  UNCHANGED <<plan, topo, node, pc, exit, todo, paused>>
  BY <1>17, Zenon DEF ClockStep, NodeDeadline, PlanDeadline, GateDeadline, vars, OperationStep,
     StartOperation, ResolveOperation, FailOperation, CancelOperation, EndRun, Send
<1>18. CASE UNCHANGED <<plan, topo, node, pc, exit, todo, paused>>
  <2>1. Running' = Running /\ (Decided' <=> Decided)
    BY <1>18, Zenon DEF Running, Decided, TopoEdges
  <2>2. QED
    BY <1>18, <2>1 DEF StageInv
<1>19. CASE WorkflowStep
  BY <1>19, <1>1, <1>2, <1>3, <1>4, <1>5, <1>6, <1>7, <1>8, <1>9, <1>10, <1>11, <1>13,
     <1>14, <1>15, <1>16 DEF WorkflowStep, Deliver
<1>20. QED
  BY <1>17, <1>18, <1>19 DEF Next, Closed

LEMMA StageInvariant == Spec => [](GraphInv /\ ParallelInv /\ StageInv)
<1>1. Init => GraphInv /\ ParallelInv /\ StageInv
  <2> SUFFICES ASSUME Init PROVE GraphInv /\ ParallelInv /\ StageInv
    OBVIOUS
  <2>1. Running = {} /\ pc = "start"
    BY NodesAssumption DEF Init, Running
  <2>2. GraphInv /\ ParallelInv
    BY <2>1, FS_EmptySet, PolicyAssumption DEF Init, GraphInv, ParallelInv, ParallelBound
  <2>3. StageInv
    BY <2>1, Zenon DEF Init, StageInv
  <2>4. QED
    BY <2>2, <2>3
<1>2. TypeInv /\ TypeInv' /\ FinalInv /\ GraphInv /\ ParallelInv /\ StageInv /\ [Next]_vars
        => GraphInv' /\ ParallelInv' /\ StageInv'
  BY NodeFrame, ParallelStep, StageStep
<1>3. QED
  BY <1>1, <1>2, TypeInvariant, FinalInvariant, PTL DEF Spec

\* The workflow, with its phases, promises, polls, budget and deadline guards,
\* expansions, operator controls and signals, refused and interrupted
\* cancelations and continue-as-new, does to a plan only what PlanGraph allows:
\* startReadyPlanNodes starts a node on a decision that still holds, within the
\* capacity, in a plan that is running or, when it is blocked, only after a retry
\* of a node that waited for its next attempt has opened it again.
THEOREM WorkflowImplementsGraph == Spec => ImplementsPlanGraph
<1>1. Init => Graph!Init
  BY DEF Init, Graph!Init
<1>2. TypeInv /\ GraphInv /\ FinalInv /\ StageInv /\ ParallelInv /\ [Next]_vars
        => [Graph!Next]_(Graph!vars)
  BY GraphStep
<1>3. QED
  BY <1>1, <1>2, TypeInvariant, FinalInvariant, StageInvariant, PTL
     DEF Spec, ImplementsPlanGraph, Graph!Spec

-----------------------------------------------------------------------------
(* The runs of a node.                                                     *)

\* No operation fails although its backend works, and the workflow stays one
\* execution: every running node has its promise.
Steady == Options \cap {"opfault", "continue"} = {}

\* The operation may still start the run, or the run is live.
Loose(k) == op[k] = "scheduled" \/ (run[k] = "active" /\ k \notin cancelReq)

Quiet(n) == \A k \in Keys : k[1] = n => ~Loose(k)

\* How operations and runs go together.
OperationsOK ==
    \A k \in Keys : /\ op[k] = "scheduled" => run[k] = "none"
                    /\ op[k] = "done" => RunEnded(k)
                    /\ k \in registry \cup opCancel => op[k] # "none"

\* Only the latest attempt of a node that is not to be started again may be loose.
LiveInv ==
    /\ OperationsOK
    /\ \A k \in Keys : Loose(k) => k = Key(k[1]) /\ node[k[1]] \notin Schedulable

\* In a steady plan a loose run belongs to a running node, whose promise is
\* registered, and none is left when the plan ends without an error.
SteadyInv ==
    /\ exit # "continue"
    /\ \A k \in Keys : Loose(k) => k[1] \in Running
    /\ pc \notin Leaving => \A n \in Running : Key(n) \in registry
    /\ \A k \in Keys : op[k] = "failed" \/ k \in opCancel => ~Loose(k) \/ pc \in Leaving
    /\ pc \in Leaving /\ exit = "done" => \A k \in Keys : ~Loose(k)

RunsInv == LiveInv /\ (Steady => SteadyInv)

\* No operation and no run gets loose.
Calm == \A k \in Keys : Loose(k)' => Loose(k)

\* The node stays as unstartable and, in a steady plan, as running as it was.
Keeps(n) ==
    /\ attempts'[n] = attempts[n]
    /\ node'[n] \in Schedulable => node[n] \in Schedulable
    /\ Steady /\ n \in Running => n \in Running'

\* A step after which the loose runs are where they were.
Careful == Calm /\ \A n \in Nodes : Keeps(n) \/ Quiet(n)'

LEMMA CalmFrame ==
    ASSUME UNCHANGED <<op, run>>, cancelReq \subseteq cancelReq'
    PROVE  Calm
BY DEF Calm, Loose

LEMMA SameNodesKeep ==
    ASSUME UNCHANGED <<attempts, node, topo>>
    PROVE  \A n \in Nodes : Keeps(n)
BY DEF Keeps, Running

LEMMA OtherNodesKeep ==
    ASSUME TypeInv, NEW n \in Nodes, topo \subseteq topo',
           \E s : node' = [node EXCEPT ![n] = s],
           UNCHANGED attempts \/ \E a : attempts' = [attempts EXCEPT ![n] = a]
    PROVE  \A m \in Nodes \ {n} : Keeps(m)
BY DEF Keeps, Running, TypeInv, TypeOK, NodeTypeOK

\* Nothing of a node is loose when its latest run is not.
LEMMA QuietNode ==
    ASSUME LiveInv, Calm, NEW n \in Nodes, \A k \in Keys : k = Key(n) => ~Loose(k)'
    PROVE  Quiet(n)'
<1> SUFFICES ASSUME NEW k \in Keys, k[1] = n, Loose(k)' PROVE FALSE
  BY DEF Quiet
<1>1. Loose(k)
  BY DEF Calm
<1>2. k = Key(n)
  BY <1>1, Zenon DEF LiveInv
<1>3. QED
  BY <1>2

-----------------------------------------------------------------------------
(* Steps that end an attempt.                                              *)

LEMMA EndedIsQuiet ==
    ASSUME LiveInv, Calm, NEW n \in Nodes, RunEnded(Key(n))
    PROVE  Quiet(n)'
<1>1. ASSUME NEW k \in Keys, k = Key(n) PROVE ~Loose(k)'
  BY <1>1 DEF Calm, Loose, LiveInv, OperationsOK, RunEnded
<1>2. QED
  BY <1>1, QuietNode

LEMMA RunTerminalCareful ==
    ASSUME TypeInv, GraphInv, LiveInv, UNCHANGED <<op, run, cancelReq>>,
           NEW n \in todo, RunEnded(Key(n)), ApplyRunTerminal(n)
    PROVE  Careful
<1>1. Calm /\ n \in Nodes
  BY CalmFrame DEF TypeInv, TypeOK, LoopTypeOK
<1>2. Quiet(n)'
  BY <1>1, EndedIsQuiet
<1>3. Settles(n)
  BY RunTerminalSettles
<1>4. UNCHANGED attempts \/ \E a : attempts' = [attempts EXCEPT ![n] = a]
  <2>1. FailAttempt(n) \/ UNCHANGED attempts
    BY Zenon DEF ApplyRunTerminal
  <2>2. QED
    BY <2>1 DEF FailAttempt, RetryNode
<1>5. \A m \in Nodes \ {n} : Keeps(m)
  BY <1>1, <1>3, <1>4, OtherNodesKeep, Zenon DEF Settles
<1>6. QED
  BY <1>1, <1>2, <1>5 DEF Careful

LEMMA FailedNodeCareful ==
    ASSUME TypeInv, NEW n \in Nodes, SetNode(n, "failed"), UNCHANGED <<attempts, topo>>, Calm,
           (Steady /\ n \in Running) => Quiet(n)'
    PROVE  Careful
<1>1. \A m \in Nodes \ {n} : Keeps(m)
  BY OtherNodesKeep, Zenon DEF SetNode
<1>2. node'[n] = "failed" /\ attempts'[n] = attempts[n]
  BY DEF SetNode, TypeInv, TypeOK, NodeTypeOK
<1>3. CASE Steady /\ n \in Running
  BY <1>1, <1>3 DEF Careful
<1>4. CASE ~(Steady /\ n \in Running)
  BY <1>1, <1>2, <1>4, Zenon DEF Careful, Keeps, Schedulable
<1>5. QED
  BY <1>3, <1>4

LEMMA PromiseCareful ==
    ASSUME TypeInv, GraphInv, RunsInv, pc \notin Leaving, UNCHANGED <<op, run, cancelReq>>,
           NEW n \in todo, ApplyPromise(n)
    PROVE  Careful
<1>1. n \in Nodes /\ Calm
  BY CalmFrame DEF TypeInv, TypeOK, LoopTypeOK
<1>2. Key(n) \in Keys
  BY DEF ApplyPromise, TypeInv, TypeOK, RunTypeOK
<1>3. CASE op[Key(n)] = "done" /\ ApplyRunTerminal(n)
  <2>1. RunEnded(Key(n))
    BY <1>2, <1>3, Zenon DEF RunsInv, LiveInv, OperationsOK
  <2>2. QED
    BY <1>3, <2>1, RunTerminalCareful DEF RunsInv
<1>4. CASE ApplyOperationFailure(n)
  <2>1. ASSUME Steady PROVE Quiet(n)'
    <3>1. ASSUME NEW k \in Keys, k = Key(n) PROVE ~Loose(k)'
      BY <1>1, <1>4, <2>1, <3>1, Zenon DEF ApplyOperationFailure, RunsInv, SteadyInv, Calm
    <3>2. QED
      BY <1>1, <3>1, QuietNode DEF RunsInv
  <2>2. QED
    BY <1>1, <1>4, <2>1, FailedNodeCareful DEF ApplyOperationFailure
<1>5. QED
  BY <1>3, <1>4, Zenon DEF ApplyPromise

LEMMA TimeOutCareful ==
    ASSUME TypeInv, LiveInv, UNCHANGED <<op, run>>, NEW n \in Nodes, TimeOutNode(n)
    PROVE  Careful /\ Quiet(n)'
<1>1. Calm
  BY CalmFrame, Zenon DEF TimeOutNode, ControlRuns
<1>2. ASSUME NEW k \in Keys, k = Key(n) PROVE ~Loose(k)'
  <2>1. run[k] # "none" /\ (run[k] = "active" => k \in cancelReq')
    BY <1>2 DEF TimeOutNode, MayAccept, ControlRuns, ActiveRuns
  <2>2. QED
    BY <2>1, Zenon DEF LiveInv, OperationsOK, Loose
<1>3. Quiet(n)'
  BY <1>1, <1>2, QuietNode
<1>4. /\ \E s : node' = [node EXCEPT ![n] = s]
      /\ UNCHANGED attempts \/ \E a : attempts' = [attempts EXCEPT ![n] = a]
  BY Zenon DEF TimeOutNode, FailAttempt, RetryNode, SetNode
<1>5. \A m \in Nodes \ {n} : Keeps(m)
  BY <1>4, OtherNodesKeep, Zenon DEF TimeOutNode
<1>6. QED
  BY <1>1, <1>3, <1>5 DEF Careful

LEMMA PollCareful ==
    ASSUME TypeInv, GraphInv, RunsInv, pc \notin Leaving, UNCHANGED <<op, run>>,
           NEW n \in todo, TimeOutNode(n) \/ PollPromise(n) \/ PollStatus(n)
    PROVE  Careful
<1>1. n \in Nodes
  BY DEF TypeInv, TypeOK, LoopTypeOK
<1>2. CASE TimeOutNode(n)
  BY <1>1, <1>2, TimeOutCareful DEF RunsInv
<1>3. CASE PollPromise(n)
  BY <1>3, PromiseCareful DEF PollPromise
<1>4. CASE PollStatus(n)
  <2>1. Key(n) \notin registry /\ UNCHANGED cancelReq
    BY <1>4, Zenon DEF PollStatus
  <2>2. CASE RunEnded(Key(n)) /\ ApplyRunTerminal(n)
    BY <2>1, <2>2, RunTerminalCareful DEF RunsInv
  <2>3. CASE SetNode(n, "failed") /\ UNCHANGED <<attempts, topo>>
    <3>1. Steady => n \notin Running
      BY <2>1, Zenon DEF RunsInv, SteadyInv
    <3>2. QED
      BY <1>1, <2>1, <2>3, <3>1, CalmFrame, FailedNodeCareful
  <2>4. QED
    BY <1>4, <2>2, <2>3, Zenon DEF PollStatus
<1>5. QED
  BY <1>2, <1>3, <1>4

-----------------------------------------------------------------------------
(* Every other step.                                                       *)

LEMMA CancelCareful ==
    ASSUME TypeInv, RunsInv, NEW event,
           CancelActive(event) \/ CancelInterrupted(event), UNCHANGED <<op, run>>
    PROVE  Careful /\ (Steady => \A k \in Keys : ~Loose(k)')
<1>1. Calm
  BY CalmFrame, Zenon DEF CancelActive, CancelInterrupted, ControlRuns
<1>2. ASSUME Steady, NEW k \in Keys, Loose(k)' PROVE FALSE
  <2>1. Loose(k)
    BY <1>1, <1>2 DEF Calm
  <2>2. k[1] \in Running /\ k = Key(k[1])
    BY <1>2, <2>1, Zenon DEF RunsInv, LiveInv, SteadyInv
  <2>3. run[k] # "none" /\ (run[k] = "active" => k \in cancelReq')
    BY <2>2 DEF CancelActive, CancelInterrupted, MayAccept, ControlRuns, ActiveRuns
  <2>4. QED
    BY <1>2, <2>3, Zenon DEF RunsInv, LiveInv, OperationsOK, Loose
<1>3. ASSUME NEW n \in Nodes PROVE Keeps(n) \/ Quiet(n)'
  <2>1. attempts'[n] = attempts[n] /\ node'[n] \in {node[n], "canceled"}
    BY DEF CancelActive, CancelInterrupted, TypeInv, TypeOK, NodeTypeOK
  <2>2. QED
    BY <1>2, <2>1, Zenon DEF Keeps, Quiet, Schedulable
<1>4. QED
  BY <1>1, <1>2, <1>3 DEF Careful

LEMMA QuietStays ==
    ASSUME Calm, NEW n \in Nodes, Quiet(n)
    PROVE  Quiet(n)'
BY DEF Calm, Quiet

LEMMA RetryCareful ==
    ASSUME Steady, TypeInv, RunsInv, NEW n \in Nodes, node[n] = "failed", RetryNode(n),
           UNCHANGED <<topo, op, run, cancelReq>>
    PROVE  Careful
<1>1. Calm
  BY CalmFrame
<1>2. Quiet(n)'
  BY <1>1, QuietStays, Zenon DEF RunsInv, SteadyInv, Running, Quiet
<1>3. \A m \in Nodes \ {n} : Keeps(m)
  BY OtherNodesKeep, Zenon DEF RetryNode, SetNode
<1>4. QED
  BY <1>1, <1>2, <1>3 DEF Careful

LEMMA NotStartedCareful ==
    ASSUME TypeInv, LiveInv, NEW n \in Nodes, node[n] \in Schedulable,
           InputFails(n) \/ DispatchFails(n), UNCHANGED <<topo, run, cancelReq>>
    PROVE  Careful
<1>1. Calm
  BY CalmFrame DEF InputFails, DispatchFails
<1>2. Quiet(n)'
  BY <1>1, QuietStays, Zenon DEF LiveInv, Quiet
<1>3. /\ \E s : node' = [node EXCEPT ![n] = s]
      /\ UNCHANGED attempts \/ \E a : attempts' = [attempts EXCEPT ![n] = a]
  BY Zenon DEF InputFails, DispatchFails, FailAttempt, RetryNode, SetNode
<1>4. \A m \in Nodes \ {n} : Keeps(m)
  BY <1>3, OtherNodesKeep, Zenon
<1>5. QED
  BY <1>1, <1>2, <1>4 DEF Careful

LEMMA ScheduleCareful ==
    ASSUME TypeInv, Schedule
    PROVE  Careful
<1>1. PICK F \in Conditions :
        node' = [n \in Nodes |-> IF n \in SkippedNodes(topo, TopoEdges, Join, node, F)
                                 THEN "skipped" ELSE node[n]]
  BY Zenon DEF Schedule
<1>2. UNCHANGED <<topo, attempts, op, run, cancelReq>>
  BY Zenon DEF Schedule
<1>3. \A n \in Nodes : node'[n] = node[n] \/ (node'[n] = "skipped" /\ node[n] \in Schedulable)
  BY <1>1, Zenon DEF SkippedNodes
<1>4. \A n \in Nodes : Keeps(n)
  BY <1>2, <1>3, Zenon DEF Keeps, Schedulable, Running, TypeInv, TypeOK, NodeTypeOK
<1>5. QED
  BY <1>2, <1>4, CalmFrame DEF Careful

LEMMA OperationCareful ==
    ASSUME TypeInv, OperationsOK, NEW k \in Keys, OperationStep(k) \/ EndRun(k)
    PROVE  Careful /\ OperationsOK'
<1>1. UNCHANGED <<attempts, node, topo, registry, cancelReq>> /\ opCancel' \subseteq opCancel
  BY Zenon DEF OperationStep, StartOperation, ResolveOperation, FailOperation, CancelOperation, EndRun
<1>2. op \in [Keys -> OpStates] /\ run \in [Keys -> RunStates]
  BY DEF TypeInv, TypeOK, RunTypeOK
<1>3. \A j \in Keys \ {k} : op'[j] = op[j] /\ run'[j] = run[j]
  BY <1>2, Zenon DEF OperationStep, StartOperation, ResolveOperation, FailOperation, CancelOperation, EndRun
<1>4. /\ op'[k] = "scheduled" => op[k] = "scheduled" /\ run'[k] = run[k]
      /\ run'[k] = "active" => run[k] = "active" \/ op[k] = "scheduled"
      /\ op'[k] = "done" => (op[k] = "done" \/ RunEnded(k)) /\ run'[k] = run[k]
      /\ op'[k] = "none" => op[k] = "none"
  <2>1. CASE OperationStep(k)
    BY <1>2, <2>1, Zenon DEF OperationStep, StartOperation, ResolveOperation, FailOperation,
       CancelOperation
  <2>2. CASE EndRun(k)
    BY <1>2, <2>2, Zenon DEF EndRun, OperationsOK, RunEnded
  <2>3. QED
    BY <2>1, <2>2, Zenon
<1>5. Calm
  BY <1>1, <1>3, <1>4, Zenon DEF Calm, Loose
<1>6. OperationsOK'
  BY <1>1, <1>3, <1>4, Zenon DEF OperationsOK, RunEnded
<1>7. QED
  BY <1>1, <1>5, <1>6, SameNodesKeep, Zenon DEF Careful

LEMMA CarefulStep ==
    ASSUME Sends("retry") => Steady, TypeInv, GraphInv, RunsInv, [Next]_vars
    PROVE  \/ Careful /\ OperationsOK'
           \/ \E n \in topo : Launch /\ StartNode(n) /\ node[n] \in Schedulable
<1> DEFINE Goal == Careful /\ OperationsOK'
           SameOps == /\ UNCHANGED <<op, run>>
                      /\ registry' \subseteq registry /\ opCancel' \subseteq opCancel \cup registry
           Same == UNCHANGED <<attempts, node, topo>> /\ cancelReq \subseteq cancelReq' /\ SameOps
<1>1. SameOps => OperationsOK'
  BY Zenon DEF OperationsOK, RunEnded, RunsInv, LiveInv
<1>2. Same => Goal
  BY <1>1, CalmFrame, SameNodesKeep, Zenon DEF Careful
<1>3. CASE \/ StartWorkflow \/ FailSetup \/ ExceedIterations \/ BeginIteration
           \/ SettleWaitEnds \/ PassUnsettled \/ SettleError \/ SettleDone
           \/ DropProcessedControl \/ ControlsDrained
           \/ DropProcessedSignal \/ SignalsDrained
  <2>1. Same
    BY <1>3, Zenon DEF StartWorkflow, FailSetup, ExceedIterations, BeginIteration, SettleWaitEnds,
       PassUnsettled, SettleError, ExpansionRefused, SettleDone, DropProcessedControl,
       ControlsDrained, DropProcessedSignal, SignalsDrained
  <2>2. QED
    BY <1>2, <2>1, Zenon
<1>4. CASE \/ FinishPlan \/ GuardsPassed \/ StayPaused \/ ScheduleError \/ LaunchDone
           \/ PollNothingNew \/ PollError \/ PollDone \/ EndIteration \/ FinishIteration
           \/ DrainOperations \/ CloseExecution \/ ActivityExhausted \/ RecordFailure
  <2>1. Same
    BY <1>4, Zenon DEF FinishPlan, GuardsPassed, StayPaused, ScheduleError, LaunchDone,
       PollNothingNew, PollError, ExpansionRefused, PollDone, EndIteration,
       FinishIteration, DrainOperations, CloseExecution, ActivityExhausted, RecordFailure
  <2>2. QED
    BY <1>2, <2>1, Zenon
<1>5. ASSUME ClockStep \/ UNCHANGED vars \/ \E m \in Messages : Send(m) PROVE Goal
  <2>1. Same
    BY <1>5, Zenon DEF ClockStep, NodeDeadline, PlanDeadline, GateDeadline, vars, Send
  <2>2. QED
    BY <1>2, <2>1, Zenon
<1>6. ASSUME NEW m \in Messages,
             PausePlan(m) \/ ResumePlan(m) \/ ApprovePlan(m) \/ ForwardSignal(m)
      PROVE  Goal
  <2>1. Same
    BY <1>6, Zenon DEF PausePlan, ResumePlan, ApprovePlan, ForwardSignal, SignalInvalid
  <2>2. QED
    BY <1>2, <2>1
<1>7. CASE \/ CheckBudgetAfterLaunch \/ CheckBudgetAfterPoll
           \/ \E m \in Messages : CancelPlan(m) \/ RejectPlan(m)
           \/ \E event \in {"failed", "rejected"} : ApplyDeadline(event)
  <2>1. UNCHANGED <<op, run, registry, opCancel>>
    BY <1>7, Zenon DEF CheckBudgetAfterLaunch, CheckBudgetAfterPoll, CancelPlan, RejectPlan,
       ApplyDeadline
  <2>2. \/ \E event : CancelActive(event) \/ CancelInterrupted(event)
        \/ CancelRefused
        \/ UNCHANGED <<nodeVars, cancelReq>>
    BY <1>7, Zenon DEF CheckBudgetAfterLaunch, CheckBudgetAfterPoll, CancelPlan, RejectPlan,
       ApplyDeadline, SignalInvalid
  <2>3. CASE CancelRefused
    BY <1>2, <2>1, <2>3, Zenon DEF CancelRefused, ControlRuns
  <2>4. QED
    BY <1>1, <1>2, <2>1, <2>2, <2>3, CancelCareful, Zenon
<1>8. ASSUME NEW m \in Messages, RetryFromSignal(m) PROVE Goal
  <2>1. SameOps /\ UNCHANGED <<topo, cancelReq>>
    BY <1>8, Zenon DEF RetryFromSignal, SignalInvalid
  <2>2. Steady /\ m.node \in Nodes
    BY <1>8, MessageAssumption, Zenon DEF RetryFromSignal, Sends
  <2>3. UNCHANGED <<attempts, node>> \/ (MayRetry(m.node) /\ RetryNode(m.node))
    BY <1>8, Zenon DEF RetryFromSignal, SignalInvalid
  <2>4. QED
    BY <1>1, <1>2, <2>1, <2>2, <2>3, RetryCareful, Zenon DEF MayRetry
<1>9. CASE ApplySettled
  <2>1. PICK n \in todo : ApplyPromise(n)
    BY <1>9, Zenon DEF ApplySettled
  <2>2. pc \notin Leaving /\ UNCHANGED <<op, run, cancelReq, opCancel>>
    BY <1>9, Zenon DEF ApplySettled, Leaving
  <2>3. registry' \subseteq registry
    BY <2>1, Zenon DEF ApplyPromise
  <2>4. QED
    BY <1>1, <2>1, <2>2, <2>3, PromiseCareful
<1>10. CASE PollNode
  <2>1. PICK n \in todo : TimeOutNode(n) \/ PollPromise(n) \/ PollStatus(n)
    BY <1>10 DEF PollNode
  <2>2. pc \notin Leaving /\ UNCHANGED <<op, run>>
    BY <1>10 DEF PollNode, Leaving
  <2>3. registry' \subseteq registry /\ opCancel' \subseteq opCancel \cup registry
    BY <2>1, Zenon DEF TimeOutNode, PollPromise, PollStatus, ApplyPromise
  <2>4. QED
    BY <1>1, <2>1, <2>2, <2>3, PollCareful
<1>11. CASE Schedule
  BY <1>1, <1>11, ScheduleCareful, Zenon DEF Schedule
<1>12. CASE Launch
  <2>1. PICK n \in todo : /\ node[n] \in Schedulable
                          /\ StartNode(n) \/ InputFails(n) \/ DispatchFails(n)
    BY <1>12, Zenon DEF Launch
  <2>2. n \in Nodes /\ n \in topo /\ UNCHANGED <<topo, run, cancelReq, opCancel>>
    BY <1>12, Zenon DEF Launch, TypeInv, TypeOK, LoopTypeOK, GraphInv
  <2>3. CASE InputFails(n) \/ DispatchFails(n)
    <3>1. UNCHANGED <<op, registry>>
      BY <2>3 DEF InputFails, DispatchFails
    <3>2. QED
      BY <1>1, <2>1, <2>2, <2>3, <3>1, NotStartedCareful, Zenon DEF RunsInv
  <2>4. QED
    BY <1>12, <2>1, <2>2, <2>3, Zenon
<1>13. ASSUME NEW k \in Keys, OperationStep(k) \/ EndRun(k) PROVE Goal
  BY <1>13, OperationCareful, Zenon DEF RunsInv, LiveInv
<1>14. CASE WorkflowStep
  BY <1>14, <1>3, <1>4, <1>6, <1>7, <1>8, <1>9, <1>10, <1>11, <1>12, Zenon DEF WorkflowStep, Deliver
<1>15. QED
  BY <1>5, <1>13, <1>14, Zenon DEF Next, Closed

LEMMA LiveStep ==
    ASSUME Sends("retry") => Steady, TypeInv, TypeInv', GraphInv, FreshInv, RunsInv, [Next]_vars
    PROVE  LiveInv'
<1>1. CASE Careful /\ OperationsOK'
  <2>1. ASSUME NEW k \in Keys, Loose(k)'
        PROVE  k = Key(k[1])' /\ node'[k[1]] \notin Schedulable
    <3>1. Loose(k) /\ k[1] \in Nodes
      BY <1>1, <2>1, KeyParts DEF Careful, Calm
    <3>2. k = Key(k[1]) /\ node[k[1]] \notin Schedulable
      BY <3>1, Zenon DEF RunsInv, LiveInv
    <3>3. Keeps(k[1])
      BY <1>1, <2>1, <3>1 DEF Careful, Quiet
    <3>4. QED
      BY <3>2, <3>3 DEF Keeps, Key
  <2>2. QED
    BY <1>1, <2>1, Zenon DEF LiveInv
<1>2. ASSUME NEW n \in topo, Launch, StartNode(n), node[n] \in Schedulable
      PROVE  LiveInv'
  <2> DEFINE new == <<n, attempts[n] + 1>>
  <2>1. /\ attempts \in [Nodes -> Nat] /\ op \in [Keys -> OpStates]
        /\ node \in [Nodes -> NodeStates] /\ n \in Nodes
    BY Zenon DEF TypeInv, TypeOK, NodeTypeOK, RunTypeOK
  <2>2. UNCHANGED <<run, cancelReq, opCancel>>
    BY <1>2, Zenon DEF Launch
  <2>3. /\ op' = [op EXCEPT ![new] = "scheduled"] /\ registry' = registry \cup {new}
        /\ node' = [node EXCEPT ![n] = "running"]
        /\ attempts' = [attempts EXCEPT ![n] = @ + 1]
    BY <1>2, Zenon DEF StartNode
  <2>4. new \in Keys => op[new] = "none" /\ run[new] = "none"
    <3>1. new[1] = n /\ new[2] = attempts[n] + 1 /\ ~(attempts[n] + 1 <= attempts[n])
      BY <2>1
    <3>2. QED
      BY <3>1, Zenon DEF FreshInv
  <2>5. OperationsOK'
    BY <2>1, <2>2, <2>3, <2>4, Zenon DEF OperationsOK, RunsInv, LiveInv, RunEnded
  <2>6. ASSUME NEW k \in Keys, Loose(k)'
        PROVE  k = Key(k[1])' /\ node'[k[1]] \notin Schedulable
    <3>1. CASE k = new
      BY <2>1, <2>3, <3>1, Zenon DEF Key, Schedulable
    <3>2. CASE k # new
      <4>1. Loose(k) /\ k[1] \in Nodes
        BY <2>1, <2>2, <2>3, <2>6, <3>2, KeyParts, Zenon DEF Loose
      <4>2. k = Key(k[1]) /\ node[k[1]] \notin Schedulable
        BY <4>1, Zenon DEF RunsInv, LiveInv
      <4>3. k[1] # n
        BY <1>2, <4>2, Zenon
      <4>4. QED
        BY <2>1, <2>3, <4>1, <4>2, <4>3, Zenon DEF Key
    <3>3. QED
      BY <3>1, <3>2, Zenon
  <2>7. QED
    BY <2>5, <2>6, Zenon DEF LiveInv
<1>3. QED
  BY <1>1, <1>2, CarefulStep

\* An execution that leaves does not come back, and leaves quietly only when no
\* node is left or all that run have been told to cancel.
LEMMA ExitStep ==
    ASSUME Steady, exit # "continue", [Next]_vars
    PROVE  /\ exit' # "continue"
           /\ pc \in Leaving => pc' \in Leaving /\ exit' = exit
           /\ pc' \in Leaving /\ exit' = "done" =>
                \/ pc \in Leaving
                \/ FinishPlan
                \/ UNCHANGED <<op, run>> /\ \E event : CancelActive(event)
<1> USE DEF Leaving
<1> DEFINE Goal == /\ exit' # "continue"
                   /\ pc \in Leaving => pc' \in Leaving /\ exit' = exit
                   /\ pc' \in Leaving /\ exit' = "done" =>
                        \/ pc \in Leaving
                        \/ FinishPlan
                        \/ UNCHANGED <<op, run>> /\ \E event : CancelActive(event)
<1>1. CASE \/ StartWorkflow \/ FailSetup \/ ExceedIterations \/ BeginIteration
           \/ SettleWaitEnds \/ ApplySettled \/ PassUnsettled \/ SettleError \/ SettleDone
           \/ DropProcessedControl \/ ControlsDrained
           \/ DropProcessedSignal \/ SignalsDrained
  BY <1>1, Zenon DEF StartWorkflow, FailSetup, ExceedIterations, BeginIteration, SettleWaitEnds,
     ApplySettled, PassUnsettled, SettleError, SettleDone, DropProcessedControl,
     ControlsDrained, DropProcessedSignal, SignalsDrained, FailIteration, Leave, Goto
<1>2. CASE \/ GuardsPassed \/ StayPaused \/ Schedule \/ ScheduleError \/ Launch \/ LaunchDone
  BY <1>2, Zenon DEF GuardsPassed, StayPaused, Schedule, ScheduleError, Launch, LaunchDone,
     FailIteration, Leave, Goto, Steady
<1>3. CASE \/ PollNode \/ PollNothingNew \/ PollError \/ PollDone \/ EndIteration
           \/ FinishIteration \/ DrainOperations \/ CloseExecution \/ ActivityExhausted
           \/ RecordFailure
  BY <1>3, Zenon DEF RecordFailure, PollNode, PollNothingNew, PollError, PollDone, EndIteration, FinishIteration,
     DrainOperations, CloseExecution, ActivityExhausted, FailIteration, Leave, Goto, Steady
<1>4. CASE FinishPlan
  BY <1>4, Zenon DEF FinishPlan, Leave
<1>5. CASE CheckBudgetAfterLaunch \/ CheckBudgetAfterPoll
  BY <1>5, Zenon DEF CheckBudgetAfterLaunch, CheckBudgetAfterPoll, Leave, Goto
<1>6. ASSUME NEW m \in Messages, CancelPlan(m) \/ RejectPlan(m) PROVE Goal
  BY <1>6, Zenon DEF CancelPlan, RejectPlan, ReceiveControl, ReceiveSignal, SignalInvalid,
     FailIteration, Leave, Goto
<1>7. ASSUME NEW m \in Messages,
             \/ PausePlan(m) \/ ResumePlan(m) \/ ApprovePlan(m) \/ ForwardSignal(m)
             \/ RetryFromSignal(m)
      PROVE  Goal
  BY <1>7, Zenon DEF PausePlan, ResumePlan, ApprovePlan, ForwardSignal, RetryFromSignal,
     ReceiveControl, ReceiveSignal, SignalInvalid, FailIteration, Leave
<1>8. ASSUME NEW event \in {"failed", "rejected"}, ApplyDeadline(event) PROVE Goal
  BY <1>8, Zenon DEF ApplyDeadline, Leave
<1>9. ASSUME \/ ClockStep \/ UNCHANGED vars
             \/ \E k \in Keys : OperationStep(k) \/ EndRun(k)
             \/ \E m \in Messages : Send(m)
      PROVE  UNCHANGED <<pc, exit>>
  BY <1>9, Zenon DEF ClockStep, NodeDeadline, PlanDeadline, GateDeadline, vars, OperationStep,
     StartOperation, ResolveOperation, FailOperation, CancelOperation, EndRun, Send
<1>10. CASE WorkflowStep
  BY <1>10, <1>1, <1>2, <1>3, <1>4, <1>5, <1>6, <1>7, <1>8, Zenon DEF WorkflowStep, Deliver
<1>11. QED
  BY <1>9, <1>10, Zenon DEF Next, Closed

\* The promises of the running nodes stay registered.
LEMMA RegistryStep ==
    ASSUME TypeInv, GraphInv, \A n \in Running : Key(n) \in registry, [Next]_vars,
           pc \notin Leaving, pc' \notin Leaving
    PROVE  \A n \in Running' : Key(n)' \in registry'
<1> DEFINE Goal == \A n \in Running' : Key(n)' \in registry'
           Same == UNCHANGED <<topo, node, attempts, registry>>
<1>1. Same => Goal
  BY Zenon DEF Running, Key
<1>2. CASE \/ StartWorkflow \/ FailSetup \/ ExceedIterations \/ BeginIteration
           \/ SettleWaitEnds \/ PassUnsettled \/ SettleDone
           \/ DropProcessedControl \/ ControlsDrained
           \/ DropProcessedSignal \/ SignalsDrained
  BY <1>1, <1>2, Zenon DEF StartWorkflow, FailSetup, ExceedIterations, BeginIteration, SettleWaitEnds,
     PassUnsettled, SettleDone, DropProcessedControl, ControlsDrained, DropProcessedSignal,
     SignalsDrained
<1>3. CASE \/ FinishPlan \/ GuardsPassed \/ StayPaused \/ ScheduleError \/ LaunchDone
           \/ PollNothingNew \/ PollDone \/ EndIteration \/ FinishIteration
           \/ ActivityExhausted \/ RecordFailure
  BY <1>1, <1>3, Zenon DEF RecordFailure, FinishPlan, GuardsPassed, StayPaused, ScheduleError, LaunchDone,
     PollNothingNew, PollDone, EndIteration, FinishIteration, ActivityExhausted
<1>4. CASE SettleError \/ PollError \/ DrainOperations \/ CloseExecution
  BY <1>4, Zenon DEF SettleError, PollError, FailIteration, Leave, DrainOperations, CloseExecution,
     Leaving
<1>5. ASSUME NEW m \in Messages,
             PausePlan(m) \/ ResumePlan(m) \/ ApprovePlan(m) \/ ForwardSignal(m)
      PROVE  Same
  BY <1>5, Zenon DEF PausePlan, ResumePlan, ApprovePlan, ForwardSignal, SignalInvalid
<1>6. ASSUME \/ ClockStep \/ UNCHANGED vars
             \/ \E k \in Keys : OperationStep(k) \/ EndRun(k)
             \/ \E m \in Messages : Send(m)
      PROVE  Same
  BY <1>6, Zenon DEF ClockStep, NodeDeadline, PlanDeadline, GateDeadline, vars, OperationStep,
     StartOperation, ResolveOperation, FailOperation, CancelOperation, EndRun, Send
<1>7. CASE \/ CheckBudgetAfterLaunch \/ CheckBudgetAfterPoll
           \/ \E m \in Messages : CancelPlan(m) \/ RejectPlan(m)
           \/ \E event \in {"failed", "rejected"} : ApplyDeadline(event)
  <2>1. UNCHANGED registry
    BY <1>7, Zenon DEF CheckBudgetAfterLaunch, CheckBudgetAfterPoll, CancelPlan, RejectPlan,
       ApplyDeadline
  <2>2. UNCHANGED nodeVars \/ \E event : CancelActive(event) \/ CancelInterrupted(event)
    BY <1>7, Zenon DEF CheckBudgetAfterLaunch, CheckBudgetAfterPoll, CancelPlan, RejectPlan,
       ApplyDeadline, SignalInvalid, CancelRefused
  <2>3. ASSUME NEW event, CancelActive(event) \/ CancelInterrupted(event)
        PROVE  Running' \subseteq Running /\ UNCHANGED attempts
    BY <2>3, Zenon DEF CancelActive, CancelInterrupted, Running, TypeInv, TypeOK, NodeTypeOK
  <2>4. QED
    BY <1>1, <2>1, <2>2, <2>3, Zenon DEF Key
<1>8. ASSUME NEW m \in Messages, RetryFromSignal(m) PROVE Goal
  <2>1. UNCHANGED <<registry, topo>>
    BY <1>8, Zenon DEF RetryFromSignal, SignalInvalid
  <2>2. UNCHANGED <<attempts, node>> \/ RetryNode(m.node)
    BY <1>8, Zenon DEF RetryFromSignal, SignalInvalid
  <2>3. CASE RetryNode(m.node)
    BY <2>1, <2>3, MessageAssumption, Zenon DEF RetryNode, SetNode, Running, Key, TypeInv, TypeOK,
       NodeTypeOK
  <2>4. QED
    BY <1>1, <2>1, <2>2, <2>3, Zenon
<1>9. ASSUME NEW n \in todo, Settles(n), registry \ {Key(n)} \subseteq registry',
             UNCHANGED attempts \/ \E a : attempts' = [attempts EXCEPT ![n] = a]
      PROVE  Goal
  <2>1. n \in Nodes
    BY DEF TypeInv, TypeOK, LoopTypeOK
  <2>2. Running' \subseteq Running
    BY <1>9, <2>1, SettlesGraph
  <2>3. n \notin Running'
    BY <1>9, <2>1, Zenon DEF Settles, Running, TypeInv, TypeOK, NodeTypeOK
  <2>4. \A m \in Nodes \ {n} : attempts'[m] = attempts[m]
    BY <1>9, <2>1, Zenon DEF TypeInv, TypeOK, NodeTypeOK
  <2>5. Running \subseteq Nodes
    BY DEF Running, TypeInv, TypeOK, NodeTypeOK
  <2>6. QED
    BY <1>9, <2>2, <2>3, <2>4, <2>5, Zenon DEF Key
<1>10. CASE ApplySettled
  <2>1. PICK n \in todo : ApplyPromise(n)
    BY <1>10, Zenon DEF ApplySettled
  <2>2. UNCHANGED attempts \/ \E a : attempts' = [attempts EXCEPT ![n] = a]
    <3>1. FailAttempt(n) \/ UNCHANGED attempts
      BY <2>1, Zenon DEF ApplyPromise, ApplyOperationFailure, ApplyRunTerminal
    <3>2. QED
      BY <3>1 DEF FailAttempt, RetryNode
  <2>3. QED
    BY <1>9, <2>1, <2>2, PromiseSettles, Zenon DEF ApplyPromise
<1>11. CASE PollNode
  <2>1. PICK n \in todo : TimeOutNode(n) \/ PollPromise(n) \/ PollStatus(n)
    BY <1>11, Zenon DEF PollNode
  <2>2. n \in Nodes /\ n \in topo
    BY Zenon DEF TypeInv, TypeOK, LoopTypeOK, GraphInv
  <2>3. ASSUME TimeOutNode(n) PROVE Settles(n)
    BY <2>2, <2>3, FailAttemptSettles, Zenon DEF TimeOutNode, Settles, TypeInv, TypeOK, NodeTypeOK
  <2>4. ASSUME PollPromise(n) PROVE Settles(n)
    BY <2>4, PromiseSettles DEF PollPromise
  <2>5. ASSUME PollStatus(n) PROVE Settles(n)
    BY <2>2, <2>5, RunTerminalSettles, Zenon DEF PollStatus, SetNode, Settles, TypeInv, TypeOK,
       NodeTypeOK, NodeStates, TerminalNode
  <2>6. registry \ {Key(n)} \subseteq registry'
    BY <2>1, Zenon DEF TimeOutNode, PollPromise, PollStatus, ApplyPromise
  <2>7. UNCHANGED attempts \/ \E a : attempts' = [attempts EXCEPT ![n] = a]
    <3>1. FailAttempt(n) \/ UNCHANGED attempts
      BY <2>1, Zenon DEF TimeOutNode, PollPromise, PollStatus, ApplyPromise,
         ApplyOperationFailure, ApplyRunTerminal
    <3>2. QED
      BY <3>1 DEF FailAttempt, RetryNode
  <2>8. QED
    BY <1>9, <2>1, <2>3, <2>4, <2>5, <2>6, <2>7, Zenon
<1>12. CASE Schedule
  <2>1. PICK F \in Conditions :
          node' = [n \in Nodes |-> IF n \in SkippedNodes(topo, TopoEdges, Join, node, F)
                                   THEN "skipped" ELSE node[n]]
    BY <1>12, Zenon DEF Schedule
  <2>2. UNCHANGED <<topo, attempts, registry>>
    BY <1>12, Zenon DEF Schedule
  <2>3. Running' \subseteq Running
    BY <2>1, <2>2, Zenon DEF Running, TypeInv, TypeOK, NodeTypeOK
  <2>4. QED
    BY <2>2, <2>3 DEF Key
<1>13. CASE Launch
  <2>1. PICK n \in todo : /\ StartNode(n) \/ InputFails(n) \/ DispatchFails(n)
                          /\ todo' = todo \ {n}
    BY <1>13, Zenon DEF Launch
  <2>2. n \in Nodes /\ n \in topo /\ UNCHANGED topo
    BY <1>13, Zenon DEF Launch, TypeInv, TypeOK, LoopTypeOK, GraphInv
  <2>3. CASE StartNode(n)
    <3>1. ASSUME NEW m \in Running' PROVE Key(m)' \in registry'
      <4>1. m \in Nodes
        BY <2>2, <3>1 DEF Running, TypeInv, TypeOK, NodeTypeOK
      <4>2. CASE m = n
        BY <2>2, <2>3, <4>2, Zenon DEF StartNode, Key, TypeInv, TypeOK, NodeTypeOK
      <4>3. CASE m # n
        BY <2>2, <2>3, <3>1, <4>1, <4>3, Zenon DEF StartNode, Running, Key, TypeInv, TypeOK, NodeTypeOK
      <4>4. QED
        BY <4>2, <4>3
    <3>2. QED
      BY <3>1
  <2>4. CASE InputFails(n) \/ DispatchFails(n)
    <3>1. Settles(n)
      BY <2>1, <2>2, <2>4, FailAttemptSettles, Zenon DEF InputFails, DispatchFails, SetNode,
         Settles, TypeInv, TypeOK, NodeTypeOK, NodeStates, TerminalNode
    <3>2. /\ UNCHANGED registry
          /\ UNCHANGED attempts \/ \E a : attempts' = [attempts EXCEPT ![n] = a]
      BY <2>4 DEF InputFails, DispatchFails, FailAttempt, RetryNode
    <3>3. QED
      BY <1>9, <3>1, <3>2
  <2>5. QED
    BY <2>1, <2>3, <2>4, Zenon
<1>14. CASE WorkflowStep
  BY <1>14, <1>1, <1>2, <1>3, <1>4, <1>5, <1>7, <1>8, <1>10, <1>11, <1>12, <1>13, Zenon
     DEF WorkflowStep, Deliver
<1>15. QED
  BY <1>1, <1>6, <1>14, Zenon DEF Next, Closed

\* In a steady plan an operation fails only when it was canceled, and it is
\* canceled only when its node timed out or the execution leaves.
LEMMA CancelationStep ==
    ASSUME Steady, TypeInv, [Next]_vars, NEW k \in Keys
    PROVE  /\ op'[k] = "failed" => op[k] = "failed" \/ k \in opCancel
           /\ k \in opCancel' =>
                \/ k \in opCancel
                \/ pc' \in Leaving
                \/ \E n \in Nodes : UNCHANGED <<op, run>> /\ TimeOutNode(n) /\ k = Key(n)
<1> DEFINE Goal == /\ op'[k] = "failed" => op[k] = "failed" \/ k \in opCancel
                   /\ k \in opCancel' =>
                        \/ k \in opCancel
                        \/ pc' \in Leaving
                        \/ \E n \in Nodes : UNCHANGED <<op, run>> /\ TimeOutNode(n) /\ k = Key(n)
           Same == UNCHANGED <<op, opCancel>>
<1>1. CASE \/ StartWorkflow \/ FailSetup \/ ExceedIterations \/ BeginIteration
           \/ SettleWaitEnds \/ ApplySettled \/ PassUnsettled \/ SettleError \/ SettleDone
           \/ DropProcessedControl \/ ControlsDrained
           \/ DropProcessedSignal \/ SignalsDrained
  BY <1>1, Zenon DEF StartWorkflow, FailSetup, ExceedIterations, BeginIteration, SettleWaitEnds,
     ApplySettled, PassUnsettled, SettleError, SettleDone, DropProcessedControl,
     ControlsDrained, DropProcessedSignal, SignalsDrained
<1>2. CASE \/ FinishPlan \/ GuardsPassed \/ StayPaused \/ Schedule \/ ScheduleError
           \/ CheckBudgetAfterLaunch \/ LaunchDone \/ PollNothingNew \/ PollError \/ PollDone
           \/ CheckBudgetAfterPoll \/ EndIteration \/ FinishIteration \/ ActivityExhausted
           \/ RecordFailure
  BY <1>2, Zenon DEF FinishPlan, GuardsPassed, StayPaused, Schedule, ScheduleError,
     CheckBudgetAfterLaunch, LaunchDone, PollNothingNew, PollError, PollDone,
     CheckBudgetAfterPoll, EndIteration, FinishIteration, ActivityExhausted, RecordFailure
<1>3. CASE DrainOperations \/ CloseExecution
  BY <1>3, Zenon DEF DrainOperations, CloseExecution, Goto, Leaving
<1>4. ASSUME NEW m \in Messages, Deliver(m) \/ Send(m) PROVE Same
  BY <1>4, Zenon DEF Deliver, CancelPlan, PausePlan, ResumePlan, ApprovePlan, RejectPlan,
     RetryFromSignal, ForwardSignal, Send
<1>5. ASSUME NEW event \in {"failed", "rejected"}, ApplyDeadline(event) PROVE Same
  BY <1>5 DEF ApplyDeadline
<1>6. ASSUME ClockStep \/ UNCHANGED vars PROVE Same
  BY <1>6, Zenon DEF ClockStep, NodeDeadline, PlanDeadline, GateDeadline, vars
<1>7. CASE PollNode
  <2>1. PICK n \in Nodes : TimeOutNode(n) \/ PollPromise(n) \/ PollStatus(n)
    BY <1>7, Zenon DEF PollNode, TypeInv, TypeOK, LoopTypeOK
  <2>2. UNCHANGED <<op, run>>
    BY <1>7, Zenon DEF PollNode
  <2>3. CASE TimeOutNode(n)
    <3>1. opCancel' \subseteq opCancel \cup {Key(n)}
      BY <2>3 DEF TimeOutNode
    <3>2. QED
      BY <2>2, <2>3, <3>1
  <2>4. CASE PollPromise(n) \/ PollStatus(n)
    BY <2>2, <2>4, Zenon DEF PollPromise, PollStatus
  <2>5. QED
    BY <2>1, <2>3, <2>4, Zenon
<1>8. CASE Launch
  <2>1. UNCHANGED opCancel /\ \E n \in todo : StartNode(n) \/ UNCHANGED op
    BY <1>8, Zenon DEF Launch, InputFails, DispatchFails
  <2>2. op'[k] = op[k] \/ op'[k] = "scheduled"
    BY <2>1, Zenon DEF StartNode, TypeInv, TypeOK, RunTypeOK
  <2>3. QED
    BY <2>1, <2>2
<1>9. ASSUME NEW j \in Keys, OperationStep(j) \/ EndRun(j) PROVE Goal
  <2>1. opCancel' \subseteq opCancel
    BY <1>9, Zenon DEF OperationStep, StartOperation, ResolveOperation, FailOperation,
       CancelOperation, EndRun
  <2>2. op'[k] = "failed" => op[k] = "failed" \/ k \in opCancel
    BY <1>9, Zenon DEF OperationStep, StartOperation, ResolveOperation, FailOperation,
       CancelOperation, EndRun, Steady, TypeInv, TypeOK, RunTypeOK
  <2>3. QED
    BY <2>1, <2>2
<1>10. CASE WorkflowStep
  BY <1>10, <1>1, <1>2, <1>3, <1>4, <1>5, <1>7, <1>8, Zenon DEF WorkflowStep
<1>11. QED
  BY <1>4, <1>6, <1>9, <1>10, Zenon DEF Next, Closed

LEMMA SteadyStep ==
    ASSUME Steady, TypeInv, TypeInv', GraphInv, FreshInv, RunsInv, [Next]_vars
    PROVE  SteadyInv'
<1>0. SteadyInv /\ LiveInv
  BY DEF RunsInv
<1>1. /\ exit' # "continue"
      /\ pc \in Leaving => pc' \in Leaving /\ exit' = exit
      /\ pc' \in Leaving /\ exit' = "done" =>
           \/ pc \in Leaving
           \/ FinishPlan
           \/ UNCHANGED <<op, run>> /\ \E event : CancelActive(event)
  BY <1>0, ExitStep, Zenon DEF SteadyInv
<1>2. pc' \notin Leaving => \A n \in Running' : Key(n)' \in registry'
  BY <1>0, <1>1, RegistryStep, Zenon DEF SteadyInv
<1>3. CASE Careful
  <2>1. ASSUME NEW k \in Keys, Loose(k)' PROVE k[1] \in Running'
    <3>1. Loose(k) /\ k[1] \in Nodes
      BY <1>3, <2>1, KeyParts DEF Careful, Calm
    <3>2. QED
      BY <1>0, <1>3, <2>1, <3>1, Zenon DEF SteadyInv, Careful, Quiet, Keeps
  <2>2. ASSUME NEW k \in Keys, Loose(k)', pc' \notin Leaving
        PROVE  op'[k] # "failed" /\ k \notin opCancel'
    <3>1. Loose(k) /\ pc \notin Leaving
      BY <1>1, <1>3, <2>2 DEF Careful, Calm
    <3>2. op[k] # "failed" /\ k \notin opCancel
      BY <1>0, <3>1, Zenon DEF SteadyInv
    <3>3. ASSUME NEW n \in Nodes, UNCHANGED <<op, run>>, TimeOutNode(n), k = Key(n) PROVE FALSE
      <4>1. Quiet(n)' /\ k[1] = n
        BY <1>0, <3>3, TimeOutCareful DEF Key
      <4>2. QED
        BY <2>2, <4>1 DEF Quiet
    <3>4. QED
      BY <2>2, <3>2, <3>3, CancelationStep, Zenon
  <2>3. ASSUME pc' \in Leaving, exit' = "done", NEW k \in Keys PROVE ~Loose(k)'
    <3>1. CASE pc \in Leaving
      BY <1>0, <1>1, <1>3, <2>3, <3>1, Zenon DEF SteadyInv, Careful, Calm
    <3>2. CASE FinishPlan
      <4>1. Running = {}
        BY <3>2, Zenon DEF FinishPlan, NodesTerminal, Running, TerminalNode
      <4>2. QED
        BY <1>0, <1>3, <4>1, Zenon DEF SteadyInv, Careful, Calm
    <3>3. CASE UNCHANGED <<op, run>> /\ \E event : CancelActive(event)
      BY <3>3, CancelCareful
    <3>4. QED
      BY <1>1, <2>3, <3>1, <3>2, <3>3
  <2>4. QED
    BY <1>1, <1>2, <2>1, <2>2, <2>3, Zenon DEF SteadyInv
<1>4. ASSUME NEW n \in topo, Launch, StartNode(n), node[n] \in Schedulable
      PROVE  SteadyInv'
  <2> DEFINE new == <<n, attempts[n] + 1>>
  <2>1. /\ attempts \in [Nodes -> Nat] /\ op \in [Keys -> OpStates]
        /\ node \in [Nodes -> NodeStates] /\ n \in Nodes
    BY Zenon DEF TypeInv, TypeOK, NodeTypeOK, RunTypeOK
  <2>2. UNCHANGED <<run, cancelReq, opCancel, topo>> /\ pc = "launch" /\ pc' = "launched"
    BY <1>4, Zenon DEF Launch, Goto
  <2>3. op' = [op EXCEPT ![new] = "scheduled"] /\ node' = [node EXCEPT ![n] = "running"]
    BY <1>4, Zenon DEF StartNode
  <2>4. new \in Keys => op[new] = "none"
    <3>1. new[1] = n /\ new[2] = attempts[n] + 1 /\ ~(attempts[n] + 1 <= attempts[n])
      BY <2>1
    <3>2. QED
      BY <3>1, Zenon DEF FreshInv
  <2>5. ASSUME NEW k \in Keys, Loose(k)'
        PROVE  k[1] \in Running' /\ op'[k] # "failed" /\ k \notin opCancel'
    <3>1. CASE k = new
      BY <1>0, <2>1, <2>2, <2>3, <2>4, <3>1, Zenon DEF Running, LiveInv, OperationsOK
    <3>2. CASE k # new
      <4>1. Loose(k) /\ op'[k] = op[k]
        BY <2>1, <2>2, <2>3, <2>5, <3>2, Zenon DEF Loose
      <4>2. k[1] \in Running /\ op[k] # "failed" /\ k \notin opCancel
        BY <1>0, <2>2, <4>1, Zenon DEF SteadyInv, Leaving
      <4>3. k[1] \in Running'
        BY <2>1, <2>2, <2>3, <4>2, Zenon DEF Running, TypeInv, TypeOK, NodeTypeOK
      <4>4. QED
        BY <2>2, <4>1, <4>2, <4>3
    <3>3. QED
      BY <3>1, <3>2, Zenon
  <2>6. QED
    BY <1>1, <1>2, <2>2, <2>5, Zenon DEF SteadyInv, Leaving
<1>5. QED
  BY <1>3, <1>4, CarefulStep

LEMMA RunsInvariant ==
    ASSUME Sends("retry") => Steady
    PROVE  Spec => []RunsInv
<1>1. Init => GraphInv /\ FreshInv /\ RunsInv
  <2> SUFFICES ASSUME Init PROVE GraphInv /\ FreshInv /\ RunsInv
    OBVIOUS
  <2>1. \A k \in Keys : op[k] = "none" /\ run[k] = "none" /\ ~Loose(k)
    BY DEF Init, Loose
  <2>2. Running = {} /\ registry = {} /\ opCancel = {} /\ pc = "start" /\ exit = "none"
    BY NodesAssumption, Zenon DEF Init, Running
  <2>3. GraphInv /\ FreshInv
    BY <2>1 DEF Init, GraphInv, FreshInv
  <2>4. RunsInv
    BY <2>1, <2>2, Zenon DEF RunsInv, LiveInv, OperationsOK, SteadyInv, Leaving
  <2>5. QED
    BY <2>3, <2>4
<1>2. TypeInv /\ TypeInv' /\ GraphInv /\ FreshInv /\ RunsInv /\ [Next]_vars
        => GraphInv' /\ FreshInv' /\ RunsInv'
  BY NodeFrame, FreshInvStep, LiveStep, SteadyStep DEF RunsInv
<1>3. QED
  BY <1>1, <1>2, TypeInvariant, PTL DEF Spec

\* Two attempts of a node never run side by side untold: timeouts, retries and
\* promises that arrive late start the next attempt only when the run of the
\* last one has ended or was told to cancel.  A manual retry asks nobody about
\* the run of the failed attempt: with manual retries the promise needs a plan
\* whose operations fail only when they are canceled.
THEOREM AttemptsRunAlone ==
    ASSUME Sends("retry") => Steady
    PROVE  Spec => []OneLiveRun
<1>1. RunsInv => OneLiveRun
  <2> SUFFICES ASSUME RunsInv, NEW j \in LiveRuns, NEW k \in LiveRuns, j[1] = k[1] PROVE j = k
    BY DEF OneLiveRun
  <2>1. j \in Keys /\ k \in Keys /\ Loose(j) /\ Loose(k)
    BY DEF LiveRuns, Loose
  <2>2. j = Key(j[1]) /\ k = Key(k[1])
    BY <2>1 DEF RunsInv, LiveInv
  <2>3. QED
    BY <2>2
<1>2. QED
  BY <1>1, RunsInvariant, PTL

\* A plan that ends without an error, by finishing, by a cancel, a reject, a
\* deadline or the budget, leaves no run behind that was not told to stop:
\* cancelActivePlanNodesAndFail reaches every run that could still be live.
THEOREM QuietEnd ==
    ASSUME Steady
    PROVE  Spec => []QuietClose
<1>1. RunsInv => QuietClose
  BY DEF RunsInv, SteadyInv, QuietClose, LiveRuns, Loose, Leaving
<1>2. QED
  BY <1>1, RunsInvariant, PTL

-----------------------------------------------------------------------------
(* An execution that ends leaves a terminal plan.                          *)

\* The paths on which an error is returned without a plan event: an exhausted
\* activity, a control refused to a deadline or to the budget guard, and an
\* expansion refused while promises are settled.
Recorded ==
    /\ Options \cap {"fault", "deadline", "approval"} = {}
    /\ Budget = 0
    /\ \A n \in Nodes : Delta[n] = {}

EndInv ==
    /\ Recorded => ~planExpired /\ ~gateExpired
    /\ pc = "closed" => exit # "continue"
    /\ pc \in Leaving =>
         \/ plan \in TerminalPlan
         \/ exit = "continue"
         \/ exit = "error" /\ ~Recorded

LEMMA EndStep ==
    ASSUME TypeInv, FinalInv, EndInv, [Next]_vars
    PROVE  EndInv'
<1> USE DEF TerminalPlan, Leaving
<1> DEFINE Same == UNCHANGED <<plan, pc, exit, planExpired, gateExpired>>
<1>1. CASE \/ StartWorkflow \/ FailSetup \/ ExceedIterations \/ BeginIteration
           \/ SettleWaitEnds \/ ApplySettled \/ PassUnsettled \/ SettleDone
           \/ DropProcessedControl \/ ControlsDrained
           \/ DropProcessedSignal \/ SignalsDrained
  BY <1>1 DEF StartWorkflow, FailSetup, ExceedIterations, BeginIteration, SettleWaitEnds,
     ApplySettled, PassUnsettled, SettleDone, DropProcessedControl,
     ControlsDrained, DropProcessedSignal, SignalsDrained, FailIteration, Leave, Goto,
     ApplyPlanEvent, LifecycleFor, EndInv, Recorded
<1>2. CASE SettleError
  <2>1. ~Recorded
    BY <1>2, Zenon DEF SettleError, ExpansionRefused, Recorded, TypeInv, TypeOK, LoopTypeOK
  <2>2. QED
    BY <1>2, <2>1, Zenon DEF SettleError, Leave, EndInv
<1>3. ASSUME NEW m \in Messages, Deliver(m) PROVE EndInv'
  <2>1. CASE CancelPlan(m) \/ RejectPlan(m)
    <3>1. UNCHANGED <<planExpired, gateExpired>> \/ (UNCHANGED planExpired /\ ~gateExpired')
      BY <2>1 DEF CancelPlan, RejectPlan, SignalInvalid, CancelActive, CancelInterrupted,
         FailIteration, ApplyPlanEvent
    <3>2. pc' = "failing" \/ (pc' = "drain" /\ plan' \in TerminalPlan)
      BY <2>1 DEF CancelPlan, RejectPlan, SignalInvalid, CancelActive, FailIteration, Leave, Goto,
         ApplyPlanEvent, LifecycleFor
    <3>3. QED
      BY <3>1, <3>2 DEF EndInv
  <2>2. CASE PausePlan(m) \/ ResumePlan(m)
    BY <2>2 DEF PausePlan, ResumePlan, ReceiveControl, ApplyPlanEvent, EndInv
  <2>3. CASE ApprovePlan(m) \/ ForwardSignal(m) \/ RetryFromSignal(m)
    BY <2>3 DEF ApprovePlan, ForwardSignal, RetryFromSignal, ReceiveSignal, SignalInvalid,
       FailIteration, Leave, ApplyPlanEvent, LifecycleFor, EndInv
  <2>4. QED
    BY <1>3, <2>1, <2>2, <2>3 DEF Deliver
<1>4. ASSUME NEW event \in {"failed", "rejected"}, ApplyDeadline(event) PROVE EndInv'
  BY <1>4 DEF ApplyDeadline, DeadlineReached, CancelActive, CancelInterrupted, ApplyPlanEvent, LifecycleFor,
     Leave, EndInv
<1>5. CASE FinishPlan
  <2>1. TerminalEvent \in TerminalPlan
    BY TerminalEventType DEF TypeInv, NodeInv, TypeOK
  <2>2. QED
    BY <1>5, <2>1 DEF FinishPlan, ApplyPlanEvent, LifecycleFor, Leave, EndInv
<1>6. CASE \/ GuardsPassed \/ StayPaused \/ Schedule \/ ScheduleError \/ Launch
           \/ LaunchDone \/ PollDone \/ EndIteration \/ FinishIteration
  BY <1>6 DEF GuardsPassed, StayPaused, Schedule, ScheduleError, Launch, LaunchDone,
     PollDone, EndIteration, FinishIteration, FailIteration, ApplyPlanEvent,
     LifecycleFor, Leave, Goto, EndInv
<1>7. CASE CheckBudgetAfterLaunch \/ CheckBudgetAfterPoll
  BY <1>7 DEF CheckBudgetAfterLaunch, CheckBudgetAfterPoll, CancelActive, CancelInterrupted, ApplyPlanEvent,
     LifecycleFor, Leave, Goto, EndInv, Overspent, Recorded
<1>8. CASE PollNode \/ PollNothingNew \/ PollError
  BY <1>8 DEF PollNode, PollNothingNew, PollError, FailIteration, ApplyPlanEvent,
     LifecycleFor, Leave, EndInv
<1>9. CASE DrainOperations \/ CloseExecution \/ ActivityExhausted \/ RecordFailure
  BY <1>9 DEF RecordFailure, DrainOperations, CloseExecution, ActivityExhausted, FailIteration,
     ApplyPlanEvent, LifecycleFor, Leave, Goto, EndInv, Recorded
<1>10. ASSUME \/ \E n \in Nodes : NodeDeadline(n)
              \/ UNCHANGED vars
              \/ \E k \in Keys : OperationStep(k) \/ EndRun(k)
              \/ \E m \in Messages : Send(m)
       PROVE  Same
  BY <1>10, Zenon DEF NodeDeadline, vars, OperationStep,
     StartOperation, ResolveOperation, FailOperation, CancelOperation, EndRun, Send
<1>11. Same => EndInv'
  BY DEF EndInv
<1>12. CASE PlanDeadline \/ GateDeadline
  BY <1>12, Zenon DEF PlanDeadline, GateDeadline, EndInv, Recorded
<1>13. CASE WorkflowStep
  BY <1>13, <1>1, <1>2, <1>3, <1>4, <1>5, <1>6, <1>7, <1>8, <1>9 DEF WorkflowStep
<1>14. QED
  BY <1>10, <1>11, <1>12, <1>13 DEF Next, Closed, ClockStep

LEMMA EndInvariant == Spec => []EndInv
<1>1. Init => EndInv
  BY DEF Init, EndInv, Leaving
<1>2. TypeInv /\ FinalInv /\ EndInv /\ [Next]_vars => EndInv'
  BY EndStep
<1>3. QED
  BY <1>1, <1>2, TypeInvariant, FinalInvariant, PTL DEF Spec

\* Only an error ends an execution before its plan is terminal: plans that
\* finished, stalled, were canceled, rejected or overspent have recorded how they
\* ended.
THEOREM ClosedIsTerminal == Spec => []ClosedPlanTerminal
<1>1. EndInv => ClosedPlanTerminal
  BY DEF EndInv, Leaving, ClosedPlanTerminal
<1>2. QED
  BY <1>1, EndInvariant, PTL

\* And of the errors only those of Recorded leave a plan open: when a control is
\* refused, a signal does not apply or a poll fails, failPlanWorkflowIteration
\* records the failure.
THEOREM ErrorsAreRecorded ==
    ASSUME Recorded
    PROVE  Spec => [](pc = "closed" => plan \in TerminalPlan)
<1>1. EndInv => (pc = "closed" => plan \in TerminalPlan)
  BY DEF EndInv, Leaving
<1>2. QED
  BY <1>1, EndInvariant, PTL

===========================================================================
