------------------------- MODULE PlanSafetyProofs -------------------------
(***************************************************************************)
(* What no execution of a plan ever does, for every plan, every policy and *)
(* every set of messages: apply a message twice, reuse a run id, exceed    *)
(* the parallelism, stall, or go on after the plan has ended.              *)
(***************************************************************************)
EXTENDS PlanWorkflowProofs

USE DEF planVars, nodeVars, loopVars, mailVars, opVars, runVars

-----------------------------------------------------------------------------
(* Messages take effect once.                                              *)

AppliedInv ==
    \A m \in Messages : applied[m] \in {0, 1} /\ (applied[m] = 1 => m \in processed)

LEMMA MailFrame ==
    ASSUME [Next]_vars
    PROVE  \/ UNCHANGED <<processed, applied>>
           \/ \E m \in Messages : ReceiveControl(m) \/ ReceiveSignal(m)
<1>1. CASE \/ StartWorkflow \/ FailSetup \/ ExceedIterations \/ BeginIteration
           \/ SettleWaitEnds \/ ApplySettled \/ PassUnsettled \/ SettleError \/ SettleDone
  BY <1>1 DEF StartWorkflow, FailSetup, ExceedIterations, BeginIteration,
     SettleWaitEnds, ApplySettled, PassUnsettled, SettleError, SettleDone
<1>2. CASE \/ DropProcessedControl \/ ControlsDrained
           \/ DropProcessedSignal \/ SignalsDrained
           \/ FinishPlan \/ GuardsPassed \/ StayPaused \/ Schedule \/ ScheduleError
  BY <1>2 DEF DropProcessedControl, ControlsDrained, DropProcessedSignal, SignalsDrained,
     FinishPlan, GuardsPassed, StayPaused, Schedule, ScheduleError
<1>3. CASE \/ Launch \/ CheckBudgetAfterLaunch \/ LaunchDone
           \/ PollNode \/ PollNothingNew \/ PollError \/ PollDone
           \/ CheckBudgetAfterPoll \/ EndIteration \/ FinishIteration
           \/ RecordFailure \/ DrainOperations \/ CloseExecution \/ ActivityExhausted
  BY <1>3 DEF Launch, CheckBudgetAfterLaunch, LaunchDone, PollNode, PollNothingNew,
     PollError, PollDone, CheckBudgetAfterPoll, EndIteration, FinishIteration,
     RecordFailure, DrainOperations, CloseExecution, ActivityExhausted
<1>4. ASSUME NEW m \in Messages, Deliver(m) PROVE ReceiveControl(m) \/ ReceiveSignal(m)
  BY <1>4 DEF Deliver, CancelPlan, PausePlan, ResumePlan, ApprovePlan, RejectPlan,
     RetryFromSignal, ForwardSignal
<1>5. ASSUME NEW k \in Keys, OperationStep(k) \/ EndRun(k) PROVE UNCHANGED <<processed, applied>>
  BY <1>5 DEF OperationStep, StartOperation, ResolveOperation, FailOperation,
     CancelOperation, EndRun
<1>6. ASSUME ClockStep \/ \E m \in Messages : Send(m) PROVE UNCHANGED <<processed, applied>>
  BY <1>6 DEF ClockStep, NodeDeadline, PlanDeadline, GateDeadline, Send
<1>7. ASSUME NEW event \in {"failed", "rejected"}, ApplyDeadline(event) PROVE UNCHANGED <<processed, applied>>
  BY <1>7 DEF ApplyDeadline
<1>8. CASE UNCHANGED vars
  BY <1>8 DEF vars
<1>9. CASE WorkflowStep
  BY <1>9, <1>1, <1>2, <1>3, <1>4, <1>7 DEF WorkflowStep
<1>10. QED
  BY <1>5, <1>6, <1>8, <1>9 DEF Next, Closed

\* Every control and signal takes effect at most once, however often it is
\* delivered and however often the workflow continues as new: drainPlanControl
\* and drainPlanSignals drop keys seen before and the keys survive.
THEOREM MessagesApplyOnce == Spec => []AppliedOnce
<1>1. Init => AppliedInv
  BY DEF Init, AppliedInv
<1>2. AppliedInv /\ MailTypeOK /\ [Next]_vars => AppliedInv'
  <2> SUFFICES ASSUME AppliedInv, MailTypeOK, [Next]_vars PROVE AppliedInv'
    OBVIOUS
  <2>1. CASE UNCHANGED <<processed, applied>>
    BY <2>1 DEF AppliedInv
  <2>2. ASSUME NEW m \in Messages, ReceiveControl(m) \/ ReceiveSignal(m)
        PROVE  AppliedInv'
    BY <2>2 DEF AppliedInv, MailTypeOK, ReceiveControl, ReceiveSignal, Receive
  <2>3. QED
    BY <2>1, <2>2, MailFrame
<1>3. AppliedInv => AppliedOnce
  BY DEF AppliedInv, AppliedOnce
<1>4. TypeInv => MailTypeOK
  BY DEF TypeInv, TypeOK
<1>5. QED
  BY <1>1, <1>2, <1>3, <1>4, TypeInvariant, PTL DEF Spec

-----------------------------------------------------------------------------
(* Run ids are fresh.                                                      *)

\* Operations and runs exist only for attempts that were counted.
FreshInv ==
    \A k \in Keys : op[k] # "none" \/ run[k] # "none" => k[2] <= attempts[k[1]]

\* Attempts are never taken back.
AttemptsGrow == \A n \in Nodes : attempts'[n] >= attempts[n]

\* Operations and runs only go on from where they are.
NoNewRun ==
    \A k \in Keys : /\ op'[k] # "none" => op[k] # "none"
                    /\ run'[k] # "none" => op[k] # "none" \/ run[k] # "none"
                    /\ op'[k] = "scheduled" => op[k] = "scheduled"

LEMMA FailAttemptGrows ==
    ASSUME NodeInv, NEW n \in Nodes, FailAttempt(n)
    PROVE  AttemptsGrow
BY DEF FailAttempt, FailedAttempt, RetryNode, NodeInv, NodeTypeOK, AttemptsGrow

LEMMA RunTerminalGrows ==
    ASSUME NodeInv, NEW n \in Nodes, ApplyRunTerminal(n)
    PROVE  AttemptsGrow
<1>1. FailAttempt(n) \/ UNCHANGED attempts
  BY Zenon DEF ApplyRunTerminal
<1>2. QED
  BY <1>1, FailAttemptGrows DEF NodeInv, NodeTypeOK, AttemptsGrow

LEMMA PromiseGrows ==
    ASSUME NodeInv, NEW n \in Nodes, ApplyPromise(n)
    PROVE  AttemptsGrow
<1>1. ApplyRunTerminal(n) \/ UNCHANGED attempts
  BY DEF ApplyPromise, ApplyOperationFailure
<1>2. QED
  BY <1>1, RunTerminalGrows DEF NodeInv, NodeTypeOK, AttemptsGrow

LEMMA RunFrame ==
    ASSUME TypeInv, [Next]_vars
    PROVE  \/ AttemptsGrow /\ NoNewRun
           \/ \E n \in Nodes : StartNode(n) /\ UNCHANGED run
<1> DEFINE Same == UNCHANGED <<attempts, op, run>>
<1>1. CASE \/ StartWorkflow \/ FailSetup \/ ExceedIterations \/ BeginIteration
           \/ SettleWaitEnds \/ PassUnsettled \/ SettleError \/ SettleDone
           \/ DropProcessedControl \/ ControlsDrained
           \/ DropProcessedSignal \/ SignalsDrained
  <2>1. Same
    BY <1>1 DEF StartWorkflow, FailSetup, ExceedIterations, BeginIteration, SettleWaitEnds,
       PassUnsettled, SettleError, ExpansionRefused, SettleDone, DropProcessedControl,
       ControlsDrained, DropProcessedSignal, SignalsDrained
  <2>2. QED
    BY <2>1 DEF AttemptsGrow, NoNewRun, TypeInv, TypeOK, NodeTypeOK
<1>2. CASE \/ FinishPlan \/ GuardsPassed \/ StayPaused \/ Schedule \/ ScheduleError
           \/ CheckBudgetAfterLaunch \/ LaunchDone
           \/ PollNothingNew \/ PollError \/ PollDone
           \/ CheckBudgetAfterPoll \/ EndIteration \/ FinishIteration
           \/ RecordFailure \/ DrainOperations \/ CloseExecution \/ ActivityExhausted
  <2>1. Same
    BY <1>2 DEF FinishPlan, GuardsPassed, StayPaused, Schedule, ScheduleError,
       CheckBudgetAfterLaunch, CancelActive, CancelRefused, CancelInterrupted, LaunchDone,
       PollNothingNew,
       PollError, ExpansionRefused, PollDone, CheckBudgetAfterPoll, EndIteration,
       FinishIteration, RecordFailure, DrainOperations, CloseExecution, ActivityExhausted
  <2>2. QED
    BY <2>1 DEF AttemptsGrow, NoNewRun, TypeInv, TypeOK, NodeTypeOK
<1>3. ASSUME NEW m \in Messages,
             \/ CancelPlan(m) \/ PausePlan(m) \/ ResumePlan(m)
             \/ ApprovePlan(m) \/ RejectPlan(m) \/ ForwardSignal(m) \/ Send(m)
      PROVE  Same
  BY <1>3 DEF CancelPlan, PausePlan, ResumePlan, ApprovePlan, RejectPlan, ForwardSignal,
     Send, CancelActive, CancelRefused, CancelInterrupted, SignalInvalid
<1>4. ASSUME NEW m \in Messages, RetryFromSignal(m) PROVE AttemptsGrow /\ NoNewRun
  <2>1. UNCHANGED <<op, run>>
    BY <1>4 DEF RetryFromSignal
  <2>2. RetryNode(m.node) \/ UNCHANGED attempts
    BY <1>4 DEF RetryFromSignal, SignalInvalid
  <2>3. AttemptsGrow
    BY <2>2, MessageAssumption DEF RetryNode, FailedAttempt, AttemptsGrow, TypeInv, TypeOK,
       NodeTypeOK
  <2>4. QED
    BY <2>1, <2>3 DEF NoNewRun
<1>5. ASSUME ClockStep \/ UNCHANGED vars
             \/ \E event \in {"failed", "rejected"} : ApplyDeadline(event)
      PROVE  Same
  BY <1>5 DEF ClockStep, NodeDeadline, PlanDeadline, GateDeadline, vars, ApplyDeadline,
     CancelActive, CancelRefused, CancelInterrupted
<1>6. CASE ApplySettled
  BY <1>6, PromiseGrows DEF ApplySettled, TypeInv, TypeOK, NodeInv, LoopTypeOK, NoNewRun
<1>7. CASE PollNode
  <2>1. PICK n \in Nodes : TimeOutNode(n) \/ PollPromise(n) \/ PollStatus(n)
    BY <1>7 DEF PollNode, TypeInv, TypeOK, LoopTypeOK
  <2>2. FailAttempt(n) \/ ApplyPromise(n) \/ ApplyRunTerminal(n) \/ UNCHANGED attempts
    BY <2>1 DEF TimeOutNode, PollPromise, PollStatus
  <2>3. AttemptsGrow
    BY <2>2, FailAttemptGrows, PromiseGrows, RunTerminalGrows
       DEF AttemptsGrow, TypeInv, TypeOK, NodeInv, NodeTypeOK
  <2>4. QED
    BY <1>7, <2>3 DEF PollNode, NoNewRun
<1>8. CASE Launch
  <2>1. PICK n \in Nodes : StartNode(n) \/ InputFails(n) \/ DispatchFails(n)
    BY <1>8 DEF Launch, TypeInv, TypeOK, LoopTypeOK
  <2>2. UNCHANGED run
    BY <1>8 DEF Launch
  <2>3. CASE InputFails(n)
    BY <2>2, <2>3, FailAttemptGrows DEF InputFails, NoNewRun, TypeInv, TypeOK, NodeInv
  <2>4. CASE DispatchFails(n)
    <3>1. attempts \in [Nodes -> Nat]
      BY DEF TypeInv, TypeOK, NodeTypeOK
    <3>2. \/ attempts' = [attempts EXCEPT ![n] = @ + 1]
          \/ UNCHANGED attempts
      BY <2>4, Zenon DEF DispatchFails
    <3>3. UNCHANGED op
      BY <2>4, Zenon DEF DispatchFails
    <3>4. AttemptsGrow
      BY <3>1, <3>2 DEF AttemptsGrow
    <3>5. QED
      BY <2>2, <3>3, <3>4 DEF NoNewRun
  <2>5. QED
    BY <2>1, <2>2, <2>3, <2>4
<1>9. ASSUME NEW k \in Keys, OperationStep(k) \/ EndRun(k)
      PROVE  AttemptsGrow /\ NoNewRun
  <2>1. UNCHANGED attempts
    BY <1>9 DEF OperationStep, StartOperation, ResolveOperation, FailOperation,
       CancelOperation, EndRun
  <2>2. NoNewRun
    BY <1>9 DEF OperationStep, StartOperation, ResolveOperation, FailOperation,
       CancelOperation, EndRun, NoNewRun, TypeInv, TypeOK, RunTypeOK
  <2>3. QED
    BY <2>1, <2>2 DEF AttemptsGrow, TypeInv, TypeOK, NodeTypeOK
<1>10. Same => AttemptsGrow /\ NoNewRun
  BY DEF AttemptsGrow, NoNewRun, TypeInv, TypeOK, NodeTypeOK
<1>11. CASE WorkflowStep
  BY <1>11, <1>1, <1>2, <1>3, <1>4, <1>5, <1>6, <1>7, <1>8, <1>10 DEF WorkflowStep, Deliver
<1>12. QED
  BY <1>3, <1>5, <1>9, <1>10, <1>11 DEF Next, Closed

LEMMA KeyParts ==
    ASSUME NEW k \in Keys
    PROVE  k[1] \in Nodes /\ k[2] \in Nat /\ k = <<k[1], k[2]>>
BY PolicyAssumption DEF Keys

LEMMA FreshInvStep ==
    ASSUME FreshInv, TypeInv, TypeInv', [Next]_vars
    PROVE  FreshInv'
<1>1. SUFFICES ASSUME NEW k \in Keys, op'[k] # "none" \/ run'[k] # "none"
               PROVE  k[2] <= attempts'[k[1]]
  BY DEF FreshInv
<1>2. k[1] \in Nodes /\ k[2] \in Nat
  BY KeyParts
<1>3. attempts[k[1]] \in Nat /\ attempts'[k[1]] \in Nat
  BY <1>2 DEF TypeInv, TypeOK, NodeTypeOK
<1>4. CASE AttemptsGrow /\ NoNewRun
  <2>1. k[2] <= attempts[k[1]]
    BY <1>1, <1>4 DEF NoNewRun, FreshInv
  <2>2. QED
    BY <1>2, <1>3, <1>4, <2>1 DEF AttemptsGrow
<1>5. ASSUME NEW n \in Nodes, StartNode(n), UNCHANGED run
      PROVE  k[2] <= attempts'[k[1]]
  <2> attempts \in [Nodes -> Nat] /\ attempts' = [attempts EXCEPT ![n] = @ + 1]
    BY <1>5 DEF StartNode, TypeInv, TypeOK, NodeTypeOK
  <2>1. CASE k = <<n, attempts[n] + 1>>
    BY <2>1
  <2>2. CASE k # <<n, attempts[n] + 1>>
    <3>1. op'[k] = op[k] /\ run'[k] = run[k]
      BY <1>5, <2>2 DEF StartNode, TypeInv, TypeOK, RunTypeOK
    <3>2. k[2] <= attempts[k[1]]
      BY <1>1, <3>1 DEF FreshInv
    <3>3. attempts'[k[1]] >= attempts[k[1]]
      BY <1>2
    <3>4. QED
      BY <1>2, <1>3, <3>2, <3>3
  <2>3. QED
    BY <2>1, <2>2
<1>6. QED
  BY <1>4, <1>5, RunFrame

\* A run id names one run: startPlanNode numbers an attempt that no earlier
\* start, retry or manual retry of the node has used.
THEOREM RunIdsAreFresh == Spec => FreshRuns
<1> DEFINE Fresh == \A k \in Keys : op'[k] = "scheduled" /\ op[k] # "scheduled" =>
                        op[k] = "none" /\ run[k] = "none"
<1>1. Init => FreshInv
  BY DEF Init, FreshInv
<1>2. TypeInv /\ TypeInv' /\ FreshInv /\ [Next]_vars => FreshInv'
  BY FreshInvStep
<1>3. TypeInv /\ FreshInv /\ [Next]_vars => [Fresh]_vars
  <2> SUFFICES ASSUME TypeInv, FreshInv, [Next]_vars PROVE Fresh
    OBVIOUS
  <2>1. CASE AttemptsGrow /\ NoNewRun
    BY <2>1 DEF NoNewRun
  <2>2. ASSUME NEW n \in Nodes, StartNode(n) PROVE Fresh
    <3>1. SUFFICES ASSUME NEW k \in Keys, op'[k] = "scheduled", op[k] # "scheduled"
                   PROVE  op[k] = "none" /\ run[k] = "none"
      OBVIOUS
    <3>2. k = <<n, attempts[n] + 1>>
      BY <2>2, <3>1 DEF StartNode, TypeInv, TypeOK, RunTypeOK
    <3>3. ~(k[2] <= attempts[k[1]])
      BY <3>2 DEF TypeInv, TypeOK, NodeTypeOK
    <3>4. QED
      BY <3>3 DEF FreshInv
  <2>3. QED
    BY <2>1, <2>2, RunFrame
<1>4. QED
  BY <1>1, <1>2, <1>3, TypeInvariant, PTL DEF Spec, FreshRuns

-----------------------------------------------------------------------------
(* The capacity is respected.                                              *)

\* Nodes outside the plan have not moved, and the loops work on its nodes.
GraphInv ==
    /\ \A n \in Nodes \ topo : node[n] = "pending"
    /\ todo \subseteq topo

\* A step of one node of the plan that does not start it.
Settles(n) ==
    /\ n \in topo /\ topo \subseteq topo' /\ topo' \subseteq Nodes
    /\ \E s \in NodeStates \ {"running"} : node' = [node EXCEPT ![n] = s]
    /\ todo' \subseteq todo

LEMMA SettlesGraph ==
    ASSUME TypeInv, GraphInv, NEW n \in Nodes, Settles(n)
    PROVE  GraphInv' /\ Running' \subseteq Running
BY DEF TypeInv, TypeOK, NodeTypeOK, GraphInv, Settles, Running

LEMMA FailAttemptSettles ==
    ASSUME NEW n \in Nodes, FailAttempt(n)
    PROVE  \E s \in NodeStates \ {"running"} : node' = [node EXCEPT ![n] = s]
BY DEF FailAttempt, RetryNode, SetNode, NodeStates, Schedulable, TerminalNode

LEMMA RunTerminalSettles ==
    ASSUME TypeInv, GraphInv, NEW n \in todo, ApplyRunTerminal(n)
    PROVE  Settles(n)
<1>1. n \in topo /\ n \in Nodes
  BY DEF GraphInv, TypeInv, TypeOK, LoopTypeOK
<1>2. topo' = topo \/ topo' = topo \cup Delta[n]
  BY Zenon DEF ApplyRunTerminal
<1>3. Delta[n] \subseteq Nodes
  BY <1>1, NodesAssumption
<1>4. topo \subseteq topo' /\ topo' \subseteq Nodes
  BY <1>2, <1>3 DEF TypeInv, TypeOK, NodeTypeOK
<1>5. todo' \subseteq todo
  BY DEF ApplyRunTerminal
<1>6. \/ FailAttempt(n)
      \/ \E s \in {"failed", "canceled", "succeeded"} : node' = [node EXCEPT ![n] = s]
  BY Zenon DEF ApplyRunTerminal, SetNode
<1>7. \E s \in NodeStates \ {"running"} : node' = [node EXCEPT ![n] = s]
  BY <1>1, <1>6, FailAttemptSettles DEF NodeStates, TerminalNode
<1>8. QED
  BY <1>1, <1>4, <1>5, <1>7 DEF Settles

LEMMA PromiseSettles ==
    ASSUME TypeInv, GraphInv, NEW n \in todo, ApplyPromise(n)
    PROVE  Settles(n)
<1>1. CASE ApplyRunTerminal(n)
  BY <1>1, RunTerminalSettles
<1>2. CASE ApplyOperationFailure(n)
  BY <1>2 DEF ApplyOperationFailure, SetNode, Settles, GraphInv, TypeInv, TypeOK,
     NodeTypeOK, NodeStates, TerminalNode
<1>3. QED
  BY <1>1, <1>2 DEF ApplyPromise

LEMMA CancelActiveGraph ==
    ASSUME TypeInv, GraphInv, NEW event, CancelActive(event)
    PROVE  /\ \A n \in Nodes \ topo' : node'[n] = "pending"
           /\ UNCHANGED topo /\ Running' \subseteq Running
BY DEF CancelActive, GraphInv, Running, TypeInv, TypeOK, NodeTypeOK

LEMMA CancelInterruptedGraph ==
    ASSUME TypeInv, GraphInv, NEW event, CancelInterrupted(event)
    PROVE  /\ \A n \in Nodes \ topo' : node'[n] = "pending"
           /\ UNCHANGED topo /\ Running' \subseteq Running
BY DEF CancelInterrupted, GraphInv, Running, TypeInv, TypeOK, NodeTypeOK

LEMMA NodeFrame ==
    ASSUME TypeInv, GraphInv, [Next]_vars
    PROVE  /\ GraphInv'
           /\ \/ Running' \subseteq Running
              \/ \E n \in topo : Launch /\ Running' = Running \cup {n}
<1> DEFINE Goal == GraphInv' /\ Running' \subseteq Running
           Same == UNCHANGED <<node, topo>> /\ (todo' \subseteq todo \/ todo' = Running)
<1>1. CASE \/ StartWorkflow \/ FailSetup \/ ExceedIterations \/ BeginIteration
           \/ SettleWaitEnds \/ PassUnsettled \/ SettleError \/ SettleDone
           \/ DropProcessedControl \/ ControlsDrained
           \/ DropProcessedSignal \/ SignalsDrained
  <2>1. Same
    BY <1>1 DEF StartWorkflow, FailSetup, ExceedIterations, BeginIteration, SettleWaitEnds,
       PassUnsettled, SettleError, ExpansionRefused, SettleDone, DropProcessedControl,
       ControlsDrained, DropProcessedSignal, SignalsDrained
  <2>2. QED
    BY <2>1 DEF GraphInv, Running
<1>2. CASE \/ FinishPlan \/ GuardsPassed \/ StayPaused \/ ScheduleError \/ LaunchDone
           \/ PollNothingNew \/ PollError \/ PollDone \/ EndIteration \/ FinishIteration
           \/ RecordFailure \/ DrainOperations \/ CloseExecution \/ ActivityExhausted
  <2>1. Same
    BY <1>2 DEF FinishPlan, GuardsPassed, StayPaused, ScheduleError, LaunchDone,
       PollNothingNew, PollError, ExpansionRefused, PollDone, EndIteration,
       FinishIteration, RecordFailure, DrainOperations, CloseExecution, ActivityExhausted
  <2>2. QED
    BY <2>1 DEF GraphInv, Running
<1>3. ASSUME NEW m \in Messages,
             PausePlan(m) \/ ResumePlan(m) \/ ApprovePlan(m) \/ ForwardSignal(m) \/ Send(m)
      PROVE  Same
  BY <1>3 DEF PausePlan, ResumePlan, ApprovePlan, ForwardSignal, Send, SignalInvalid
<1>4. CASE \/ CheckBudgetAfterLaunch \/ CheckBudgetAfterPoll
           \/ \E m \in Messages : CancelPlan(m) \/ RejectPlan(m)
           \/ \E event \in {"failed", "rejected"} : ApplyDeadline(event)
  <2>1. /\ todo' \subseteq todo
        /\ UNCHANGED <<node, topo>> \/ \E event : CancelActive(event) \/ CancelInterrupted(event)
    BY <1>4 DEF CheckBudgetAfterLaunch, CheckBudgetAfterPoll, CancelPlan, RejectPlan,
       ApplyDeadline, CancelRefused, SignalInvalid
  <2>2. QED
    BY <2>1, CancelActiveGraph, CancelInterruptedGraph DEF GraphInv, Running
<1>5. ASSUME NEW m \in Messages, RetryFromSignal(m) PROVE Goal
  <2>1. UNCHANGED <<node, topo, todo>> \/ Settles(m.node)
    BY <1>5 DEF RetryFromSignal, SignalInvalid, MayRetry, RetryNode, SetNode, Settles,
       TypeInv, TypeOK, NodeTypeOK, NodeStates, Schedulable
  <2>2. QED
    BY <2>1, SettlesGraph, MessageAssumption DEF GraphInv, Running
<1>6. CASE ApplySettled
  BY <1>6, PromiseSettles, SettlesGraph DEF ApplySettled, TypeInv, TypeOK, LoopTypeOK
<1>7. CASE PollNode
  <2>1. PICK n \in todo : TimeOutNode(n) \/ PollPromise(n) \/ PollStatus(n)
    BY <1>7 DEF PollNode
  <2>2. n \in Nodes /\ n \in topo
    BY DEF TypeInv, TypeOK, LoopTypeOK, GraphInv
  <2>3. ASSUME TimeOutNode(n) PROVE Settles(n)
    BY <2>2, <2>3, FailAttemptSettles DEF TimeOutNode, Settles, TypeInv, TypeOK, NodeTypeOK
  <2>4. ASSUME PollPromise(n) PROVE Settles(n)
    BY <2>4, PromiseSettles DEF PollPromise
  <2>5. ASSUME PollStatus(n) PROVE Settles(n)
    BY <2>2, <2>5, RunTerminalSettles DEF PollStatus, SetNode, Settles, TypeInv, TypeOK,
       NodeTypeOK, NodeStates, TerminalNode
  <2>6. QED
    BY <2>1, <2>2, <2>3, <2>4, <2>5, SettlesGraph
<1>8. CASE Launch
  <2>1. PICK n \in todo : /\ StartNode(n) \/ InputFails(n) \/ DispatchFails(n)
                          /\ todo' = todo \ {n}
    BY <1>8 DEF Launch
  <2>2. n \in Nodes /\ n \in topo /\ UNCHANGED topo
    BY <1>8 DEF Launch, TypeInv, TypeOK, LoopTypeOK, GraphInv
  <2>3. CASE StartNode(n)
    BY <1>8, <2>1, <2>2, <2>3 DEF StartNode, GraphInv, Running, TypeInv, TypeOK, NodeTypeOK
  <2>4. CASE InputFails(n) \/ DispatchFails(n)
    <3>1. Settles(n)
      BY <2>1, <2>2, <2>4, FailAttemptSettles DEF InputFails, DispatchFails, SetNode,
         Settles, TypeInv, TypeOK, NodeTypeOK, NodeStates, TerminalNode
    <3>2. QED
      BY <2>2, <3>1, SettlesGraph
  <2>5. QED
    BY <2>1, <2>3, <2>4
<1>9. CASE Schedule
  <2>1. PICK F \in Conditions :
          /\ node' = [n \in Nodes |-> IF n \in SkippedNodes(topo, TopoEdges, Join, node, F)
                                      THEN "skipped" ELSE node[n]]
          /\ todo' = ReadyNodes(topo, TopoEdges, Join, node, F)
    BY <1>9 DEF Schedule
  <2>2. UNCHANGED topo
    BY <1>9 DEF Schedule
  <2>3. QED
    BY <2>1, <2>2 DEF SkippedNodes, ReadyNodes, GraphInv, Running, TypeInv, TypeOK,
       NodeTypeOK
<1>10. ASSUME \/ ClockStep \/ UNCHANGED vars
              \/ \E k \in Keys : OperationStep(k) \/ EndRun(k)
       PROVE  Same
  BY <1>10 DEF ClockStep, NodeDeadline, PlanDeadline, GateDeadline, vars, OperationStep,
     StartOperation, ResolveOperation, FailOperation, CancelOperation, EndRun
<1>11. Same => Goal
  BY DEF GraphInv, Running
<1>12. CASE WorkflowStep
  BY <1>12, <1>1, <1>2, <1>3, <1>4, <1>5, <1>6, <1>7, <1>8, <1>9, <1>11
     DEF WorkflowStep, Deliver
<1>13. QED
  BY <1>3, <1>10, <1>11, <1>12 DEF Next, Closed

\* Only Schedule enters the launch loop, and only Launch uses its capacity up.
LEMMA CapacityFrame ==
    ASSUME [Next]_vars, pc' \in {"launch", "launched"}
    PROVE  Schedule \/ Launch \/ (pc \in {"launch", "launched"} /\ cap' = cap)
<1> DEFINE Goal == pc \in {"launch", "launched"} /\ cap' = cap
<1>1. CASE \/ StartWorkflow \/ FailSetup \/ ExceedIterations \/ BeginIteration
           \/ SettleWaitEnds \/ ApplySettled \/ PassUnsettled \/ SettleError \/ SettleDone
           \/ DropProcessedControl \/ ControlsDrained
           \/ DropProcessedSignal \/ SignalsDrained
  BY <1>1 DEF StartWorkflow, FailSetup, ExceedIterations, BeginIteration, SettleWaitEnds,
     ApplySettled, PassUnsettled, SettleError, SettleDone, DropProcessedControl,
     ControlsDrained, DropProcessedSignal, SignalsDrained, FailIteration, Leave, Goto
<1>2. CASE \/ FinishPlan \/ GuardsPassed \/ StayPaused \/ ScheduleError
           \/ CheckBudgetAfterLaunch \/ LaunchDone
  BY <1>2 DEF FinishPlan, GuardsPassed, StayPaused, ScheduleError, CheckBudgetAfterLaunch,
     LaunchDone, FailIteration, Leave, Goto
<1>3. CASE \/ PollNode \/ PollNothingNew \/ PollError \/ PollDone
           \/ CheckBudgetAfterPoll \/ EndIteration \/ FinishIteration
           \/ RecordFailure \/ DrainOperations \/ CloseExecution \/ ActivityExhausted
  BY <1>3 DEF PollNode, PollNothingNew, PollError, PollDone, CheckBudgetAfterPoll,
     EndIteration, FinishIteration, RecordFailure, DrainOperations, CloseExecution, ActivityExhausted,
     FailIteration, Leave, Goto
<1>4. ASSUME NEW m \in Messages, Deliver(m) PROVE Goal
  BY <1>4 DEF Deliver, CancelPlan, PausePlan, ResumePlan, ApprovePlan, RejectPlan,
     RetryFromSignal, ForwardSignal, ReceiveControl, ReceiveSignal, SignalInvalid,
     FailIteration, Leave, Goto
<1>5. ASSUME NEW event \in {"failed", "rejected"}, ApplyDeadline(event) PROVE Goal
  BY <1>5 DEF ApplyDeadline, Leave
<1>6. ASSUME \/ ClockStep \/ UNCHANGED vars
             \/ \E k \in Keys : OperationStep(k) \/ EndRun(k)
             \/ \E m \in Messages : Send(m)
      PROVE  Goal
  BY <1>6 DEF ClockStep, NodeDeadline, PlanDeadline, GateDeadline, vars, OperationStep,
     StartOperation, ResolveOperation, FailOperation, CancelOperation, EndRun, Send
<1>7. CASE WorkflowStep
  BY <1>7, <1>1, <1>2, <1>3, <1>4, <1>5 DEF WorkflowStep
<1>8. QED
  BY <1>6, <1>7 DEF Next, Closed

\* The capacity that is left is still free.
ParallelInv ==
    /\ ParallelBound
    /\ pc \in {"launch", "launched"} => Cardinality(Running) + cap <= MaxParallel

LEMMA ParallelStep ==
    ASSUME TypeInv, TypeInv', GraphInv, ParallelInv, [Next]_vars
    PROVE  ParallelInv'
<1> DEFINE c == Cardinality(Running)
           d == Cardinality(Running')
<1>1. IsFiniteSet(Running) /\ c \in Nat /\ d \in Nat /\ cap \in Nat /\ cap' \in Nat
      /\ MaxParallel \in Nat
  <2>1. Running' \subseteq Nodes
    BY DEF TypeInv, TypeOK, NodeTypeOK, Running
  <2>2. d \in Nat
    BY <2>1, NodesAssumption, FS_Subset, FS_CardinalityType
  <2>3. QED
    BY <2>2, CardinalityOfRunning, PolicyAssumption DEF TypeInv, TypeOK, LoopTypeOK
<1>2. CASE Running' \subseteq Running
  <2>1. d <= c
    BY <1>1, <1>2, FS_Subset
  <2>2. CASE Schedule
    <3>1. cap' = Capacity
      BY <2>2 DEF Schedule
    <3>2. QED
      BY <1>1, <2>1, <3>1 DEF Capacity, ParallelInv, ParallelBound
  <2>3. CASE Launch
    BY <1>1, <2>1, <2>3 DEF Launch, ParallelInv, ParallelBound
  <2>4. CASE pc' \in {"launch", "launched"} => pc \in {"launch", "launched"} /\ cap' = cap
    BY <1>1, <2>1, <2>4 DEF ParallelInv, ParallelBound
  <2>5. QED
    BY <2>2, <2>3, <2>4, CapacityFrame
<1>3. ASSUME NEW n \in topo, Launch, Running' = Running \cup {n}
      PROVE  ParallelInv'
  <2>1. d <= c + 1
    <3>1. Cardinality(Running \cup {n}) = IF n \in Running THEN c ELSE c + 1
      BY <1>1, FS_AddElement
    <3>2. QED
      BY <1>1, <1>3, <3>1
  <2>2. pc = "launch" /\ cap > 0 /\ cap' = cap - 1
    BY <1>3 DEF Launch
  <2>3. QED
    BY <1>1, <2>1, <2>2 DEF ParallelInv, ParallelBound
<1>4. QED
  BY <1>2, <1>3, NodeFrame

\* MaxParallelNodes is respected by every plan, although startReadyPlanNodes
\* computes the capacity once and works through a list decided earlier.
THEOREM CapacityIsRespected == Spec => []ParallelBound
<1>1. Init => GraphInv /\ ParallelInv
  <2> SUFFICES ASSUME Init PROVE GraphInv /\ ParallelInv
    OBVIOUS
  <2>1. Running = {} /\ pc = "start"
    BY NodesAssumption DEF Init, Running
  <2>2. QED
    BY <2>1, FS_EmptySet, PolicyAssumption DEF Init, GraphInv, ParallelInv, ParallelBound
<1>2. TypeInv /\ TypeInv' /\ GraphInv /\ ParallelInv /\ [Next]_vars
        => GraphInv' /\ ParallelInv'
  BY NodeFrame, ParallelStep
<1>3. ParallelInv => ParallelBound
  BY DEF ParallelInv
<1>4. QED
  BY <1>1, <1>2, <1>3, TypeInvariant, PTL DEF Spec

-----------------------------------------------------------------------------
(* The plan never stalls.                                                  *)

\* Why an iteration always makes progress or leaves a node running.
StallInv ==
    /\ exit # "stalled"
    /\ pc = "schedule" => ~NodesTerminal
    /\ pc = "launch" /\ ~progressed => Running # {} \/ (cap > 0 /\ todo # {})
    /\ pc = "launched" => progressed
    /\ pc \in {"poll", "polled", "finish"} /\ ~progressed => Running # {}

LEMMA ScheduleDecides ==
    ASSUME TypeInv, StallInv, Schedule
    PROVE  StallInv'
<1>1. PICK F \in Conditions :
        LET skipped == SkippedNodes(topo, TopoEdges, Join, node, F)
        IN  /\ node' = [n \in Nodes |-> IF n \in skipped THEN "skipped" ELSE node[n]]
            /\ todo' = ReadyNodes(topo, TopoEdges, Join, node, F)
            /\ progressed' = (progressed \/ skipped # {})
  BY DEF Schedule
<1> DEFINE ready   == ReadyNodes(topo, TopoEdges, Join, node, F)
           skipped == SkippedNodes(topo, TopoEdges, Join, node, F)
<1>2. pc' = "launch" /\ exit' # "stalled" /\ cap' = Capacity /\ topo' = topo
      /\ ~NodesTerminal
  BY DEF Schedule, Goto, StallInv
<1>3. SUFFICES ASSUME ~progressed', Running' = {} PROVE cap' > 0 /\ todo' # {}
  BY <1>2 DEF StallInv
<1>4. skipped = {} /\ todo' = ready
  BY <1>1, <1>3
<1>5. node' = node
  BY <1>1, <1>4 DEF TypeInv, TypeOK, NodeTypeOK
<1>6. Running = {}
  BY <1>2, <1>3, <1>5 DEF Running
<1>7. \A n \in topo : node[n] \in NodeStates \ {"running"}
  BY <1>6 DEF Running, TypeInv, TypeOK, NodeTypeOK
<1>8. PICK m \in topo : node[m] \in Schedulable
  BY <1>2, <1>7 DEF NodesTerminal, NodeStates
<1>9. Acyclic(topo, TopoEdges) /\ \A e \in TopoEdges : e.from \in topo
  BY GraphAssumption DEF TopoEdges, TypeInv, TypeOK, NodeTypeOK
<1>10. ready # {}
  BY <1>4, <1>7, <1>8, <1>9, SomeNodeIsDecided
<1>11. cap' > 0
  BY <1>2, <1>6, FS_EmptySet, PolicyAssumption DEF Capacity
<1>12. QED
  BY <1>4, <1>10, <1>11

LEMMA StallStep ==
    ASSUME TypeInv, StallInv, [Next]_vars
    PROVE  StallInv'
<1>1. CASE \/ StartWorkflow \/ FailSetup \/ ExceedIterations \/ BeginIteration
           \/ SettleWaitEnds \/ ApplySettled \/ PassUnsettled \/ SettleError \/ SettleDone
           \/ DropProcessedControl \/ ControlsDrained
           \/ DropProcessedSignal \/ SignalsDrained
  BY <1>1 DEF StartWorkflow, FailSetup, ExceedIterations, BeginIteration, SettleWaitEnds,
     ApplySettled, PassUnsettled, SettleError, SettleDone, DropProcessedControl,
     ControlsDrained, DropProcessedSignal, SignalsDrained, FailIteration, Leave, Goto,
     StallInv
<1>2. CASE \/ FinishPlan \/ StayPaused \/ ScheduleError \/ PollError \/ CheckBudgetAfterPoll
           \/ RecordFailure \/ DrainOperations \/ CloseExecution \/ ActivityExhausted
           \/ \E event \in {"failed", "rejected"} : ApplyDeadline(event)
  BY <1>2 DEF FinishPlan, StayPaused, ScheduleError, PollError, CheckBudgetAfterPoll,
     RecordFailure, DrainOperations, CloseExecution, ActivityExhausted, ApplyDeadline, FailIteration,
     Leave, Goto, StallInv
<1>3. ASSUME NEW m \in Messages, Deliver(m) PROVE StallInv'
  BY <1>3 DEF Deliver, CancelPlan, PausePlan, ResumePlan, ApprovePlan, RejectPlan,
     RetryFromSignal, ForwardSignal, ReceiveControl, ReceiveSignal, SignalInvalid,
     FailIteration, Leave, Goto, StallInv
<1>4. CASE GuardsPassed
  BY <1>4 DEF GuardsPassed, Goto, StallInv, NodesTerminal
<1>5. CASE Schedule
  BY <1>5, ScheduleDecides
<1>6. CASE Launch \/ PollNode
  BY <1>6 DEF Launch, PollNode, Goto, StallInv
<1>7. CASE CheckBudgetAfterLaunch
  BY <1>7 DEF CheckBudgetAfterLaunch, Goto, Leave, StallInv
<1>8. CASE LaunchDone \/ PollNothingNew \/ PollDone \/ EndIteration
  <2>1. CASE LaunchDone
    BY <2>1 DEF LaunchDone, Goto, StallInv, Running, TypeInv, TypeOK, LoopTypeOK
  <2>2. CASE PollNothingNew
    BY <2>2 DEF PollNothingNew, StallInv, Running
  <2>3. CASE PollDone \/ EndIteration
    BY <2>3 DEF PollDone, EndIteration, Goto, StallInv, Running, TypeInv, TypeOK, LoopTypeOK
  <2>4. QED
    BY <1>8, <2>1, <2>2, <2>3
<1>9. CASE FinishIteration
  BY <1>9 DEF FinishIteration, Goto, Leave, StallInv
<1>10. ASSUME \/ ClockStep \/ UNCHANGED vars
              \/ \E k \in Keys : OperationStep(k) \/ EndRun(k)
              \/ \E m \in Messages : Send(m)
       PROVE  UNCHANGED <<topo, node, pc, exit, progressed, todo, cap>>
  BY <1>10 DEF ClockStep, NodeDeadline, PlanDeadline, GateDeadline, vars, OperationStep,
     StartOperation, ResolveOperation, FailOperation, CancelOperation, EndRun, Send
<1>11. CASE UNCHANGED <<topo, node, pc, exit, progressed, todo, cap>>
  BY <1>11 DEF StallInv, NodesTerminal, Running
<1>12. CASE WorkflowStep
  BY <1>12, <1>1, <1>2, <1>3, <1>4, <1>5, <1>6, <1>7, <1>8, <1>9 DEF WorkflowStep
<1>13. QED
  BY <1>10, <1>11, <1>12 DEF Next, Closed

\* The last resort of finishPlanWorkflowIteration, "plan has pending nodes but no
\* runnable or active nodes", is unreachable for every acyclic plan, whatever its
\* joins, triggers and conditions.
THEOREM PlansNeverStall == Spec => []NoStall
<1>1. Init => StallInv
  BY DEF Init, StallInv
<1>2. TypeInv /\ StallInv /\ [Next]_vars => StallInv'
  BY StallStep
<1>3. StallInv => NoStall
  BY DEF StallInv, NoStall
<1>4. QED
  BY <1>1, <1>2, <1>3, TypeInvariant, PTL DEF Spec

-----------------------------------------------------------------------------
(* A terminal plan is final, and a succeeded one complete.                 *)

\* A terminal plan is on its way out of the loop, or passes through an empty poll
\* to the budget guard that will fail it again, or is about to be recorded as
\* failed because its cancelation was interrupted.
FinalInv ==
    plan \in TerminalPlan =>
        \/ /\ pc \in {"drain", "draining", "closed"} /\ exit # "continue"
           /\ SucceededPlanIsComplete
        \/ pc = "failing" /\ plan # "succeeded"
        \/ pc \in {"poll", "polled"} /\ todo = {} /\ Overspent /\ plan = "failed"

LEMMA SucceededEvent ==
    ASSUME TypeInv, NodesTerminal, TerminalEvent = "succeeded"
    PROVE  \A n \in topo : node[n] \in {"succeeded", "skipped"}
<1> DEFINE bad == {n \in topo : node[n] \in {"failed", "canceled"}}
           first == CHOOSE n \in bad : \A m \in bad : n <= m
<1>1. CASE bad = {}
  BY <1>1 DEF NodesTerminal, TerminalNode
<1>2. CASE bad # {}
  <2>1. TerminalEvent = node[first]
    BY <1>2 DEF TerminalEvent
  <2>2. bad \in SUBSET Nodes
    BY DEF TypeInv, TypeOK, NodeTypeOK
  <2>3. \E n \in bad : \A m \in bad : n <= m
    BY <1>2, <2>2, FirstNode
  <2>4. first \in bad
    BY <2>3
  <2>5. QED
    BY <2>1, <2>4
<1>3. QED
  BY <1>1, <1>2

\* The outcome of a terminal plan stays, but for an interrupted cancelation.
Kept == plan' = plan \/ (plan = "canceled" /\ plan' = "failed" /\ exit' = "error")

LEMMA FinalStep ==
    ASSUME TypeInv, FinalInv, [Next]_vars
    PROVE  /\ FinalInv'
           /\ plan \in TerminalPlan => Kept /\ topo' = topo /\ ~Launch
<1> DEFINE Goal == FinalInv' /\ (plan \in TerminalPlan => Kept /\ topo' = topo /\ ~Launch)
<1> USE DEF TerminalPlan, Kept
<1>1. CASE \/ StartWorkflow \/ FailSetup \/ ExceedIterations \/ BeginIteration
           \/ SettleWaitEnds \/ ApplySettled \/ PassUnsettled \/ SettleError \/ SettleDone
           \/ DropProcessedControl \/ ControlsDrained
           \/ DropProcessedSignal \/ SignalsDrained
  BY <1>1 DEF StartWorkflow, FailSetup, ExceedIterations, BeginIteration, SettleWaitEnds,
     ApplySettled, PassUnsettled, SettleError, ExpansionRefused, SettleDone,
     DropProcessedControl, ControlsDrained, DropProcessedSignal, SignalsDrained, FailIteration, Leave, Goto,
     ApplyPlanEvent, LifecycleFor, FinalInv, SucceededPlanIsComplete, Launch
<1>2. ASSUME NEW m \in Messages, Deliver(m) PROVE Goal
  BY <1>2 DEF Deliver, CancelPlan, PausePlan, ResumePlan, ApprovePlan, RejectPlan,
     RetryFromSignal, ForwardSignal, ReceiveControl, ReceiveSignal, SignalInvalid,
     FailIteration, Leave, Goto, CancelActive, CancelRefused, CancelInterrupted, ApplyPlanEvent, LifecycleFor, FinalInv,
     SucceededPlanIsComplete, Launch
<1>3. ASSUME NEW event \in {"failed", "rejected"}, ApplyDeadline(event) PROVE Goal
  BY <1>3 DEF ApplyDeadline, CancelActive, CancelRefused, CancelInterrupted, ApplyPlanEvent, LifecycleFor, Leave, FinalInv,
     SucceededPlanIsComplete, Launch
<1>4. CASE FinishPlan
  <2>1. plan \notin TerminalPlan /\ pc # "launch"
    BY <1>4 DEF FinishPlan, FinalInv
  <2>2. pc' = "drain" /\ exit' # "continue" /\ topo' = topo /\ node' = node
        /\ plan' = LifecycleFor(TerminalEvent)
    BY <1>4 DEF FinishPlan, Leave, ApplyPlanEvent
  <2>3. plan' = "succeeded" => TerminalEvent = "succeeded"
    BY <2>2 DEF LifecycleFor
  <2>4. SucceededPlanIsComplete'
    BY <1>4, <2>2, <2>3, SucceededEvent DEF FinishPlan, SucceededPlanIsComplete
  <2>5. QED
    BY <2>1, <2>2, <2>4 DEF FinalInv
<1>5. CASE \/ GuardsPassed \/ StayPaused \/ Schedule \/ ScheduleError \/ Launch
           \/ LaunchDone \/ PollDone \/ EndIteration \/ FinishIteration
  BY <1>5 DEF GuardsPassed, StayPaused, Schedule, ScheduleError, Launch, LaunchDone,
     PollDone, EndIteration, FinishIteration, FailIteration, ApplyPlanEvent,
     LifecycleFor, Leave, Goto, FinalInv, SucceededPlanIsComplete, Overspent
<1>6. CASE CheckBudgetAfterLaunch
  BY <1>6 DEF CheckBudgetAfterLaunch, CancelActive, CancelRefused, CancelInterrupted, ApplyPlanEvent, LifecycleFor, Leave,
     Goto, FinalInv, SucceededPlanIsComplete, Overspent, Launch
<1>7. CASE CheckBudgetAfterPoll
  BY <1>7 DEF CheckBudgetAfterPoll, CancelActive, CancelRefused, CancelInterrupted, ApplyPlanEvent, LifecycleFor, Leave,
     FinalInv, SucceededPlanIsComplete, Launch
<1>8. CASE PollNode \/ PollNothingNew \/ PollError
  BY <1>8 DEF PollNode, PollNothingNew, PollError, ExpansionRefused, FailIteration, ApplyPlanEvent,
     LifecycleFor, Leave, FinalInv, SucceededPlanIsComplete, Launch
<1>9. CASE RecordFailure \/ DrainOperations \/ CloseExecution \/ ActivityExhausted
  BY <1>9 DEF RecordFailure, DrainOperations, CloseExecution, ActivityExhausted, FailIteration,
     ApplyPlanEvent, LifecycleFor, Leave, Goto, FinalInv, SucceededPlanIsComplete, Launch
<1>10. ASSUME \/ ClockStep \/ UNCHANGED vars
              \/ \E k \in Keys : OperationStep(k) \/ EndRun(k)
              \/ \E m \in Messages : Send(m)
       PROVE  UNCHANGED <<plan, topo, node, pc, exit, todo, spent>>
  BY <1>10 DEF ClockStep, NodeDeadline, PlanDeadline, GateDeadline, vars, OperationStep,
     StartOperation, ResolveOperation, FailOperation, CancelOperation, EndRun, Send
<1>11. CASE UNCHANGED <<plan, topo, node, pc, exit, todo, spent>>
  BY <1>11 DEF FinalInv, SucceededPlanIsComplete, Overspent, Launch, Goto
<1>12. CASE WorkflowStep
  BY <1>12, <1>1, <1>2, <1>3, <1>4, <1>5, <1>6, <1>7, <1>8, <1>9 DEF WorkflowStep
<1>13. QED
  BY <1>10, <1>11, <1>12 DEF Next, Closed

LEMMA FinalInvariant == Spec => []FinalInv
<1>1. Init => FinalInv
  BY DEF Init, FinalInv, TerminalPlan
<1>2. TypeInv /\ FinalInv /\ [Next]_vars => FinalInv'
  BY FinalStep
<1>3. QED
  BY <1>1, <1>2, TypeInvariant, PTL DEF Spec

\* A plan reported as succeeded has only succeeded and skipped nodes, whatever
\* cancelations, expansions, timeouts and retries happened on the way.
THEOREM SuccessIsComplete == Spec => []SucceededPlanIsComplete
<1>1. FinalInv => SucceededPlanIsComplete
  BY DEF FinalInv, SucceededPlanIsComplete, TerminalPlan
<1>2. QED
  BY <1>1, FinalInvariant, PTL

\* After a terminal plan event no node starts and none is added, also not in the
\* rest of the iteration that tripped the budget, and the recorded outcome stays;
\* the one event that changes it is plan.failed after a plan.canceled whose
\* answer was lost, and then the execution ends with an error.
THEOREM TerminalIsFinal == Spec => TerminalPlanIsFinal
<1> DEFINE Final == /\ Kept
                    /\ topo' = topo
                    /\ \A n \in Nodes : node'[n] = "running" => node[n] = "running"
<1>1. Init => GraphInv
  BY NodesAssumption DEF Init, GraphInv
<1>2. TypeInv /\ GraphInv /\ [Next]_vars => GraphInv'
  BY NodeFrame
<1>3. ASSUME TypeInv, GraphInv, FinalInv, [Next]_vars, plan \in TerminalPlan
      PROVE  Final
  <2>1. Kept /\ topo' = topo /\ ~Launch
    BY <1>3, FinalStep
  <2>2. GraphInv' /\ Running' \subseteq Running
    BY <1>3, <2>1, NodeFrame
  <2>3. QED
    BY <2>1, <2>2 DEF GraphInv, Running
<1>4. TypeInv /\ GraphInv /\ FinalInv /\ [Next]_vars => [(plan \in TerminalPlan) => Final]_vars
  BY <1>3
<1>5. QED
  BY <1>1, <1>2, <1>4, TypeInvariant, FinalInvariant, PTL DEF Spec, TerminalPlanIsFinal, Kept

=============================================================================
