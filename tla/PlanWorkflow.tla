---------------------------- MODULE PlanWorkflow ----------------------------
(***************************************************************************)
(* The Temporal workflow that executes a run plan                          *)
(* (agentos/temporal/plan_workflow.go) over the plan reducer               *)
(* (internal/usecase/agentosplan/state.go), the Nexus run operation that   *)
(* starts and watches one backend run per node attempt                     *)
(* (agentos/temporal/nexus_run.go), and the backend runs themselves.       *)
(*                                                                         *)
(* The workflow is one thread.  `pc' is the phase of the current           *)
(* iteration; every phase ends where the code awaits an activity, a        *)
(* promise or a timer, so other actors act between two phases.  The plan   *)
(* variables are the durable snapshot: the code persists every event       *)
(* before it goes on.                                                      *)
(***************************************************************************)
EXTENDS Naturals, Sequences, FiniteSets, PlanScheduler

CONSTANTS
    Nodes,          \* node ids; their order is the order of the node ids
    Initial,        \* the nodes of the plan as it is created
    Delta,          \* Delta[n]: nodes the completed run of n adds to the plan
    Edges,          \* all edges, those of the expansions included
    Join,           \* join strategy of every node
    Conditions,     \* the outcomes condition expressions may have
    MaxAttempts,    \* NodePolicy.MaxAttempts of every node
    MaxParallel,    \* PlanPolicy.MaxParallelNodes
    MaxExpansions,  \* PlanPolicy.MaxExpansions
    Budget, Cost,   \* PlanPolicy.BudgetCents, and what one run spends
    Supports,       \* nodes that declare the pause and resume controls
    Unmapped,       \* nodes whose peer has no Nexus endpoint
    BadInput,       \* nodes whose input resolution may fail
    Strict,         \* nodes whose completed run may miss a required output
    Timed,          \* nodes with a timeout
    Messages,       \* controls and signals that may be sent to the plan
    MaxSends,       \* how often one message is delivered (bound)
    Options         \* features in use, see below

\* Options: "deadline" the plan has a timeout; "approval" blocked plans time
\* out; "continue" the continue-as-new thresholds are set; "iterations" the
\* iteration limit is set; "opfault" a Nexus operation may fail although the
\* backend works; "fault" an activity may exhaust its attempts.
AllOptions ==
    {"deadline", "approval", "continue", "iterations", "opfault", "fault"}

Operations  == {"pause", "resume", "cancel"}
SignalTypes == {"approve", "reject", "retry", "forward"}

ASSUME NodesAssumption ==
    /\ Nodes \subseteq Nat /\ IsFiniteSet(Nodes)
    /\ Initial \subseteq Nodes /\ Initial # {}
    /\ Delta \in [Nodes -> SUBSET (Nodes \ Initial)]

ASSUME GraphAssumption ==
    /\ \A e \in Edges : e.from \in Nodes /\ e.to \in Nodes /\ e.on \in Triggers
    /\ Join \in [Nodes -> Joins]
    /\ \A T \in SUBSET Nodes :
          Acyclic(T, {e \in Edges : e.from \in T /\ e.to \in T})

ASSUME PolicyAssumption ==
    /\ MaxAttempts \in [Nodes -> Nat \ {0}]
    /\ MaxParallel \in Nat \ {0}
    /\ MaxExpansions \in Nat /\ Budget \in Nat /\ Cost \in Nat
    /\ Options \subseteq AllOptions

ASSUME MessageAssumption ==
    /\ MaxSends \in Nat
    /\ \A m \in Messages : m.type \in Operations \cup SignalTypes /\ m.node \in Nodes

VARIABLES
    plan, gate, gateExpired,            \* RunPlanStatus: lifecycle, Approval, BlockedAt
    topo, node, attempts, nodeExpired,  \* Status.Nodes, StartedAt + timeout reached
    spent, expansions, planExpired,     \* BudgetUsage, ExpansionCount, StartedAt
    pc, exit, paused, paced, progressed, todo, cap,     \* the loop's locals
    controlCh, signalCh, processed, sent, applied,      \* messages
    registry, op, opCancel,             \* planNodeRunRegistry, Nexus operations
    run, cancelReq, pausedRuns          \* backend runs

planVars == <<plan, gate, gateExpired>>
nodeVars == <<topo, node, attempts, nodeExpired, spent, expansions>>
loopVars == <<pc, exit, paused, paced, progressed, todo, cap>>
mailVars == <<controlCh, signalCh, processed, sent, applied>>
opVars   == <<registry, op, opCancel>>
runVars  == <<run, cancelReq, pausedRuns>>
vars == <<planVars, nodeVars, planExpired, loopVars, mailVars, opVars, runVars>>


PlanStates   == {"pending", "running", "blocked", "succeeded", "failed", "canceled"}
TerminalPlan == {"succeeded", "failed", "canceled"}
GateStates   == {"none", "pending", "approved", "rejected", "stale"}
RunStates    == {"none", "active", "completed", "failed", "canceled"}
OpStates     == {"none", "scheduled", "started", "done", "failed"}
Phases == {"start", "iteration", "settle", "apply", "control", "signal", "guard",
           "schedule", "launch", "launched", "poll", "polled", "finish",
           "failing", "drain", "draining", "closed"}
Exits  == {"none", "done", "error", "stalled", "continue"}

\* One run id per node and attempt (nodeRunIDForAttempt).
Keys == UNION {{<<n, a>> : a \in 1 .. MaxAttempts[n]} : n \in Nodes}

Key(n)   == <<n, attempts[n]>>
Running  == {n \in topo : node[n] = "running"}
RunEndedMutant(k) == run[k] = "completed"
RunEnded(k)   == run[k] \in {"completed", "failed", "canceled"}
Resolved(k)   == op[k] \in {"done", "failed"}
NodesTerminal == \A n \in topo : node[n] \in TerminalNode
TopoEdgesMutant == {e \in Edges : e.from \in Initial /\ e.to \in Initial}
TopoEdges     == {e \in Edges : e.from \in topo /\ e.to \in topo}
Overspent     == Budget > 0 /\ spent > Budget
IsFirst(n, S) == n \in S /\ \A m \in S : n <= m

\* hasRunningPendingPromise
HasRunningPendingPromise ==
    \E n \in Running : Key(n) \in registry /\ ~Resolved(Key(n))

Init ==
    /\ plan = "pending" /\ gate = "none" /\ gateExpired = FALSE
    /\ topo = Initial
    /\ node = [n \in Nodes |-> "pending"]
    /\ attempts = [n \in Nodes |-> 0]
    /\ nodeExpired = {} /\ spent = 0 /\ expansions = 0 /\ planExpired = FALSE
    /\ pc = "start" /\ exit = "none"
    /\ paused = FALSE /\ paced = FALSE /\ progressed = FALSE
    /\ todo = {} /\ cap = 0
    /\ controlCh = <<>> /\ signalCh = <<>>
    /\ processed = {} /\ sent = [m \in Messages |-> 0]
    /\ applied = [m \in Messages |-> 0]
    /\ registry = {} /\ opCancel = {}
    /\ op = [k \in Keys |-> "none"]
    /\ run = [k \in Keys |-> "none"] /\ cancelReq = {} /\ pausedRuns = {}

-----------------------------------------------------------------------------
(* The reducer: State.Apply.                                               *)

PlanEvents ==
    {"started", "blocked", "approved", "rejected", "succeeded", "failed", "canceled"}

LifecycleForMutant(event) == event

\* reducerPlanLifecycleForEvent
LifecycleFor(event) ==
    CASE event \in {"started", "approved"} -> "running"
      [] event \in {"rejected", "failed"}  -> "failed"
      [] OTHER -> event

\* applyApprovalGateEvent and recordPlanApprovalDecision.  Every blocked plan
\* has a gate here: snapshots older than the gates are not modelled.
GateAfter(event) ==
    CASE event = "blocked" -> "pending"
      [] event \in {"approved", "rejected"} /\ gate = "pending" -> event
      [] event \notin {"blocked", "approved", "rejected"} /\ gate = "pending" -> "none"
      [] OTHER -> gate

\* applyPlanEvent.  BlockedAt is set or cleared by every plan event, so the
\* approval clock starts anew.
ApplyPlanEvent(event) ==
    /\ plan' = LifecycleFor(event)
    /\ gate' = GateAfter(event)
    /\ gateExpired' = FALSE

\* transitionNode to a state other than running.
SetNode(n, s) ==
    /\ node' = [node EXCEPT ![n] = s]
    /\ nodeExpired' = nodeExpired \ {n}

\* The attempt a failure is charged to; a node whose first attempt never
\* started counts as having used one.
FailedAttempt(n) == IF attempts[n] = 0 THEN 1 ELSE attempts[n]

RetryNodeMutant(n) ==
    /\ SetNode(n, "ready")
    /\ attempts' = [attempts EXCEPT ![n] = 0]

\* retryNode
RetryNode(n) ==
    /\ SetNode(n, "ready")
    /\ attempts' = [attempts EXCEPT ![n] = FailedAttempt(n)]

\* applyNodeAttemptFailure
FailAttempt(n) ==
    IF FailedAttempt(n) < MaxAttempts[n]
    THEN RetryNode(n)
    ELSE SetNode(n, "failed") /\ UNCHANGED attempts

-----------------------------------------------------------------------------
(* Leaving the loop, and controls sent to the runs of the active nodes.    *)

Leave(kind) == pc' = "drain" /\ exit' = kind
Goto(phase) == pc' = phase /\ UNCHANGED exit

\* failPlanWorkflowIteration
FailIteration == ApplyPlanEvent("failed") /\ Leave("error")

\* The runs of the nodes of S that are there to be controlled.
ActiveRuns(S) == {Key(n) : n \in {m \in S : run[Key(m)] = "active"}}

ControlRunsMutant(S) == UNCHANGED cancelReq

\* controlActivePlanNodes cancels the runs of the nodes of S.
ControlRuns(S) == cancelReq' = cancelReq \cup ActiveRuns(S)

\* A backend accepts a control for an active run, may refuse one for a run that
\* has ended, and knows nothing of a run that has not started.
MayAccept(n) == run[Key(n)] # "none"
MayRefuse(n) == run[Key(n)] # "active" \/ "fault" \in Options

\* controlActivePlanNodes fails at one node, S are the nodes it has reached: the
\* ones before it, and the node itself when only the answer is lost.
ControlFails(S) ==
    \E m \in Running :
        /\ MayRefuse(m)
        /\ \A n \in Running : n < m => MayAccept(n)
        /\ S \in {{n \in Running : n < m}, {n \in Running : n <= m}}

\* With nothing to cancel there is nothing to record.
CancelActiveMutant(event) ==
    /\ \A n \in Running : MayAccept(n)
    /\ ControlRuns(Running)
    /\ node' = [n \in Nodes |-> IF n \in Running THEN "canceled" ELSE node[n]]
    /\ nodeExpired' = {}
    /\ IF Running = {} THEN UNCHANGED planVars ELSE ApplyPlanEvent(event)
    /\ UNCHANGED <<topo, attempts, spent, expansions>>

\* cancelActivePlanNodesAndFail, and the same three steps in
\* cancelPlanFromControl and rejectPlanFromSignal.
CancelActive(event) ==
    /\ \A n \in Running : MayAccept(n)
    /\ ControlRuns(Running)
    /\ node' = [n \in Nodes |-> IF n \in Running THEN "canceled" ELSE node[n]]
    /\ nodeExpired' = {}
    /\ ApplyPlanEvent(event)
    /\ UNCHANGED <<topo, attempts, spent, expansions>>

\* ... when the control of one node fails.
CancelRefused ==
    \E S \in SUBSET Running :
        ControlFails(S) /\ ControlRuns(S) /\ UNCHANGED nodeVars

\* ... when an event cannot be persisted, or was and its answer is lost: some of
\* the nodes are marked canceled, and the plan's own event may be recorded.
CancelInterrupted(event) ==
    /\ "fault" \in Options
    /\ \A n \in Running : MayAccept(n)
    /\ ControlRuns(Running)
    /\ \E S \in SUBSET Running :
        /\ \A n \in S, m \in Running : m < n => m \in S
        /\ node' = [n \in Nodes |-> IF n \in S THEN "canceled" ELSE node[n]]
        /\ nodeExpired' = nodeExpired \ S
        /\ UNCHANGED planVars \/ (S = Running /\ ApplyPlanEvent(event))
    /\ UNCHANGED <<topo, attempts, spent, expansions>>

-----------------------------------------------------------------------------
(* The end of a run reaches the plan.                                      *)

\* applyNodeRunTerminal, when it returns no error: the spend is recorded, the
\* outputs are published, then the node succeeds, fails its attempt or is
\* canceled.  A loop over the nodes by index that adds nodes no longer reaches
\* the last positions of the longer list.
ApplyRunTerminal(n) ==
    LET r == run[Key(n)]
    IN  /\ spent' = spent + Cost
        /\ \/ /\ "fault" \in Options
              /\ SetNode(n, "failed")
              /\ todo' = todo \ {n}
              /\ UNCHANGED <<attempts, topo, expansions, gate>>
           \/ /\ r = "failed" \/ (r = "completed" /\ n \in Strict)
              /\ FailAttempt(n)
              /\ todo' = todo \ {n}
              /\ UNCHANGED <<topo, expansions, gate>>
           \/ /\ r = "canceled"
              /\ SetNode(n, "canceled")
              /\ todo' = todo \ {n}
              /\ UNCHANGED <<attempts, topo, expansions, gate>>
           \/ /\ r = "completed" /\ Delta[n] = {}
              /\ SetNode(n, "succeeded")
              /\ todo' = todo \ {n}
              /\ UNCHANGED <<attempts, topo, expansions, gate>>
           \/ /\ r = "completed" /\ Delta[n] # {} /\ expansions < MaxExpansions
              /\ SetNode(n, "succeeded")
              /\ topo' = topo \cup Delta[n]
              /\ expansions' = expansions + 1
              /\ gate' = IF gate = "none" THEN gate ELSE "stale"
              /\ todo' = {m \in todo \ {n} :
                            Cardinality({x \in topo' : x <= m}) <= Cardinality(topo)}
              /\ UNCHANGED attempts

\* applyPlanExpansion returns an error: the delta is not applied and the node
\* stays running.
ExpansionRefused(n) ==
    /\ run[Key(n)] = "completed" /\ Delta[n] # {}
    /\ expansions >= MaxExpansions \/ "fault" \in Options
    /\ spent' = spent + Cost
    /\ UNCHANGED <<topo, node, attempts, nodeExpired, expansions>>

\* applyNexusNodePromise, operation failed: the node fails, without a retry.
ApplyOperationFailure(n) ==
    /\ op[Key(n)] = "failed"
    /\ SetNode(n, "failed")
    /\ todo' = todo \ {n}
    /\ UNCHANGED <<attempts, topo, expansions, spent, gate>>

\* applyNexusNodePromise without error.
ApplyPromise(n) ==
    /\ Key(n) \in registry /\ Resolved(Key(n))
    /\ registry' = registry \ {Key(n)}
    /\ \/ ApplyOperationFailure(n)
       \/ op[Key(n)] = "done" /\ ApplyRunTerminal(n)

-----------------------------------------------------------------------------
(* The phases of PlanWorkflow and runPlanWorkflowIteration.                *)

\* PlanWorkflow up to the loop: a fresh execution starts the plan, a continued
\* one restores it.
StartWorkflow ==
    /\ pc = "start" /\ Unmapped \cap topo = {}
    /\ IF exit = "continue" THEN UNCHANGED planVars ELSE ApplyPlanEvent("started")
    /\ pc' = "iteration" /\ exit' = "none"
    /\ paused' = (plan' = "blocked")
    /\ UNCHANGED <<nodeVars, planExpired, paced, progressed, todo, cap,
                   mailVars, opVars, runVars>>

\* failPlanWorkflowSetup: the plan does not validate (again), or validatePlanNodePeers
\* finds a node whose peer has no endpoint; nothing is drained.  Nor is anything
\* recorded when an event cannot be.
FailSetup ==
    /\ pc = "start"
    /\ Unmapped \cap topo # {} \/ "fault" \in Options
    /\ ApplyPlanEvent("failed") \/ ("fault" \in Options /\ UNCHANGED planVars)
    /\ pc' = "closed" /\ exit' = "error"
    /\ UNCHANGED <<nodeVars, planExpired, paused, paced, progressed, todo, cap,
                   mailVars, opVars, runVars>>

\* applyPlanIterationGuard
ExceedIterations ==
    /\ pc = "iteration" /\ "iterations" \in Options
    /\ FailIteration
    /\ UNCHANGED <<nodeVars, planExpired, paused, paced, progressed, todo, cap,
                   mailVars, opVars, runVars>>

\* settleNexusNodePromises: whether there is anything to wait for.
BeginIteration ==
    /\ pc = "iteration"
    /\ paced' = HasRunningPendingPromise
    /\ progressed' = FALSE
    /\ Goto(IF HasRunningPendingPromise THEN "settle" ELSE "control")
    /\ UNCHANGED <<planVars, nodeVars, planExpired, paused, todo, cap,
                   mailVars, opVars, runVars>>

\* The bounded wait ends, because nothing is pending any more or by its timer.
SettleWaitEnds ==
    /\ pc = "settle"
    /\ Goto("apply") /\ todo' = Running
    /\ UNCHANGED <<planVars, nodeVars, planExpired, paused, paced, progressed, cap,
                   mailVars, opVars, runVars>>

\* applySettledNexusNodePromises, one node of the loop.
ApplySettled ==
    /\ pc = "apply"
    /\ \E n \in todo :
        /\ IsFirst(n, todo)
        /\ ApplyPromise(n)
        /\ progressed' = TRUE
    /\ UNCHANGED <<plan, gateExpired, planExpired, pc, exit, paused, paced, cap,
                   mailVars, op, opCancel, runVars>>

\* ... whose promise has not resolved.
PassUnsettled ==
    /\ pc = "apply"
    /\ \E n \in todo :
        /\ IsFirst(n, todo)
        /\ ~(Key(n) \in registry /\ Resolved(Key(n)))
        /\ todo' = todo \ {n}
    /\ UNCHANGED <<planVars, nodeVars, planExpired, pc, exit, paused, paced,
                   progressed, cap, mailVars, opVars, runVars>>

\* ... whose run proposes an expansion that is refused: the error ends the
\* workflow and no plan event is recorded.
SettleError ==
    /\ pc = "apply"
    /\ \E n \in todo :
        /\ IsFirst(n, todo)
        /\ Key(n) \in registry /\ op[Key(n)] = "done"
        /\ ExpansionRefused(n)
        /\ registry' = registry \ {Key(n)}
    /\ Leave("error")
    /\ UNCHANGED <<planVars, planExpired, paused, paced, progressed, todo, cap,
                   mailVars, op, opCancel, runVars>>

SettleDone ==
    /\ pc = "apply" /\ todo = {}
    /\ Goto("control")
    /\ UNCHANGED <<planVars, nodeVars, planExpired, paused, paced, progressed, todo,
                   cap, mailVars, opVars, runVars>>

-----------------------------------------------------------------------------
(* drainPlanControl                                                        *)

\* Receive the first message of the channel ch; a key seen before is dropped.
\* The drain loops decode into one variable, so a field that a message leaves out
\* keeps the value of the message before it.  That reaches only the reason, the
\* metadata and extra payload entries: the type, the key, the actor and the node
\* of a retry are always sent.
Receive(ch, m) ==
    /\ ch # <<>> /\ m = Head(ch) /\ m \notin processed
    /\ processed' = processed \cup {m}
    /\ applied' = [applied EXCEPT ![m] = @ + 1]
    /\ UNCHANGED sent

ReceiveControl(m) ==
    /\ pc = "control"
    /\ Receive(controlCh, m)
    /\ controlCh' = Tail(controlCh) /\ UNCHANGED signalCh

DropProcessedControl ==
    /\ pc = "control" /\ controlCh # <<>> /\ Head(controlCh) \in processed
    /\ controlCh' = Tail(controlCh)
    /\ UNCHANGED <<planVars, nodeVars, planExpired, loopVars, signalCh, processed,
                   sent, applied, opVars, runVars>>

ControlsDrained ==
    /\ pc = "control" /\ controlCh = <<>>
    /\ Goto("signal")
    /\ UNCHANGED <<planVars, nodeVars, planExpired, paused, paced, progressed, todo,
                   cap, mailVars, opVars, runVars>>

\* cancelPlanFromControl
CancelPlan(m) ==
    /\ ReceiveControl(m) /\ m.type = "cancel"
    /\ \/ CancelActive("canceled") /\ Leave("done")
       \/ CancelRefused /\ FailIteration
       \/ CancelInterrupted("canceled") /\ Goto("failing")
    /\ UNCHANGED <<planExpired, paused, paced, progressed, todo, cap, opVars, run,
                   pausedRuns>>

\* Pause and resume are sent only when every active node declares them.
ControlAccepted == \A n \in Running : n \in Supports /\ MayAccept(n)

ControlRejected(S) ==
    IF Running \subseteq Supports THEN ControlFails(S) ELSE S = {}

\* pausePlanFromControl: the runs of the active nodes pause and the plan blocks,
\* through blockPlanAfterControlFailure when not every run could be reached.
PausePlan(m) ==
    /\ ReceiveControl(m) /\ m.type = "pause"
    /\ \E S \in SUBSET Running :
        /\ (ControlAccepted /\ S = Running) \/ ControlRejected(S)
        /\ pausedRuns' = pausedRuns \cup ActiveRuns(S)
    /\ ApplyPlanEvent("blocked")
    /\ paused' = TRUE
    /\ UNCHANGED <<nodeVars, planExpired, pc, exit, paced, progressed, todo, cap,
                   opVars, run, cancelReq>>

\* resumePlanFromControl
ResumePlan(m) ==
    /\ ReceiveControl(m) /\ m.type = "resume"
    /\ \/ /\ ControlAccepted
          /\ pausedRuns' = pausedRuns \ ActiveRuns(Running)
          /\ ApplyPlanEvent("started")
          /\ paused' = FALSE
       \/ /\ \E S \in SUBSET Running :
               ControlRejected(S) /\ pausedRuns' = pausedRuns \ ActiveRuns(S)
          /\ ApplyPlanEvent("blocked")
          /\ paused' = TRUE
    /\ UNCHANGED <<nodeVars, planExpired, pc, exit, paced, progressed, todo, cap,
                   opVars, run, cancelReq>>

-----------------------------------------------------------------------------
(* drainPlanSignals                                                        *)

ReceiveSignal(m) ==
    /\ pc = "signal"
    /\ Receive(signalCh, m)
    /\ signalCh' = Tail(signalCh) /\ UNCHANGED controlCh

DropProcessedSignal ==
    /\ pc = "signal" /\ signalCh # <<>> /\ Head(signalCh) \in processed
    /\ signalCh' = Tail(signalCh)
    /\ UNCHANGED <<planVars, nodeVars, planExpired, loopVars, controlCh, processed,
                   sent, applied, opVars, runVars>>

SignalsDrained ==
    /\ pc = "signal" /\ signalCh = <<>>
    /\ Goto("guard")
    /\ UNCHANGED <<planVars, nodeVars, planExpired, paused, paced, progressed, todo,
                   cap, mailVars, opVars, runVars>>

\* A signal that does not apply fails the whole plan.
SignalInvalid ==
    /\ FailIteration
    /\ UNCHANGED <<nodeVars, paused, progressed, cancelReq>>

\* PlanApprovalDecisionFromSignal: a decided or stale gate takes no decision.
GateOpen == gate \in {"none", "pending"}

\* approvePlanFromSignal
ApprovePlan(m) ==
    /\ ReceiveSignal(m) /\ m.type = "approve"
    /\ IF plan = "blocked" /\ GateOpen
       THEN /\ ApplyPlanEvent("approved")
            /\ paused' = FALSE /\ progressed' = TRUE
            /\ UNCHANGED <<nodeVars, pc, exit, cancelReq>>
       ELSE SignalInvalid
    /\ UNCHANGED <<planExpired, paced, todo, cap, opVars, run, pausedRuns>>

\* rejectPlanFromSignal
RejectPlan(m) ==
    /\ ReceiveSignal(m) /\ m.type = "reject"
    /\ \/ /\ GateOpen /\ CancelActive("rejected") /\ Leave("done")
          /\ progressed' = TRUE /\ UNCHANGED paused
       \/ /\ GateOpen /\ CancelRefused /\ FailIteration
          /\ UNCHANGED <<paused, progressed>>
       \/ /\ GateOpen /\ CancelInterrupted("rejected") /\ Goto("failing")
          /\ UNCHANGED <<paused, progressed>>
       \/ ~GateOpen /\ SignalInvalid
    /\ UNCHANGED <<planExpired, paced, todo, cap, opVars, run, pausedRuns>>

\* manualRetryAlreadyScheduled
RetryAlreadyScheduled(n) == n \in topo /\ node[n] = "ready" /\ attempts[n] > 0

\* validateManualRetryAttempt
MayRetry(n) == n \in topo /\ node[n] = "failed" /\ FailedAttempt(n) + 1 <= MaxAttempts[n]

\* retryPlanNodeFromSignal
RetryFromSignal(m) ==
    /\ ReceiveSignal(m) /\ m.type = "retry"
    /\ \/ /\ RetryAlreadyScheduled(m.node)
          /\ paused' = FALSE /\ progressed' = TRUE
          /\ UNCHANGED <<planVars, nodeVars, pc, exit, cancelReq>>
       \/ /\ ~RetryAlreadyScheduled(m.node) /\ MayRetry(m.node)
          /\ IF plan \in {"blocked", "failed"}
             THEN ApplyPlanEvent("approved") ELSE UNCHANGED planVars
          /\ RetryNode(m.node)
          /\ paused' = FALSE /\ progressed' = TRUE
          /\ UNCHANGED <<topo, spent, expansions, pc, exit, cancelReq>>
       \/ /\ ~RetryAlreadyScheduled(m.node) /\ ~MayRetry(m.node)
          /\ SignalInvalid
    /\ UNCHANGED <<planExpired, paced, todo, cap, opVars, run, pausedRuns>>

\* signalActivePlanNodes
ForwardSignal(m) ==
    /\ ReceiveSignal(m) /\ m.type = "forward"
    /\ \/ /\ \A n \in Running : MayAccept(n)
          /\ UNCHANGED <<planVars, nodeVars, pc, exit, paused, progressed, cancelReq>>
       \/ /\ \E n \in Running : MayRefuse(n)
          /\ SignalInvalid
    /\ UNCHANGED <<planExpired, paced, todo, cap, opVars, run, pausedRuns>>

-----------------------------------------------------------------------------
(* applyPlanWorkflowPreScheduleGuards                                      *)

\* The plan's deadline, and while the plan is paused the approval's.
DeadlineReached(event) ==
    \/ event = "failed" /\ planExpired
    \/ event = "rejected" /\ ~planExpired /\ ~NodesTerminal /\ paused /\ gateExpired

\* applyPlanDeadlineGuard.  A refused control is returned as it is: no plan
\* event is recorded.
ApplyDeadline(event) ==
    /\ pc = "guard" /\ DeadlineReached(event)
    /\ \/ CancelActive(event) /\ Leave("done")
       \/ CancelRefused /\ Leave("error") /\ UNCHANGED planVars
       \/ CancelInterrupted(event) /\ Leave("error")
    /\ UNCHANGED <<planExpired, paused, paced, progressed, todo, cap, mailVars,
                   opVars, run, pausedRuns>>

TerminalEventMutant == "succeeded"

\* applyTerminalPlanState: the first failed or canceled node decides.
TerminalEvent ==
    LET bad == {n \in topo : node[n] \in {"failed", "canceled"}}
    IN  IF bad = {} THEN "succeeded"
        ELSE node[CHOOSE n \in bad : \A m \in bad : n <= m]

FinishPlan ==
    /\ \/ pc = "guard" /\ ~planExpired
       \/ pc = "polled" /\ ~Overspent
    /\ NodesTerminal
    /\ ApplyPlanEvent(TerminalEvent)
    /\ Leave("done") \/ ("fault" \in Options /\ Leave("error"))
    /\ UNCHANGED <<nodeVars, planExpired, paused, paced, progressed, todo, cap,
                   mailVars, opVars, runVars>>

GuardsPassedMutant ==
    /\ pc = "guard" /\ ~planExpired /\ ~NodesTerminal
    /\ Goto("schedule")
    /\ UNCHANGED <<planVars, nodeVars, planExpired, paused, paced, progressed, todo,
                   cap, mailVars, opVars, runVars>>

GuardsPassed ==
    /\ pc = "guard" /\ ~planExpired /\ ~NodesTerminal /\ ~paused
    /\ Goto("schedule")
    /\ UNCHANGED <<planVars, nodeVars, planExpired, paused, paced, progressed, todo,
                   cap, mailVars, opVars, runVars>>

\* A paused plan sleeps for one poll interval, or continues as new.
StayPaused ==
    /\ pc = "guard" /\ ~planExpired /\ ~NodesTerminal /\ paused /\ ~gateExpired
    /\ \/ Goto("iteration")
       \/ "continue" \in Options /\ Leave("continue")
    /\ UNCHANGED <<planVars, nodeVars, planExpired, paused, paced, progressed, todo,
                   cap, mailVars, opVars, runVars>>

-----------------------------------------------------------------------------
(* schedulePlanWorkflowNodes                                               *)

CapacityMutant == MaxParallel

\* What startReadyPlanNodes computes once, before it starts the first node.
Capacity ==
    IF MaxParallel > Cardinality(Running) THEN MaxParallel - Cardinality(Running) ELSE 0

\* Scheduler.Decide on one snapshot, applySkippedPlanNodes, and the capacity.
Schedule ==
    /\ pc = "schedule"
    /\ \E F \in Conditions :
         LET skipped == SkippedNodes(topo, TopoEdges, Join, node, F)
         IN  /\ node' = [n \in Nodes |-> IF n \in skipped THEN "skipped" ELSE node[n]]
             /\ todo' = ReadyNodes(topo, TopoEdges, Join, node, F)
             /\ progressed' = (progressed \/ skipped # {})
    /\ cap' = Capacity
    /\ Goto("launch")
    /\ UNCHANGED <<planVars, topo, attempts, nodeExpired, spent, expansions,
                   planExpired, paused, paced, mailVars, opVars, runVars>>

\* A condition cannot be evaluated.
ScheduleError ==
    /\ pc = "schedule" /\ "fault" \in Options
    /\ FailIteration
    /\ UNCHANGED <<nodeVars, planExpired, paused, paced, progressed, todo, cap,
                   mailVars, opVars, runVars>>

\* startPlanNode through startPlanNodeViaNexus: the node is running, its Nexus
\* operation is scheduled, the promise is registered.
StartNode(n) ==
    LET k == <<n, attempts[n] + 1>>
    IN  /\ n \notin Unmapped
        /\ node' = [node EXCEPT ![n] = "running"]
        /\ attempts' = [attempts EXCEPT ![n] = @ + 1]
        /\ nodeExpired' = nodeExpired \ {n}
        /\ op' = [op EXCEPT ![k] = "scheduled"]
        /\ registry' = registry \cup {k}

\* resolvePlanNodeAttempt: the input cannot be resolved.
InputFails(n) ==
    /\ n \in BadInput
    /\ FailAttempt(n)
    /\ UNCHANGED <<op, registry>>

\* Any other error of startPlanNode, before or after the attempt is recorded as
\* started, fails the node; nexusEndpointFor's, after it, when no endpoint reaches
\* the peer.
DispatchFails(n) ==
    /\ n \in Unmapped \/ "fault" \in Options
    /\ SetNode(n, "failed")
    /\ \/ attempts' = [attempts EXCEPT ![n] = @ + 1]
       \/ "fault" \in Options /\ UNCHANGED attempts
    /\ UNCHANGED <<op, registry>>

\* startReadyPlanNodes, one node of the loop.
Launch ==
    /\ pc = "launch" /\ cap > 0
    /\ \E n \in todo :
        /\ IsFirst(n, todo)
        /\ node[n] \in Schedulable
        /\ StartNode(n) \/ InputFails(n) \/ DispatchFails(n)
        /\ todo' = todo \ {n}
    /\ cap' = cap - 1
    /\ progressed' = TRUE
    /\ Goto("launched")
    /\ UNCHANGED <<planVars, topo, spent, expansions, planExpired, paused, paced,
                   mailVars, opCancel, runVars>>

CheckBudgetAfterLaunchMutant ==
    /\ pc = "launched"
    /\ \/ ~Overspent /\ UNCHANGED <<planVars, nodeVars, cancelReq>>
       \/ Overspent /\ CancelActive("failed")
    /\ Goto("launch")
    /\ UNCHANGED <<planExpired, paused, paced, progressed, todo, cap, mailVars,
                   opVars, run, pausedRuns>>

\* applyPlanBudgetGuard after each start.  When it trips, the loop ends without
\* an error and the iteration goes on to the poll.
CheckBudgetAfterLaunch ==
    /\ pc = "launched"
    /\ \/ /\ ~Overspent
          /\ Goto("launch")
          /\ UNCHANGED <<planVars, nodeVars, todo, cancelReq>>
       \/ /\ Overspent
          /\ CancelActive("failed")
          /\ Goto("poll") /\ todo' = {}
       \/ /\ Overspent
          /\ CancelRefused
          /\ Leave("error") /\ UNCHANGED <<planVars, todo>>
       \/ /\ Overspent
          /\ CancelInterrupted("failed")
          /\ Leave("error") /\ UNCHANGED todo
    /\ UNCHANGED <<planExpired, paused, paced, progressed, cap, mailVars, opVars, run,
                   pausedRuns>>

LaunchDone ==
    /\ pc = "launch" /\ (cap = 0 \/ todo = {})
    /\ Goto("poll") /\ todo' = Running
    /\ UNCHANGED <<planVars, nodeVars, planExpired, paused, paced, progressed, cap,
                   mailVars, opVars, runVars>>

-----------------------------------------------------------------------------
(* pollRunningPlanNodes, one node of the loop.                             *)

\* handleTimedOutPlanNode: the run is told to cancel, then the Nexus operation;
\* its registry entry stays.
TimeOutNode(n) ==
    /\ n \in nodeExpired /\ MayAccept(n)
    /\ ControlRuns({n})
    /\ opCancel' = opCancel \cup ({Key(n)} \cap {k \in registry : ~Resolved(k)})
    /\ FailAttempt(n)
    /\ todo' = todo \ {n}
    /\ UNCHANGED <<gate, topo, spent, expansions, registry>>

\* refreshNexusBackedPlanNode, promise resolved.
PollPromise(n) ==
    /\ n \notin nodeExpired
    /\ ApplyPromise(n)
    /\ UNCHANGED <<cancelReq, opCancel>>

\* refreshRunningPlanNode without a promise: the status activity knows no run
\* that has not started, and then the node fails.
PollStatus(n) ==
    /\ n \notin nodeExpired /\ Key(n) \notin registry
    /\ \/ /\ run[Key(n)] = "none" \/ "fault" \in Options
          /\ SetNode(n, "failed")
          /\ todo' = todo \ {n}
          /\ UNCHANGED <<gate, topo, attempts, spent, expansions>>
       \/ RunEnded(Key(n)) /\ ApplyRunTerminal(n)
    /\ UNCHANGED <<cancelReq, opCancel, registry>>

PollNode ==
    /\ pc = "poll"
    /\ \E n \in todo :
        /\ IsFirst(n, todo)
        /\ TimeOutNode(n) \/ PollPromise(n) \/ PollStatus(n)
    /\ progressed' = TRUE
    /\ UNCHANGED <<plan, gateExpired, planExpired, pc, exit, paused, paced, cap,
                   mailVars, op, run, pausedRuns>>

\* The promise is pending, or the run is active.
PollNothingNew ==
    /\ pc = "poll"
    /\ \E n \in todo :
        /\ IsFirst(n, todo) /\ n \notin nodeExpired
        /\ IF Key(n) \in registry THEN ~Resolved(Key(n)) ELSE run[Key(n)] = "active"
        /\ todo' = todo \ {n}
    /\ UNCHANGED <<planVars, nodeVars, planExpired, pc, exit, paused, paced,
                   progressed, cap, mailVars, opVars, runVars>>

\* An error of the poll fails the plan: a refused cancel of a timed out node, or
\* a refused expansion.
PollError ==
    /\ pc = "poll"
    /\ \E n \in todo :
        /\ IsFirst(n, todo)
        /\ \/ n \in nodeExpired /\ MayRefuse(n) /\ UNCHANGED <<nodeVars, registry>>
           \/ /\ n \notin nodeExpired /\ RunEnded(Key(n))
              /\ Key(n) \in registry => op[Key(n)] = "done"
              /\ ExpansionRefused(n)
              /\ registry' = registry \ {Key(n)}
    /\ FailIteration
    /\ UNCHANGED <<planExpired, paused, paced, progressed, todo, cap, mailVars, op,
                   opCancel, runVars>>

PollDone ==
    /\ pc = "poll" /\ todo = {}
    /\ Goto("polled")
    /\ UNCHANGED <<planVars, nodeVars, planExpired, paused, paced, progressed, todo,
                   cap, mailVars, opVars, runVars>>

\* applyPlanBudgetGuard after the poll.
CheckBudgetAfterPoll ==
    /\ pc = "polled" /\ Overspent
    /\ \/ CancelActive("failed") /\ Leave("done")
       \/ CancelRefused /\ Leave("error") /\ UNCHANGED planVars
       \/ CancelInterrupted("failed") /\ Leave("error")
    /\ UNCHANGED <<planExpired, paused, paced, progressed, todo, cap, mailVars,
                   opVars, run, pausedRuns>>

\* A paced iteration neither sleeps nor looks at the continue-as-new thresholds.
EndIteration ==
    /\ pc = "polled" /\ ~Overspent /\ ~NodesTerminal
    /\ Goto(IF paced THEN "iteration" ELSE "finish")
    /\ UNCHANGED <<planVars, nodeVars, planExpired, paused, paced, progressed, todo,
                   cap, mailVars, opVars, runVars>>

\* finishPlanWorkflowIteration
FinishIteration ==
    /\ pc = "finish"
    /\ \/ /\ ~progressed /\ Running = {}
          /\ ApplyPlanEvent("failed") /\ Leave("stalled")
       \/ /\ progressed \/ Running # {}
          /\ \/ Goto("iteration")
             \/ "continue" \in Options /\ Leave("continue")
          /\ UNCHANGED planVars
    /\ UNCHANGED <<nodeVars, planExpired, paused, paced, progressed, todo, cap,
                   mailVars, opVars, runVars>>

-----------------------------------------------------------------------------
(* drainNexusNodeRuns and the end of the execution.                        *)

DrainOperations ==
    /\ pc = "drain"
    /\ opCancel' = opCancel \cup {k \in registry : ~Resolved(k)}
    /\ Goto("draining")
    /\ UNCHANGED <<planVars, nodeVars, planExpired, paused, paced, progressed, todo,
                   cap, mailVars, registry, op, runVars>>

CloseExecutionMutant ==
    /\ pc = "draining"
    /\ registry' = {} /\ opCancel' = {}
    /\ controlCh' = <<>> /\ signalCh' = <<>> /\ processed' = {}
    /\ todo' = {} /\ cap' = 0 /\ paced' = FALSE /\ progressed' = FALSE
    /\ Goto(IF exit = "continue" THEN "start" ELSE "closed")
    /\ UNCHANGED <<planVars, nodeVars, planExpired, paused, sent, applied, op, runVars>>

\* The bounded wait ends, then the execution closes or continues as new.  What
\* is still in its channels goes with it, and cancelations not delivered by now
\* never are.
CloseExecution ==
    /\ pc = "draining"
    /\ registry' = {} /\ opCancel' = {}
    /\ controlCh' = <<>> /\ signalCh' = <<>>
    /\ todo' = {} /\ cap' = 0 /\ paced' = FALSE /\ progressed' = FALSE
    /\ Goto(IF exit = "continue" THEN "start" ELSE "closed")
    /\ UNCHANGED <<planVars, nodeVars, planExpired, paused, processed, sent, applied,
                   op, runVars>>

\* An activity of any phase (persisting an event first of all) exhausts its
\* attempts: the error ends the execution; on the paths through
\* failPlanWorkflowIteration the plan may still be recorded as failed.
ActivityExhausted ==
    /\ "fault" \in Options
    /\ pc \notin {"start", "drain", "draining", "closed"}
    /\ \/ Leave("error") /\ UNCHANGED planVars
       \/ pc \in {"control", "signal", "schedule", "poll"} /\ FailIteration
    /\ UNCHANGED <<nodeVars, planExpired, paused, paced, progressed, todo, cap,
                   mailVars, opVars, runVars>>

\* failPlanWorkflowIteration after a cancelation that was not completed.  An
\* event of it may be recorded already: plan.failed follows plan.canceled.
RecordFailure ==
    /\ pc = "failing"
    /\ FailIteration
    /\ UNCHANGED <<nodeVars, planExpired, paused, paced, progressed, todo, cap,
                   mailVars, opVars, runVars>>

-----------------------------------------------------------------------------
(* The environment: nexusRunOperationWorkflow, the backends, the clock and *)
(* the senders of commands.                                                *)

\* startRunViaActivity
StartOperation(k) ==
    /\ op[k] = "scheduled"
    /\ op' = [op EXCEPT ![k] = "started"]
    /\ run' = [run EXCEPT ![k] = "active"]
    /\ UNCHANGED <<planVars, nodeVars, planExpired, loopVars, mailVars, registry,
                   opCancel, cancelReq, pausedRuns>>

\* awaitRunTerminal sees the run's end.
ResolveOperation(k) ==
    /\ op[k] = "started" /\ RunEnded(k)
    /\ op' = [op EXCEPT ![k] = "done"]
    /\ UNCHANGED <<planVars, nodeVars, planExpired, loopVars, mailVars, registry,
                   opCancel, runVars>>

\* The start or the status activity exhausts its attempts, or a timeout of the
\* operation passes.
FailOperation(k) ==
    /\ "opfault" \in Options
    /\ op[k] \in {"scheduled", "started"}
    /\ op' = [op EXCEPT ![k] = "failed"]
    /\ UNCHANGED <<planVars, nodeVars, planExpired, loopVars, mailVars, registry,
                   opCancel, runVars>>

\* The cancelation arrives.  The run of a plan node is left alone; a start under
\* way may still happen.
CancelOperation(k) ==
    /\ k \in opCancel /\ op[k] \in {"scheduled", "started"}
    /\ op' = [op EXCEPT ![k] = "failed"]
    /\ opCancel' = opCancel \ {k}
    /\ \/ UNCHANGED run
       \/ op[k] = "scheduled" /\ run' = [run EXCEPT ![k] = "active"]
    /\ UNCHANGED <<planVars, nodeVars, planExpired, loopVars, mailVars, registry,
                   cancelReq, pausedRuns>>

\* A paused run may still end, by itself or because it is canceled; but nothing
\* makes a run that stays paused end.
EndRun(k) ==
    /\ run[k] = "active"
    /\ \E s \in {"completed", "failed"} \cup
               (IF k \in cancelReq THEN {"canceled"} ELSE {}) :
          run' = [run EXCEPT ![k] = s]
    /\ UNCHANGED <<planVars, nodeVars, planExpired, loopVars, mailVars, opVars,
                   cancelReq, pausedRuns>>

\* pollRunningPlanNodes reads the clock once, before its loop.
NodeDeadline(n) ==
    /\ n \in Timed \cap Running /\ n \notin nodeExpired /\ pc # "poll"
    /\ nodeExpired' = nodeExpired \cup {n}
    /\ UNCHANGED <<planVars, topo, node, attempts, spent, expansions, planExpired,
                   loopVars, mailVars, opVars, runVars>>

PlanDeadline ==
    /\ "deadline" \in Options /\ plan # "pending" /\ pc # "closed" /\ ~planExpired
    /\ planExpired' = TRUE
    /\ UNCHANGED <<planVars, nodeVars, loopVars, mailVars, opVars, runVars>>

GateDeadline ==
    /\ "approval" \in Options /\ plan = "blocked" /\ pc # "closed" /\ ~gateExpired
    /\ gateExpired' = TRUE
    /\ UNCHANGED <<plan, gate, nodeVars, planExpired, loopVars, mailVars, opVars,
                   runVars>>

\* SignalWorkflow, by the plan runtime or again by the command reconciler.
Send(m) ==
    /\ pc # "closed" /\ plan # "pending" /\ sent[m] < MaxSends
    /\ sent' = [sent EXCEPT ![m] = @ + 1]
    /\ IF m.type \in Operations
       THEN controlCh' = Append(controlCh, m) /\ UNCHANGED signalCh
       ELSE signalCh' = Append(signalCh, m) /\ UNCHANGED controlCh
    /\ UNCHANGED <<planVars, nodeVars, planExpired, loopVars, processed, applied,
                   opVars, runVars>>

Closed == pc = "closed" /\ UNCHANGED vars

-----------------------------------------------------------------------------
Deliver(m) ==
    \/ CancelPlan(m) \/ PausePlan(m) \/ ResumePlan(m)
    \/ ApprovePlan(m) \/ RejectPlan(m) \/ RetryFromSignal(m) \/ ForwardSignal(m)

WorkflowStep ==
    \/ StartWorkflow \/ FailSetup \/ ExceedIterations \/ BeginIteration
    \/ SettleWaitEnds \/ ApplySettled \/ PassUnsettled \/ SettleError \/ SettleDone
    \/ DropProcessedControl \/ ControlsDrained
    \/ DropProcessedSignal \/ SignalsDrained
    \/ \E m \in Messages : Deliver(m)
    \/ \E event \in {"failed", "rejected"} : ApplyDeadline(event)
    \/ FinishPlan \/ GuardsPassed \/ StayPaused
    \/ Schedule \/ ScheduleError
    \/ Launch \/ CheckBudgetAfterLaunch \/ LaunchDone
    \/ PollNode \/ PollNothingNew \/ PollError \/ PollDone
    \/ CheckBudgetAfterPoll \/ EndIteration \/ FinishIteration
    \/ RecordFailure \/ DrainOperations \/ CloseExecution \/ ActivityExhausted

OperationStep(k) ==
    StartOperation(k) \/ ResolveOperation(k) \/ FailOperation(k) \/ CancelOperation(k)

ClockStep == PlanDeadline \/ GateDeadline \/ \E n \in Nodes : NodeDeadline(n)

Next ==
    \/ WorkflowStep
    \/ \E k \in Keys : OperationStep(k) \/ EndRun(k)
    \/ ClockStep
    \/ \E m \in Messages : Send(m)
    \/ Closed

Spec == Init /\ [][Next]_vars

\* Temporal runs the workflow and the operations, time passes, and backend runs
\* end that are not paused or have been told to cancel.
Fairness ==
    /\ WF_vars(WorkflowStep)
    /\ \A k \in Keys :
        /\ WF_vars(OperationStep(k))
        /\ WF_vars((k \notin pausedRuns \/ k \in cancelReq) /\ EndRun(k))
    /\ WF_vars(GateDeadline) /\ WF_vars(PlanDeadline)

FairSpec == Spec /\ Fairness

-----------------------------------------------------------------------------
PlanTypeOK ==
    plan \in PlanStates /\ gate \in GateStates /\ gateExpired \in BOOLEAN

NodeTypeOK ==
    /\ topo \in SUBSET Nodes
    /\ node \in [Nodes -> NodeStates]
    /\ attempts \in [Nodes -> Nat]
    /\ nodeExpired \in SUBSET Nodes
    /\ spent \in Nat /\ expansions \in Nat

LoopTypeOK ==
    /\ planExpired \in BOOLEAN
    /\ pc \in Phases /\ exit \in Exits
    /\ paused \in BOOLEAN /\ paced \in BOOLEAN /\ progressed \in BOOLEAN
    /\ todo \in SUBSET Nodes /\ cap \in Nat

MailTypeOK ==
    /\ controlCh \in Seq(Messages) /\ signalCh \in Seq(Messages)
    /\ processed \in SUBSET Messages
    /\ sent \in [Messages -> Nat] /\ applied \in [Messages -> Nat]

RunTypeOK ==
    /\ registry \in SUBSET Keys /\ opCancel \in SUBSET Keys
    /\ op \in [Keys -> OpStates]
    /\ run \in [Keys -> RunStates] /\ cancelReq \in SUBSET Keys
    /\ pausedRuns \in SUBSET Keys

\* Every variable of the workflow, its operations and its runs has its type; the
\* registry and the cancel requests name only run ids that exist.
TypeOK == PlanTypeOK /\ NodeTypeOK /\ LoopTypeOK /\ MailTypeOK /\ RunTypeOK

-----------------------------------------------------------------------------
(* Properties.                                                             *)

\* Runs nobody has asked to stop.
LiveRuns == {k \in Keys : run[k] = "active" /\ k \notin cancelReq}

\* MaxParallelNodes bounds the running nodes although the capacity is computed
\* once per iteration, before promises, retries and controls change the nodes.
ParallelBound == Cardinality(Running) <= MaxParallel

\* Two attempts of a node never run side by side, unless the older one has
\* been told to cancel (a timed out attempt is retried while it winds down).
OneLiveRun ==
    \A j, k \in LiveRuns : j[1] = k[1] => j = k

\* An execution that ends without an error leaves no run behind that nobody
\* asked to stop: canceling, rejecting and timing out reach every active node.
QuietClose == pc = "closed" /\ exit = "done" => LiveRuns = {}

\* Only an error closes the workflow with the durable plan still pending, running
\* or blocked: whichever guard, message or scheduling decision ends it otherwise
\* has told the plan's observers the outcome.  The errors that do are a refused
\* cancel in a deadline or budget guard, an expansion refused while promises are
\* settled, and events that cannot be recorded.
ClosedPlanTerminal == pc = "closed" /\ exit # "error" => plan \in TerminalPlan

\* A plan reported as succeeded has no failed, canceled or unfinished node.
SucceededPlanIsComplete ==
    plan = "succeeded" => \A n \in topo : node[n] \in {"succeeded", "skipped"}

\* finishPlanWorkflowIteration's last resort, "plan has pending nodes but no
\* runnable or active nodes", is never reached: the scheduler always decides
\* about some node of an acyclic plan when none is running.
NoStall == exit # "stalled"

\* A control or signal delivered twice, also across a continue-as-new, takes
\* effect once.
AppliedOnce == \A m \in Messages : applied[m] <= 1

\* After a terminal plan event no node starts and none is added, also where the
\* iteration goes on (a budget trip while launching, which records plan.failed a
\* second time), and the outcome stays; but a plan recorded as canceled becomes
\* failed when the cancelation ends in an error.
TerminalPlanIsFinal ==
    [][(plan \in TerminalPlan) =>
          /\ plan' = plan \/ (plan = "canceled" /\ plan' = "failed" /\ exit' = "error")
          /\ topo' = topo
          /\ \A n \in Nodes : node'[n] = "running" => node[n] = "running"]_vars

\* Attempts of a node are numbered upwards and every new run gets a number that
\* was never used: a run id is never reused.
FreshRuns ==
    [][\A k \in Keys : op'[k] = "scheduled" /\ op[k] # "scheduled" =>
          op[k] = "none" /\ run[k] = "none"]_vars

\* Every execution comes to an end.
Termination == <>(pc = "closed")

\* ... unless it waits for a run that a pause has reached: approving or retrying a
\* paused plan resumes the plan and not its runs, and nothing else keeps an
\* execution from its end.
TerminationUnlessPaused ==
    <>(pc = "closed") \/ <>[](\E n \in Running : Key(n) \in pausedRuns)

-----------------------------------------------------------------------------
\* The workflow implements the abstract plan: whatever is interleaved with its
\* phases, a node starts only on a decision that still holds, while the plan is
\* open and within the capacity, and each step is one the plan allows.
Graph == INSTANCE PlanGraph WITH open <- ~paused

ImplementsPlanGraph == Graph!Spec

=============================================================================
