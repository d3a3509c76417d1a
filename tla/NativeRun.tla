----------------------------- MODULE NativeRun -----------------------------
(***************************************************************************)
(* The native backend's two execution modes: a run is the agent loop, or a *)
(* step queue that starts one agent loop for each of its agent steps and   *)
(* waits for it.  The queue's signals are not the child's.                 *)
(*                                                                         *)
(* The step-queue interpreter (Workflow in orchestration.go) runs one step *)
(* of an authored queue at a time, under control commands, queue mutations *)
(* and external events.  A step is [id, type, deps, group, configured,     *)
(* wait, onResult, status]; the work of an agent step is the agent loop,   *)
(* that of a tool step its outcome.                                        *)
(***************************************************************************)
EXTENDS Integers, Sequences, Folds

CONSTANTS
  Setups, MaxToolRounds, MaxAttempts, MaxSignals,  \* of the agent loop
  ChildSetup,  \* the setup of the agent loop of a step
  Queues,      \* the authored queues
  Mutations,   \* the step-modify payloads an operator may send
  MaxRounds,   \* ContinuePolicy.MaxRounds
  MaxSends     \* signals sent to one run

VARIABLES
  s, stack, cmds, inbox, sent, tries, tool, balance, ids, facts, tree,  \* of the agent loop
  steps,   \* the queue
  pc,      \* where the loop stands
  idx,     \* the step in execution
  round,
  qcmds, mods, events,  \* the three signal channels
  qsent,
  done,    \* ghost: the ids of the steps that have completed
  ran,     \* ghost: the dependencies not completed when a step was run
  told     \* ghost: a cancel was read

agentVars == <<s, stack, cmds, inbox, sent, tries, tool, balance, ids, facts, tree>>
queueVars == <<steps, pc, idx, round, qcmds, mods, events, qsent, done, ran, told>>
vars == <<agentVars, queueVars>>

A == INSTANCE AgentLoop

Idle == [append |-> "", inserts |-> <<>>, delete |-> {}, modify |-> ""]
Is(k, st) == steps[k].status = st

Pending(step) == [step EXCEPT !.status = "pending"]
AllPending(seq) == [i \in DOMAIN seq |-> Pending(seq[i])]

initSteps(queue) == AllPending(queue)

----------------------------------------------------------------------------
(* Which step is next                                                      *)

splitGroupReady(i) ==
  steps[i].group = "" \/
  \A j \in 1..(i - 1) : steps[j].group = steps[i].group =>
                          steps[j].status \in {"completed", "failed"}

buildCompletedMap == {steps[k].id : k \in {j \in DOMAIN steps : Is(j, "completed")}}

dependenciesMetMutant(i) ==
  \A d \in steps[i].deps : d \notin {steps[k].id : k \in {j \in DOMAIN steps : Is(j, "pending")}}
dependenciesMet(i) == steps[i].deps \subseteq buildCompletedMap

Ready(i) == Is(i, "pending") /\ splitGroupReady(i) /\ dependenciesMet(i)

\* findReadyStepIndex: the first ready step, 0 for none.
findReadyStepIndex ==
  LET ready == {i \in DOMAIN steps : Ready(i)}
  IN IF ready = {} THEN 0 ELSE CHOOSE i \in ready : \A j \in ready : i <= j

hasPendingWork(queue) == \E k \in DOMAIN queue : queue[k].status = "pending"
allStepsTerminal == ~hasPendingWork(steps)

----------------------------------------------------------------------------
(* Queue mutations                                                         *)

First(S) == CHOOSE i \in S : \A j \in S : i <= j

\* The sequences of seqs one after the other.
Joined(seqs) ==
  MapThenFoldSet(LAMBDA one, rest : one \o rest, <<>>, LAMBDA i : seqs[i], First, DOMAIN seqs)

insertAfterStep(queue, after, inserts) ==
  Joined([i \in DOMAIN queue |->
    IF queue[i].id = after THEN <<queue[i]>> \o AllPending(inserts) ELSE <<queue[i]>>])

applyStepMutation(queue, m) ==
  LET kept == SelectSeq(queue, LAMBDA x : x.id \notin m.delete)
      replaced == Joined([i \in DOMAIN kept |->
        IF kept[i].id = m.modify /\ m.inserts # <<>> THEN AllPending(m.inserts)
                                                     ELSE <<kept[i]>>])
  IN IF m.append # "" /\ m.inserts # <<>>
     THEN insertAfterStep(replaced, m.append, m.inserts) ELSE replaced

----------------------------------------------------------------------------
(* The loop                                                                *)

NextRound == pc' = "round" /\ round' = round + 1

\* handleControlSignal: a cancel read while paused ends the pause like a resume.
handleControlSignal ==
  /\ pc = "round" /\ round < MaxRounds
  /\ \/ qcmds = <<>> /\ pc' = "signals" /\ UNCHANGED <<qcmds, told>>
     \/ /\ qcmds # <<>> /\ qcmds' = Tail(qcmds) /\ told' = (told \/ Head(qcmds) = "cancel")
        /\ pc' = CASE Head(qcmds) = "cancel" -> "canceled"
                   [] Head(qcmds) = "pause" -> "paused"
                   [] OTHER -> "signals"
  /\ UNCHANGED <<steps, idx, round, mods, events, qsent, done, ran>>

waitForResume ==
  /\ pc = "paused" /\ qcmds # <<>> /\ qcmds' = Tail(qcmds)
  /\ told' = (told \/ Head(qcmds) = "cancel")
  /\ pc' = IF Head(qcmds) \in {"resume", "cancel"} THEN "signals" ELSE "paused"
  /\ UNCHANGED <<steps, idx, round, mods, events, qsent, done, ran>>

\* No step has the waiting status, so the event that is read goes nowhere.
processSignals ==
  /\ pc = "signals" /\ pc' = "pick"
  /\ steps' = IF mods = <<>> THEN steps ELSE applyStepMutation(steps, Head(mods))
  /\ mods' = IF mods = <<>> THEN mods ELSE Tail(mods)
  /\ events' = IF events = 0 THEN events ELSE events - 1
  /\ UNCHANGED <<idx, round, qcmds, qsent, done, ran, told>>

\* With nothing ready the round ends, the run too once every step is terminal.
processWorkflowRound ==
  /\ pc = "pick" /\ findReadyStepIndex = 0
  /\ IF allStepsTerminal THEN pc' = "finished" /\ UNCHANGED round ELSE NextRound
  /\ UNCHANGED <<steps, idx, qcmds, mods, events, qsent, done, ran, told>>

tryExecuteReadyStep ==
  /\ pc = "pick" /\ findReadyStepIndex # 0
  /\ idx' = findReadyStepIndex /\ pc' = "run"
  /\ ran' = ran \cup (steps[idx'].deps \ done)
  /\ UNCHANGED <<steps, round, qcmds, mods, events, qsent, done, told>>

\* The status of the step is set before its mutation is applied to the queue.
Finish(status, m) ==
  LET marked == [steps EXCEPT ![idx].status = status]
      queue == IF status = "completed" THEN applyStepMutation(marked, m) ELSE marked
  IN /\ steps' = queue /\ idx' = 0
     /\ done' = IF status = "completed" THEN done \cup {steps[idx].id} ELSE done
     /\ IF hasPendingWork(queue) THEN NextRound
        ELSE pc' = "finished" /\ UNCHANGED round

Running(types) == pc = "run" /\ steps[idx].type \in types
OnResult == steps[idx].onResult
Quiet == UNCHANGED <<qcmds, mods, events, qsent, ran, told>>

\* An agent step is a child AgentWorkflow: see agentStepReturns.
executeAgentStep(status) == Running({"agent"}) /\ Finish(status, OnResult) /\ Quiet

\* A tool step is one ToolExecActivity.
executeToolStep ==
  /\ Running({"tool"}) /\ steps[idx].configured /\ Quiet
  /\ \E status \in {"completed", "failed"} : Finish(status, OnResult)

\* A step that was not configured (no tool name, no wait condition, no join
\* group, an unknown type) fails where it is executed.
executeUnconfigured ==
  /\ Running({"tool", "wait", "join", "other"}) /\ ~steps[idx].configured
  /\ Finish("failed", Idle) /\ Quiet

\* Only the event channel and the timer end a wait.
executeWaitStep ==
  /\ Running({"wait"}) /\ steps[idx].configured
  /\ \/ events > 0 /\ events' = events - 1 /\ Finish("completed", OnResult)
     \/ steps[idx].wait = "skip" /\ UNCHANGED events /\ Finish("completed", Idle)
     \/ steps[idx].wait = "fail" /\ UNCHANGED events /\ Finish("failed", Idle)
  /\ UNCHANGED <<qcmds, mods, qsent, ran, told>>

\* The queue reaches the workflow as decoded JSON, so the children of a split
\* are never the []entity.Step it asks for: the step fails with or without them.
executeSplitStep == Running({"split"}) /\ Finish("failed", Idle) /\ Quiet

\* A join completes when it is reached: its group is not consulted.
executeJoinStep ==
  Running({"join"}) /\ steps[idx].configured /\ Finish("completed", OnResult) /\ Quiet

executeEvalStep == Running({"eval"}) /\ Finish("completed", OnResult) /\ Quiet

\* The loop's bound.
stepCap ==
  /\ pc = "round" /\ round = MaxRounds /\ pc' = "finished"
  /\ UNCHANGED <<steps, idx, round, qcmds, mods, events, qsent, done, ran, told>>

----------------------------------------------------------------------------
Closed == pc \in {"finished", "canceled"}
CanSend == qsent < MaxSends /\ ~Closed /\ qsent' = qsent + 1

SendCommand(c) ==
  /\ CanSend /\ qcmds' = Append(qcmds, c)
  /\ UNCHANGED <<steps, pc, idx, round, mods, events, done, ran, told>>

SignalStepModify(m) ==
  /\ CanSend /\ mods' = Append(mods, m)
  /\ UNCHANGED <<steps, pc, idx, round, qcmds, events, done, ran, told>>

\* An event whose payload is text; the SDK drops one it cannot decode as such.
SignalExternalEvent ==
  /\ CanSend /\ events' = events + 1
  /\ UNCHANGED <<steps, pc, idx, round, qcmds, mods, done, ran, told>>

QueueInit ==
  /\ \E q \in Queues : steps = initSteps(q)
  /\ pc = "round" /\ idx = 0 /\ round = 0
  /\ qcmds = <<>> /\ mods = <<>> /\ events = 0 /\ qsent = 0
  /\ done = {} /\ ran = {} /\ told = FALSE

\* Every step of the interpreter but the start of a step and the wait for its agent.
Interpret ==
  \/ handleControlSignal \/ waitForResume \/ processSignals \/ processWorkflowRound
  \/ executeToolStep \/ executeUnconfigured \/ executeWaitStep \/ executeSplitStep
  \/ executeJoinStep \/ executeEvalStep \/ stepCap

SignalsArrive ==
  \/ \E c \in {"cancel", "pause", "resume"} : SendCommand(c)
  \/ \E m \in Mutations : SignalStepModify(m)
  \/ SignalExternalEvent

----------------------------------------------------------------------------
(* The two modes                                                           *)

\* No agent loop: the one of an earlier step, reduced to its outcome.
NoAgent(outcome) == <<[A!Frame("agent", 0, 0) EXCEPT !.pc = outcome]>>

\* StartExecution: a request with a queue runs the interpreter.
StartExecution ==
  \/ /\ A!Init
     /\ steps = <<>> /\ pc = "finished" /\ idx = 0 /\ round = 0
     /\ qcmds = <<>> /\ mods = <<>> /\ events = 0 /\ qsent = 0
     /\ done = {} /\ ran = {} /\ told = FALSE
  \/ /\ QueueInit
     /\ s = ChildSetup /\ stack = NoAgent("done") /\ cmds = <<>> /\ inbox = 0 /\ sent = 0
     /\ tries = 0 /\ tool = A!NoTool /\ balance = s.credit /\ ids = 0 /\ facts = {}
     /\ tree = A!Fresh

\* The child is started when its step is picked, under a budget of its own.
startAgentStep ==
  /\ tryExecuteReadyStep
  /\ IF steps[findReadyStepIndex].type = "agent"
     THEN stack' = <<A!Frame("agent", 0, 0)>> /\ tree' = A!Fresh /\ ids' = 0
     ELSE UNCHANGED <<stack, tree, ids>>
  /\ UNCHANGED <<s, cmds, inbox, sent, tries, tool, balance, facts>>

\* A child that was canceled returns its result like one that completed.
agentStepReturns ==
  /\ pc = "run" /\ steps[idx].type = "agent" /\ A!Ended
  /\ executeAgentStep(IF A!Root.pc = "done" THEN "completed" ELSE "failed")
  /\ stack' = NoAgent("done") /\ tree' = A!Fresh
  /\ UNCHANGED <<s, cmds, inbox, sent, tries, tool, balance, ids, facts>>

QueueStep ==
  \/ Interpret /\ UNCHANGED agentVars
  \/ startAgentStep \/ agentStepReturns

Init == StartExecution

Next ==
  \/ A!Step /\ UNCHANGED queueVars
  \/ A!childTimeout /\ UNCHANGED queueVars
  \/ (\E c \in s.signals : A!Send(c)) /\ UNCHANGED queueVars
  \/ QueueStep
  \/ SignalsArrive /\ UNCHANGED agentVars

Spec == Init /\ [][Next]_vars

----------------------------------------------------------------------------
BudgetIsTreeTotal == A!BudgetIsTreeTotal
ToolRunsOnce == A!ToolRunsOnce

\* A step is run only after everything it depends on has completed, whatever
\* the queue was turned into meanwhile: a failed, deleted, replaced or
\* reordered dependency never counts.
DependenciesRespected == ran = {}

=============================================================================
