----------------------------- MODULE AgentLoop -----------------------------
(***************************************************************************)
(* The native agent loop: a workflow asks a model what to do, runs the     *)
(* tools the model calls, delegates to child agents, waits for the user    *)
(* and continues as new.  AgentWorkflow and StreamAgentWorkflow share the  *)
(* signal check, the delegation budget and the tool activity; their        *)
(* differences are the frame's mode.  A parent blocks on its child, so the *)
(* tree of running workflows is a stack and only its top moves.            *)
(***************************************************************************)
EXTENDS Integers, Sequences, Folds

CONSTANTS
  Setups,       \* the runs started: see the fields in Init
  MaxToolRounds, \* maxToolRounds
  MaxAttempts,  \* activityMaxRetries
  MaxSignals    \* commands and user messages sent to one run

VARIABLES
  s,        \* the setup of this run
  stack,    \* the running workflows, root first
  cmds,     \* the root's agent-command channel
  inbox,    \* the root's agent-message channel, as a count
  sent,     \* signals sent so far
  tries,    \* failed attempts of the activity in flight
  tool,     \* the tool activity in flight
  balance,  \* the account's credits
  ids,      \* tool-call ids handed out by the model
  facts,    \* terminal milestones of a streamed run
  tree      \* ghost: tokens returned to any loop, and those no budget saw

vars == <<s, stack, cmds, inbox, sent, tries, tool, balance, ids, facts, tree>>

top == stack[Len(stack)]
Root == stack[1]
Active(p) == top.pc = p /\ Root.pc \notin {"done", "failed"}
SetTop(f) == stack' = [stack EXCEPT ![Len(stack)] = f]
Goto(p) == SetTop([top EXCEPT !.pc = p])
NoTool == [pc |-> "none", ran |-> 0, lost |-> 0, stored |-> FALSE]

\* A message is [role, calls, id]; the content is not modelled.
User == [role |-> "user", calls |-> <<>>, id |-> 0]
Assistant(calls) == [role |-> "assistant", calls |-> calls, id |-> 0]
ToolMsg(id) == [role |-> "tool", calls |-> <<>>, id |-> id]

----------------------------------------------------------------------------
(* Delegation budget                                                       *)

Allowed(f) == f.depth < s.maxDepth
TokensSpent(f) == f.base + f.own
Exhausted(f) == s.budget > 0 /\ TokensSpent(f) >= s.budget
Check(f) == Allowed(f) /\ ~Exhausted(f)

\* The frame of a workflow that has just been started under a budget.
Frame(mode, depth, base) ==
  [mode |-> mode, pc |-> "prepare", round |-> 0, step |-> 0, msgs |-> <<>>,
   calls |-> <<>>, cont |-> 0, ref |-> <<>>, depth |-> depth,
   base |-> base, own |-> 0, state |-> "running", reason |-> "", after |-> ""]

\* DelegateBudget.Child: one level deeper, carrying what the tree has spent.
Child(f) == Frame("agent", f.depth + 1, TokensSpent(f))

----------------------------------------------------------------------------
(* Tool-call pairing                                                       *)

CallIds(msgs) == UNION {{msgs[k].calls[i].id : i \in DOMAIN msgs[k].calls} : k \in DOMAIN msgs}
ResultIds(msgs) == {msgs[k].id : k \in {j \in DOMAIN msgs : msgs[j].role = "tool"}}
collectOrphanedToolResults(msgs) == ResultIds(msgs) \ CallIds(msgs)
collectUnansweredToolCalls(msgs) == CallIds(msgs) \ ResultIds(msgs)
ValidateToolCallPairing(msgs) ==
  collectOrphanedToolResults(msgs) = {} /\ collectUnansweredToolCalls(msgs) = {}

\* The streamed assistant message keeps no text, so it is dropped with its
\* last call; the synchronous one keeps its content.
stripUnansweredToolCalls(m, open) ==
  [m EXCEPT !.calls = SelectSeq(@, LAMBDA c : c.id \notin open)]
RepairToolCallPairing(mode, msgs) ==
  IF ValidateToolCallPairing(msgs) THEN msgs ELSE
  LET orphans == collectOrphanedToolResults(msgs)
      open == collectUnansweredToolCalls(msgs)
      kept == SelectSeq(msgs, LAMBDA m : ~(m.role = "tool" /\ m.id \in orphans))
      stripped == [i \in DOMAIN kept |-> stripUnansweredToolCalls(kept[i], open)]
  IN SelectSeq(stripped, LAMBDA m :
       ~(m.role = "assistant" /\ m.calls = <<>> /\ mode = "stream"))

----------------------------------------------------------------------------
(* How a workflow ends.  The parent of a child that returns a result adds  *)
(* what it spent; a child that ends in error is an answer with no tokens.  *)

Resume(spent) ==
  LET p == stack[Len(stack) - 1]
      up == [p EXCEPT !.msgs = Append(@, ToolMsg(p.calls[1].id)),
                      !.calls = Tail(@), !.own = @ + spent, !.pc = "calls"]
  IN stack' = SubSeq(stack, 1, Len(stack) - 2) \o <<up>>

\* makeWorkflowResult and the tail of handleDelegateToolCall.
Return(f) ==
  IF Len(stack) = 1 THEN SetTop([f EXCEPT !.pc = "done"]) ELSE Resume(f.own)

Fail(f) ==
  IF Len(stack) = 1
  THEN SetTop([f EXCEPT !.pc = "failed", !.state = "failed"]) /\ UNCHANGED tree
  ELSE Resume(0) /\ tree' = [tree EXCEPT !.unseen = @ + f.own]

\* An activity attempt that fails is retried until the attempts are spent.
Retry(f) ==
  IF tries + 1 < MaxAttempts
  THEN tries' = tries + 1 /\ UNCHANGED <<stack, tree>>
  ELSE tries' = 0 /\ Fail(f)

----------------------------------------------------------------------------
(* Signals                                                                 *)

\* An operator or a user signals the root while it runs.
Send(c) ==
  /\ sent < MaxSignals /\ Root.pc \notin {"done", "failed"}
  /\ sent' = sent + 1
  /\ cmds' = IF c = "message" THEN cmds ELSE Append(cmds, c)
  /\ inbox' = IF c = "message" THEN inbox + 1 ELSE inbox
  /\ UNCHANGED <<s, stack, tries, tool, balance, ids, facts, tree>>

\* checkStreamSignal: only the root's channel is ever signalled.
NextCmd == IF Len(stack) = 1 /\ cmds # <<>> THEN Head(cmds) ELSE "none"

Canceled(f) ==
  LET g == [f EXCEPT !.state = "canceled"] IN
  IF f.mode = "stream" THEN SetTop([g EXCEPT !.pc = "emitCanceled"]) ELSE Return(g)

\* checkStreamSignal at the head of a round and before each tool call.
checkStreamSignal(from, to) ==
  /\ Active(from)
  /\ \/ NextCmd \in {"none", "resume"} /\ Goto(to)
     \/ NextCmd = "pause" /\ SetTop([top EXCEPT !.pc = "paused", !.after = to])
     \/ NextCmd = "cancel" /\ Canceled(top)
  /\ cmds' = IF NextCmd = "none" THEN cmds ELSE Tail(cmds)
  /\ UNCHANGED <<s, inbox, sent, tries, tool, balance, ids, facts, tree>>

\* waitForResume: anything but resume and cancel is read and dropped.
waitForResume ==
  /\ Active("paused") /\ NextCmd # "none" /\ cmds' = Tail(cmds)
  /\ \/ NextCmd = "resume" /\ Goto(top.after)
     \/ NextCmd = "cancel" /\ Canceled(top)
     \/ NextCmd = "pause" /\ UNCHANGED stack
  /\ UNCHANGED <<s, inbox, sent, tries, tool, balance, ids, facts, tree>>

----------------------------------------------------------------------------
(* Starting: PrepareActivity or InitStreamActivity, then the history a     *)
(* continued run reloads.                                                  *)

\* A balance of zero denies the run; a billing error is only a warning.
prepBilling == s.billed /\ balance <= 0

\* Tool definitions and MCP servers that do not resolve are warnings too.
PrepareActivity == {"proceed"} \cup (IF prepBilling THEN {"denied"} ELSE {})

agentWorkflowInit ==
  /\ Active("prepare") /\ top.mode = "agent"
  /\ \/ "denied" \in PrepareActivity /\ tries' = 0 /\ Fail(top)
     \/ /\ "proceed" \in PrepareActivity /\ tries' = 0 /\ UNCHANGED tree
        /\ SetTop([top EXCEPT !.msgs = <<User>>,
                              !.pc = IF top.ref = <<>> THEN "round" ELSE "load"])
     \/ Retry(top)
  /\ UNCHANGED <<s, cmds, inbox, sent, tool, balance, ids, facts>>

\* LoadHistoryActivity: the snapshot replaces the messages Prep assembled.
LoadHistory ==
  /\ Active("load")
  /\ \/ /\ SetTop([top EXCEPT !.msgs = top.ref, !.pc = "round"])
        /\ tries' = 0 /\ UNCHANGED tree
     \/ Retry(top)
  /\ UNCHANGED <<s, cmds, inbox, sent, tool, balance, ids, facts>>

\* InitStreamActivity: RUN_STARTED is a fact, billing is not consulted.
InitStream ==
  /\ Active("prepare") /\ top.mode = "stream"
  /\ \/ /\ SetTop([top EXCEPT !.msgs = <<User>>, !.pc = "round"])
        /\ tries' = 0 /\ UNCHANGED tree
     \/ Retry(top)
  /\ UNCHANGED <<s, cmds, inbox, sent, tool, balance, ids, facts>>

----------------------------------------------------------------------------
(* One round: the head of the loop and the model call                      *)

\* The head of the loop: out of rounds, a run ends with its own reason.
AgentWorkflow ==
  /\ Active("round") /\ top.mode = "agent"
  /\ \/ top.round < MaxToolRounds /\ checkStreamSignal("round", "llm")
     \/ /\ top.round = MaxToolRounds
        /\ Return([top EXCEPT !.state = "completed", !.reason = "max_rounds"])
        /\ UNCHANGED <<s, cmds, inbox, sent, tries, tool, balance, ids, facts, tree>>

StreamAgentWorkflow ==
  /\ Active("round") /\ top.mode = "stream"
  /\ \/ top.round < MaxToolRounds /\ checkStreamSignal("round", "llm")
     \/ /\ top.round = MaxToolRounds
        /\ SetTop([top EXCEPT !.pc = "finishMax", !.reason = "max_rounds"])
        /\ UNCHANGED <<s, cmds, inbox, sent, tries, tool, balance, ids, facts, tree>>

\* DeductUsage: the guard of the update refuses an overdraft, not the call.
DeductUsage == balance' = IF s.billed /\ balance >= 1 THEN balance - 1 ELSE balance

\* The ids a model hands out are fresh.
Numbered(names) == [i \in DOMAIN names |-> [id |-> ids + i, name |-> names[i]]]

\* What the loop adds to its budget for one call: the stream loop nothing.
OwnUsage(f) == IF f.mode = "stream" THEN 0 ELSE 1

\* The frame after a model call: the repaired conversation and the answer.
Said(f, calls) ==
  [f EXCEPT !.msgs = Append(RepairToolCallPairing(f.mode, @), Assistant(calls)),
            !.calls = calls, !.own = @ + OwnUsage(f), !.round = @ + 1]

\* Without tool calls the run completes, or waits for its user.
finalizeRoundWithoutToolCalls(f) ==
  IF s.await /\ f.depth = 0
  THEN SetTop([f EXCEPT !.pc = "wait", !.state = "waiting_input"])
  ELSE Return([f EXCEPT !.state = "completed"])

agentWorkflowRound(calls) ==
  LET f == [Said(top, calls) EXCEPT !.step = @ + 1] IN
  IF calls = <<>> THEN finalizeRoundWithoutToolCalls(f) ELSE SetTop([f EXCEPT !.pc = "calls"])

processStreamRound(calls) ==
  SetTop([Said(top, calls) EXCEPT !.pc = IF calls = <<>> THEN "finish" ELSE "calls"])

\* Provider errors by the code they are given; the last two are permanent.
LLMErrors == {"timeout", "rate_limit", "other", "content_filter", "context_length"}
classifyLLMError(e) == e \notin {"content_filter", "context_length"}

\* retryRateLimited runs inside the attempt; what leaves it is retried by the
\* platform unless toActivityError marked it permanent.
LLMFailed == \E e \in LLMErrors : IF classifyLLMError(e) THEN Retry(top) ELSE tries' = 0 /\ Fail(top)

\* The tool calls of an answer get ids, and its usage counts for the tree.
LLMAnswered(names) ==
  /\ ids' = ids + Len(names) /\ tries' = 0
  /\ tree' = [spent |-> tree.spent + 1, unseen |-> tree.unseen + 1 - OwnUsage(top)]

\* An attempt fails before it is charged, is charged and then lost with its
\* worker, or answers; a debit that is refused changes nothing.
LLMStepActivity ==
  /\ Active("llm") /\ top.mode = "agent"
  /\ \/ \E names \in s.answers :
           DeductUsage /\ LLMAnswered(names) /\ agentWorkflowRound(Numbered(names))
     \/ LLMFailed /\ UNCHANGED <<balance, ids>>
     \/ DeductUsage /\ Retry(top) /\ UNCHANGED ids
  /\ UNCHANGED <<s, cmds, inbox, sent, tool, facts>>

LLMStreamActivity ==
  /\ Active("llm") /\ top.mode = "stream"
  /\ \/ \E names \in s.answers :
           DeductUsage /\ LLMAnswered(names) /\ processStreamRound(Numbered(names))
     \/ LLMFailed /\ UNCHANGED <<balance, ids>>
     \/ DeductUsage /\ Retry(top) /\ UNCHANGED ids
  /\ UNCHANGED <<s, cmds, inbox, sent, tool, facts>>

----------------------------------------------------------------------------
(* Tool calls                                                              *)

isDelegateToolCall(call) == call.name = "delegate"
NextCall == IF isDelegateToolCall(Head(top.calls)) THEN "delegate" ELSE "tool"

\* The loops over the calls of one answer: a signal check before each call.
executeAgentToolCalls ==
  /\ top.mode = "agent" /\ top.calls # <<>> /\ checkStreamSignal("calls", NextCall)

executeStreamToolCalls ==
  /\ top.mode = "stream" /\ top.calls # <<>> /\ checkStreamSignal("calls", NextCall)

answer(f) ==
  [f EXCEPT !.msgs = Append(@, ToolMsg(f.calls[1].id)),
            !.calls = Tail(@), !.pc = "calls"]

\* executeDelegateTool: a refusal is an answer, an allowance starts a child.
\* Arguments that do not parse are refused as well.
handleDelegateToolCall ==
  /\ Active("delegate")
  /\ \/ Check(top) /\ stack' = Append(stack, Child(top))
     \/ SetTop(answer(top))
  /\ UNCHANGED <<s, cmds, inbox, sent, tries, tool, balance, ids, facts, tree>>

\* The sum of a sequence of numbers.
Total(seq) ==
  MapThenFoldSet(LAMBDA n, rest : n + rest, 0, LAMBDA i : seq[i], LAMBDA S : CHOOSE i \in S : TRUE,
                 DOMAIN seq)

\* The execution timeout of a delegated child: what it had spent, and what
\* the children it was waiting for had, is reported to nobody.
childTimeout ==
  /\ \E k \in 2..Len(stack) :
       LET p == stack[k - 1] IN
       /\ stack' = SubSeq(stack, 1, k - 2) \o <<answer(p)>>
       /\ tree' = [tree EXCEPT !.unseen =
                     @ + Total([i \in 1 .. Len(stack) - k + 1 |-> stack[k + i - 1].own])]
  /\ tries' = 0 /\ tool' = NoTool
  /\ UNCHANGED <<s, cmds, inbox, sent, balance, ids, facts>>

----------------------------------------------------------------------------
(* The tool activity: a start fact, the pipeline, a finish fact            *)

At(p) == Active("tool") /\ tool.pc = p
ToolStep(p) == tool' = [tool EXCEPT !.pc = p]
Others == UNCHANGED <<s, cmds, inbox, sent, balance, ids, facts>>

\* The start fact is retryable: nothing has run yet.
publishStart ==
  /\ At("none") /\ Others
  /\ \/ ToolStep("authorize") /\ UNCHANGED <<stack, tries, tree>>
     \/ Retry(top) /\ tool' = IF tries + 1 < MaxAttempts THEN tool ELSE NoTool

\* A refused call, and one whose decision cannot be recorded, is an answer.
Authorize ==
  /\ At("authorize") /\ Others /\ UNCHANGED <<stack, tries, tree>>
  /\ \E p \in {"lookup", "finish"} : ToolStep(p)

\* A recorded result answers, and so does a store that cannot be read: in
\* both cases no tool runs.
checkIdempotency ==
  /\ At("lookup") /\ Others /\ UNCHANGED <<stack, tries, tree>>
  /\ \/ s.idem /\ ToolStep("finish")
     \/ ~(s.idem /\ tool.stored) /\ ToolStep("run")

\* The executor's one attempt; a tool that fails is an answer.
executeStep ==
  /\ At("run") /\ Others /\ UNCHANGED <<stack, tries, tree>>
  /\ \E p \in {"finish", IF s.idem THEN "put" ELSE "finish"} :
       tool' = [tool EXCEPT !.ran = @ + 1, !.pc = p]

\* Put ignores a second result; its prune may fail after the insert.
cacheResultIfNeeded ==
  /\ At("put") /\ Others /\ UNCHANGED <<stack, tries, tree>>
  /\ \E kept \in BOOLEAN : tool' = [tool EXCEPT !.stored = @ \/ kept, !.pc = "finish"]

publishFinishMutant ==
  /\ At("finish") /\ Others
  /\ \/ SetTop(answer(top)) /\ tries' = 0 /\ tool' = NoTool /\ UNCHANGED tree
     \/ Retry(top) /\ tool' = IF tries + 1 < MaxAttempts
                              THEN [tool EXCEPT !.pc = "none"] ELSE NoTool
\* nonRetryableAfterSideEffect: a lost finish fact fails the run instead.
publishFinish ==
  /\ At("finish") /\ Others
  /\ \/ SetTop(answer(top)) /\ tries' = 0 /\ tool' = NoTool /\ UNCHANGED tree
     \/ Fail(top) /\ tries' = 0 /\ tool' = NoTool

\* A run that could not be authorized as its tenant fails without an answer.
identityRefused ==
  At("authorize") /\ Fail(top) /\ tries' = 0 /\ tool' = NoTool /\ Others

\* The worker dies, or stops heartbeating, in the middle of an attempt.
workerLost ==
  /\ Active("tool") /\ tool.pc # "none" /\ Others /\ Retry(top)
  /\ tool' = IF tries + 1 < MaxAttempts
             THEN [tool EXCEPT !.pc = "none",
                     !.lost = IF tool.pc \in {"put", "finish"} /\ ~tool.stored
                              THEN @ + 1 ELSE @]
             ELSE NoTool

ToolExec ==
  \/ publishStart \/ Authorize \/ checkIdempotency \/ executeStep \/ cacheResultIfNeeded
  \/ publishFinish \/ identityRefused \/ workerLost

----------------------------------------------------------------------------
(* The end of a round                                                      *)

\* EvaluateContinueAsNew with the step threshold; children carry no policy.
EvaluateContinueAsNew(f) ==
  /\ f.depth = 0 /\ s.threshold > 0 /\ f.step >= s.threshold
  /\ ~(s.maxCont > 0 /\ f.cont >= s.maxCont)

endRound ==
  /\ Active("calls") /\ top.calls = <<>>
  /\ Goto(IF top.mode = "agent" /\ EvaluateContinueAsNew(top) THEN "continue" ELSE "round")
  /\ UNCHANGED <<s, cmds, inbox, sent, tries, tool, balance, ids, facts, tree>>

\* The input of the next execution: budget and step travel, rounds restart.
Continued(f, ref) ==
  [Frame("agent", 0, f.base) EXCEPT !.own = f.own, !.cont = f.cont + 1, !.step = f.step,
                                    !.ref = ref]

\* Without a blob store the reference is empty, and so is the reload.
SnapshotHistory(f) == IF s.blob THEN f.msgs ELSE <<>>

\* SnapshotHistoryActivity, then continue-as-new; signals that were received
\* but not read stay behind with the closed execution.
buildContinueAsNewInput ==
  /\ Active("continue")
  /\ \/ /\ SetTop(Continued(top, SnapshotHistory(top)))
        /\ cmds' = <<>> /\ inbox' = 0 /\ tries' = 0 /\ UNCHANGED tree
     \/ s.blob /\ Retry(top) /\ UNCHANGED <<cmds, inbox>>
  /\ UNCHANGED <<s, sent, tool, balance, ids, facts>>

----------------------------------------------------------------------------
(* Waiting for the user                                                    *)

waitForUserMessage ==
  /\ Active("wait") /\ inbox > 0 /\ inbox' = inbox - 1
  /\ SetTop([top EXCEPT !.msgs = Append(@, User), !.state = "running", !.pc = "round"])
  /\ UNCHANGED <<s, cmds, sent, tries, tool, balance, ids, facts, tree>>

handleNativeWaitControlSignal ==
  /\ Active("wait") /\ cmds # <<>> /\ cmds' = Tail(cmds)
  /\ \/ Head(cmds) = "cancel" /\ Canceled(top)
     \/ Head(cmds) = "resume" /\ UNCHANGED stack
     \/ /\ Head(cmds) = "pause"
        /\ SetTop([top EXCEPT !.pc = "paused", !.after = "wait", !.state = "paused"])
  /\ UNCHANGED <<s, inbox, sent, tries, tool, balance, ids, facts, tree>>

awaitInputTimeout ==
  /\ Active("wait")
  /\ Return([top EXCEPT !.state = "completed", !.reason = "awaiting_input_timeout"])
  /\ UNCHANGED <<s, cmds, inbox, sent, tries, tool, balance, ids, facts, tree>>

----------------------------------------------------------------------------
(* FinishStreamActivity and what each caller makes of its failure          *)

\* An attempt records the milestone and reports, records it and is lost, or
\* records nothing.
FinishStream(event, done, failed) ==
  \/ facts' = facts \cup {event} /\ tries' = 0 /\ done
  \/ /\ facts' \in {facts, facts \cup {event}}
     /\ IF tries + 1 < MaxAttempts THEN tries' = tries + 1 /\ UNCHANGED stack
        ELSE tries' = 0 /\ failed

\* A finish that could not be recorded lets the loop run another round.
finishStreamRound ==
  /\ Active("finish")
  /\ FinishStream("finish", Return([top EXCEPT !.state = "completed"]), Goto("round"))
  /\ UNCHANGED <<s, cmds, inbox, sent, tool, balance, ids, tree>>

finishStreamMaxRounds ==
  /\ Active("finishMax")
  /\ FinishStream("max_rounds", Return([top EXCEPT !.state = "completed"]),
                  SetTop([top EXCEPT !.pc = "failed", !.state = "failed"]))
  /\ UNCHANGED <<s, cmds, inbox, sent, tool, balance, ids, tree>>

\* The canceled milestone cannot fail the workflow.
emitStreamCanceled ==
  /\ Active("emitCanceled")
  /\ FinishStream("canceled", Return(top), Return(top))
  /\ UNCHANGED <<s, cmds, inbox, sent, tool, balance, ids, tree>>

----------------------------------------------------------------------------
Fresh == [spent |-> 0, unseen |-> 0]

Init ==
  /\ s \in Setups
  /\ stack = <<Frame(s.mode, 0, 0)>>
  /\ cmds = <<>> /\ inbox = 0 /\ sent = 0 /\ tries = 0 /\ tool = NoTool
  /\ balance = s.credit /\ ids = 0 /\ facts = {}
  /\ tree = Fresh

Step ==
  \/ agentWorkflowInit \/ LoadHistory \/ InitStream
  \/ AgentWorkflow \/ StreamAgentWorkflow \/ waitForResume
  \/ LLMStepActivity \/ LLMStreamActivity
  \/ executeAgentToolCalls \/ executeStreamToolCalls
  \/ handleDelegateToolCall \/ ToolExec
  \/ endRound \/ buildContinueAsNewInput
  \/ waitForUserMessage \/ handleNativeWaitControlSignal \/ awaitInputTimeout
  \/ finishStreamRound \/ finishStreamMaxRounds \/ emitStreamCanceled

Ended == Root.pc \in {"done", "failed"}

Next == Step \/ childTimeout \/ \E c \in s.signals : Send(c)

Spec == Init /\ [][Next]_vars

----------------------------------------------------------------------------

\* What the delegation decision is measured against is what the tree spent:
\* the baseline and the own tokens of the running agent add up to every token
\* a model call returned, less those of a stream loop itself and of children
\* that ended in error, across levels, siblings and continue-as-new.
BudgetIsTreeTotal == TokensSpent(top) = tree.spent - tree.unseen

\* "a platform retry would execute it again": a tool call runs its tool once,
\* and once more only for an attempt whose worker was lost after the tool ran
\* and before its result was recorded.
ToolRunsOnce == tool.ran <= 1 + tool.lost

=============================================================================
