---------------------------- MODULE PlanCommands ----------------------------
(***************************************************************************)
(* The durable outbox of plan commands (plan start, signals, controls).    *)
(*                                                                         *)
(* A caller records its command, delivers it to the plan's workflow,       *)
(* records the audit and marks the command delivered, or failed when the   *)
(* delivery failed.  A reconciler lists the commands that are not          *)
(* delivered, the one updated longest ago first, and does the same with a  *)
(* request it rebuilds from the command.  A signal sent without a payload  *)
(* is recorded with a null one and rebuilt with an empty one, and audits   *)
(* are compared by their payload.  The audit chain is module AuditChain;   *)
(* here a RecordAudit is one step.                                         *)
(* Callers and reconcilers run side by side, fail and crash anywhere; a    *)
(* failed delivery may or may not have reached the workflow.               *)
(***************************************************************************)
EXTENDS Naturals, Sequences, FiniteSets

CONSTANTS
    Plans,
    Ended,        \* the plans that have run already
    Commands,
    Refused,      \* commands recorded earlier whose delivery failed
    PlanOf,       \* the plan of each command
    Starts,       \* the commands that start their plan
    Bare,         \* the signals sent without a payload
    Callers,
    Calls,        \* the command each caller issues
    Reconcilers,
    Limit,        \* the most commands a reconciler lists in one pass
    MaxFaults     \* bound on failed calls and crashes

CommandAssumption ==
    /\ Ended \subseteq Plans /\ Starts \subseteq Commands /\ Bare \subseteq Commands \ Starts
    /\ PlanOf \in [Commands -> Plans] /\ Calls \in [Callers -> Commands]
    /\ Refused \subseteq Commands
    /\ Callers \cap Reconcilers = {}
    /\ Limit \in Nat \ {0} /\ MaxFaults \in Nat

Processes == Callers \cup Reconcilers
NoCommand == "none"

VARIABLES
    plan,       \* the lifecycle of each plan's row
    workflow,   \* the latest execution of each plan's workflow
    status,     \* the outbox status of each command
    updated,    \* the recorded commands in the order of updated_at
    audit,      \* the payload of each command's audit record
    received,   \* the commands their workflow has received
    pc,
    cur,        \* the command each process works on
    batch,      \* what a reconciler has left of its list
    next,       \* the status a process is about to mark
    faults

outbox == <<status, updated, audit>>
temporal == <<workflow, received>>
local == <<pc, cur, batch, next>>
vars == <<plan, temporal, outbox, local, faults>>

-----------------------------------------------------------------------------
Init ==
    /\ plan = [p \in Plans |-> IF p \in Ended THEN "ended"
                               ELSE IF \E c \in Refused : PlanOf[c] = p THEN "pending"
                               ELSE "none"]
    /\ workflow = [p \in Plans |-> IF p \in Ended THEN "closed" ELSE "none"]
    /\ status = [c \in Commands |-> IF c \in Refused THEN "failed" ELSE "none"]
    /\ updated \in {q \in [1 .. Cardinality(Refused) -> Refused] : Refused = {q[i] : i \in DOMAIN q}}
    /\ audit = [c \in Commands |-> "none"] /\ received = {}
    /\ pc = [x \in Processes |-> IF x \in Callers THEN "call" ELSE "idle"]
    /\ cur = [x \in Processes |-> IF x \in Callers THEN Calls[x] ELSE NoCommand]
    /\ batch = [r \in Reconcilers |-> <<>>]
    /\ next = [x \in Processes |-> "none"]
    /\ faults = 0

\* The next place of x and the status it means to mark there.
GoOn(x, place, mark) ==
    /\ pc' = [pc EXCEPT ![x] = place]
    /\ next' = [next EXCEPT ![x] = mark]

GoTo(x, place) == GoOn(x, place, "none")

\* A caller returns; a reconciler counts the outcome and takes the next command.
Finish(x, answer) == GoTo(x, IF x \in Callers THEN answer ELSE "take")

-----------------------------------------------------------------------------
(* StartPlan, SignalPlan and ControlPlan.                                  *)

\* A plan that exists is left as it is, also when the insert lost a race.
CreatePlan(p) == plan' = [plan EXCEPT ![p] = IF @ = "none" THEN "pending" ELSE @]

\* A plan past pending answers the start.
StartPlan(x) ==
    /\ pc[x] = "call" /\ cur[x] \in Starts
    /\ CreatePlan(PlanOf[cur[x]])
    /\ IF plan[PlanOf[cur[x]]] \in {"none", "pending"} THEN GoTo(x, "record")
       ELSE Finish(x, "ok")
    /\ UNCHANGED <<temporal, outbox, cur, batch, faults>>

\* SignalPlan and ControlPlan up to authorizePlan.
ControlPlan(x) ==
    /\ pc[x] = "call" /\ cur[x] \notin Starts
    /\ IF plan[PlanOf[cur[x]]] = "none" THEN Finish(x, "error") ELSE GoTo(x, "record")
    /\ UNCHANGED <<plan, temporal, outbox, cur, batch, faults>>

\* The client calls again with the same idempotency key.
Retry(x) ==
    /\ pc[x] \in {"error", "crashed"}
    /\ GoTo(x, "call")
    /\ UNCHANGED <<plan, temporal, outbox, cur, batch, faults>>

\* RecordPlanCommand: a new command is pending; one that is there is returned as
\* it is, also when the insert lost a race.
Record(x) ==
    LET c == cur[x] IN
    /\ pc[x] = "record"
    /\ IF status[c] = "none"
       THEN status' = [status EXCEPT ![c] = "pending"] /\ updated' = Append(updated, c)
       ELSE UNCHANGED <<status, updated>>
    /\ IF status[c] = "delivered" THEN GoOn(x, "audit", "delivered") ELSE GoTo(x, "deliver")
    /\ UNCHANGED <<plan, temporal, audit, cur, batch, faults>>

-----------------------------------------------------------------------------
(* The steps callers and reconcilers share.                                *)

\* executePlanWorkflow takes a running execution for its own.
Reaches(c) ==
    /\ IF c \in Starts
       THEN workflow' = [workflow EXCEPT ![PlanOf[c]] = "running"]
       ELSE workflow[PlanOf[c]] = "running" /\ workflow' = workflow
    /\ received' = received \cup {c}

Deliver(x) ==
    /\ pc[x] = "deliver"
    /\ Reaches(cur[x])
    /\ GoTo(x, "audit")
    /\ UNCHANGED <<plan, outbox, cur, batch, faults>>

\* The workflow does not exist or has closed.
DeliverRefused(x) ==
    /\ pc[x] = "deliver"
    /\ cur[x] \notin Starts /\ workflow[PlanOf[cur[x]]] # "running"
    /\ GoOn(x, "check", "failed")
    /\ UNCHANGED <<plan, temporal, outbox, cur, batch, faults>>

\* The call fails, before or after it reached the workflow.
DeliverFails(x) ==
    /\ pc[x] = "deliver" /\ faults < MaxFaults
    /\ Reaches(cur[x]) \/ UNCHANGED temporal
    /\ GoOn(x, "check", "failed")
    /\ faults' = faults + 1
    /\ UNCHANGED <<plan, outbox, cur, batch>>

\* The payload of the audit x records: the command's own, which is what a caller
\* has, or the one that signalFromPlanCommand rebuilds.
AuditPayload(x) ==
    IF x \in Reconcilers /\ cur[x] \in Bare THEN "rebuilt" ELSE "recorded"

\* RecordAudit takes an existing record for its own when the payloads agree.
MayAudit(x) == audit[cur[x]] \in {"none", AuditPayload(x)}

\* recordPlanAudit; a caller whose command was delivered already is done with it.
RecordAudit(x) ==
    /\ pc[x] = "audit" /\ MayAudit(x)
    /\ audit' = [audit EXCEPT ![cur[x]] = AuditPayload(x)]
    /\ IF x \in Callers /\ next[x] = "delivered" THEN Finish(x, "ok")
       ELSE GoOn(x, "check", "delivered")
    /\ UNCHANGED <<plan, temporal, status, updated, cur, batch, faults>>

\* The audit is there with another payload: the error leaves the command as it is.
AuditConflicts(x) ==
    /\ pc[x] = "audit" /\ ~MayAudit(x)
    /\ Finish(x, "error")
    /\ UNCHANGED <<plan, temporal, outbox, cur, batch, faults>>

CheckTransitionMutant(x) ==
    LET c == cur[x] IN
    /\ pc[x] = "check"
    /\ IF status[c] = "delivered" /\ next[x] # "delivered"
       THEN Finish(x, "error")
       ELSE GoOn(x, "update", next[x])
    /\ UNCHANGED <<plan, temporal, outbox, cur, batch, faults>>

\* updatePlanCommandStatus up to its UPDATE: the stored status allows the
\* transition, and a delivered command has its audit, with its payload.
CheckTransition(x) ==
    LET c == cur[x] IN
    /\ pc[x] = "check"
    /\ IF \/ status[c] = "delivered" /\ next[x] # "delivered"
          \/ next[x] = "delivered" /\ audit[c] # "recorded"
       THEN Finish(x, "error")
       ELSE GoOn(x, "update", next[x])
    /\ UNCHANGED <<plan, temporal, outbox, cur, batch, faults>>

\* The UPDATE, which does not look at the status any more.
UpdateStatusMutant(x) ==
    LET c == cur[x] IN
    /\ pc[x] = "update"
    /\ status' = [status EXCEPT ![c] = next[x]]
    /\ updated' = updated
    /\ Finish(x, IF next[x] = "delivered" THEN "ok" ELSE "error")
    /\ UNCHANGED <<plan, temporal, audit, cur, batch, faults>>

UpdateStatus(x) ==
    LET c == cur[x] IN
    /\ pc[x] = "update"
    /\ status' = [status EXCEPT ![c] = next[x]]
    /\ updated' = Append(SelectSeq(updated, LAMBDA d : d # c), c)
    /\ Finish(x, IF next[x] = "delivered" THEN "ok" ELSE "error")
    /\ UNCHANGED <<plan, temporal, audit, cur, batch, faults>>

\* A statement of the store fails: the transaction rolls back, the command stays
\* as it is.
StoreFails(x) ==
    /\ pc[x] \in {"call", "record", "audit", "check", "update"} /\ faults < MaxFaults
    /\ faults' = faults + 1
    /\ Finish(x, "error")
    /\ UNCHANGED <<plan, temporal, outbox, cur, batch>>

\* The process stops; the recovery loop of a reconciler starts again.
Crash(x) ==
    /\ pc[x] \notin {"ok", "error", "crashed", "idle"} /\ faults < MaxFaults
    /\ faults' = faults + 1
    /\ IF x \in Callers
       THEN GoTo(x, "crashed") /\ UNCHANGED <<cur, batch>>
       ELSE /\ GoTo(x, "idle")
            /\ cur' = [cur EXCEPT ![x] = NoCommand]
            /\ batch' = [batch EXCEPT ![x] = <<>>]
    /\ UNCHANGED <<plan, temporal, outbox>>

-----------------------------------------------------------------------------
(* The reconciler.                                                         *)

Recoverable(c) == status[c] \in {"pending", "failed"}

Listed ==
    LET listed == SelectSeq(updated, Recoverable)
    IN  SubSeq(listed, 1, IF Len(listed) < Limit THEN Len(listed) ELSE Limit)

\* A tick of the recovery loop: ListRecoverablePlanCommands.
Recover(r) ==
    /\ pc[r] = "idle" /\ Listed # <<>>
    /\ batch' = [batch EXCEPT ![r] = Listed]
    /\ GoTo(r, "take")
    /\ UNCHANGED <<plan, temporal, outbox, cur, faults>>

\* deliver starts with the next command of the list, whose status is the listed
\* one: it may have been delivered since.
Take(r) ==
    /\ pc[r] = "take"
    /\ IF batch[r] = <<>>
       THEN /\ GoTo(r, "idle")
            /\ cur' = [cur EXCEPT ![r] = NoCommand] /\ UNCHANGED batch
       ELSE /\ cur' = [cur EXCEPT ![r] = Head(batch[r])]
            /\ batch' = [batch EXCEPT ![r] = Tail(@)]
            /\ GoTo(r, "deliver")
    /\ UNCHANGED <<plan, temporal, outbox, faults>>

-----------------------------------------------------------------------------
(* The plan workflow, as far as commands see it (module PlanWorkflow).     *)

PlanStarts(p) ==
    /\ workflow[p] = "running" /\ plan[p] = "pending"
    /\ plan' = [plan EXCEPT ![p] = "running"]
    /\ UNCHANGED <<temporal, outbox, local, faults>>

PlanEnds(p) ==
    /\ workflow[p] = "running" /\ plan[p] # "pending"
    /\ plan' = [plan EXCEPT ![p] = "ended"]
    /\ workflow' = [workflow EXCEPT ![p] = "closed"]
    /\ UNCHANGED <<received, outbox, local, faults>>

-----------------------------------------------------------------------------
Step(x) ==
    \/ Deliver(x) \/ DeliverRefused(x) \/ RecordAudit(x) \/ AuditConflicts(x)
    \/ CheckTransition(x) \/ UpdateStatus(x)

CallerStep(x) == StartPlan(x) \/ ControlPlan(x) \/ Retry(x) \/ Record(x) \/ Step(x)
ReconcilerStep(r) == Recover(r) \/ Take(r) \/ Step(r)
Fault(x) == DeliverFails(x) \/ StoreFails(x) \/ Crash(x)

Next ==
    \/ \E x \in Callers : CallerStep(x)
    \/ \E r \in Reconcilers : ReconcilerStep(r)
    \/ \E x \in Processes : Fault(x)
    \/ \E p \in Plans : PlanStarts(p) \/ PlanEnds(p)

Spec == Init /\ [][Next]_vars

-----------------------------------------------------------------------------
(* Properties.                                                             *)

Statuses == {"none", "pending", "failed", "delivered"}
Places == {"call", "record", "deliver", "audit", "check", "update", "ok", "error", "crashed",
           "idle", "take"}

TypeOK ==
    /\ plan \in [Plans -> {"none", "pending", "running", "ended"}]
    /\ workflow \in [Plans -> {"none", "running", "closed"}]
    /\ status \in [Commands -> Statuses] /\ next \in [Processes -> Statuses]
    /\ audit \in [Commands -> {"none", "recorded", "rebuilt"}] /\ received \subseteq Commands
    /\ pc \in [Processes -> Places] /\ cur \in [Processes -> Commands \cup {NoCommand}]
    /\ \A c \in Commands : status[c] # "none" <=> c \in {updated[i] : i \in DOMAIN updated}

\* A command marked delivered reached its workflow and has an audit record of
\* what the caller sent, whichever of the callers and reconcilers marked it and
\* whatever failed on the way ("this keeps the control-plane outbox and audit
\* trail in lockstep").
DeliveredIsAudited ==
    \A c \in Commands : status[c] = "delivered" => c \in received /\ audit[c] = "recorded"

\* A caller that is told its signal or control was taken can rely on it: the
\* workflow has received it and its audit exists.  A start that answers without
\* an error has an execution.
AnswerIsTrue ==
    \A x \in Callers :
        pc[x] = "ok" =>
            IF Calls[x] \in Starts THEN workflow[PlanOf[Calls[x]]] # "none"
            ELSE Calls[x] \in received /\ audit[Calls[x]] = "recorded"

\* The signals without a payload that recovery keeps at the head of its list: they
\* are delivered again in every pass, and the error of their audit leaves them as
\* they are.
Stuck == {b \in Bare : Recoverable(b) /\ workflow[PlanOf[b]] = "running"}

\* Recovery makes progress past commands that can never be delivered: a recorded
\* start is delivered for good, a recorded signal or control too unless its plan
\* has no running workflow to take it, although a pass lists only Limit commands.
\* Signals without a payload are excepted, and when Limit of them are stuck they
\* fill every pass.
RecoveryDelivers ==
    \A c \in Commands \ Bare :
        <>[](\/ status[c] \in {"none", "delivered"}
             \/ c \notin Starts /\ workflow[PlanOf[c]] # "running"
             \/ Cardinality(Stuck) >= Limit)

=============================================================================
