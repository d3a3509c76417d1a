------------------------------ MODULE NexusRun ------------------------------
(***************************************************************************)
(* The run operation of the Nexus bridge, over the backends whose runs are *)
(* Temporal workflows.  NexusRunOperationWorkflow starts a run through an  *)
(* activity, polls its status until it is terminal and returns that;       *)
(* run.signal, run.control and run.status reach the run without it.  The   *)
(* start goes through the router: a claim in the run index, the backend's  *)
(* workflow, the RUN_STARTED fact, the binding.  An activity may fail, or  *)
(* its worker die, after any of these, and is then attempted again; and    *)
(* it goes on when the workflow that waits for it is canceled.             *)
(***************************************************************************)
EXTENDS Naturals, Sequences, FiniteSets, TLC

CONSTANTS Workloads,       \* what is asked for: [requests, callers, rounds]
          Mapped,          \* signals the external backend has a name for
          Workers,         \* processes that run the activities
          MaxStartTries,   \* nexusRunStartMaxAttempts
          MaxStatusTries,  \* nexusRunStatusMaxAttempts
          MaxCancelTries,  \* nexusRunCancelMaxAttempts
          MaxNexusFaults   \* failures of an activity (bound)

\* A run id that a caller chooses is not one the bridge derives from a request.
NexusAssumption ==
    \A w \in Workloads :
        /\ w.rounds \in Nat \ {0}
        /\ \A q, r \in DOMAIN w.requests, k \in 1..w.rounds : w.requests[q].run # <<"nexus-run", r, k>>

VARIABLES load,     \* the workload of this behaviour
          op,       \* request -> its workflow: [pc, round, tries, canceled, result]
          start,    \* <<request, round>> -> where the start activity is
          index,    \* run -> [state, key] of the run index
          exec,     \* run -> its workflow: [n, state, commands]
          ended,    \* history: run -> the ends its executions came to
          scope,    \* run -> the workers whose lifecycle adapter holds it open
          facts,    \* run -> its milestones
          call,     \* caller -> what it was answered
          nfaults

vars == <<load, op, start, index, exec, ended, scope, facts, call, nfaults>>

Operations == load.requests   \* request id :> [run, key, scope, backend]
Clients == load.callers     \* caller :> [kind, run, type, payload]
Ids == DOMAIN Operations
Rounds == 1..load.rounds    \* operations under one request id (bound)
Idle == [pc |-> "idle", round |-> 0, tries |-> 0, canceled |-> FALSE, result |-> ""]

(* --- Identity -------------------------------------------------------------- *)

\* Mutant: the run id of a request differs from one workflow to the next
withDeterministicRunIDMutant(r, k) ==
    IF Operations[r].run # <<>> THEN Operations[r].run ELSE <<"nexus-run", r, k>>

\* The run of the k-th workflow of a request.
withDeterministicRunID(r, k) ==
    IF Operations[r].run # <<>> THEN Operations[r].run ELSE <<"nexus-run", r, 1>>

RunsOf(r) == IF Operations[r].run # <<>> THEN {Operations[r].run} ELSE {<<"nexus-run", r, k>> : k \in Rounds}
PromisedRuns == UNION {RunsOf(r) : r \in Ids}

Run(r) == withDeterministicRunID(r, op[r].round)
BackendOf(run) == Operations[CHOOSE r \in Ids : run \in RunsOf(r)].backend

runTerminal(life) == life \in {"completed", "failed", "canceled"}

(* --- The backends ------------------------------------------------------------ *)

\* ExecuteWorkflow: an id that is running answers its execution, and an id whose
\* execution has ended starts another.
StartExecution(run) ==
    exec' = IF exec[run].state = "running" THEN exec
            ELSE [exec EXCEPT ![run] = [n |-> @.n + 1, state |-> "running", commands |-> <<>>]]

\* The control operation a signal carries, if it carries one.
nativeControlOperation(type) == {type} \cap {"pause", "resume", "cancel"}

userMessageSignalToNative(s) == IF s.payload = "" THEN {} ELSE {"user_message"}
stepMutationFromSignal(s) == IF s.payload = "" THEN {} ELSE {"step_modify"}

\* The command the native backend makes of a signal; {} is a refusal.
nativeSignal(s) ==
    CASE s.type = "user_message" -> userMessageSignalToNative(s)
      [] s.type = "step_modify" -> stepMutationFromSignal(s)
      [] s.type = "external_event" -> {"external_event"}
      [] OTHER -> nativeControlOperation(s.type)

nativeControl(operation) == {operation} \cap {"pause", "resume", "cancel"}

\* The external backend sends what its configuration has a name for.
signalName(type) == {type} \cap Mapped
externalSignal(s) == IF s.type = "" THEN {} ELSE signalName(s.type)
externalControl(operation) == nativeControlOperation(operation) \cap signalName(operation)

Signal(run, s) == IF BackendOf(run) = "native" THEN nativeSignal(s) ELSE externalSignal(s)
Control(run, o) == IF BackendOf(run) = "native" THEN nativeControl(o) ELSE externalControl(o)

\* A signal reaches a workflow that is running, and is an error otherwise.
Deliver(run, command) == exec' = [exec EXCEPT ![run].commands = Append(@, command)]

\* Status: the adapter of the worker that answers records the end of a run it
\* holds open, and closes it.
PublishStatus(w, run, life) ==
    IF runTerminal(life) /\ w \in scope[run]
    THEN /\ scope' = [scope EXCEPT ![run] = @ \ {w}]
         /\ facts' = [facts EXCEPT ![run] = @ \cup {life}]
    ELSE UNCHANGED <<scope, facts>>

(* --- The operation ---------------------------------------------------------------- *)

To(r, pc) == op' = [op EXCEPT ![r].pc = pc, ![r].tries = 0]
End(r, result) == op' = [op EXCEPT ![r].pc = "done", ![r].result = result]

\* An operation of the request is started: while a workflow of that id runs it
\* is refused, and after it ended there is another.
newNexusRunOperation(r) ==
    /\ op[r].pc \in {"idle", "done"} /\ op[r].round < load.rounds
    /\ op' = [op EXCEPT ![r] = [Idle EXCEPT !.pc = "start", !.round = op[r].round + 1]]
    /\ start' = [start EXCEPT ![<<r, op[r].round + 1>>] = "claim"]
    /\ UNCHANGED <<load, index, exec, ended, scope, facts, call, nfaults>>

CancelOperation(r) ==
    /\ op[r].pc \in {"start", "sleep", "status"} /\ ~op[r].canceled
    /\ op' = [op EXCEPT ![r].canceled = TRUE]
    /\ UNCHANGED <<load, start, index, exec, ended, scope, facts, call, nfaults>>

\* The router: a run under another key is refused, a bound one answers its
\* status, and any other is claimed, by whoever comes.
StartRunActivity(a) ==
    LET run == withDeterministicRunID(a[1], a[2])
        key == Operations[a[1]].key
    IN /\ start[a] = "claim"
       /\ IF index[run].state = "none"
          THEN index' = [index EXCEPT ![run] = [state |-> "claiming", key |-> key]]
          ELSE UNCHANGED index
       /\ start' = [start EXCEPT ![a] =
                       IF index[run].state # "none" /\ index[run].key # key THEN "refused"
                       ELSE IF index[run].state = "bound" THEN "read" ELSE "execute"]
       /\ UNCHANGED <<load, op, exec, ended, scope, facts, call, nfaults>>

ExecuteRun(a) ==
    /\ start[a] = "execute"
    /\ StartExecution(withDeterministicRunID(a[1], a[2]))
    /\ start' = [start EXCEPT ![a] = "publish"]
    /\ UNCHANGED <<load, op, index, ended, scope, facts, call, nfaults>>

\* RUN_STARTED is durable before the start is answered.
PublishStarted(a, w) ==
    LET run == withDeterministicRunID(a[1], a[2])
    IN /\ start[a] = "publish"
       /\ scope' = [scope EXCEPT ![run] = @ \cup {w}]
       /\ facts' = [facts EXCEPT ![run] = @ \cup {"started"}]
       /\ start' = [start EXCEPT ![a] = "bind"]
       /\ UNCHANGED <<load, op, index, exec, ended, call, nfaults>>

BindRun(a) ==
    /\ start[a] = "bind"
    /\ index' = [index EXCEPT ![withDeterministicRunID(a[1], a[2])].state = "bound"]
    /\ start' = [start EXCEPT ![a] = "created"]
    /\ UNCHANGED <<load, op, exec, ended, scope, facts, call, nfaults>>

ReadStarted(a, w) ==
    LET run == withDeterministicRunID(a[1], a[2])
    IN /\ start[a] = "read"
       /\ PublishStatus(w, run, exec[run].state)
       /\ start' = [start EXCEPT ![a] = exec[run].state]
       /\ UNCHANGED <<load, op, index, exec, ended, call, nfaults>>

\* An attempt fails, or its worker dies.
StartAttemptFails(a) ==
    /\ start[a] \in {"claim", "execute", "publish", "bind", "read"} /\ nfaults < MaxNexusFaults
    /\ nfaults' = nfaults + 1
    /\ start' = [start EXCEPT ![a] = "failed attempt"]
    /\ UNCHANGED <<load, op, index, exec, ended, scope, facts, call>>

\* startRunViaActivity: the next attempt, the error of the last, or the status.
startRunViaActivity(r) ==
    LET a == <<r, op[r].round>>
    IN /\ op[r].pc = "start"
       /\ \/ start[a] \in {"failed attempt", "refused"} /\ op[r].tries + 1 < MaxStartTries
             /\ start' = [start EXCEPT ![a] = "claim"] /\ op' = [op EXCEPT ![r].tries = @ + 1]
          \/ start[a] \in {"failed attempt", "refused"} /\ op[r].tries + 1 >= MaxStartTries
             /\ End(r, "start failed") /\ UNCHANGED start
          \/ start[a] \in {"created", "running"} /\ To(r, "sleep") /\ UNCHANGED start
          \/ runTerminal(start[a]) /\ End(r, start[a]) /\ UNCHANGED start
       /\ UNCHANGED <<load, index, exec, ended, scope, facts, call, nfaults>>

\* A canceled workflow stops waiting for an activity, which runs on.
ActivityCanceled(r) ==
    /\ op[r].pc \in {"start", "status"} /\ op[r].canceled
    /\ End(r, "canceled")
    /\ UNCHANGED <<load, start, index, exec, ended, scope, facts, call, nfaults>>

\* awaitRunTerminal: what a cancel that meets the sleep does.
awaitRunTerminal(r) ==
    /\ op[r].pc = "sleep"
    /\ IF ~op[r].canceled THEN To(r, "status")
       ELSE IF Operations[r].scope THEN End(r, "canceled")
       ELSE To(r, "cancel")
    /\ UNCHANGED <<load, start, index, exec, ended, scope, facts, call, nfaults>>

StatusRunActivity(r, w) ==
    LET life == exec[Run(r)].state
    IN /\ op[r].pc = "status"
       /\ PublishStatus(w, Run(r), life)
       /\ IF runTerminal(life) THEN End(r, life) ELSE To(r, "sleep")
       /\ UNCHANGED <<load, start, index, exec, ended, call, nfaults>>

\* The last attempt's error ends the operation and leaves the run alone.
StatusRunFails(r) ==
    /\ op[r].pc = "status" /\ nfaults < MaxNexusFaults
    /\ nfaults' = nfaults + 1
    /\ IF op[r].tries + 1 < MaxStatusTries THEN op' = [op EXCEPT ![r].tries = @ + 1]
       ELSE End(r, "status failed")
    /\ UNCHANGED <<load, start, index, exec, ended, scope, facts, call>>

\* cancelRunBestEffort, on a context of its own: the caller's cause is the
\* result whatever the control does.
CancelRunActivity(r) ==
    /\ op[r].pc = "cancel"
    /\ IF exec[Run(r)].state = "running" /\ Control(Run(r), "cancel") # {}
       THEN Deliver(Run(r), "cancel") ELSE UNCHANGED exec
    /\ End(r, "canceled")
    /\ UNCHANGED <<load, start, index, ended, scope, facts, call, nfaults>>

cancelRunBestEffort(r) ==
    /\ op[r].pc = "cancel" /\ nfaults < MaxNexusFaults
    /\ nfaults' = nfaults + 1
    /\ IF op[r].tries + 1 < MaxCancelTries THEN op' = [op EXCEPT ![r].tries = @ + 1]
       ELSE End(r, "canceled")
    /\ UNCHANGED <<load, start, index, exec, ended, scope, facts, call>>

(* --- Operations that address a run --------------------------------------------------- *)

\* The handler error of a failure: only what a retry may cure stays retryable.
mapNexusRunError(why) ==
    CASE why = "no route" -> "not_found"
      [] why = "refused" -> "bad_request"
      [] why = "not running" -> "unavailable"

Answered(c, a) == call' = [call EXCEPT ![c] = a]
Routed(c) == index[Clients[c].run].state # "none"
Asks(c, kind) == call[c] = "" /\ Clients[c].kind = kind

Commanded(c, commands) ==
    LET run == Clients[c].run
    IN IF ~Routed(c) THEN Answered(c, mapNexusRunError("no route")) /\ UNCHANGED exec
       ELSE IF commands = {} THEN Answered(c, mapNexusRunError("refused")) /\ UNCHANGED exec
       ELSE IF exec[run].state # "running" THEN Answered(c, mapNexusRunError("not running")) /\ UNCHANGED exec
       ELSE Answered(c, "ok") /\ Deliver(run, CHOOSE x \in commands : TRUE)

newNexusRunSignalOperation(c) ==
    /\ Asks(c, "signal")
    /\ Commanded(c, Signal(Clients[c].run, Clients[c]))
    /\ UNCHANGED <<load, op, start, index, ended, scope, facts, nfaults>>

newNexusRunControlOperation(c) ==
    /\ Asks(c, "control")
    /\ Commanded(c, Control(Clients[c].run, Clients[c].type))
    /\ UNCHANGED <<load, op, start, index, ended, scope, facts, nfaults>>

newNexusRunStatusOperation(c, w) ==
    LET run == Clients[c].run
    IN /\ Asks(c, "status")
       /\ IF ~Routed(c) THEN Answered(c, mapNexusRunError("no route")) /\ UNCHANGED <<scope, facts>>
          ELSE IF exec[run].n = 0 THEN Answered(c, mapNexusRunError("not running")) /\ UNCHANGED <<scope, facts>>
          ELSE Answered(c, "ok") /\ PublishStatus(w, run, exec[run].state)
       /\ UNCHANGED <<load, op, start, index, exec, ended, nfaults>>

(* --- The run ---------------------------------------------------------------------------- *)

\* The workflow of a run ends by itself, or takes its next command.
RunEnds(run, life) ==
    /\ exec[run].state = "running"
    /\ exec' = [exec EXCEPT ![run].state = life]
    /\ ended' = [ended EXCEPT ![run] = @ \cup {life}]
    /\ UNCHANGED <<load, op, start, index, scope, facts, call, nfaults>>

RunTakes(run) ==
    /\ exec[run].state = "running" /\ exec[run].commands # <<>>
    /\ IF Head(exec[run].commands) = "cancel"
       THEN /\ exec' = [exec EXCEPT ![run].state = "canceled", ![run].commands = <<>>]
            /\ ended' = [ended EXCEPT ![run] = @ \cup {"canceled"}]
       ELSE exec' = [exec EXCEPT ![run].commands = Tail(@)] /\ UNCHANGED ended
    /\ UNCHANGED <<load, op, start, index, scope, facts, call, nfaults>>

Init ==
    /\ load \in Workloads
    /\ op = [r \in Ids |-> Idle]
    /\ start = [a \in Ids \X Rounds |-> "none"]
    /\ index = [run \in PromisedRuns |-> [state |-> "none", key |-> ""]]
    /\ exec = [run \in PromisedRuns |-> [n |-> 0, state |-> "none", commands |-> <<>>]]
    /\ ended = [run \in PromisedRuns |-> {}]
    /\ scope = [run \in PromisedRuns |-> {}]
    /\ facts = [run \in PromisedRuns |-> {}]
    /\ call = [c \in DOMAIN Clients |-> ""]
    /\ nfaults = 0

ActivityStep(a) ==
    \/ StartRunActivity(a) \/ ExecuteRun(a) \/ BindRun(a)
    \/ \E w \in Workers : PublishStarted(a, w) \/ ReadStarted(a, w)

WorkflowStep(r) ==
    \/ startRunViaActivity(r) \/ ActivityCanceled(r) \/ awaitRunTerminal(r)
    \/ CancelRunActivity(r) \/ \E w \in Workers : StatusRunActivity(r, w)

CallStep(c) ==
    \/ newNexusRunSignalOperation(c) \/ newNexusRunControlOperation(c)
    \/ \E w \in Workers : newNexusRunStatusOperation(c, w)

Next ==
    \/ \E r \in Ids : newNexusRunOperation(r) \/ CancelOperation(r) \/ WorkflowStep(r)
                      \/ StatusRunFails(r) \/ cancelRunBestEffort(r)
    \/ \E a \in Ids \X Rounds : ActivityStep(a) \/ StartAttemptFails(a)
    \/ \E c \in DOMAIN Clients : CallStep(c)
    \/ \E run \in PromisedRuns : RunTakes(run) \/ \E life \in {"completed", "failed"} : RunEnds(run, life)

Spec == Init /\ [][Next]_vars

-----------------------------------------------------------------------------
(* The promise of an operation (NexusRunOperationWorkflow): whatever was   *)
(* retried, canceled and started again, the request has executed no run    *)
(* but one, an operation that resolved to a state reports one that run     *)
(* came to, and a run that is bound has its RUN_STARTED fact.              *)
PromiseIsTheRun ==
    \A r \in Ids :
        /\ Cardinality({run \in RunsOf(r) : exec[run].n > 0}) <= 1
        /\ runTerminal(op[r].result) /\ op[r].result # "canceled" => op[r].result \in ended[Run(r)]
        /\ \A run \in RunsOf(r) : index[run].state = "bound" => "started" \in facts[run]

=============================================================================
