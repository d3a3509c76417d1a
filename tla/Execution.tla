----------------------------- MODULE Execution ------------------------------
(***************************************************************************)
(* How a run is executed: the router and the supervisor of a run on a      *)
(* remote backend, the Nexus operation that promises a run to another      *)
(* service, the native agent loop and step queue, the tool servers an      *)
(* activity connects to, the backend that runs an agent as a subprocess,   *)
(* and the triggers that start work on a schedule.                         *)
(*                                                                         *)
(* A run is on one backend, and neither the backends nor the schedules     *)
(* share state, so a behaviour is one of any part; the others have nothing *)
(* to do.                                                                  *)
(***************************************************************************)
EXTENDS Naturals, Sequences

CONSTANTS Callers, Runs, Keys, Backends, Requests, Signals, Controls, Bare, MaxSent,
          MaxFaults,
          Workloads, Mapped, Workers, MaxStartTries, MaxStatusTries, MaxCancelTries,
          MaxNexusFaults,
          Setups, MaxToolRounds, MaxAttempts, MaxSignals, ChildSetup, Queues, Mutations,
          MaxRounds, MaxSends,
          Preps, Demands, Policy, Tools, Resolutions, MaxMcpFaults,
          DshRuns, Sessions, NotifyBuffer, MaxOutages,
          Triggers, Declarations, Appliers, Overlaps, MaxApplies, MaxCommands, MaxDue

VARIABLES part,
          request, index, call, remote, posts, scope, open, sup, sent, applied, dropped,
          faults,
          load, op, started, bound, exec, ended, latch, facts, asked, nfaults,
          setup, stack, cmds, inbox, signaled, tries, tool, balance, ids, journaled, tree,
          steps, pc, idx, round, qcmds, mods, events, qsent, done, ran, told,
          demand, cfgs, servers, toolMap, registry, clients, prep, mcpFaults,
          script, sdk, ready, reader, start, next, listener, lost, writer, status, cancel,
          outages,
          declared, schedule, ordered, ap, deliveries, buffered, accepted, work, applies,
          commands, due

routerVars == <<request, index, call, remote, posts, scope, open, sup, sent, applied,
                dropped, faults>>
nexusVars == <<load, op, started, bound, exec, ended, latch, facts, asked, nfaults>>
nativeVars == <<setup, stack, cmds, inbox, signaled, tries, tool, balance, ids, journaled,
                tree, steps, pc, idx, round, qcmds, mods, events, qsent, done, ran, told>>
mcpVars == <<demand, cfgs, servers, toolMap, registry, clients, prep, mcpFaults>>
dshVars == <<script, sdk, ready, reader, start, next, listener, lost, writer, status,
             cancel, outages>>
triggerVars == <<declared, schedule, ordered, ap, deliveries, buffered, accepted, work,
                 applies, commands, due>>
vars == <<part, routerVars, nexusVars, nativeVars, mcpVars, dshVars, triggerVars>>

R == INSTANCE RunRouter
X == INSTANCE NexusRun WITH start <- started, index <- bound, scope <- latch, call <- asked
N == INSTANCE NativeRun WITH s <- setup, sent <- signaled, facts <- journaled
M == INSTANCE McpServers
D == INSTANCE DshBackend WITH dropped <- lost
T == INSTANCE Triggers

ASSUME ExecutionAssumptions == R!RunRouterAssumption /\ X!NexusAssumption /\ T!TriggersAssumption

Off == "off"

RouterOff ==
  /\ request = Off /\ index = [r \in Runs |-> R!NoEntry] /\ call = Off
  /\ remote = [r \in Runs |-> "absent"] /\ posts = Off /\ scope = Off /\ open = Off
  /\ sup = [r \in Runs |-> R!NoSupervisor] /\ sent = {} /\ applied = {} /\ dropped = {}
  /\ faults = Off
NexusOff ==
  /\ load = Off /\ op = Off /\ started = Off /\ bound = Off /\ exec = Off /\ ended = Off
  /\ latch = Off /\ facts = Off /\ asked = Off /\ nfaults = Off
NativeOff ==
  /\ setup = Off /\ stack = Off /\ cmds = Off /\ inbox = Off /\ signaled = Off
  /\ tries = Off /\ tool = Off /\ balance = Off /\ ids = Off /\ journaled = Off
  /\ tree = Off /\ steps = Off /\ pc = Off /\ idx = Off /\ round = Off /\ qcmds = Off
  /\ mods = Off /\ events = Off /\ qsent = Off /\ done = Off /\ ran = Off /\ told = Off
McpOff ==
  /\ demand = Off /\ cfgs = Off /\ servers = Off /\ toolMap = Off /\ registry = Off
  /\ clients = Off /\ prep = Off /\ mcpFaults = Off
DshOff ==
  /\ script = Off /\ sdk = Off /\ ready = Off /\ reader = Off /\ start = Off /\ next = Off
  /\ listener = Off /\ lost = Off /\ writer = Off /\ status = Off /\ cancel = Off
  /\ outages = Off
TriggerOff ==
  /\ declared = Off /\ schedule = Off /\ ordered = Off /\ ap = Off /\ deliveries = Off
  /\ buffered = Off /\ accepted = Off /\ work = Off /\ applies = Off /\ commands = Off
  /\ due = Off

Init ==
  \/ part = "router" /\ R!Init /\ NexusOff /\ NativeOff /\ McpOff /\ DshOff /\ TriggerOff
  \/ part = "nexus" /\ X!Init /\ RouterOff /\ NativeOff /\ McpOff /\ DshOff /\ TriggerOff
  \/ part = "native" /\ N!Init /\ RouterOff /\ NexusOff /\ McpOff /\ DshOff /\ TriggerOff
  \/ part = "mcp" /\ M!Init /\ RouterOff /\ NexusOff /\ NativeOff /\ DshOff /\ TriggerOff
  \/ part = "dsh" /\ D!Init /\ RouterOff /\ NexusOff /\ NativeOff /\ McpOff /\ TriggerOff
  \/ part = "triggers" /\ T!Init /\ RouterOff /\ NexusOff /\ NativeOff /\ McpOff /\ DshOff

Next ==
  \/ part = "router" /\ R!Next /\ UNCHANGED <<part, nexusVars, nativeVars, mcpVars, dshVars, triggerVars>>
  \/ part = "nexus" /\ X!Next /\ UNCHANGED <<part, routerVars, nativeVars, mcpVars, dshVars, triggerVars>>
  \/ part = "native" /\ N!Next /\ UNCHANGED <<part, routerVars, nexusVars, mcpVars, dshVars, triggerVars>>
  \/ part = "mcp" /\ M!Next /\ UNCHANGED <<part, routerVars, nexusVars, nativeVars, dshVars, triggerVars>>
  \/ part = "dsh" /\ D!Next /\ UNCHANGED <<part, routerVars, nexusVars, nativeVars, mcpVars, triggerVars>>
  \/ part = "triggers" /\ T!Next /\ UNCHANGED <<part, routerVars, nexusVars, nativeVars, mcpVars, dshVars>>

\* Temporal runs the supervisor's tasks, activities and timers.  Nothing is assumed
\* about which of them goes first, nor that anybody retries a start or polls.
Spec ==
  /\ Init /\ [][Next]_vars
  /\ WF_vars(part = "router" /\ UNCHANGED request /\ (\E r \in Runs : R!Supervise(r))
               /\ UNCHANGED <<part, nexusVars, nativeVars, mcpVars, dshVars, triggerVars>>)
-----------------------------------------------------------------------------
(* What each part promises; see the modules of the parts.                  *)

\* A run has one owner for good: only the backend the index binds is asked
\* to start it, an answered caller asked for that, and a bound run never
\* goes back to its claim (claimRunStart, handleUpsertConflict).
RunHasOneOwner ==
  [][part = "router" => R!KeepsOwner /\ R!OnlyOwnerStarted' /\ R!AnswerIsBound']_vars

\* While a timeline this process opened has no durable terminal, its scope
\* is there or somebody is writing the terminal (emitTerminal).
ScopeLatch == part = "router" => R!ScopeLatch

\* A run that ended is, from some point on, reported as ended, unless its
\* supervisor failed (RunSupervisorWorkflow).
EndIsLearned == R!EndIsLearned

\* What a client was told was sent reaches the backend as it was sent, unless the
\* supervisor closed first; a message that leaves optional fields out may come with
\* those of another (drainSupervisorSignals, drainSupervisorControls).
SentIsApplied == R!SentIsApplied

\* A Nexus operation executes one run, reports a state that run came to, and
\* a bound run has its RUN_STARTED fact (NexusRunOperationWorkflow).
PromiseIsTheRun == part = "nexus" => X!PromiseIsTheRun


\* A tool call that was answered is executed once (the tool pipeline and its
\* idempotency record), and a step of a queue runs after the steps it depends
\* on (dependenciesMet).
StepsHold == part = "native" => N!ToolRunsOnce /\ N!DependenciesRespected


\* A run of the subprocess backend reported completed has every word and
\* tool call of its session in its facts, and no client of the bus sees a
\* milestone that is not a fact (failIfNotificationDropped, emit).
CompletedIsWhole == part = "dsh" => D!CompletedIsWhole /\ D!AnnouncedIsDurable

=============================================================================
