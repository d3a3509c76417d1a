------------------------------- MODULE Process -------------------------------
(***************************************************************************)
(* One durable process: the API that starts it and sends it signals and    *)
(* controls, the Temporal workflow that receives them one at a time, the   *)
(* activities that apply each to the process store, and the store.         *)
(*                                                                         *)
(* An activity attempt reads the process, appends the event under the      *)
(* message's key, writes the status under the same key and reads the       *)
(* status back, each in its own statement or transaction.  An attempt may  *)
(* fail, or outlive its timeout: Temporal starts the next attempt and the  *)
(* old one goes on writing.  A run whose history is long continues as new  *)
(* and drops the messages it has not received.                             *)
(***************************************************************************)
EXTENDS PlatformContracts, TLC

CONSTANTS
    Scenarios,     \* [spec, store, starts, messages]: what the API is asked
    MaxAttempts,   \* attempts of an activity: defaultActivityMaxAttempts
    MaxFaults,     \* bound: attempts that fail or time out
    MaxRuns        \* bound: workflow runs, continuations included

VARIABLES
    scenario,
    calls,       \* the API's start calls: where each is
    sent,        \* messages of the scenario sent so far
    life,        \* the stored status; "" before the process is created
    events,      \* the stored events, in sequence order
    statusKeys,  \* the status-updates table: keys
    run,         \* the workflow: none, starting, loop, select, acting, ended
    chain,       \* how many times the API has started a workflow
    runs,        \* runs so far
    history,     \* history of this run: one unit for every activity
    inbox,       \* messages delivered to the run and not received
    timers,      \* timer id :> [at, fired], as the run holds them
    local,       \* the run's own copy of the status
    activity,    \* the activity in progress: [msg, attempt]
    attempts,    \* attempts alive: [msg, attempt, act, chain, pc, seen]
    acts,        \* activities so far
    faults

store == <<life, events, statusKeys>>
workflow == <<run, chain, runs, history, inbox, timers, local>>
vars == <<scenario, calls, sent, store, workflow, activity, attempts, acts, faults>>

Spec0 == scenario.spec
Memory == scenario.store = "memory"
NoActivity == [msg |-> [kind |-> "none"], attempt |-> 0]
TimerIDs == {t.id : t \in Spec0.timers}

processWorkflowTerminal(l) == l \in {"succeeded", "failed", "canceled"}

processLifecycleAfterSignal(l) == IF l \in {"waiting", "blocked"} THEN "running" ELSE l

processLifecycleAfterControl(l, op) ==
    CASE op = "pause" -> "waiting"
      [] op = "resume" -> "running"
      [] op = "cancel" -> "canceled"
      [] OTHER -> l

LifecycleAfter(l, msg) ==
    IF msg.kind = "control" THEN processLifecycleAfterControl(l, msg.op)
                            ELSE processLifecycleAfterSignal(l)

(* A key is a tuple of its parts, <<>> when it is missing.  A signal needs *)
(* a type and a key, a control a key and a known operation.                *)
ValidMessage(msg) ==
    /\ msg.key # <<>>
    /\ msg.kind = "control" => msg.op \in {"pause", "resume", "cancel"}

HasEvent(key) == \E i \in DOMAIN events : events[i].key = key
EventOf(key) == events[CHOOSE i \in DOMAIN events : events[i].key = key]

-----------------------------------------------------------------------------
(* The API.                                                                *)

(* The process is there: its status is returned, and a terminal process    *)
(* needs no workflow.                                                      *)
Existing(c) ==
    calls' = [calls EXCEPT ![c] = IF processWorkflowTerminal(life) THEN "started" ELSE "execute"]
Created(c) == life' = "running" /\ calls' = [calls EXCEPT ![c] = "created"]
CreateUnchanged == UNCHANGED <<scenario, sent, events, statusKeys, workflow, activity, attempts, acts, faults>>

(* Runtime.StartProcess, first half: the contract, and CreateProcess.      *)
CreateProcess(c) ==
    /\ calls[c] = "begin"
    /\ calls' = [calls EXCEPT ![c] = IF ValidateProcessSpec(Spec0) THEN "create" ELSE "refused"]
    /\ UNCHANGED life /\ CreateUnchanged

(* The memory store looks up and stores under its mutex.                   *)
MemoryCreateProcess(c) ==
    /\ calls[c] = "create" /\ Memory
    /\ IF life # "" THEN Existing(c) /\ UNCHANGED life ELSE Created(c)
    /\ CreateUnchanged

(* Postgres looks the process up by its key and by its id, then inserts it;*)
(* an insert that meets the unique index looks it up again.                *)
processForCreate(c) ==
    /\ calls[c] = "create" /\ ~Memory
    /\ IF life # "" THEN Existing(c) ELSE calls' = [calls EXCEPT ![c] = "insert"]
    /\ UNCHANGED life /\ CreateUnchanged

insertProcess(c) ==
    /\ calls[c] = "insert"
    /\ IF life # "" THEN calls' = [calls EXCEPT ![c] = "conflict"] /\ UNCHANGED life ELSE Created(c)
    /\ CreateUnchanged

resolveProcessCreateConflict(c) ==
    /\ calls[c] = "conflict"
    /\ Existing(c)
    /\ UNCHANGED life /\ CreateUnchanged

(* Second half: only the creator appends the started event.                *)
AppendStarted(c) ==
    /\ calls[c] = "created" /\ ~HasEvent(<<Spec0.key>>)
    /\ events' = Append(events, [key |-> <<Spec0.key>>, stamp |-> 0, chain |-> 0, msg |-> [kind |-> "started"]])
    /\ calls' = [calls EXCEPT ![c] = "execute"]
    /\ UNCHANGED <<scenario, sent, life, statusKeys, workflow, activity, attempts, acts, faults>>

(* The API server stops, or its database fails, between two steps.         *)
StartFails(c) ==
    /\ calls[c] \in {"create", "insert", "conflict", "created", "execute"} /\ faults < MaxFaults
    /\ calls' = [calls EXCEPT ![c] = "failed"]
    /\ faults' = faults + 1
    /\ UNCHANGED <<scenario, sent, store, workflow, activity, attempts, acts>>

(* executeProcessWorkflow: an open run is left alone; after a closed one   *)
(* the workflow id may be used again.                                      *)
ExecuteWorkflow(c) ==
    /\ calls[c] = "execute" /\ (run \in {"none", "ended"} => runs < MaxRuns)
    /\ calls' = [calls EXCEPT ![c] = "started"]
    /\ IF run \notin {"none", "ended"}
         THEN UNCHANGED workflow
         ELSE /\ run' = "starting" /\ chain' = chain + 1 /\ runs' = runs + 1
              /\ history' = 0 /\ inbox' = {} /\ timers' = <<>> /\ local' = ""
    /\ UNCHANGED <<scenario, sent, store, activity, attempts, acts, faults>>

(* SignalProcess and ControlProcess: the process must exist and Temporal   *)
(* must have an open run to deliver to.                                    *)
SendMessage ==
    /\ sent < Len(scenario.messages) /\ life # ""
    /\ run \notin {"none", "ended"}
    /\ sent' = sent + 1
    /\ inbox' = inbox \cup {scenario.messages[sent + 1]}
    /\ UNCHANGED <<scenario, calls, store, run, chain, runs, history, timers, local,
                   activity, attempts, acts, faults>>

-----------------------------------------------------------------------------
(* The workflow.                                                           *)

(* Timers are computed once in a chain of runs: a continuation carries     *)
(* their times and whether they fired.  A delay counts from this start.    *)
newProcessWorkflowTimers(carried) ==
    IF DOMAIN carried # {} THEN carried
    ELSE [id \in TimerIDs |->
            LET t == CHOOSE x \in Spec0.timers : x.id = id
            IN [at |-> IF t.fireAt # 0 THEN 0 ELSE runs, fired |-> FALSE]]

(* StartProcessActivity: by now the process exists, so it reads the status *)
(* and appends nothing.                                                    *)
StartRun ==
    /\ run = "starting"
    /\ local' = life /\ history' = history + 1
    /\ timers' = newProcessWorkflowTimers(timers)
    /\ run' = "loop"
    /\ UNCHANGED <<scenario, calls, sent, store, chain, runs, inbox, activity, attempts, acts, faults>>

StartRunFails ==
    /\ run = "starting" /\ faults < MaxFaults
    /\ faults' = faults + 1 /\ run' = "ended"
    /\ UNCHANGED <<scenario, calls, sent, store, chain, runs, history, inbox, timers, local,
                   activity, attempts, acts>>

evaluateProcessContinuation(policy, len) ==
    \/ policy.continueAsNewEvents > 0 /\ len >= policy.continueAsNewEvents
    \/ policy.maxHistoryEvents > 0 /\ len >= policy.maxHistoryEvents

continuedProcessWorkflowInput == timers

(* The head of the loop: end, continue as new, or wait for the next event. *)
LoopHead ==
    /\ run = "loop"
    /\ IF processWorkflowTerminal(local)
         THEN run' = "ended" /\ UNCHANGED <<runs, history, inbox, timers>>
       ELSE IF evaluateProcessContinuation(Spec0.policy, history)
         THEN /\ runs < MaxRuns
              /\ run' = "starting" /\ runs' = runs + 1 /\ history' = 0 /\ inbox' = {}
              /\ timers' = continuedProcessWorkflowInput
       ELSE run' = "select" /\ UNCHANGED <<runs, history, inbox, timers>>
    /\ UNCHANGED <<scenario, calls, sent, store, chain, local, activity, attempts, acts, faults>>

Attempt(msg, n, act) ==
    [msg |-> msg, attempt |-> n, act |-> act, chain |-> chain, pc |-> "read", seen |-> ""]

Execute(msg) ==
    /\ activity' = [msg |-> msg, attempt |-> 1]
    /\ acts' = acts + 1
    /\ attempts' = attempts \cup {Attempt(msg, 1, acts + 1)}
    /\ history' = history + 1
    /\ run' = "acting"

(* The selector receives a signal or a control and runs its activity.      *)
ReceiveMessage ==
    /\ run = "select"
    /\ \E m \in inbox : Execute(m) /\ inbox' = inbox \ {m}
    /\ UNCHANGED <<scenario, calls, sent, store, chain, runs, timers, local, faults>>

(* A timer is due: it is marked fired before its activity runs.  Its key   *)
(* is made of the timer and its time.                                      *)
FireTimer ==
    /\ run = "select"
    /\ \E id \in DOMAIN timers :
        /\ ~timers[id].fired
        /\ timers' = [timers EXCEPT ![id].fired = TRUE]
        /\ Execute([kind |-> "timer", key |-> <<"timer", id, timers[id].at>>, id |-> id])
    /\ UNCHANGED <<scenario, calls, sent, store, chain, runs, inbox, local, faults>>

-----------------------------------------------------------------------------
(* Activity attempts.                                                      *)

Current(a) == run = "acting" /\ a.act = acts /\ a.attempt = activity.attempt
Move(a, pc, seen) == attempts' = (attempts \ {a}) \cup {[a EXCEPT !.pc = pc, !.seen = seen]}

(* The attempt returns an error.  If it is the current one Temporal makes  *)
(* the next attempt or, after the last, gives the error to the workflow,   *)
(* which fails its own copy of the status and ends.                        *)
AttemptReturnsError(a) ==
    IF ~Current(a) THEN attempts' = attempts \ {a} /\ UNCHANGED <<activity, run, local>>
    ELSE IF a.attempt < MaxAttempts
      THEN /\ activity' = [activity EXCEPT !.attempt = @ + 1]
           /\ attempts' = (attempts \ {a}) \cup {Attempt(a.msg, a.attempt + 1, a.act)}
           /\ UNCHANGED <<run, local>>
      ELSE /\ attempts' = attempts \ {a}
           /\ local' = "failed" /\ run' = "loop" /\ activity' = NoActivity

(* requireProcess and the validation of the message.                       *)
ReadProcess(a) ==
    /\ a.pc = "read"
    /\ IF ValidMessage(a.msg)
         THEN Move(a, "event", life) /\ UNCHANGED <<activity, run, local>>
         ELSE AttemptReturnsError(a)
    /\ UNCHANGED <<scenario, calls, sent, store, chain, runs, history, inbox, timers, acts, faults>>

(* A signal or control carries the time it was sent; a timer's signal is   *)
(* stamped by the attempt that makes it.                                   *)
EventStamp(a) == IF a.msg.kind = "timer" THEN a.attempt ELSE 0

SameEvent(a) == EventOf(a.msg.key).msg = a.msg /\ EventOf(a.msg.key).stamp = EventStamp(a)
NewEvent(a) == [key |-> a.msg.key, stamp |-> EventStamp(a), chain |-> a.chain, msg |-> a.msg]

(* AppendProcessEvent and UpdateProcessStatus of the memory store, each    *)
(* under the mutex.                                                        *)
MemoryAppendEvent(a) ==
    /\ a.pc = "event" /\ Memory
    /\ IF HasEvent(a.msg.key) /\ ~SameEvent(a) THEN AttemptReturnsError(a) /\ UNCHANGED events
       ELSE /\ events' = IF HasEvent(a.msg.key) THEN events ELSE Append(events, NewEvent(a))
            /\ Move(a, "key", a.seen) /\ UNCHANGED <<activity, run, local>>
    /\ UNCHANGED <<scenario, calls, sent, life, statusKeys, chain, runs, history, inbox, timers, acts, faults>>

MemoryUpdateStatus(a) ==
    /\ a.pc = "key" /\ Memory
    /\ life' = IF a.msg.key \in statusKeys THEN life ELSE LifecycleAfter(a.seen, a.msg)
    /\ statusKeys' = statusKeys \cup {a.msg.key}
    /\ Move(a, "status", a.seen)
    /\ UNCHANGED <<scenario, calls, sent, events, workflow, activity, acts, faults>>

(* AppendProcessEvent of Postgres, the lookup: a stored event under the    *)
(* key is a replay only if it is equal, its time included.                 *)
LookupEvent(a) ==
    /\ a.pc = "event" /\ ~Memory
    /\ IF ~HasEvent(a.msg.key) THEN Move(a, "append", a.seen) /\ UNCHANGED <<activity, run, local>>
       ELSE IF SameEvent(a)
         THEN Move(a, "key", a.seen) /\ UNCHANGED <<activity, run, local>>
       ELSE AttemptReturnsError(a)
    /\ UNCHANGED <<scenario, calls, sent, store, chain, runs, history, inbox, timers, acts, faults>>

AppendEventMutant(a) ==
    /\ a.pc = "append"
    /\ events' = Append(events, NewEvent(a))
    /\ Move(a, "key", a.seen) /\ UNCHANGED <<activity, run, local>>
    /\ UNCHANGED <<scenario, calls, sent, life, statusKeys, chain, runs, history, inbox, timers, acts, faults>>

(* The transaction: lock the process row, take the next sequence number,   *)
(* insert.  The unique key index stops a second event under one key.       *)
AppendEvent(a) ==
    /\ a.pc = "append"
    /\ IF HasEvent(a.msg.key) THEN AttemptReturnsError(a) /\ UNCHANGED events
       ELSE /\ events' = Append(events, NewEvent(a))
            /\ Move(a, "key", a.seen) /\ UNCHANGED <<activity, run, local>>
    /\ UNCHANGED <<scenario, calls, sent, life, statusKeys, chain, runs, history, inbox, timers, acts, faults>>

(* UpdateProcessStatus: a key that was used is answered from the store.    *)
LookupStatusKey(a) ==
    /\ a.pc = "key" /\ ~Memory
    /\ Move(a, IF a.msg.key \in statusKeys THEN "status" ELSE "update", a.seen)
    /\ UNCHANGED <<scenario, calls, sent, store, workflow, activity, acts, faults>>

(* The projection and the key in one transaction: a second writer under    *)
(* the key is rolled back by the unique index.                             *)
UpdateStatus(a) ==
    /\ a.pc = "update"
    /\ IF a.msg.key \in statusKeys THEN AttemptReturnsError(a) /\ UNCHANGED <<life, statusKeys>>
       ELSE /\ life' = LifecycleAfter(a.seen, a.msg)
            /\ statusKeys' = statusKeys \cup {a.msg.key}
            /\ Move(a, "status", a.seen) /\ UNCHANGED <<activity, run, local>>
    /\ UNCHANGED <<scenario, calls, sent, events, chain, runs, history, inbox, timers, acts, faults>>

(* StatusProcess: the current attempt's result becomes the run's status.   *)
ReturnStatus(a) ==
    /\ a.pc = "status"
    /\ attempts' = attempts \ {a}
    /\ IF Current(a) THEN local' = life /\ run' = "loop" /\ activity' = NoActivity
                     ELSE UNCHANGED <<local, run, activity>>
    /\ UNCHANGED <<scenario, calls, sent, store, chain, runs, history, inbox, timers, acts, faults>>

(* A statement fails.                                                      *)
AttemptFails(a) ==
    /\ faults < MaxFaults /\ faults' = faults + 1
    /\ AttemptReturnsError(a)
    /\ UNCHANGED <<scenario, calls, sent, store, chain, runs, history, inbox, timers, acts>>

(* The current attempt is over its start-to-close timeout: as an error for *)
(* Temporal, while the attempt itself runs on.                             *)
AttemptTimesOut(a) ==
    /\ Current(a) /\ faults < MaxFaults /\ faults' = faults + 1
    /\ IF a.attempt < MaxAttempts
         THEN /\ activity' = [activity EXCEPT !.attempt = @ + 1]
              /\ attempts' = attempts \cup {Attempt(a.msg, a.attempt + 1, a.act)}
              /\ UNCHANGED <<run, local>>
         ELSE /\ local' = "failed" /\ run' = "loop" /\ activity' = NoActivity
              /\ UNCHANGED attempts
    /\ UNCHANGED <<scenario, calls, sent, store, chain, runs, history, inbox, timers, acts>>

-----------------------------------------------------------------------------
Init ==
    /\ scenario \in Scenarios
    /\ calls = [c \in 1..scenario.starts |-> "begin"]
    /\ sent = 0 /\ life = "" /\ events = <<>> /\ statusKeys = {}
    /\ run = "none" /\ chain = 0 /\ runs = 0 /\ history = 0 /\ inbox = {} /\ timers = <<>>
    /\ local = "" /\ activity = NoActivity /\ attempts = {} /\ acts = 0 /\ faults = 0

StartStep(c) ==
    \/ CreateProcess(c) \/ MemoryCreateProcess(c) \/ processForCreate(c) \/ insertProcess(c)
    \/ resolveProcessCreateConflict(c) \/ AppendStarted(c) \/ ExecuteWorkflow(c)

WorkflowStep == StartRun \/ LoopHead \/ ReceiveMessage \/ FireTimer

AttemptStep(a) ==
    ReadProcess(a) \/ MemoryAppendEvent(a) \/ MemoryUpdateStatus(a) \/ LookupEvent(a) \/ AppendEvent(a) \/ LookupStatusKey(a)
    \/ UpdateStatus(a) \/ ReturnStatus(a)

Next ==
    \/ \E c \in DOMAIN calls : StartStep(c) \/ StartFails(c)
    \/ SendMessage \/ WorkflowStep \/ StartRunFails
    \/ \E a \in attempts : AttemptStep(a) \/ AttemptFails(a) \/ AttemptTimesOut(a)

Spec == Init /\ [][Next]_vars

-----------------------------------------------------------------------------
(* Properties.                                                             *)

ProjectedLife ==
    LET after[n \in 0..Len(events)] ==
          IF n = 0 THEN "running"
          ELSE IF events[n].msg.kind = "started" THEN after[n - 1]
          ELSE LifecycleAfter(after[n - 1], events[n].msg)
    IN  after[Len(events)]

(* While no activity has been given up, the stored status is what the      *)
(* stored events, applied in their order, make of a running process, every *)
(* time the workflow waits for the next one: no retry or late attempt      *)
(* applies a message twice or out of its turn.                             *)
ProjectionMatchesEvents ==
    run = "select" /\ chain = 1 /\ local # "failed" => life = ProjectedLife /\ local = life

(* In one chain of runs a timer fires once: continuing as new carries the  *)
(* time and the fired flag, so a delay is not counted again.               *)
TimerFiresOnce ==
    \A i, j \in DOMAIN events :
        /\ events[i].msg.kind = "timer" /\ events[j].msg.kind = "timer"
        /\ events[i].msg.id = events[j].msg.id /\ events[i].chain = events[j].chain
        => i = j

(* A process applies its messages and its timers once and in their turn.   *)
AppliedInTurn == ProjectionMatchesEvents /\ TimerFiresOnce

(* In one chain of runs a canceled process stays canceled, although a late *)
(* attempt may still hold the status it read before: its key is taken.     *)
StaysCanceled == life = "canceled" /\ chain = 1 => life' = "canceled"

=============================================================================
