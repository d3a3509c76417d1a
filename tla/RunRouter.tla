------------------------------ MODULE RunRouter ------------------------------
(***************************************************************************)
(* How a run on a remote backend is started, owned and observed: the       *)
(* router and its run_backend_index (agentosruntime, persistent), the      *)
(* HTTP/gRPC backend that asks the remote runtime to start the run and     *)
(* mirrors its lifecycle as milestones (streamadapter.RunLifecycle), and   *)
(* the supervisor workflow that answers status, signal and control for it  *)
(* (agentos/temporal).  The runs are standalone ones: the run of a plan    *)
(* node takes the same steps, but BindPlanNode first asks the plan's own   *)
(* tables whether the node may have this run, which is left out.           *)
(***************************************************************************)
EXTENDS Naturals, Sequences, FiniteSets

CONSTANTS
  Callers,    \* concurrent Start calls; an answered one goes on to poll Status
  Runs, Keys, Backends,
  Requests,   \* what the callers may ask for: a run, an idempotency key, a backend
  Signals, Controls,  \* what clients send; every control is a cancel
  Bare,       \* those of them that leave optional fields (key, payload, ...) out
  MaxSent,    \* bound on what is sent
  MaxFaults   \* bound on failed calls, lost answers and crashes

RunRouterAssumption ==
  /\ Requests \subseteq [Callers -> [run : Runs, key : Keys, backend : Backends]]
  /\ Signals \intersect Controls = {} /\ MaxSent \in Nat /\ MaxFaults \in Nat
  /\ Bare \subseteq Signals \union Controls

VARIABLES
  request,    \* what each caller asks for
  index,      \* run_backend_index: the row of each run
  call,       \* the progress of each caller
  remote,     \* the run at its backend
  posts,      \* ghost: who was asked to start which run
  scope,      \* RunLifecycle.scopes of the process
  open,       \* ghost: timelines this process opened, terminal not yet durable
  sup,        \* the supervisor workflow of each run
  sent,       \* signals and controls whose sender got no error
  applied,    \* what the backend was given: a signal or control, and the one
              \* whose optional fields came with it
  dropped,    \* ghost: what a supervisor still held when it closed
  faults

lifecycle == <<scope, open>>
mail == <<sent, applied, dropped>>
vars == <<request, index, call, remote, posts, scope, open, sup, sent, applied, dropped, faults>>

NoRow  == "none"
Known  == {"running", "ended"}   \* ended: runTerminal, terminalEvent # nil

Fault == /\ faults < MaxFaults
         /\ faults' = faults + 1

------------------------------------------------------------------------------
(* The index *)

Run(c) == request[c].run

Row(c, life) == [key |-> request[c].key, backend |-> request[c].backend, life |-> life]

NoEntry == [key |-> NoRow, backend |-> NoRow, life |-> NoRow]

Exists(r) == index[r].life # NoRow

\* ValidateRunBackendIndexIdempotency, against the row of the run asked for.
ReplayValid(c) == /\ index[Run(c)].key = request[c].key
                  /\ index[Run(c)].backend = request[c].backend

\* runByIdempotencyKey finds a row of another run: its validation fails.
KeyTaken(c) == \E r \in Runs \ {Run(c)} : index[r].key = request[c].key

\* A caller between calls; answered once a call returned a status.
Rest(answered) == [pc |-> IF answered THEN "done" ELSE "idle", answered |-> answered,
                   status |-> "none", then |-> "ensure"]

Go(c, pc) == call' = [call EXCEPT ![c].pc = pc]

Answer(c) == call' = [call EXCEPT ![c] = Rest(TRUE)]

\* An error: Start is called again, a failed poll is not.
Fails(c) == Fault /\ call' = [call EXCEPT ![c] = Rest(call[c].answered)]

\* claimRunStart reads the row, and resolveExistingRunStart decides on it.
GetRunBackend(c) ==
  /\ call[c].pc = "idle"
  /\ Go(c, IF ~Exists(Run(c)) THEN "insert"
           ELSE IF ~ReplayValid(c) THEN "refused"
           ELSE IF index[Run(c)].life = "claiming" THEN "start" ELSE "status")
  /\ UNCHANGED <<index, remote, posts, lifecycle, sup, mail, faults>>

\* The conflict is taken for a replay, whatever row it is with.
InsertClaimUnvalidated(c) ==
  /\ call[c].pc = "insert"
  /\ IF Exists(Run(c)) \/ KeyTaken(c) THEN UNCHANGED index
     ELSE index' = [index EXCEPT ![Run(c)] = Row(c, "claiming")]
  /\ Go(c, "start")
  /\ UNCHANGED <<remote, posts, lifecycle, sup, mail, faults>>

\* Bind: the INSERT, which decides again what the lookup by key before it may
\* have decided.  A row of the same run makes it a no-op that is then validated,
\* and updateLifecycle never writes a claim over another state; the key of
\* another run is a unique violation.  The caller that gets no error holds a
\* claim, also when the run has been started in the meantime.
InsertClaim(c) ==
  /\ call[c].pc = "insert"
  /\ \/ /\ ~Exists(Run(c)) /\ ~KeyTaken(c)
        /\ index' = [index EXCEPT ![Run(c)] = Row(c, "claiming")]
        /\ Go(c, "start")
     \/ /\ Exists(Run(c)) \/ KeyTaken(c)
        /\ Go(c, IF Exists(Run(c)) /\ ReplayValid(c) THEN "start" ELSE "refused")
        /\ UNCHANGED index
  /\ UNCHANGED <<remote, posts, lifecycle, sup, mail, faults>>

\* A query fails; a claim may have been committed before its answer was lost.
IndexFails(c) ==
  /\ call[c].pc \in {"idle", "insert"}
  /\ Fails(c)
  /\ \/ UNCHANGED index
     \/ /\ call[c].pc = "insert" /\ ~Exists(Run(c)) /\ ~KeyTaken(c)
        /\ index' = [index EXCEPT ![Run(c)] = Row(c, "claiming")]
  /\ UNCHANGED <<remote, posts, lifecycle, sup, mail>>

------------------------------------------------------------------------------
(* The remote start and the milestones *)

Started(c) == IF remote[Run(c)] = "absent" THEN "running" ELSE remote[Run(c)]

\* The backend's start request; the remote runtime knows runs by their id.
PostRun(c) ==
  /\ call[c].pc = "start"
  /\ posts' = posts \union {<<Run(c), request[c].backend>>}
  /\ remote' = [remote EXCEPT ![Run(c)] = Started(c)]
  /\ call' = [call EXCEPT ![c].pc = "publish", ![c].status = Started(c)]
  /\ UNCHANGED <<index, lifecycle, sup, mail, faults>>

\* The request or its answer is lost.
PostRunFails(c) ==
  /\ call[c].pc = "start"
  /\ Fails(c)
  /\ posts' = posts \union {<<Run(c), request[c].backend>>}
  /\ remote' \in {remote, [remote EXCEPT ![Run(c)] = Started(c)]}
  /\ UNCHANGED <<index, lifecycle, sup, mail>>

\* The caller goes on when its milestones are written.
Proceed(c) == IF call[c].then = "done" THEN Answer(c) ELSE Go(c, call[c].then)

\* PublishStarted sets the scope and records RUN_STARTED; without the record
\* the start fails and the scope stays.
PublishStarted(c) ==
  /\ call[c].pc = "publish"
  /\ scope' = scope \union {Run(c)}
  /\ open' = open \union {Run(c)}
  /\ \/ /\ UNCHANGED faults
        /\ Go(c, IF call[c].status = "ended" THEN "emit" ELSE "ensure")
     \/ Fails(c)
  /\ UNCHANGED <<index, remote, posts, sup, mail>>

\* emitTerminal: whoever removes the scope owns the terminal milestone.
TakeScope(c) ==
  /\ call[c].pc = "emit"
  /\ IF Run(c) \in scope THEN scope' = scope \ {Run(c)} /\ Go(c, "record")
                         ELSE UNCHANGED scope /\ Proceed(c)
  /\ UNCHANGED <<index, remote, posts, open, sup, mail, faults>>

RecordTerminal(c) ==
  /\ call[c].pc = "record"
  /\ open' = open \ {Run(c)}
  /\ Proceed(c)
  /\ UNCHANGED <<index, remote, posts, scope, sup, mail, faults>>

\* The scope is not put back.
RecordTerminalFailsMutant(c) ==
  /\ call[c].pc = "record"
  /\ Fails(c)
  /\ UNCHANGED <<index, remote, posts, lifecycle, sup, mail>>

\* The record fails: restore puts the scope back, and the call fails.
RecordTerminalFails(c) ==
  /\ call[c].pc = "record"
  /\ Fails(c)
  /\ scope' = scope \union {Run(c)}
  /\ UNCHANGED <<index, remote, posts, open, sup, mail>>

NoSupervisor == [state |-> "none", pc |-> "signals", status |-> "none",
                 signals |-> <<>>, controls |-> <<>>, controlled |-> FALSE,
                 filled |-> "none"]

\* Ensure: a running supervisor wins; otherwise one starts from the status of
\* this start, and one that starts from a terminal status is over at once.
Supervised(c) ==
  IF sup[Run(c)].state = "running" THEN sup
  ELSE [sup EXCEPT ![Run(c)] = [NoSupervisor EXCEPT
          !.state = IF call[c].status = "ended" THEN "completed" ELSE "running",
          !.status = call[c].status]]

Ensure(c) ==
  /\ call[c].pc = "ensure"
  /\ sup' = Supervised(c)
  /\ Go(c, "bind")
  /\ UNCHANGED <<index, remote, posts, lifecycle, mail, faults>>

\* SupervisedBackend.Start only logs that the supervisor could not be started.
EnsureFails(c) ==
  /\ call[c].pc = "ensure" /\ Fault
  /\ sup' \in {sup, Supervised(c)}
  /\ Go(c, "bind")
  /\ UNCHANGED <<index, remote, posts, lifecycle, mail>>

\* startClaimedRun binds the run with the status of the start.
Bind(c) ==
  /\ call[c].pc = "bind"
  /\ index' = [index EXCEPT ![Run(c)].life = call[c].status]
  /\ Answer(c)
  /\ UNCHANGED <<remote, posts, lifecycle, sup, mail, faults>>

BindFails(c) ==
  /\ call[c].pc = "bind"
  /\ Fails(c)
  /\ index' \in {index, [index EXCEPT ![Run(c)].life = call[c].status]}
  /\ UNCHANGED <<remote, posts, lifecycle, sup, mail>>

------------------------------------------------------------------------------
(* Status, signal and control *)

\* SupervisedBackend.Status: the query answers on a closed supervisor too.
Status(r) == IF sup[r].state = "none" THEN remote[r] ELSE sup[r].status

\* The cached status, or the backend's own Status, which mirrors what it sees.
Look(c) == IF sup[Run(c)].state = "none" /\ remote[Run(c)] = "ended"
           THEN call' = [call EXCEPT ![c].pc = "emit", ![c].then = "done"]
           ELSE Answer(c)

\* resolveExistingRunStart's answer for a run that is bound.
ReadStatus(c) ==
  /\ call[c].pc = "status"
  /\ Look(c)
  /\ UNCHANGED <<index, remote, posts, lifecycle, sup, mail, faults>>

\* A caller with an answer goes on to poll the run.
Poll(c) ==
  /\ call[c].pc = "done"
  /\ Look(c)
  /\ UNCHANGED <<index, remote, posts, lifecycle, sup, mail, faults>>

ReadStatusFails(c) ==
  /\ call[c].pc = "status"
  /\ Fails(c)
  /\ UNCHANGED <<index, remote, posts, lifecycle, sup, mail>>

\* What a signal or a control, with the optional fields of f, does to the run.
Effect(m, f, r) ==
  /\ applied' = applied \union {<<m, f>>}
  /\ remote' = IF m \in Controls /\ remote[r] = "running"
               THEN [remote EXCEPT ![r] = "ended"] ELSE remote

\* Router.Signal and Router.Control: to the running supervisor, or directly.
Send(m, r) ==
  /\ m \notin sent /\ Cardinality(sent) < MaxSent
  /\ Exists(r) /\ remote[r] # "absent"
  /\ sent' = sent \union {m}
  /\ IF sup[r].state = "running"
     THEN /\ sup' = IF m \in Signals THEN [sup EXCEPT ![r].signals = Append(@, m)]
                                     ELSE [sup EXCEPT ![r].controls = Append(@, m)]
          /\ UNCHANGED <<applied, remote>>
     ELSE Effect(m, m, r) /\ UNCHANGED sup
  /\ UNCHANGED <<index, call, posts, lifecycle, dropped, faults>>

\* The remote run ends on its own.
RemoteEnds(r) ==
  /\ remote[r] = "running"
  /\ remote' = [remote EXCEPT ![r] = "ended"]
  /\ UNCHANGED <<index, call, posts, lifecycle, sup, mail, faults>>

------------------------------------------------------------------------------
(* The supervisor workflow *)

Elements(q) == {q[i] : i \in DOMAIN q}

At(r, pc) == sup[r].state = "running" /\ sup[r].pc = pc

\* The workflow closes with what its channels still hold.
Close(r, state, status) ==
  /\ sup' = [sup EXCEPT ![r] = [NoSupervisor EXCEPT !.state = state, !.status = status]]
  /\ dropped' = dropped \union Elements(sup[r].signals) \union Elements(sup[r].controls)

\* A drain decodes its messages into one variable.  What a message leaves out
\* stays as the last message of this drain that set it left it.
Decoded(m, r) == IF m \in Bare /\ sup[r].filled # "none" THEN sup[r].filled ELSE m

Filled(m, r) == IF m \in Bare THEN sup[r].filled ELSE m

\* drainSupervisorSignals.
DrainSignals(r) ==
  /\ At(r, "signals")
  /\ IF sup[r].signals # <<>>
     THEN LET m == Head(sup[r].signals)
          IN  /\ Effect(m, Decoded(m, r), r)
              /\ sup' = [sup EXCEPT ![r].signals = Tail(@), ![r].filled = Filled(m, r)]
     ELSE /\ sup' = [sup EXCEPT ![r].pc = "controls", ![r].filled = "none"]
          /\ UNCHANGED <<applied, remote>>
  /\ UNCHANGED <<index, call, posts, lifecycle, sent, dropped, faults>>

\* drainSupervisorControls; a control that was applied skips the sleep.
DrainControls(r) ==
  /\ At(r, "controls")
  /\ IF sup[r].controls # <<>>
     THEN LET m == Head(sup[r].controls)
          IN  /\ Effect(m, Decoded(m, r), r)
              /\ sup' = [sup EXCEPT ![r] = [@ EXCEPT !.controls = Tail(@), !.controlled = TRUE,
                                                    !.filled = Filled(m, r)]]
     ELSE /\ sup' = [sup EXCEPT ![r].pc = IF sup[r].controlled THEN "read" ELSE "sleep",
                                ![r].filled = "none"]
          /\ UNCHANGED <<applied, remote>>
  /\ UNCHANGED <<index, call, posts, lifecycle, sent, dropped, faults>>

Pending(r) == IF sup[r].pc = "signals" THEN sup[r].signals ELSE sup[r].controls

\* A failed control or signal is skipped.
ApplyFailsMutant(r) ==
  /\ At(r, "signals") \/ At(r, "controls")
  /\ Pending(r) # <<>> /\ Fault
  /\ sup' = IF sup[r].pc = "signals" THEN [sup EXCEPT ![r].signals = Tail(@)]
                                     ELSE [sup EXCEPT ![r].controls = Tail(@)]
  /\ UNCHANGED <<index, call, remote, posts, lifecycle, mail>>

\* The activity that applies one fails, with or without effect, and is run
\* again or, out of attempts, ends the workflow.
ApplyFails(r) ==
  /\ At(r, "signals") \/ At(r, "controls")
  /\ Pending(r) # <<>> /\ Fault
  /\ \/ LET m == Head(Pending(r)) IN Effect(m, Decoded(m, r), r)
     \/ UNCHANGED <<applied, remote>>
  /\ Close(r, "failed", sup[r].status) \/ UNCHANGED <<sup, dropped>>
  /\ UNCHANGED <<index, call, posts, lifecycle, sent>>

Wake(r) ==
  /\ At(r, "sleep")
  /\ sup' = [sup EXCEPT ![r].pc = "read"]
  /\ UNCHANGED <<index, call, remote, posts, lifecycle, mail, faults>>

\* Canceled in its sleep, the workflow makes a best effort to cancel the run.
SupervisorCanceled(r) ==
  /\ At(r, "sleep") /\ Fault
  /\ remote' \in {remote, [remote EXCEPT ![r] = "ended"]}
  /\ Close(r, "failed", sup[r].status)
  /\ UNCHANGED <<index, call, posts, lifecycle, sent, applied>>

\* readSupervisedStatus: the backend's Status, with its milestone.
ReadSupervised(r) ==
  /\ At(r, "read")
  /\ sup' = [sup EXCEPT ![r] =
       IF remote[r] = "ended" THEN [@ EXCEPT !.pc = "emit"]
       ELSE [@ EXCEPT !.status = remote[r], !.pc = "signals", !.controlled = FALSE]]
  /\ UNCHANGED <<index, call, remote, posts, lifecycle, mail, faults>>

\* An end whose milestone somebody else writes is not taken over.
SupervisorTakesScopeMutant(r) ==
  /\ At(r, "emit")
  /\ IF r \in scope
     THEN /\ scope' = scope \ {r}
          /\ sup' = [sup EXCEPT ![r].pc = "record"]
     ELSE /\ sup' = [sup EXCEPT ![r] = [@ EXCEPT !.pc = "signals", !.controlled = FALSE]]
          /\ UNCHANGED scope
  /\ UNCHANGED <<index, call, remote, posts, open, mail, faults>>

SupervisorTakesScope(r) ==
  /\ At(r, "emit")
  /\ IF r \in scope
     THEN /\ scope' = scope \ {r}
          /\ sup' = [sup EXCEPT ![r].pc = "record"]
          /\ UNCHANGED dropped
     ELSE Close(r, "completed", "ended") /\ UNCHANGED scope
  /\ UNCHANGED <<index, call, remote, posts, open, sent, applied, faults>>

SupervisorRecords(r) ==
  /\ At(r, "record")
  /\ open' = open \ {r}
  /\ Close(r, "completed", "ended")
  /\ UNCHANGED <<index, call, remote, posts, scope, sent, applied, faults>>

\* The read fails, or its milestone does and the scope is put back; the
\* activity is run again or, out of attempts, ends the workflow.
ReadSupervisedFails(r) ==
  /\ At(r, "read") \/ At(r, "record")
  /\ Fault
  /\ scope' = IF sup[r].pc = "record" THEN scope \union {r} ELSE scope
  /\ \/ Close(r, "failed", sup[r].status)
     \/ sup' = [sup EXCEPT ![r].pc = "read"] /\ UNCHANGED dropped
  /\ UNCHANGED <<index, call, remote, posts, open, sent, applied>>

\* The process restarts: scopes and calls are gone, activities run again.
Crash ==
  /\ Fault
  /\ scope' = {} /\ open' = {}
  /\ call' = [c \in Callers |->
       IF call[c].pc = "refused" THEN call[c] ELSE Rest(call[c].answered)]
  /\ sup' = [r \in Runs |-> IF sup[r].pc \in {"emit", "record"}
                            THEN [sup[r] EXCEPT !.pc = "read"] ELSE sup[r]]
  /\ UNCHANGED <<index, remote, posts, mail>>

------------------------------------------------------------------------------
Init ==
  /\ request \in Requests
  /\ index = [r \in Runs |-> NoEntry]
  /\ call = [c \in Callers |-> Rest(FALSE)]
  /\ remote = [r \in Runs |-> "absent"]
  /\ posts = {} /\ scope = {} /\ open = {}
  /\ sup = [r \in Runs |-> NoSupervisor]
  /\ sent = {} /\ applied = {} /\ dropped = {} /\ faults = 0

Start(c) ==
  /\ \/ GetRunBackend(c) \/ InsertClaim(c)
     \/ PostRun(c) \/ PublishStarted(c) \/ TakeScope(c) \/ RecordTerminal(c)
     \/ Ensure(c) \/ Bind(c) \/ ReadStatus(c)
  /\ UNCHANGED request

Supervise(r) ==
  /\ \/ DrainSignals(r) \/ DrainControls(r) \/ Wake(r)
     \/ ReadSupervised(r) \/ SupervisorTakesScope(r) \/ SupervisorRecords(r)
  /\ UNCHANGED request

Next ==
  /\ \/ \E c \in Callers :
          \/ Start(c) \/ Poll(c) \/ IndexFails(c) \/ PostRunFails(c) \/ RecordTerminalFails(c)
          \/ EnsureFails(c) \/ BindFails(c) \/ ReadStatusFails(c)
     \/ \E r \in Runs :
          \/ Supervise(r) \/ RemoteEnds(r) \/ ApplyFails(r)
          \/ SupervisorCanceled(r) \/ ReadSupervisedFails(r)
     \/ \E m \in Signals \union Controls, r \in Runs : Send(m, r)
     \/ Crash
  /\ UNCHANGED request

Spec == Init /\ [][Next]_vars

------------------------------------------------------------------------------
\* The rows, calls, scopes and supervisors; a supervisor or an answer comes
\* with a status that the backend reported.
TypeOK ==
  /\ \A r \in Runs : \/ index[r] = NoEntry
                     \/ index[r] \in [key : Keys, backend : Backends,
                                      life : {"claiming"} \union Known]
  /\ \A c \in Callers :
       /\ call[c].pc \in {"idle", "insert", "start", "status", "publish", "emit",
                          "record", "ensure", "bind", "done", "refused"}
       /\ call[c].pc \in {"publish", "ensure", "bind"} => call[c].status \in Known
  /\ remote \in [Runs -> {"absent"} \union Known]
  /\ posts \subseteq Runs \X Backends
  /\ scope \subseteq Runs /\ open \subseteq Runs
  /\ \A r \in Runs :
       /\ sup[r].state # "none" => sup[r].status \in Known
       /\ sup[r].signals \in Seq(Signals) /\ sup[r].controls \in Seq(Controls)
       /\ sup[r].pc \in {"signals", "controls", "sleep", "read", "emit", "record"}
       /\ sup[r].filled \in {"none"} \union Signals \union Controls
  /\ sent \union dropped \subseteq Signals \union Controls
  /\ applied \subseteq (Signals \union Controls) \X (Signals \union Controls)
  /\ faults \in 0 .. MaxFaults

\* Only the backend that the index binds to a run is ever asked to start it,
\* however many callers race for the run or its key, fail and try again
\* (claimRunStart, upsert, handleUpsertConflict).
OnlyOwnerStarted ==
  \A p \in posts : Exists(p[1]) /\ index[p[1]].backend = p[2]

\* A caller whose Start returned a status asked for what the index binds, and
\* the run is past its claim: the answer is of a run that later calls can reach.
AnswerIsBound ==
  \A c \in Callers : call[c].answered =>
     ReplayValid(c) /\ index[Run(c)].life # "claiming" /\ remote[Run(c)] # "absent"

\* A run that was bound never goes back to the claim (updateLifecycle), and its
\* owner and key never change.
KeepsOwner ==
  \A r \in Runs : Exists(r) =>
     /\ index'[r].key = index[r].key /\ index'[r].backend = index[r].backend
     /\ index'[r].life = "claiming" => index[r].life = "claiming"

\* emitTerminal's latch: while a timeline that this process opened has no
\* durable terminal, its scope is there or somebody is writing the terminal.
ScopeLatch ==
  \A r \in open : \/ r \in scope
                  \/ \E c \in Callers : Run(c) = r /\ call[c].pc = "record"
                  \/ At(r, "record")

\* A run that ended is, from some point on, reported as ended, unless its
\* supervisor failed: the cached status follows the backend.
EndIsLearned ==
  <>[](\A r \in Runs : remote[r] = "ended" =>
                         Status(r) = "ended" \/ sup[r].state = "failed")

\* What a client was told was sent reaches the backend, unless the supervisor
\* that held it closed first, and it reaches it as it was sent, whatever waited in
\* the channel with it.  Only a message that leaves optional fields out may come
\* with those of a message of the same kind (drainSupervisorSignals and
\* drainSupervisorControls decode into one variable).
SentIsApplied ==
  []<>(\A m \in sent \ dropped : \E p \in applied :
          /\ p[1] = m
          /\ p[2] = m \/ (m \in Bare /\ p[2] \in sent /\ (p[2] \in Signals <=> m \in Signals)))
==============================================================================
