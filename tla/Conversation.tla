---------------------------- MODULE Conversation ----------------------------
(***************************************************************************)
(* The conversation runtime (agentos/conversation): turns of a thread are  *)
(* admitted, their sources deliver events, and a sweeper per process ends  *)
(* turns whose lease ran out and starts turns whose start was parked.      *)
(*                                                                         *)
(* A source's script is the sequence of events it emits; event number k    *)
(* has source sequence k and an event id of its own, and is delivered at   *)
(* any time, in any order, any number of times or never.  StartRun and     *)
(* IngestEvent run in serializable transactions and are one step each; a   *)
(* refused delivery changes nothing and is no step.  A sweep is two        *)
(* transactions, the second of which selects its rows before it locks      *)
(* anything.  Left out: tenants, texts, attachments, and the outbox row    *)
(* of an event (module FactLog).  The three events of a user message are   *)
(* one event.  The facts of a thread are kept per run: the sequence they    *)
(* share orders them for readers and the parked rows in the sweeper's      *)
(* query, which takes all rows of a free thread.                           *)
(***************************************************************************)
EXTENDS Naturals, Sequences, FiniteSets

CONSTANTS
    Runs,           \* run ids; the id of a run's interrupt is the run's
    Threads,
    Messages,       \* ids of assistant messages
    Sweepers,       \* processes with a runtime
    ThreadOf,       \* thread of each run
    KeyOf,          \* idempotency key of the request for each run
    Scripts,        \* scripts the source of each run may follow
    MaxFaults,      \* how many sweeps fail on the database (bound)
    None

ConversationAssumption ==
    /\ None \notin Runs
    /\ \A r \in Runs : \A s \in Scripts[r] : DOMAIN s \subseteq Nat \ {0}

Terminal == {"completed", "interrupted", "error"}
Statuses == {"none", "pending", "running"} \cup Terminal

\* Status a RUN_FINISHED leads to. "canceled" has none: the status column does
\* not allow the value the handler writes, and the event is refused.
FinishStatus ==
    [normal |-> "completed", interrupt |-> "interrupted", abandoned |-> "error"]

VARIABLES
    script,     \* what the source of each run emits
    status,     \* agentos_conversation_runs.status, "none" without a row
    resumes,    \* resume_interrupt_id
    lastSeq,    \* last_source_sequence
    expired,    \* last_activity_at is older than the lease
    message,    \* agentos_messages: owner and status
    events,     \* agentos_conversation_events of each run, by sequence
    deferred,   \* agentos_conversation_deferred_projections: <<run, place in events>>
    pc,         \* step of each sweeper
    batch,      \* the rows its second transaction selected
    faults

rows == <<status, resumes, lastSeq, expired>>
sweep == <<pc, batch, faults>>
vars == <<script, rows, message, events, deferred, sweep>>

NoMessage == [owner |-> None, status |-> "none"]

Init ==
    /\ script \in {f \in [Runs -> UNION {Scripts[r] : r \in Runs}] :
                      \A r \in Runs : f[r] \in Scripts[r]}
    /\ status = [r \in Runs |-> "none"]
    /\ resumes = [r \in Runs |-> None]
    /\ lastSeq = [r \in Runs |-> 0]
    /\ expired = [r \in Runs |-> FALSE]
    /\ message = [m \in Messages |-> NoMessage]
    /\ events = [r \in Runs |-> <<>>]
    /\ deferred = {}
    /\ pc = [w \in Sweepers |-> "abandon"]
    /\ batch = [w \in Sweepers |-> {}]
    /\ faults = 0

RunsOf(t) == {r \in Runs : ThreadOf[r] = t}
Running(t) == {r \in RunsOf(t) : status[r] = "running"}

\* A stored fact. by is who wrote it; with the source sequence it stands for the
\* source event id.
Fact(by, n, e) == [by |-> by, src |-> n, event |-> e]

Stored(r) == {events[r][i] : i \in DOMAIN events[r]}

appendEvent(r, by, n, e) == events' = [events EXCEPT ![r] = Append(@, Fact(by, n, e))]

-----------------------------------------------------------------------------
(***************************************************************************)
(* Admission.                                                              *)
(***************************************************************************)

\* Interrupts of a thread that no run has resumed.
Open(t) ==
    {q \in RunsOf(t) : status[q] = "interrupted" /\ \A r \in RunsOf(t) : resumes[r] # q}

\* The latest open interrupt, by the times the sources gave, must be the one
\* the request resumes; without one the request must resume nothing.
validateResume(r, resume) ==
    IF Open(ThreadOf[r]) = {} THEN resume = None ELSE resume \in Open(ThreadOf[r])

\* A request whose key has a run answers with that run and changes nothing.
StartRun(r, resume) ==
    /\ status[r] = "none"
    /\ \A q \in RunsOf(ThreadOf[r]) : KeyOf[q] = KeyOf[r] => status[q] = "none"
    /\ validateResume(r, resume)
    /\ status' = [status EXCEPT ![r] = "pending"]
    /\ resumes' = [resumes EXCEPT ![r] = resume]
    /\ expired' = [expired EXCEPT ![r] = FALSE]
    /\ appendEvent(r, "user", 0, [type |-> "user"])
    /\ UNCHANGED <<script, lastSeq, message, deferred, sweep>>

-----------------------------------------------------------------------------
(***************************************************************************)
(* Ingestion.                                                              *)
(***************************************************************************)

\* The guards every delivery passes: the run exists, the event is not stored,
\* and it comes after what was read of its source.
admitEvent(r, k) ==
    /\ status[r] # "none"
    /\ k \in DOMAIN script[r]
    /\ Fact("source", k, script[r][k]) \notin Stored(r)
    /\ k > lastSeq[r]

\* What every accepted delivery leaves: the fact, the source cursor and the lease.
persistEvent(r, k) ==
    /\ appendEvent(r, "source", k, script[r][k])
    /\ lastSeq' = [lastSeq EXCEPT ![r] = k]
    /\ expired' = [expired EXCEPT ![r] = FALSE]
    /\ UNCHANGED <<script, resumes, sweep>>

\* RUN_STARTED takes the thread.
TakeTurn(r, k) ==
    /\ admitEvent(r, k)
    /\ script[r][k].type = "start"
    /\ status[r] = "pending" /\ Running(ThreadOf[r]) = {}
    /\ status' = [status EXCEPT ![r] = "running"]
    /\ persistEvent(r, k)
    /\ UNCHANGED <<message, deferred>>

\* Another run holds the thread: the index refuses the update, the savepoint
\* undoes it, and the fact is stored with its projection parked.
ParkTurn(r, k) ==
    /\ admitEvent(r, k)
    /\ script[r][k].type = "start"
    /\ status[r] = "pending" /\ Running(ThreadOf[r]) # {}
    /\ deferred' = deferred \cup {<<r, Len(events[r]) + 1>>}
    /\ persistEvent(r, k)
    /\ UNCHANGED <<status, message>>

\* RUN_ERROR, also of a run that has not started.
FailRun(r, k) ==
    /\ admitEvent(r, k)
    /\ script[r][k].type = "error"
    /\ status[r] \in {"pending", "running"}
    /\ status' = [status EXCEPT ![r] = "error"]
    /\ persistEvent(r, k)
    /\ UNCHANGED <<message, deferred>>

\* An event on a message that a run of the thread other than r owns.
replayedMessage(r, m) ==
    /\ message[m].status # "none"
    /\ message[m].owner # r
    /\ ThreadOf[message[m].owner] = ThreadOf[r]

Streams(r, m) == message[m] = [owner |-> r, status |-> "streaming"]

\* A replayed start changes nothing; a second one of the same run is refused.
startMessage(r, k) ==
    LET m == script[r][k].msg IN
    /\ admitEvent(r, k)
    /\ script[r][k].type = "msgStart"
    /\ status[r] = "running"
    /\ \/ /\ message[m].status = "none"
          /\ message' = [message EXCEPT ![m] = [owner |-> r, status |-> "streaming"]]
       \/ replayedMessage(r, m) /\ UNCHANGED message
    /\ persistEvent(r, k)
    /\ UNCHANGED <<status, deferred>>

appendMessageContent(r, k) ==
    LET m == script[r][k].msg IN
    /\ admitEvent(r, k)
    /\ script[r][k].type = "msgContent"
    /\ status[r] = "running"
    /\ Streams(r, m) \/ replayedMessage(r, m)
    /\ persistEvent(r, k)
    /\ UNCHANGED <<status, message, deferred>>

\* A replay closes the message an earlier run left streaming.
endMessage(r, k) ==
    LET m == script[r][k].msg IN
    /\ admitEvent(r, k)
    /\ script[r][k].type = "msgEnd"
    /\ status[r] = "running"
    /\ Streams(r, m) \/ replayedMessage(r, m)
    /\ message' = [message EXCEPT ![m].status = "completed"]
    /\ persistEvent(r, k)
    /\ UNCHANGED <<status, deferred>>

\* RUN_FINISHED; an interrupt needs a message the run has completed.
finishRun(r, k) ==
    LET outcome == script[r][k].outcome IN
    /\ admitEvent(r, k)
    /\ script[r][k].type = "finish"
    /\ status[r] = "running"
    /\ outcome \in DOMAIN FinishStatus
    /\ outcome = "interrupt" =>
          \E m \in Messages : message[m] = [owner |-> r, status |-> "completed"]
    /\ status' = [status EXCEPT ![r] = FinishStatus[outcome]]
    /\ persistEvent(r, k)
    /\ UNCHANGED <<message, deferred>>

\* Events without a projection are stored whatever the status of the run.
StoreOnly(r, k) ==
    /\ admitEvent(r, k)
    /\ script[r][k].type = "custom"
    /\ persistEvent(r, k)
    /\ UNCHANGED <<status, message, deferred>>

IngestEvent(r, k) ==
    \/ TakeTurn(r, k) \/ ParkTurn(r, k) \/ FailRun(r, k)
    \/ startMessage(r, k) \/ appendMessageContent(r, k) \/ endMessage(r, k)
    \/ finishRun(r, k) \/ StoreOnly(r, k)

\* Time passes: the run has been silent for a lease.
LeaseExpires(r) ==
    /\ status[r] \in {"pending", "running"} /\ ~expired[r]
    /\ expired' = [expired EXCEPT ![r] = TRUE]
    /\ UNCHANGED <<script, status, resumes, lastSeq, message, events, deferred, sweep>>

-----------------------------------------------------------------------------
(***************************************************************************)
(* The sweeper.                                                            *)
(***************************************************************************)

\* Mutant: no run is abandoned while a turn waits.
expiredRunningRunsMutant ==
    {r \in Runs : status[r] = "running" /\ expired[r] /\ deferred = {}}

expiredRunningRuns == {r \in Runs : status[r] = "running" /\ expired[r]}

\* The terminal fact the source never delivered, under the run's next source
\* sequence.
Abandonment(r) ==
    Fact("sweeper", lastSeq[r] + 1, [type |-> "finish", outcome |-> "abandoned"])

\* First transaction of a sweep.
abandonExpiredRuns(w) ==
    LET dead == expiredRunningRuns IN
    /\ pc[w] = "abandon"
    /\ pc' = [pc EXCEPT ![w] = "select"]
    /\ status' = [r \in Runs |-> IF r \in dead THEN FinishStatus["abandoned"] ELSE status[r]]
    /\ lastSeq' = [r \in Runs |-> IF r \in dead THEN lastSeq[r] + 1 ELSE lastSeq[r]]
    /\ expired' = [r \in Runs |-> expired[r] /\ r \notin dead]
    /\ events' = [r \in Runs |-> IF r \in dead THEN Append(events[r], Abandonment(r)) ELSE events[r]]
    /\ UNCHANGED <<script, resumes, message, deferred, batch, faults>>

\* Second transaction: every parked projection of a thread nobody runs on. The
\* query has no lock and no limit of one per thread.
nextDeferredProjections(w) ==
    /\ pc[w] = "select"
    /\ pc' = [pc EXCEPT ![w] = "apply"]
    /\ batch' = [batch EXCEPT ![w] = {d \in deferred : Running(ThreadOf[d[1]]) = {}}]
    /\ UNCHANGED <<script, rows, message, events, deferred, faults>>

\* Mutant: only the status of the run is looked at.
ProjectableMutant(rs) == \A d \in rs : status[d[1]] = "pending"

\* Each row is projected without a savepoint: a run that is no longer pending,
\* or a thread that is taken, before the transaction or by an earlier row of
\* it, fails the transaction.
Projectable(rs) ==
    \A d \in rs :
        /\ status[d[1]] = "pending"
        /\ Running(ThreadOf[d[1]]) = {}
        /\ \A o \in rs : ThreadOf[o[1]] = ThreadOf[d[1]] => o = d

\* Mutant: the rows stay in the queue.
applyDeferredProjectionsMutant(w) ==
    LET started == {d[1] : d \in batch[w]} IN
    /\ pc[w] = "apply"
    /\ pc' = [pc EXCEPT ![w] = "abandon"]
    /\ batch' = [batch EXCEPT ![w] = {}]
    /\ Projectable(batch[w])
    /\ status' = [r \in Runs |-> IF r \in started THEN "running" ELSE status[r]]
    /\ UNCHANGED <<script, resumes, lastSeq, expired, message, events, deferred, faults>>

\* The rows are projected and leave the queue, all of them or none.
applyDeferredProjections(w) ==
    LET started == {d[1] : d \in batch[w]} IN
    /\ pc[w] = "apply"
    /\ pc' = [pc EXCEPT ![w] = "abandon"]
    /\ batch' = [batch EXCEPT ![w] = {}]
    /\ \/ /\ Projectable(batch[w])
          /\ status' = [r \in Runs |-> IF r \in started THEN "running" ELSE status[r]]
          /\ deferred' = deferred \ batch[w]
       \/ /\ ~Projectable(batch[w])
          /\ UNCHANGED <<status, deferred>>
    /\ UNCHANGED <<script, resumes, lastSeq, expired, message, events, faults>>

\* The database fails a transaction of the sweep; the next tick starts over.
SweepFails(w) ==
    /\ faults < MaxFaults
    /\ faults' = faults + 1
    /\ pc' = [pc EXCEPT ![w] = "abandon"]
    /\ batch' = [batch EXCEPT ![w] = {}]
    /\ UNCHANGED <<script, rows, message, events, deferred>>

sweepOnce(w) ==
    abandonExpiredRuns(w) \/ nextDeferredProjections(w) \/ applyDeferredProjections(w)

Next ==
    \/ \E r \in Runs, i \in Runs \cup {None} : StartRun(r, i)
    \/ \E r \in Runs : \E k \in DOMAIN script[r] : IngestEvent(r, k)
    \/ \E r \in Runs : LeaseExpires(r)
    \/ \E w \in Sweepers : sweepOnce(w) \/ SweepFails(w)

Spec == Init /\ [][Next]_vars

\* The ticker of each process keeps sweeping and time goes on. Nobody owes an
\* event or a request.
Fairness ==
    /\ \A w \in Sweepers : WF_vars(sweepOnce(w))
    /\ \A r \in Runs : WF_vars(LeaseExpires(r))

FairSpec == Spec /\ Fairness

-----------------------------------------------------------------------------
(***************************************************************************)
(* Properties.                                                             *)
(***************************************************************************)

TypeOK ==
    /\ status \in [Runs -> Statuses]
    /\ resumes \in [Runs -> Runs \cup {None}]
    /\ lastSeq \in [Runs -> Nat]
    /\ expired \in [Runs -> BOOLEAN]
    /\ message \in [Messages -> [owner : Runs \cup {None},
                                 status : {"none", "streaming", "completed"}]]
    /\ \A d \in deferred :
          d[1] \in Runs /\ d[2] \in DOMAIN events[d[1]]
    /\ pc \in [Sweepers -> {"abandon", "select", "apply"}]

\* A thread has one running turn at a time, whichever of the sources and the
\* sweepers of several processes started it (idx_agentos_conversation_runs_running).
OneTurnPerThread == \A t \in Threads : Cardinality(Running(t)) <= 1

FactsOf(r, types) == {i \in DOMAIN events[r] : events[r][i].event.type \in types}

\* What the stored facts of r say its status is: its end if there is one, else
\* running if its start is there and not parked.
ReplayedStatus(r) ==
    LET ends == {events[r][i].event : i \in FactsOf(r, {"error", "finish"})} IN
    IF events[r] = <<>> THEN {"none"}
    ELSE IF ends # {} THEN
            {IF e.type = "error" THEN "error" ELSE FinishStatus[e.outcome] : e \in ends}
    ELSE IF \E i \in FactsOf(r, {"start"}) : <<r, i>> \notin deferred THEN {"running"}
    ELSE {"pending"}

\* The row of a run says what its facts say: no projection is lost, applied
\* twice or applied without its fact, over parking, late projection, abandonment
\* and refused deliveries (persistEvent, applyDeferredProjection).
StatusIsReplay == \A r \in Runs : ReplayedStatus(r) = {status[r]}

\* The facts of a run are stored in the order of their source sequences, each
\* sequence once, also when the sweeper's fact and a late event of the source
\* claim the same one (admitEvent, abandonRun).
SourceOrder ==
    \A r \in Runs : \A i, j \in DOMAIN events[r] :
        i < j => events[r][i].src < events[r][j].src

\* No interrupt is answered by two turns (validateResume).
ResumedOnce ==
    \A r, q \in Runs : resumes[r] # None /\ resumes[r] = resumes[q] => r = q

\* History is never rewritten: an ended run keeps its status against late
\* events, replays and the sweeper, a message keeps its owner and a completed
\* message its status (requireRunStatus, startMessage, completeReplayedMessage).
KeepsHistory ==
    /\ \A r \in Runs : status[r] \in Terminal => status'[r] = status[r]
    /\ \A m \in Messages :
          /\ message[m].owner # None => message'[m].owner = message[m].owner
          /\ message[m].status = "completed" => message'[m] = message[m]

\* A thread is never held for good: the turn that runs ends, by its source or by
\* a sweeper (sweeper.go: "keeps a conversation thread from being locked by a run
\* that no longer exists").
ThreadReleased == \A t \in Threads : []<>(Running(t) = {})

Parked(r) == \E d \in deferred : d[1] = r

\* A parked turn is started, or ended, by the sweeper once the turns before it
\* are over (sweeper.go: "The sweeper abandons the first and starts the second").
ParkedTurnStarts == \A r \in Runs : Parked(r) ~> ~Parked(r)

=============================================================================
