------------------------------ MODULE Platform ------------------------------
(***************************************************************************)
(* The durable platform around a plan: governed records (actions,          *)
(* worksets, the ledger), durable processes, the REST gateway, and the     *)
(* conversations of a thread.                                              *)
(*                                                                         *)
(* The parts share a database and no row, so a behaviour is one of any     *)
(* part; the others have nothing to do.                                    *)
(***************************************************************************)
EXTENDS Naturals, Sequences

CONSTANTS Scripts,
          Scenarios, MaxAttempts, MaxFaults, MaxRuns,
          Clients, Workloads, Wired, Replicas, MaxSends, MaxEvents, ConsoleMax,
          Runs, Threads, Messages, Sweepers, ThreadOf, KeyOf, TurnScripts, MaxSweepFaults,
          None

VARIABLES part,
          sid, records, statusKeys, chunkKeys, ledger, pc, next, answer,
          scenario, starts, sent, life, events, processKeys, run, chain, runs, history,
          inbox, timers, local, activity, attempts, acts, faults,
          want, sends, serving, status, calls, claimed, published, templates, seeding,
          journal, page,
          script, turn, resumes, lastSeq, expired, message, stored, deferred, sweeper,
          batch, refusals

recordVars == <<sid, records, statusKeys, chunkKeys, ledger, pc, next, answer>>
processVars == <<scenario, starts, sent, life, events, processKeys, run, chain, runs,
                 history, inbox, timers, local, activity, attempts, acts, faults>>
gatewayVars == <<want, sends, serving, status, calls, claimed, published, templates,
                 seeding, journal, page>>
turnVars == <<script, turn, resumes, lastSeq, expired, message, stored, deferred, sweeper,
              batch, refusals>>
vars == <<part, recordVars, processVars, gatewayVars, turnVars>>

G == INSTANCE Governed
P == INSTANCE Process WITH statusKeys <- processKeys, calls <- starts
W == INSTANCE Gateway
C == INSTANCE Conversation WITH
       status <- turn, events <- stored, pc <- sweeper, faults <- refusals,
       Scripts <- TurnScripts, MaxFaults <- MaxSweepFaults

ASSUME PlatformAssumption == C!ConversationAssumption /\ W!GatewayAssumption

Off == "off"

RecordOff ==
  /\ sid = Off /\ records = <<>> /\ statusKeys = <<>> /\ chunkKeys = <<>> /\ ledger = Off
  /\ pc = Off /\ next = Off /\ answer = Off
ProcessOff ==
  /\ scenario = Off /\ starts = Off /\ sent = Off /\ life = Off /\ events = Off
  /\ processKeys = Off /\ run = Off /\ chain = Off /\ runs = Off /\ history = Off
  /\ inbox = Off /\ timers = Off /\ local = Off /\ activity = Off /\ attempts = Off
  /\ acts = Off /\ faults = Off
GatewayOff ==
  /\ want = Off /\ sends = Off /\ serving = Off /\ status = Off /\ calls = Off
  /\ claimed = Off /\ published = Off /\ templates = Off /\ seeding = Off /\ journal = Off
  /\ page = Off
TurnOff ==
  /\ script = Off /\ turn = [r \in Runs |-> "none"] /\ resumes = Off /\ lastSeq = Off
  /\ expired = Off /\ message = Off /\ stored = Off /\ deferred = Off /\ sweeper = Off
  /\ batch = Off /\ refusals = Off

Init ==
  \/ part = "records" /\ G!Init /\ ProcessOff /\ GatewayOff /\ TurnOff
  \/ part = "process" /\ P!Init /\ RecordOff /\ GatewayOff /\ TurnOff
  \/ part = "gateway" /\ W!Init /\ RecordOff /\ ProcessOff /\ TurnOff
  \/ part = "conversation" /\ C!Init /\ RecordOff /\ ProcessOff /\ GatewayOff

\* Nobody owes a process a message or the gateway a request; a
\* record's calls and a thread's sweepers always have a step to take.
Waits == part \in {"process", "gateway"} /\ UNCHANGED vars

Next ==
  \/ part = "records" /\ G!Next /\ UNCHANGED <<part, processVars, gatewayVars, turnVars>>
  \/ part = "process" /\ P!Next /\ UNCHANGED <<part, recordVars, gatewayVars, turnVars>>
  \/ part = "gateway" /\ W!Next /\ UNCHANGED <<part, recordVars, processVars, turnVars>>
  \/ part = "conversation" /\ C!Next /\ UNCHANGED <<part, recordVars, processVars, gatewayVars>>
  \/ Waits

\* The ticker of some process keeps sweeping and time goes on.  Nobody owes an event or
\* a request.
Spec ==
  /\ Init /\ [][Next]_vars
  /\ WF_vars(part = "conversation" /\ (\E w \in Sweepers : C!sweepOnce(w))
               /\ UNCHANGED <<part, recordVars, processVars, gatewayVars>>)
  /\ WF_vars(part = "conversation" /\ (\E r \in Runs : C!LeaseExpires(r))
               /\ UNCHANGED <<part, recordVars, processVars, gatewayVars>>)
-----------------------------------------------------------------------------
(* What each part promises; see the modules of the parts.                  *)

\* The stores' protocols implement the idempotent record store, RecordStore
\* (createPlatformRecord, the status claims).
ImplementsRecordStore == G!ImplementsRecordStore


\* The ledger is numbered without a gap and an append is answered its
\* number, however appends race (AppendLedgerEntry).
LedgerIsDense == part = "records" => G!LedgerIsDense

\* A process applies its messages and its timers once and in their turn, and
\* a canceled one stays canceled (ProcessWorkflow, AppendProcessEvent).
AppliedInTurn ==
  /\ [](part = "process" => P!AppliedInTurn)
  /\ [][part = "process" => P!StaysCanceled]_vars


\* A thread has one running turn at a time and an interrupt one answer
\* (applyDeferredProjections, validateResume).
ThreadIsSerial == part = "conversation" => C!OneTurnPerThread /\ C!ResumedOnce

\* The row of a run says what its stored facts say, which are in the order
\* of their source, and history is never rewritten (persistEvent,
\* admitEvent, requireRunStatus).
TimelineIsReplay ==
  /\ [](part = "conversation" => C!StatusIsReplay /\ C!SourceOrder)
  /\ [][part = "conversation" => C!KeepsHistory]_vars

\* A thread is never held for good: the turn that runs ends (the lease
\* sweeper).
ThreadReleased == C!ThreadReleased

\* A parked turn is started, or ended, by the sweeper once the turns before it
\* are over (applyDeferredProjections).
ParkedTurnStarts == C!ParkedTurnStarts
=============================================================================
