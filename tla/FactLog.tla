------------------------------- MODULE FactLog -------------------------------
(***************************************************************************)
(* The run timeline and its way to the event backbone: the milestone       *)
(* recorder of each process (streamadapter), the run event table with its  *)
(* transactional outbox (persistent), the drainers (outbox), the JetStream *)
(* log they publish to, and the projector that replays the log into the    *)
(* table (runprojection).  One run: facts of different runs never share a  *)
(* sequence, a key or a cursor.                                            *)
(***************************************************************************)
EXTENDS Naturals, Sequences, FiniteSets

CONSTANTS
  Procs,        \* processes holding a milestone recorder of their own
  Drainers,     \* drain loops over the run outbox
  Milestones,   \* how many milestones the run writes
  BatchSize,    \* outbox.DefaultBatchSize, and the projector's batch
  MaxAttempts,  \* outbox.DefaultMaxAttempts
  MaxDeliver,   \* _defaultMaxDeliver of the projector's consumer
  MaxSeq,       \* bound on the sequences a recorder hands out
  MaxFaults     \* bound on failed calls and crashes

FactLogAssumption ==
  /\ Milestones \in Nat \ {0} /\ BatchSize \in Nat \ {0}
  /\ MaxAttempts \in Nat \ {0} /\ MaxDeliver \in Nat \ {0}
  /\ MaxSeq \in Nat /\ MaxSeq >= Milestones /\ MaxFaults \in Nat

VARIABLES
  cursors,      \* MilestoneRecorder.cursors, per process
  writer,       \* the activity writing the run's milestones
  timeline,     \* agentos_run_events: the milestone at each sequence, 0 for no row
  outbox,       \* agentos_run_event_outbox: attempts and readiness per sequence
  drainer,      \* the claimed batch of each drain loop
  log,          \* the run.timeline stream
  dlq,          \* the dead-letter stream
  charged,      \* ghost: failures of each fact with the connection up
  reader,       \* positions the projector has landed and not acknowledged
  acked,        \* positions the consumer has acknowledged
  delivered,    \* deliveries spent on each position not yet acknowledged
  rebuilt,      \* the table was dropped and is being replayed
  faults

table    == <<timeline, outbox>>
stream   == <<log, dlq>>
consumer == <<reader, acked, delivered>>
vars == <<cursors, writer, timeline, outbox, drainer, log, dlq,
           charged, reader, acked, delivered, rebuilt, faults>>

Seqs   == 1 .. MaxSeq
Unread == MaxSeq + 1          \* no cursor for the run in this process
NoRow  == [attempts |-> 0, ready |-> FALSE, queued |-> FALSE]
Stored == {s \in Seqs : timeline[s] # 0}
Queued == {s \in Seqs : outbox[s].queued}
OnLog  == {log[i].seq : i \in DOMAIN log}
Least(S) == CHOOSE s \in S : \A t \in S : s <= t

\* No activity is writing; m is the milestone to write next.
Rest(m) == [pc |-> "idle", at |-> {}, next |-> m, seq |-> 0]

Fault == /\ faults < MaxFaults
         /\ faults' = faults + 1

------------------------------------------------------------------------------
(* The recorder: next() and bootstrap() *)

\* LastRunEventSequence: COALESCE(MAX(sequence), 0).
LastRunEventSequence ==
  IF Stored = {} THEN 0 ELSE CHOOSE s \in Stored : \A t \in Stored : t <= s

\* next(): the in-memory cursor of the process, read from the table once; a
\* read that fails counts as zero.
NextSequence(p, cursor) ==
  IF cursors[p] = Unread THEN cursor + 1 ELSE cursors[p] + 1

\* The activity that owns the run's next milestone runs on some worker and
\* calls Record: the recorder of that process allocates the sequence.
Record(p) ==
  /\ writer.pc = "idle" /\ writer.next <= Milestones
  /\ \/ /\ NextSequence(p, LastRunEventSequence) <= MaxSeq
        /\ writer' = [writer EXCEPT !.pc = "append", !.at = {p},
                                    !.seq = NextSequence(p, LastRunEventSequence)]
        /\ UNCHANGED faults
     \/ /\ cursors[p] = Unread /\ Fault
        /\ writer' = [writer EXCEPT !.pc = "append", !.at = {p}, !.seq = 1]
  /\ cursors' = [cursors EXCEPT ![p] = writer'.seq]
  /\ UNCHANGED <<table, drainer, stream, charged, consumer, rebuilt>>

\* storeRunEvent: INSERT ... ON CONFLICT DO NOTHING and, for a new row only,
\* its outbox row, in one transaction.
StoreRunEvent(s, m) ==
  IF timeline[s] = 0
  THEN /\ timeline' = [timeline EXCEPT ![s] = m]
       /\ outbox' = [outbox EXCEPT ![s] = [attempts |-> 0, ready |-> TRUE, queued |-> TRUE]]
  ELSE UNCHANGED table

\* AppendRunEvent commits and the recorder hears of it: Record returns nil.
AppendRunEvent ==
  /\ writer.pc \in {"append", "retry"}
  /\ StoreRunEvent(writer.seq, writer.next)
  /\ writer' = Rest(writer.next + 1)
  /\ UNCHANGED <<cursors, drainer, stream, charged, consumer, rebuilt, faults>>

\* AppendRunEvent reports an error, committed or not.  append() tries once
\* more with the same sequence, unless its context ends before; the second
\* error, or the context's, is Record's, the activity fails, and the platform
\* runs it again with the same milestone.
AppendRunEventFails ==
  /\ writer.pc \in {"append", "retry"} /\ Fault
  /\ \/ StoreRunEvent(writer.seq, writer.next)
     \/ UNCHANGED table
  /\ \/ writer.pc = "append" /\ writer' = [writer EXCEPT !.pc = "retry"]
     \/ writer' = Rest(writer.next)
  /\ UNCHANGED <<cursors, drainer, stream, charged, consumer, rebuilt>>

\* A process dies: its cursors go, and an activity it was running is run again.
CrashProc(p) ==
  /\ cursors[p] # Unread /\ Fault
  /\ cursors' = [cursors EXCEPT ![p] = Unread]
  /\ writer' = IF writer.at = {p} THEN Rest(writer.next) ELSE writer
  /\ UNCHANGED <<table, drainer, stream, charged, consumer, rebuilt>>

------------------------------------------------------------------------------
(* The outbox and its drainers *)

\* ClaimPending: up to BatchSize ready rows, leased.  Readiness is a time, so
\* which of more ready rows are the oldest is left open.
ClaimPending(d) ==
  LET ready == {s \in Queued : outbox[s].ready} IN
  /\ drainer[d].pc = "idle" /\ ready # {}
  /\ \E S \in SUBSET ready :
       /\ S # {} /\ (Cardinality(S) = BatchSize \/ (S = ready /\ Cardinality(S) < BatchSize))
       /\ drainer' = [drainer EXCEPT ![d] =
            [pc |-> "publish", todo |-> S, sent |-> {},
             attempts |-> [s \in Seqs |-> IF s \in S THEN outbox[s].attempts ELSE 0]]]
       /\ outbox' = [s \in Seqs |->
            IF s \in S THEN [outbox[s] EXCEPT !.ready = FALSE] ELSE outbox[s]]
  /\ UNCHANGED <<cursors, writer, timeline, stream, charged, consumer, rebuilt, faults>>

\* available_at passes, at the end of a backoff or of a dead drainer's lease.
Held(s) == \E d \in Drainers : s \in drainer[d].todo \union drainer[d].sent

Available(s) ==
  /\ outbox[s].queued /\ ~outbox[s].ready /\ ~Held(s)
  /\ outbox' = [outbox EXCEPT ![s].ready = TRUE]
  /\ UNCHANGED <<cursors, writer, timeline, drainer, stream, charged, consumer, rebuilt, faults>>

\* The lease lapses on a drainer that is only slow: the row has two holders.
LeaseLapses(s) ==
  /\ outbox[s].queued /\ ~outbox[s].ready /\ Held(s) /\ Fault
  /\ outbox' = [outbox EXCEPT ![s].ready = TRUE]
  /\ UNCHANGED <<cursors, writer, timeline, drainer, stream, charged, consumer, rebuilt>>

\* drainOne's destination: the dead-letter domain once the record is out of
\* attempts.
DeadLettered(d, s) == drainer[d].attempts[s] + 1 >= MaxAttempts

\* The broker stores the record, unless it still tracks the message id of an
\* earlier copy: its duplicate window is bounded.
Accept(d, s) ==
  IF DeadLettered(d, s)
  THEN dlq' = dlq \union {s} /\ UNCHANGED log
  ELSE /\ \/ s \in OnLog /\ UNCHANGED log
          \/ log' = Append(log, [seq |-> s, m |-> timeline[s]])
       /\ UNCHANGED dlq

\* The batch is published in sequence order (compareClaimedRunEvents).
Current(d) == Least(drainer[d].todo)

Publish(d) ==
  /\ drainer[d].pc = "publish" /\ drainer[d].todo # {}
  /\ Accept(d, Current(d))
  /\ drainer' = [drainer EXCEPT ![d].todo = @ \ {Current(d)},
                                ![d].sent = @ \union {Current(d)}]
  /\ UNCHANGED <<cursors, writer, table, charged, consumer, rebuilt, faults>>

\* Publisher.Publish calls a failure an outage when the connection is down as
\* its status is read, after the failure: an outage that is over by then looks
\* like a record the log refused, and a refusal on a connection that has just
\* gone down like an outage.
ErrLogUnavailable(status) == status # "connected"

\* chargedAttempts: an unreachable log leaves the count alone.
ChargedAttempts(d, s, outage) ==
  IF outage THEN drainer[d].attempts[s] ELSE drainer[d].attempts[s] + 1

\* MarkFailed: attempts as the drainer knows them, and a backoff.  A row that
\* another drainer has deleted stays deleted.
MarkFailed(d, s, outage) ==
  outbox' = IF outbox[s].queued
            THEN [outbox EXCEPT ![s].attempts = ChargedAttempts(d, s, outage),
                                ![s].ready = FALSE]
            ELSE outbox

\* The ghost counts the failures on a connection that was up.
Charge(s, status) ==
  charged' = IF status = "connected" THEN [charged EXCEPT ![s] = @ + 1] ELSE charged

\* A failed record is left among the published ones.
PublishFailsMutant(d) ==
  /\ drainer[d].pc = "publish" /\ drainer[d].todo # {} /\ Fault
  /\ \E status \in {"connected", "down"} :
       /\ MarkFailed(d, Current(d), ErrLogUnavailable(status))
       /\ Charge(Current(d), status)
  /\ drainer' = [drainer EXCEPT ![d].todo = @ \ {Current(d)},
                                ![d].sent = @ \union {Current(d)}]
  /\ UNCHANGED <<cursors, writer, timeline, stream, consumer, rebuilt>>

\* A publish reports an error: the log was unreachable or refused the record,
\* and may have stored it before the answer was lost.  What the connection's
\* status is by then is anybody's guess.  MarkFailed may fail too.
PublishFails(d) ==
  /\ drainer[d].pc = "publish" /\ drainer[d].todo # {} /\ Fault
  /\ Accept(d, Current(d)) \/ UNCHANGED stream
  /\ \E status \in {"connected", "down"} :
       /\ MarkFailed(d, Current(d), ErrLogUnavailable(status)) \/ UNCHANGED outbox
       /\ Charge(Current(d), status)
  /\ drainer' = [drainer EXCEPT ![d].todo = @ \ {Current(d)}]
  /\ UNCHANGED <<cursors, writer, timeline, consumer, rebuilt>>

Idle == [pc |-> "idle", todo |-> {}, sent |-> {}, attempts |-> [s \in Seqs |-> 0]]

\* MarkPublished deletes the rows of what was published.
MarkPublished(d) ==
  /\ drainer[d].pc = "publish" /\ drainer[d].todo = {}
  /\ outbox' = [s \in Seqs |-> IF s \in drainer[d].sent THEN NoRow ELSE outbox[s]]
  /\ drainer' = [drainer EXCEPT ![d] = Idle]
  /\ UNCHANGED <<cursors, writer, timeline, stream, charged, consumer, rebuilt, faults>>

\* The drainer dies, or MarkPublished fails: the leases are left to lapse.
DrainerDies(d) ==
  /\ drainer[d].pc = "publish" /\ Fault
  /\ drainer' = [drainer EXCEPT ![d] = Idle]
  /\ UNCHANGED <<cursors, writer, table, stream, charged, consumer, rebuilt>>

------------------------------------------------------------------------------
(* The projector *)

\* What the consumer will still deliver: JetStream redelivers an
\* unacknowledged message until MaxDeliver deliveries are spent, whatever they
\* failed of.
Spent(i) == delivered[i] >= MaxDeliver

Deliverable == {i \in DOMAIN log : i \notin acked /\ ~Spent(i)}

\* Poll: the oldest deliverable messages.
Fetched == {i \in Deliverable : Cardinality({j \in Deliverable : j < i}) < BatchSize}

\* decodeRunFact and AppendRunEvent, through a repository without an outbox,
\* for each of the records: a fact the table already has is a no-op.
Landed(records) ==
  [s \in Seqs |->
     IF timeline[s] = 0 /\ \E i \in records : log[i].seq = s
     THEN log[CHOOSE i \in records : log[i].seq = s].m ELSE timeline[s]]

Deliver(records) ==
  delivered' = [i \in DOMAIN delivered |->
                  IF i \in records THEN delivered[i] + 1 ELSE delivered[i]]

\* ProjectBatch up to the acknowledgement: every fact of the batch landed.
ProjectBatch ==
  /\ reader = {} /\ Deliverable # {}
  /\ timeline' = Landed(Fetched)
  /\ reader' = Fetched
  /\ Deliver(Fetched)
  /\ UNCHANGED <<cursors, writer, outbox, drainer, stream, charged, acked, rebuilt, faults>>

\* An append fails: the batch is left to be redelivered, what landed stays.
ProjectBatchFailsMutant ==
  /\ reader = {} /\ Deliverable # {} /\ Fault
  /\ \E i \in Fetched : timeline' = Landed({j \in Fetched : j < i})
  /\ acked' = acked \union Fetched
  /\ UNCHANGED <<cursors, writer, outbox, drainer, stream, charged, reader, delivered, rebuilt>>

ProjectBatchFails ==
  /\ reader = {} /\ Deliverable # {} /\ Fault
  /\ \E i \in Fetched : timeline' = Landed({j \in Fetched : j < i})
  /\ Deliver(Fetched)
  /\ UNCHANGED <<cursors, writer, outbox, drainer, stream, charged, reader, acked, rebuilt>>

\* Messages are acknowledged one by one; a crash or an error leaves the rest
\* to be redelivered.
Ack ==
  /\ reader # {}
  /\ \/ acked' = acked \union reader /\ UNCHANGED faults
     \/ Fault /\ \E i \in reader : acked' = acked \union {j \in reader : j < i}
  /\ reader' = {}
  /\ delivered' = [i \in DOMAIN delivered |-> IF i \in acked' THEN 0 ELSE delivered[i]]
  /\ UNCHANGED <<cursors, writer, table, drainer, stream, charged, rebuilt>>

\* An operator follows the rebuild path of LogProjector's comment: the table is
\* dropped, the consumer deleted and recreated, and the log replayed.  That the
\* run is over and its outbox drained by then is assumed of the operator; nothing
\* in the code looks.
Rebuild ==
  /\ ~rebuilt /\ writer.next > Milestones /\ Queued = {}
  /\ reader = {} /\ \A d \in Drainers : drainer[d].pc = "idle"
  /\ rebuilt' = TRUE
  /\ timeline' = [s \in Seqs |-> 0]
  /\ acked' = {}
  /\ delivered' = [i \in DOMAIN delivered |-> 0]
  /\ UNCHANGED <<cursors, writer, outbox, drainer, stream, charged, reader, faults>>

------------------------------------------------------------------------------
\* The log holds each fact at most once per publication.
MaxLog == MaxSeq + MaxFaults + Cardinality(Drainers)

Init ==
  /\ cursors = [p \in Procs |-> Unread]
  /\ writer = Rest(1)
  /\ timeline = [s \in Seqs |-> 0]
  /\ outbox = [s \in Seqs |-> NoRow]
  /\ drainer = [d \in Drainers |-> Idle]
  /\ log = <<>> /\ dlq = {}
  /\ charged = [s \in Seqs |-> 0]
  /\ reader = {} /\ acked = {}
  /\ delivered = [i \in 1 .. MaxLog |-> 0]
  /\ rebuilt = FALSE /\ faults = 0

Next ==
  \/ \E p \in Procs : Record(p) \/ CrashProc(p)
  \/ AppendRunEvent \/ AppendRunEventFails
  \/ \E d \in Drainers : \/ ClaimPending(d) \/ Publish(d) \/ PublishFails(d)
                         \/ MarkPublished(d) \/ DrainerDies(d)
  \/ \E s \in Seqs : Available(s) \/ LeaseLapses(s)
  \/ ProjectBatch \/ ProjectBatchFails \/ Ack
  \/ Rebuild

Spec == Init /\ [][Next]_vars

------------------------------------------------------------------------------
\* The state of the recorders, the table, the outbox, the stream and the
\* consumer; a row a drainer deleted stays deleted, and a row is leased or
\* ready only while it is queued.
TypeOK ==
  /\ cursors \in [Procs -> 1 .. MaxSeq + 1]
  /\ writer \in [pc : {"idle", "append", "retry"}, at : SUBSET Procs,
                 next : 1 .. Milestones + 1, seq : 0 .. MaxSeq]
  /\ timeline \in [Seqs -> 0 .. Milestones]
  /\ \A s \in Seqs : IF outbox[s].queued THEN outbox[s].attempts \in 0 .. MaxFaults
                                         ELSE outbox[s] = NoRow
  /\ \A d \in Drainers : /\ drainer[d].pc = "idle" => drainer[d] = Idle
                         /\ drainer[d].todo \union drainer[d].sent \subseteq Seqs
  /\ log \in Seq([seq : Seqs, m : 1 .. Milestones]) /\ Len(log) <= MaxLog
  /\ dlq \subseteq Seqs
  /\ charged \in [Seqs -> 0 .. MaxFaults]
  /\ acked \subseteq DOMAIN log /\ reader \subseteq DOMAIN log \ acked
  /\ rebuilt \in BOOLEAN /\ faults \in 0 .. MaxFaults

\* A milestone that is in the table is queued, or the log or the dead-letter
\* stream has it: whatever drainer crashes, loses its lease or fails to publish,
\* no row is deleted for a fact that went nowhere (storeRunEvent's transaction,
\* DrainOnce's published list).
NothingStranded ==
  ~rebuilt => Stored \subseteq Queued \union OnLog \union dlq

\* Every record of the log carries what the table holds at its sequence, so a
\* replay (decodeRunFact, AppendRunEvent) can only confirm a row, and never
\* collides with another milestone.
LogMatchesTimeline ==
  \A i \in DOMAIN log :
    timeline[log[i].seq] \in {log[i].m} \union (IF rebuilt THEN {0} ELSE {})

\* A failure with the connection down never spends a record's dead-letter budget
\* (Publish, chargedAttempts): the attempts counted are failures that met a
\* connection that was up, stale counts of slow drainers included, and only a
\* record with MaxAttempts - 1 of them is parked.
OutageSpendsNothing ==
  \A s \in Seqs : /\ outbox[s].attempts <= charged[s]
                  /\ s \in dlq => charged[s] >= MaxAttempts - 1

\* After the table is dropped, the projector restores every fact the log has,
\* but for one whose every copy spent its MaxDeliver deliveries: a batch that
\* failed comes back (ProjectBatch acknowledges after landing) so many times and
\* no more, also when it is the table that cannot be reached.
Reconstructed ==
  rebuilt ~> (\A s \in OnLog \ Stored :
                \A i \in DOMAIN log : log[i].seq = s => Spent(i))

\* A milestone whose Record returned nil is in the table.  The recorder's
\* comment has it so; a process whose cursor is behind the table loses one.
RecordedIsStored ==
  ~rebuilt => \A m \in 1 .. writer.next - 1 : \E s \in Seqs : timeline[s] = m
==============================================================================
