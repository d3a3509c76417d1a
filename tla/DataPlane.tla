----------------------------- MODULE DataPlane -----------------------------
(***************************************************************************)
(* The live half of the event path: publishers that announce what they     *)
(* stored, the bus (in-process memstream or Centrifugo), and a consumer    *)
(* that joins a replay to the live tail.                                   *)
(*                                                                         *)
(* A "plan" consumer is SubscribePlan: the durable journal is read, the    *)
(* live tail is opened, the journal is read again, and live events at or   *)
(* below what was read are skipped.  A "run" consumer is Subscribe(after)  *)
(* of the bus itself, replaying the retained history.  The journal is the  *)
(* counter stored: events become readable in sequence order, which is      *)
(* CursorMissesNothing of PlanStore.                                       *)
(*                                                                         *)
(* The channels between the fan-out and the consumer are one bounded queue *)
(* live; a send that finds it full is dropped.                             *)
(***************************************************************************)
EXTENDS Naturals, Sequences, FiniteSets

CONSTANTS
  Writers,        \* activities and ingest handlers that append and publish
  Buses,          \* subset of {"memstream", "centrifugo"}
  Kinds,          \* subset of {"plan", "run"}
  MaxEvents,      \* events appended to the journal
  MaxRepublish,   \* publishes repeated by a retried activity
  MaxLost,        \* publishes that fail
  Buffer,         \* capacity of a subscription's live channel
  History,        \* events a channel retains for replay
  After           \* cursors a consumer subscribes with

VARIABLES
  bus, kind,
  stored,         \* last sequence of the journal
  pub,            \* writer -> [pc, e, b]
  hist,           \* channel history: bus sequence -> journal sequence
  wire,           \* publications the Centrifugo server sent and the client has not read
  sub,            \* the consumer's subscription
  live,           \* its live channel, of [e, b]
  got,            \* what the consumer received, of [e, b]
  lost,           \* journal sequences a publish failed for or a full channel dropped
  republished,
  overlapped      \* history: two publishers fanned out at the same time

\* one of two buses, one of two kinds of consumer
StreamAssumption ==
  /\ Buses \subseteq {"memstream", "centrifugo"} /\ Kinds \subseteq {"plan", "run"}
  /\ After \subseteq Nat /\ History \in Nat

vars == <<bus, kind, stored, pub, hist, wire, sub, live, got, lost, republished, overlapped>>

-----------------------------------------------------------------------------
(* Publishers.                                                             *)

Idle == [pc |-> "idle", e |-> 0, b |-> 0, to |-> FALSE]

\* PersistPlanStateActivity and IngestExternalPlanEvent publish the event the
\* store returned, after the store returned it
AppendThenPublish(w) ==
  /\ pub[w].pc = "idle"
  /\ stored < MaxEvents
  /\ stored' = stored + 1
  /\ pub' = [pub EXCEPT ![w] = [Idle EXCEPT !.pc = "publish", !.e = stored + 1]]
  /\ UNCHANGED <<bus, kind, hist, wire, sub, live, got, lost, republished, overlapped>>

\* a retried attempt is answered the stored event and publishes it again
PublishAgain(w) ==
  /\ pub[w].pc = "idle"
  /\ republished < MaxRepublish
  /\ republished' = republished + 1
  /\ \E e \in 1..stored : pub' = [pub EXCEPT ![w] = [Idle EXCEPT !.pc = "publish", !.e = e]]
  /\ UNCHANGED <<bus, kind, stored, hist, wire, sub, live, got, lost, overlapped>>

\* the publish fails, or the process ends between the append and the publish
PublishFails(w) ==
  /\ pub[w].pc = "publish"
  /\ Cardinality(lost) < MaxLost
  /\ lost' = lost \cup {pub[w].e}
  /\ pub' = [pub EXCEPT ![w] = Idle]
  /\ UNCHANGED <<bus, kind, stored, hist, wire, sub, live, got, republished, overlapped>>

\* one live send: a full channel drops it
Deliver(item) ==
  IF Len(live) < Buffer
  THEN live' = Append(live, item) /\ UNCHANGED lost
  ELSE lost' = lost \cup {item.e} /\ UNCHANGED live

\* Bus.Publish under the mutex: sequence, history, and the subscribers to send to
Publish(w) ==
  /\ bus = "memstream"
  /\ pub[w].pc = "publish"
  /\ hist' = Append(hist, pub[w].e)
  /\ pub' = [pub EXCEPT ![w].pc = "fanout", ![w].b = Len(hist) + 1, ![w].to = sub.registered]
  /\ overlapped' = (overlapped \/ \E v \in Writers \ {w} : pub[v].pc = "fanout")
  /\ UNCHANGED <<bus, kind, stored, wire, sub, live, got, lost, republished>>

\* and the sends, after the mutex is released
FanOut(w) ==
  /\ pub[w].pc = "fanout"
  /\ IF pub[w].to /\ sub.registered
     THEN Deliver([e |-> pub[w].e, b |-> pub[w].b])
     ELSE UNCHANGED <<live, lost>>
  /\ pub' = [pub EXCEPT ![w] = Idle]
  /\ UNCHANGED <<bus, kind, stored, hist, wire, sub, got, republished, overlapped>>

\* Centrifugo assigns the offset and sends to its subscribers in offset order
PublishToServer(w) ==
  /\ bus = "centrifugo"
  /\ pub[w].pc = "publish"
  /\ hist' = Append(hist, pub[w].e)
  /\ wire' = IF sub.acked THEN Append(wire, [e |-> pub[w].e, b |-> Len(hist) + 1]) ELSE wire
  /\ pub' = [pub EXCEPT ![w] = Idle]
  /\ UNCHANGED <<bus, kind, stored, sub, live, got, lost, republished, overlapped>>

\* the client's read loop; a publication that comes before OnPublication is set
\* has no callback
OnPublication ==
  /\ wire # <<>>
  /\ wire' = Tail(wire)
  /\ IF sub.registered THEN Deliver(Head(wire)) ELSE UNCHANGED <<live, lost>>
  /\ UNCHANGED <<bus, kind, stored, pub, hist, sub, got, republished, overlapped>>

-----------------------------------------------------------------------------
(* Subscribing to the bus.                                                 *)

\* the sequence after which a replay can start: the cursor, or the oldest event
\* the channel still retains
replayStart(after) == IF Len(hist) - History > after THEN Len(hist) - History ELSE after

\* retained events after the cursor; LiveOnly replays nothing
replayAfter(after) ==
  IF kind = "plan" THEN <<>>
  ELSE LET n == replayStart(after)
       IN [i \in 1..(Len(hist) - n) |-> [e |-> hist[n + i], b |-> n + i]]

\* memstream captures the replay and registers in one critical section
Subscribe ==
  /\ bus = "memstream"
  /\ sub.pc = "subscribe"
  /\ sub' = [sub EXCEPT !.registered = TRUE, !.replay = @ \o replayAfter(sub.after), !.from = replayStart(sub.after),
                        !.pc = IF kind = "plan" THEN "catchup" ELSE "pump"]
  /\ UNCHANGED <<bus, kind, stored, pub, hist, wire, live, got, lost, republished, overlapped>>

\* Centrifugo: the server acknowledges, then the callback is set, then the
\* history is read
establish ==
  /\ bus = "centrifugo"
  /\ sub.pc = "subscribe"
  /\ sub' = [sub EXCEPT !.acked = TRUE, !.pc = "register"]
  /\ UNCHANGED <<bus, kind, stored, pub, hist, wire, live, got, lost, republished, overlapped>>

SetOnPublication ==
  /\ sub.pc = "register"
  /\ sub' = [sub EXCEPT !.registered = TRUE, !.pc = "history"]
  /\ UNCHANGED <<bus, kind, stored, pub, hist, wire, live, got, lost, republished, overlapped>>

replay ==
  /\ sub.pc = "history"
  /\ sub' = [sub EXCEPT !.replay = @ \o replayAfter(sub.after), !.from = replayStart(sub.after),
                        !.pc = IF kind = "plan" THEN "catchup" ELSE "pump"]
  /\ UNCHANGED <<bus, kind, stored, pub, hist, wire, live, got, lost, republished, overlapped>>

-----------------------------------------------------------------------------
(* SubscribePlan.                                                          *)

JournalAfter(n) == [i \in 1..(stored - n) |-> [e |-> n + i, b |-> 0]]

\* the first ListPlanEvents; its last sequence is the live scope's cursor
SubscribePlan ==
  /\ sub.pc = "list"
  /\ sub' = [sub EXCEPT !.pc = "subscribe", !.replay = JournalAfter(sub.after), !.seen = stored]
  /\ UNCHANGED <<bus, kind, stored, pub, hist, wire, live, got, lost, republished, overlapped>>

catchUpEventsMutant ==
  /\ sub.pc = "catchup"
  /\ sub' = [sub EXCEPT !.pc = "pump", !.liveAfter = sub.seen]
  /\ UNCHANGED <<bus, kind, stored, pub, hist, wire, live, got, lost, republished, overlapped>>

\* the second, over the live tail that is already open
catchUpEvents ==
  /\ sub.pc = "catchup"
  /\ sub' = [sub EXCEPT !.pc = "pump", !.replay = @ \o JournalAfter(sub.seen), !.liveAfter = stored]
  /\ UNCHANGED <<bus, kind, stored, pub, hist, wire, live, got, lost, republished, overlapped>>

\* replayPlanEvents, or the replay loop of a bus pump
pumpReplay ==
  /\ sub.pc = "pump"
  /\ sub.replay # <<>>
  /\ got' = Append(got, Head(sub.replay))
  /\ sub' = [sub EXCEPT !.replay = Tail(@), !.last = Head(sub.replay).b]
  /\ UNCHANGED <<bus, kind, stored, pub, hist, wire, live, lost, republished, overlapped>>

\* planEventMatchesScope of the live tail and the filter of forwardLivePlanEvents
forwardLivePlanEvents(item) == item.e > sub.seen /\ item.e > sub.liveAfter

\* the pump of the Centrifugo subscriber skips offsets it already delivered
pump(item) == bus = "memstream" \/ item.b > sub.last

pumpLive ==
  /\ sub.pc = "pump"
  /\ sub.replay = <<>>
  /\ live # <<>>
  /\ live' = Tail(live)
  /\ IF pump(Head(live)) /\ (kind = "run" \/ forwardLivePlanEvents(Head(live)))
     THEN /\ got' = Append(got, Head(live))
          /\ sub' = [sub EXCEPT !.last = Head(live).b]
     ELSE UNCHANGED <<got, sub>>
  /\ UNCHANGED <<bus, kind, stored, pub, hist, wire, lost, republished, overlapped>>

-----------------------------------------------------------------------------
Init ==
  /\ bus \in Buses /\ kind \in Kinds
  /\ stored = 0
  /\ pub = [w \in Writers |-> Idle]
  /\ hist = <<>> /\ wire = <<>> /\ live = <<>> /\ got = <<>>
  /\ \E a \in After :
       sub = [pc |-> "idle", acked |-> FALSE, registered |-> FALSE, after |-> a, seen |-> 0, from |-> 0,
              liveAfter |-> 0, replay |-> <<>>, last |-> 0]
  /\ lost = {} /\ republished = 0 /\ overlapped = FALSE

\* the consumer comes with a cursor it was given for an event that exists
Open ==
  /\ sub.pc = "idle"
  /\ sub.after <= (IF kind = "plan" THEN stored ELSE Len(hist))
  /\ sub' = [sub EXCEPT !.pc = IF kind = "plan" THEN "list" ELSE "subscribe"]
  /\ UNCHANGED <<bus, kind, stored, pub, hist, wire, live, got, lost, republished, overlapped>>

Next ==
  \/ \E w \in Writers : \/ AppendThenPublish(w) \/ PublishAgain(w) \/ PublishFails(w)
                        \/ Publish(w) \/ FanOut(w) \/ PublishToServer(w)
  \/ OnPublication
  \/ Open \/ Subscribe \/ establish \/ SetOnPublication \/ replay
  \/ SubscribePlan \/ catchUpEvents \/ pumpReplay \/ pumpLive

Spec == Init /\ [][Next]_vars

-----------------------------------------------------------------------------
(* Properties.                                                             *)

Settled ==
  /\ sub.pc = "pump" /\ sub.replay = <<>>
  /\ live = <<>> /\ wire = <<>>
  /\ \A w \in Writers : pub[w].pc = "idle"

Received == {got[i].e : i \in DOMAIN got}

\* The join of replay and live tail misses nothing: once the subscription is open
\* and every channel is drained, each event after the consumer's cursor that
\* the journal or the channel still held was received, whichever of the reads, the registration and the publishes came
\* first; the exceptions are publishes that failed and sends a full buffer dropped.
NoSilentGap ==
  Settled =>
    IF kind = "plan" THEN ((sub.after + 1)..stored) \subseteq Received \cup lost
    ELSE \A b \in (sub.from + 1)..Len(hist) : (\E i \in DOMAIN got : got[i].b = b) \/ hist[b] \in lost

\* What SubscribePlan read from the journal is delivered first, in order, and
\* never again: a live copy of an event that a replay covered is skipped, also
\* when a retried activity publishes it late.
ReplayedOnce ==
  kind = "plan" =>
    \A i \in DOMAIN got :
      IF sub.after + i <= sub.liveAfter THEN got[i].e = sub.after + i ELSE got[i].e > sub.liveAfter

\* A bus subscription delivers strictly increasing sequences (membus.go: "order is
\* preserved even while publishes race the subscription setup").  Memstream sends outside
\* its mutex, so there it holds as long as no two publishes fan out at once.
BusOrder ==
  kind = "run" /\ (bus = "memstream" => ~overlapped) =>
    \A i, j \in DOMAIN got : i < j => got[i].b < got[j].b

=============================================================================
