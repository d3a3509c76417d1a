------------------------------- MODULE Ingress -------------------------------
(***************************************************************************)
(* The cross-town ingress: the configuration a process reads at start-up   *)
(* (app/agentos_ingress.go), one durable JetStream consumer per routed     *)
(* domain and set of owned shards (eventlog/nats), and the routing loop    *)
(* that turns facts into signal-with-start calls (temporalrouter).         *)
(* Processes are stopped, killed and started again with another            *)
(* configuration; the log, the consumers and Temporal outlive them.        *)
(***************************************************************************)
EXTENDS Naturals, Sequences, FiniteSets

CONSTANTS
  Procs,        \* processes of the deployment
  Plans,        \* set of [log, configs]: the published facts and, per process,
                \* the configurations of its successive starts
  Domains,      \* the domains the fact log declares
  Shards,       \* AGENTFW_NATS_SHARDS
  BatchSize,    \* _defaultBatchSize
  MaxDeliver,   \* _defaultMaxDeliver
  MaxIngressFaults  \* bound on failed calls, deaths and lapsed waits of a held record

IngressAssumption ==
  \A p \in Plans :
    /\ DOMAIN p.log \subseteq Nat
    /\ \A q \in Procs : Len(p.configs[q]) \in Nat /\ DOMAIN p.configs[q] = 1 .. Len(p.configs[q])

VARIABLES
  plan,         \* the member of Plans that is played
  proc,         \* per process: how often it started and its routing loops
  consumer,     \* the durable consumers, by name
  taken,        \* per workflow id, the tokens Temporal accepted
  dead,         \* positions in the dead-letter stream
  ifaults

vars == <<plan, proc, consumer, taken, dead, ifaults>>

Log == plan.log
Invalid == {Shards}           \* what a configuration that is refused parses to
Fault == ifaults < MaxIngressFaults /\ ifaults' = ifaults + 1

------------------------------------------------------------------------------
(* The configuration *)

\* "a-b" or "a"; a member that is no number is written Shards + 1.
parseShardRange(entry) ==
  IF entry[1] > Shards \/ entry[2] > Shards \/ entry[2] < entry[1] \/ entry[2] >= Shards
  THEN Invalid ELSE entry[1] .. entry[2]

\* The shards a process owns; an empty specification owns them all.
parseIngressShards(spec) ==
  IF spec = <<>> THEN 0 .. Shards - 1
  ELSE IF \E i \in DOMAIN spec : parseShardRange(spec[i]) = Invalid THEN Invalid
  ELSE UNION {parseShardRange(spec[i]) : i \in DOMAIN spec}

validateIngressRoutes(routes) ==
  \A i \in DOMAIN routes :
    routes[i].type # "" /\ routes[i].workflow # "" /\ routes[i].domain \in Domains

ingressConfigFromApp(cfg) ==
  /\ cfg.queue
  /\ parseIngressShards(cfg.spec) # Invalid
  /\ validateIngressRoutes(cfg.routes)
  /\ cfg.prefix # ""

\* The owned shards are part of the name: only processes that own the same
\* ones share a consumer.
ingressConsumerName(prefix, domain, shards) ==
  <<prefix, domain, IF Cardinality(shards) = Shards THEN {} ELSE shards>>

groupRoutesByDomain(routes) == {routes[i].domain : i \in DOMAIN routes}

------------------------------------------------------------------------------
(* The consumers *)

\* What the consumer's subjects match.
subjectsFor(domain, shards) ==
  {i \in DOMAIN Log : Log[i].domain = domain /\ Log[i].shard \in shards}

NoConsumer == [count |-> <<>>, acked |-> {}, out |-> {}, of |-> {}]

\* CreateOrUpdateConsumer: a new consumer starts at the oldest record, an
\* existing one keeps its progress.
ensureConsumer(old, domain, shards) ==
  IF old = NoConsumer
  THEN [count |-> [i \in DOMAIN Log |-> 0], acked |-> {}, out |-> {}, of |-> subjectsFor(domain, shards)]
  ELSE [old EXCEPT !.of = subjectsFor(domain, shards)]

Names == {ingressConsumerName(c.prefix, d, parseIngressShards(c.spec)) :
            c \in UNION {UNION {{p.configs[q][n] : n \in DOMAIN p.configs[q]} : q \in Procs} : p \in Plans},
            d \in Domains}

\* JetStream redelivers what is not acknowledged and not outstanding until
\* MaxDeliver deliveries are spent.
Deliverable(c) ==
  {i \in consumer[c].of \ (consumer[c].acked \union consumer[c].out) : consumer[c].count[i] < MaxDeliver}

Fetch(c) == {i \in Deliverable(c) : Cardinality({j \in Deliverable(c) : j < i}) < BatchSize}

IdleLoop(c) == [pc |-> "poll", name |-> c, todo |-> {}, batch |-> {}, failed |-> FALSE]

\* Some loop still works on the record.
Held(c, i) ==
  \E p \in Procs : \E d \in DOMAIN proc[p].loops :
    proc[p].loops[d].name = c /\ i \in proc[p].loops[d].batch

\* AckWait passes over an outstanding record, left by a batch that failed or by
\* a process that is gone, or, as a fault, held by a loop that is only slow.
AckWaitLapses(c, i) ==
  /\ i \in consumer[c].out
  /\ IF Held(c, i) THEN Fault ELSE UNCHANGED ifaults
  /\ consumer' = [consumer EXCEPT ![c].out = @ \ {i}]
  /\ UNCHANGED <<plan, proc, taken, dead>>

------------------------------------------------------------------------------
(* Start and stop of the bridge *)

\* The configuration of the next start, and the name its consumer of a domain gets.
NextConfig(p) == plan.configs[p][proc[p].starts + 1]
consumerOf(cfg, d) == ingressConsumerName(cfg.prefix, d, parseIngressShards(cfg.spec))

\* openDomains: the consumers once those of the domains S are open.
openDomains(cfg, S) ==
  [c \in DOMAIN consumer |->
     IF \E d \in S : c = consumerOf(cfg, d)
     THEN ensureConsumer(consumer[c], c[2], parseIngressShards(cfg.spec)) ELSE consumer[c]]

\* startAgentOSIngress: a configuration that is refused, or a consumer that
\* cannot be opened, is fatal.  The consumers opened before stay on the server, and
\* the loops started on them run until the start-up has stopped its group.
startAgentOSIngress(p) ==
  LET cfg == NextConfig(p)
      routed == groupRoutesByDomain(cfg.routes)
      opened(S) ==
        /\ consumer' = openDomains(cfg, S)
        /\ proc' = [proc EXCEPT ![p] =
              [up |-> TRUE, starts |-> @.starts + 1,
               loops |-> [d \in S |-> IdleLoop(consumerOf(cfg, d))]]]
  IN
  /\ ~proc[p].up /\ proc[p].starts < Len(plan.configs[p])
  /\ IF cfg.routes = <<>> \/ ~ingressConfigFromApp(cfg)
     THEN /\ proc' = [proc EXCEPT ![p].starts = @ + 1]
          /\ UNCHANGED <<consumer, ifaults>>
     ELSE \/ opened(routed) /\ UNCHANGED ifaults
          \/ /\ Fault
             /\ \E S \in SUBSET routed : S # routed /\ opened(S)
  /\ UNCHANGED <<plan, taken, dead>>

Config(p) == plan.configs[p][proc[p].starts]

\* Stop cancels the loops wherever they are, or the process is killed: a record
\* that was fetched stays outstanding.
Stop(p) ==
  /\ proc[p].up /\ proc[p].starts < Len(plan.configs[p])
  /\ proc' = [proc EXCEPT ![p].up = FALSE, ![p].loops = <<>>]
  /\ UNCHANGED <<plan, consumer, taken, dead, ifaults>>

------------------------------------------------------------------------------
(* The routing loop *)

parkIfExhausted(c, i) == consumer[c].count[i] + 1 >= MaxDeliver /\ Log[i].key

\* The records got were delivered once more; those of S are parked.
Park(c, got, S) ==
  /\ dead' = dead \union S
  /\ consumer' = [consumer EXCEPT ![c].count = [i \in DOMAIN @ |-> IF i \in got THEN @[i] + 1 ELSE @[i]],
                                  ![c].acked = @ \union S, ![c].out = (@ \union got) \ S]

\* Poll: the fetched records are outstanding, the ones on their last delivery
\* are parked and acknowledged.  A park that cannot be published ends the poll
\* with an error, and the whole batch is left behind.
Poll(p, d) ==
  LET c == proc[p].loops[d].name
      got == Fetch(c)
      exhausted == {i \in got : parkIfExhausted(c, i)}
  IN
  /\ proc[p].loops[d].pc = "poll" /\ got # {}
  /\ \/ /\ Park(c, got, exhausted)
        /\ proc' = [proc EXCEPT ![p].loops[d] =
             [@ EXCEPT !.pc = IF got = exhausted THEN "poll" ELSE "route",
                       !.todo = got \ exhausted, !.batch = got \ exhausted, !.failed = FALSE]]
        /\ UNCHANGED ifaults
     \/ /\ Fault
        /\ \E i \in exhausted : Park(c, got, {j \in exhausted : j < i})
        /\ UNCHANGED proc
  /\ UNCHANGED <<plan, taken>>

\* DecodeEnvelope: no schema or one of a later build, no identity, no type, no
\* entity.
decodeFact(f) == f.schema = "known" /\ f.id # "" /\ f.type # "" /\ f.entity # ""

matches(route, f) == route.domain \in {"", f.domain} /\ route.type = f.type

match(p, f) == \E i \in DOMAIN Config(p).routes : matches(Config(p).routes[i], f)

\* SignalWithStart: the entity's workflow is started, or the running one
\* attached to, and signaled.  The workflow discards a token it has seen.
SignalWithStart(f) ==
  taken' = [taken EXCEPT ![f.entity] = @ \union {f.id}]

\* The batch is routed in the order of the log.
Current(p, d) ==
  LET todo == proc[p].loops[d].todo IN CHOOSE i \in todo : \A j \in todo : i <= j

Routed(p, d, failed) ==
  proc' = [proc EXCEPT ![p].loops[d].todo = @ \ {Current(p, d)}, ![p].loops[d].failed = failed]

\* One record of the batch: skipped, taken, or failed (whether or not Temporal
\* took it before the answer was lost).
RouteRecord(p, d) ==
  LET l == proc[p].loops[d]
      f == Log[Current(p, d)]
  IN
  /\ l.pc = "route" /\ l.todo # {}
  /\ IF ~decodeFact(f) \/ ~match(p, f)
     THEN Routed(p, d, l.failed) /\ UNCHANGED <<taken, ifaults>>
     ELSE \/ SignalWithStart(f) /\ Routed(p, d, l.failed) /\ UNCHANGED ifaults
          \/ Fault /\ (SignalWithStart(f) \/ UNCHANGED taken) /\ Routed(p, d, TRUE)
  /\ UNCHANGED <<plan, consumer, dead>>

\* Ack, message by message: S is what it got to.
Ack(c, S) == consumer' = [consumer EXCEPT ![c].acked = @ \union S, ![c].out = @ \ S]

\* Mutant: the batch is acknowledged once it was gone through
RouteBatchMutant(p, d) ==
  LET l == proc[p].loops[d] IN
  /\ l.pc = "route" /\ l.todo = {}
  /\ Ack(l.name, l.batch)
  /\ proc' = [proc EXCEPT ![p].loops[d] = IdleLoop(l.name)]
  /\ UNCHANGED <<plan, taken, dead, ifaults>>

\* The end of RouteBatch: acknowledged when nothing failed;
\* otherwise the whole batch is left to come back, and Run waits and polls.
RouteBatch(p, d) ==
  LET l == proc[p].loops[d] IN
  /\ l.pc = "route" /\ l.todo = {}
  /\ IF l.failed THEN UNCHANGED <<consumer, ifaults>>
     ELSE \/ Ack(l.name, l.batch) /\ UNCHANGED ifaults
          \/ Fault /\ \E i \in l.batch : Ack(l.name, {j \in l.batch : j < i})
  /\ proc' = [proc EXCEPT ![p].loops[d] = IdleLoop(l.name)]
  /\ UNCHANGED <<plan, taken, dead>>

------------------------------------------------------------------------------
Init ==
  /\ plan \in Plans
  /\ proc = [p \in Procs |-> [up |-> FALSE, starts |-> 0, loops |-> <<>>]]
  /\ consumer = [c \in Names |-> NoConsumer]
  /\ taken = [e \in {plan.log[i].entity : i \in DOMAIN plan.log} |-> {}]
  /\ dead = {} /\ ifaults = 0

Next ==
  \/ \E p \in Procs :
       \/ startAgentOSIngress(p) \/ Stop(p)
       \/ \E d \in DOMAIN proc[p].loops : Poll(p, d) \/ RouteRecord(p, d) \/ RouteBatch(p, d)
  \/ \E c \in DOMAIN consumer : \E i \in consumer[c].out : AckWaitLapses(c, i)

Spec == Init /\ [][Next]_vars

------------------------------------------------------------------------------
Claimed(p, n, f) == decodeFact(f) /\ \E i \in DOMAIN plan.configs[p][n].routes : matches(plan.configs[p][n].routes[i], f)

\* A fact that every start of every process has a route for: whichever of them
\* reads it delivers it.
AlwaysRouted(i) == \A p \in Procs : \A n \in DOMAIN plan.configs[p] : Claimed(p, n, Log[i])

\* A fact the deployment routes is acknowledged only once Temporal took it or the
\* dead-letter stream has it (RouteBatch acknowledges a batch only when nothing in
\* it failed, parkIfExhausted publishes before it acknowledges), through failed
\* deliveries of its batch, processes killed and started with other shards, and
\* records delivered to two processes at once.
AcknowledgedIsTaken ==
  \A c \in DOMAIN consumer : \A i \in consumer[c].acked :
    AlwaysRouted(i) => i \in dead \/ Log[i].id \in taken[Log[i].entity]

==============================================================================
