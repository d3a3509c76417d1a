------------------------------ MODULE Backbone ------------------------------
(***************************************************************************)
(* The event backbone: the run timeline's transactional outbox and log,    *)
(* the ingress that routes other towns' facts into Temporal, and the group *)
(* of jobs that runs and stops the loops of both.                          *)
(*                                                                         *)
(* The ingress reads facts of other towns, and the group knows its jobs by *)
(* their names only: the parts share no state, so a behaviour is one of    *)
(* any part; the others have nothing to do.                                *)
(***************************************************************************)
EXTENDS Naturals, Sequences

CONSTANTS Recorders, Drainers, Milestones, DrainBatch, MaxAttempts, MaxDeliver, MaxSeq,
          MaxFaults,
          Procs, Plans, Domains, Shards, BatchSize, MaxIngressDeliver, MaxIngressFaults,
          Assemblies, Stoppers

VARIABLES part,
          cursors, writer, timeline, outbox, drainer, log, dlq, charged, reader, acked,
          delivered, rebuilt, faults,
          plan, proc, consumer, taken, dead, ifaults,
          assembly, job, err, finalizers, stopped, cancelled, stop, caller, expired,
          released

factVars == <<cursors, writer, timeline, outbox, drainer, log, dlq, charged, reader, acked,
              delivered, rebuilt, faults>>
ingressVars == <<plan, proc, consumer, taken, dead, ifaults>>
jobVars == <<assembly, job, err, finalizers, stopped, cancelled, stop, caller, expired,
             released>>
vars == <<part, factVars, ingressVars, jobVars>>

F == INSTANCE FactLog WITH Procs <- Recorders, BatchSize <- DrainBatch
I == INSTANCE Ingress WITH MaxDeliver <- MaxIngressDeliver
J == INSTANCE JobGroup

ASSUME BackboneAssumptions ==
  F!FactLogAssumption /\ I!IngressAssumption /\ J!JobAssumption

Off == "off"

FactOff == F!Init
IngressOff ==
  /\ plan = Off /\ proc = Off /\ consumer = Off /\ taken = Off /\ dead = Off
  /\ ifaults = Off
JobOff ==
  /\ assembly = Off /\ job = Off /\ err = Off /\ finalizers = Off /\ stopped = Off
  /\ cancelled = Off /\ stop = Off /\ caller = [s \in Stoppers |-> [pc |-> "idle"]]
  /\ expired = Off /\ released = Off

Init ==
  \/ part = "facts" /\ F!Init /\ IngressOff /\ JobOff
  \/ part = "ingress" /\ I!Init /\ FactOff /\ JobOff
  \/ part = "jobs" /\ J!Init /\ FactOff /\ IngressOff

Next ==
  \/ part = "facts" /\ F!Next /\ UNCHANGED <<part, ingressVars, jobVars>>
  \/ part = "ingress" /\ I!Next /\ UNCHANGED <<part, factVars, jobVars>>
  \/ part = "jobs" /\ J!Next /\ UNCHANGED <<part, factVars, ingressVars>>

\* Run() of the projector and of Stop goes on, and the stop budget passes.  Nothing is
\* assumed of the recorders, of the drainers or of a job, which need not ever return.
Spec ==
  /\ Init /\ [][Next]_vars
  /\ WF_vars(part = "facts" /\ F!ProjectBatch
               /\ UNCHANGED <<part, ingressVars, jobVars>>)
  /\ WF_vars(part = "facts" /\ F!Ack
               /\ UNCHANGED <<part, ingressVars, jobVars>>)
  /\ WF_vars(part = "jobs" /\ J!BudgetEnds
               /\ UNCHANGED <<part, factVars, ingressVars>>)
  /\ WF_vars(part = "jobs" /\ J!StopSteps
               /\ UNCHANGED <<part, factVars, ingressVars>>)
-----------------------------------------------------------------------------
(* What each part promises; see the modules of the parts.                  *)

\* A milestone in the table is queued, or the log or the dead-letter stream
\* has it, as the table has it; and a failure with the connection down costs no
\* record its attempts (storeRunEvent, DrainOnce, chargedAttempts).
FactsAreKept ==
  part = "facts" => /\ F!NothingStranded
                    /\ F!LogMatchesTimeline
                    /\ F!OutageSpendsNothing

\* After the table is dropped, the projector restores every fact the log has, but
\* for one whose every copy spent its deliveries (ProjectBatch, MaxDeliver).
Reconstructed == F!Reconstructed

\* A routed fact is acknowledged only once Temporal took it or it is parked
\* (RouteBatch, parkIfExhausted).
AcknowledgedIsTaken == part = "ingress" => I!AcknowledgedIsTaken

\* Every call of Stop returns, even when a loop never does, and the
\* finalizers run once, the last registered first, after the loops or the
\* budget ended (stopJobGroup, runFinalizers).
StopIsOrderly == J!StopEnds /\ [](part = "jobs" => J!ReleasedInOrder)
=============================================================================
