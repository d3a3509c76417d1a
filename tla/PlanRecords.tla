---------------------------- MODULE PlanRecords ----------------------------
(***************************************************************************)
(* What the plan store keeps of an operator's request: the audit chain and *)
(* the command outbox.  They share a database and no row, so a behaviour   *)
(* is one of either part; the other has nothing to do.                     *)
(***************************************************************************)
EXTENDS Naturals, Sequences

CONSTANTS Writers, AuditID, Value, Exponent, Legacy, Precision, MaxClock, MaxRollbacks,
          MaxEdits,
          Plans, Ended, Commands, Refused, PlanOf, Starts, Bare, Callers, Calls,
          Reconcilers, Limit, MaxFaults

VARIABLES part,
          rows, lock, pc, created, prevHash, clock, rollbacks, edited,
          plan, workflow, status, updated, audit, received, at, cur, batch, next, faults

auditVars == <<rows, lock, pc, created, prevHash, clock, rollbacks, edited>>
commandVars == <<plan, workflow, status, updated, audit, received, at, cur, batch, next, faults>>
vars == <<part, auditVars, commandVars>>

A == INSTANCE AuditChain
C == INSTANCE PlanCommands WITH pc <- at

ASSUME RecordAssumptions == A!AuditAssumption /\ C!CommandAssumption

Off == "off"

Init ==
  \/ /\ part = "audit" /\ A!Init
     /\ workflow = [p \in Plans |-> "none"] /\ status = [c \in Commands |-> "none"]
     /\ plan = Off /\ updated = Off /\ audit = Off
     /\ received = Off /\ at = Off /\ cur = Off /\ batch = Off /\ next = Off /\ faults = Off
  \/ /\ part = "commands" /\ C!Init
     /\ rows = Off /\ lock = Off /\ pc = Off /\ created = Off
     /\ prevHash = Off /\ clock = Off /\ rollbacks = Off /\ edited = Off

AuditStep == part = "audit" /\ A!Next /\ UNCHANGED <<part, commandVars>>
CommandStep == part = "commands" /\ C!Next /\ UNCHANGED <<part, auditVars>>

Next == AuditStep \/ CommandStep

\* Every reconciler keeps making its passes; see PlanCommands.
Spec ==
  /\ Init /\ [][Next]_vars
  /\ \A r \in Reconcilers :
        WF_vars(part = "commands" /\ C!ReconcilerStep(r) /\ UNCHANGED <<part, auditVars>>)
-----------------------------------------------------------------------------
(* What either part promises; see AuditChain and PlanCommands.             *)

\* The verifier is right: rows appended in the order of their stamps and never
\* edited verify, but for one with a number that jsonb wrote out, and an edit of a
\* chained row is visible (VerifyAuditChain).
VerifierIsRight == part = "audit" => A!OrderedAppendsVerify /\ A!EditVisible

\* Who is answered can rely on it: a recorded or replayed audit record is stored
\* once, a command marked delivered was received and audited, and so was one
\* whose caller got no error (RecordAudit, ControlPlan, SignalPlan, StartPlan).
AnswersHold ==
  /\ part = "audit" => A!AnsweredIsStored
  /\ part = "commands" => C!DeliveredIsAudited /\ C!AnswerIsTrue

\* Recovery passes commands that can never be delivered and delivers the rest,
\* as long as signals without a payload do not fill its passes
\* (planCommandReconciler.Recover).
RecoveryDelivers == C!RecoveryDelivers

\* The verifier reports no break that no one caused.
NoUncausedBreak == part = "audit" => A!NoUncausedBreak
=============================================================================
