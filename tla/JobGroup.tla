------------------------------- MODULE JobGroup -------------------------------
(***************************************************************************)
(* The loops of one process as a stoppable unit (pkg/jobgroup) and its two *)
(* owners: the event backbone, whose group holds the drain loops, the      *)
(* projection and then the releases of its reader and publisher, and the   *)
(* ingress bridge, which registers a reader's release before it starts the *)
(* loop that uses it.  Stop may be called twice, and follows a start-up    *)
(* that failed; the stop budget may end while a loop is stuck.             *)
(***************************************************************************)
EXTENDS Naturals, Sequences

CONSTANTS
  Assemblies,   \* set of [todo, failed, ingress]: what a start-up registers
  Stoppers      \* callers of Stop

JobAssumption ==
  \A a \in Assemblies :
    a \in [todo : Seq([op : {"go", "defer"}, name : STRING]), failed : BOOLEAN, ingress : BOOLEAN]

VARIABLES
  assembly,     \* the start-up that is played, and how far it got
  job,          \* per started job: "running", "returned" (err written) or "done"
  err,          \* per started job: "nil", "canceled" or "failed"
  finalizers,   \* registered releases, in order
  stopped, cancelled,
  stop,         \* the one run of stopOnce: where it is, the jobs it waits for
  caller,       \* per caller of Stop
  expired,      \* the stop budget is spent
  released      \* releases run so far, in order

vars == <<assembly, job, err, finalizers, stopped, cancelled, stop, caller, expired, released>>

Fresh == [pc |-> "idle", jobs |-> {}, stuck |-> {}, errs |-> {}]

\* Go starts the job, Defer registers the release.  Both panic after Stop, and Go
\* on a name taken.
Register ==
  /\ assembly.todo # <<>> /\ ~assembly.failed /\ ~stopped
  /\ LET entry == Head(assembly.todo) IN
     IF entry.op = "go"
     THEN /\ entry.name \notin DOMAIN job
          /\ job' = [n \in DOMAIN job \union {entry.name} |->
                       IF n = entry.name THEN "running" ELSE job[n]]
          /\ err' = [n \in DOMAIN job' |-> IF n = entry.name THEN "nil" ELSE err[n]]
          /\ UNCHANGED finalizers
     ELSE finalizers' = Append(finalizers, entry.name) /\ UNCHANGED <<job, err>>
  /\ assembly' = [assembly EXCEPT !.todo = Tail(@)]
  /\ UNCHANGED <<stopped, cancelled, stop, caller, expired, released>>

\* The ingress cannot open a consumer: its start-up stops the group.
RegisterFails ==
  /\ assembly.todo # <<>> /\ ~assembly.failed /\ assembly.ingress
  /\ assembly' = [assembly EXCEPT !.failed = TRUE]
  /\ UNCHANGED <<job, err, finalizers, stopped, cancelled, stop, caller, expired, released>>

\* execute: the function returns, by itself or because its context ended, and
\* run writes j.err ...
execute(n) ==
  /\ job[n] = "running"
  /\ \E e \in (IF cancelled THEN {"nil", "canceled", "failed"} ELSE {"nil", "failed"}) :
       err' = [err EXCEPT ![n] = e]
  /\ job' = [job EXCEPT ![n] = "returned"]
  /\ UNCHANGED <<assembly, finalizers, stopped, cancelled, stop, caller, expired, released>>

\* ... and closes done.
run(n) ==
  /\ job[n] = "returned"
  /\ job' = [job EXCEPT ![n] = "done"]
  /\ UNCHANGED <<assembly, err, finalizers, stopped, cancelled, stop, caller, expired, released>>

\* Stop: the first caller runs stopOnce, the others wait for it.  It is called once
\* the start-up is over or has failed.
Stop(s) ==
  /\ caller[s].pc = "idle"
  /\ assembly.todo = <<>> \/ assembly.failed
  /\ caller' = [caller EXCEPT ![s].pc = "in"]
  /\ IF stop.pc = "idle"
     THEN /\ stopped' = TRUE /\ cancelled' = TRUE
          /\ stop' = [stop EXCEPT !.pc = "wait", !.jobs = DOMAIN job]
     ELSE UNCHANGED <<stopped, cancelled, stop>>
  /\ UNCHANGED <<assembly, job, err, finalizers, expired, released>>

BudgetEnds ==
  /\ stop.pc = "wait" /\ ~expired
  /\ expired' = TRUE
  /\ UNCHANGED <<assembly, job, err, finalizers, stopped, cancelled, stop, caller, released>>

\* Mutant: the budget does not end the wait
stopJobsMutant ==
  /\ stop.pc = "wait" /\ \E n \in stop.jobs :
       job[n] = "done" /\ stop' = [stop EXCEPT !.jobs = @ \ {n}]
  /\ UNCHANGED <<assembly, job, err, finalizers, stopped, cancelled, caller, expired, released>>

\* stopJobs: each job is done, or is stuck when the budget is spent; a select
\* with both ready takes either.  Done jobs stay done, so their order is immaterial.
stopJobs ==
  /\ stop.pc = "wait"
  /\ \E n \in stop.jobs :
       \/ job[n] = "done" /\ stop' = [stop EXCEPT !.jobs = @ \ {n}]
       \/ expired /\ stop' = [stop EXCEPT !.jobs = @ \ {n}, !.stuck = @ \union {n}]
  /\ UNCHANGED <<assembly, job, err, finalizers, stopped, cancelled, caller, expired, released>>

\* joinJobErrors reads the error of every job, of one that is stuck too.
joinJobErrors ==
  /\ stop.pc = "wait" /\ stop.jobs = {}
  /\ stop' = [stop EXCEPT !.pc = "release", !.errs = {n \in DOMAIN job : err[n] = "failed"}]
  /\ UNCHANGED <<assembly, job, err, finalizers, stopped, cancelled, caller, expired, released>>

\* runFinalizers: the last registered first.
runFinalizers ==
  /\ stop.pc = "release"
  /\ IF Len(released) < Len(finalizers)
     THEN released' = Append(released, finalizers[Len(finalizers) - Len(released)]) /\ UNCHANGED stop
     ELSE stop' = [stop EXCEPT !.pc = "over"] /\ UNCHANGED released
  /\ UNCHANGED <<assembly, job, err, finalizers, stopped, cancelled, caller, expired>>

\* Every call returns the first call's result.
StopReturns(s) ==
  /\ caller[s].pc = "in" /\ stop.pc = "over"
  /\ caller' = [caller EXCEPT ![s] = [pc |-> "out", stuck |-> stop.stuck, errs |-> stop.errs]]
  /\ UNCHANGED <<assembly, job, err, finalizers, stopped, cancelled, stop, expired, released>>

Init ==
  /\ assembly \in Assemblies
  /\ job = <<>> /\ err = <<>> /\ finalizers = <<>>
  /\ stopped = FALSE /\ cancelled = FALSE /\ stop = Fresh
  /\ caller = [s \in Stoppers |-> [pc |-> "idle", stuck |-> {}, errs |-> {}]]
  /\ expired = FALSE /\ released = <<>>

Loop(n) == execute(n) \/ run(n)
StopSteps == stopJobs \/ joinJobErrors \/ runFinalizers \/ \E s \in Stoppers : StopReturns(s)

Next ==
  \/ Register \/ RegisterFails \/ BudgetEnds \/ StopSteps
  \/ \E n \in DOMAIN job : Loop(n)
  \/ \E s \in Stoppers : Stop(s)

\* The budget passes and Stop's own goroutine runs; a loop need not ever return.
Spec == Init /\ [][Next]_vars /\ WF_vars(BudgetEnds) /\ WF_vars(StopSteps)

------------------------------------------------------------------------------
\* A reader or a publisher is released after every loop of its group has ended or
\* the stop budget is spent, the last registered first and none twice (stopJobs,
\* runFinalizers), whoever calls Stop and however far the start-up got.
ReleasedInOrder ==
  /\ \A i \in DOMAIN released : released[i] = finalizers[Len(finalizers) + 1 - i]
  /\ released # <<>> => expired \/ \A n \in DOMAIN job : job[n] = "done"

\* Every call of Stop returns, even when a loop never does (the context budget of
\* stopJobGroup).
StopEnds == \A s \in Stoppers : caller[s].pc = "in" ~> caller[s].pc = "out"

===============================================================================
