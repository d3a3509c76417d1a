------------------------------ MODULE Triggers ------------------------------
(***************************************************************************)
(* Recurring triggers: the declarations an application persists, the       *)
(* Temporal schedules ApplyTrigger makes of them (at start-up, by          *)
(* ReconcileTriggerDeclarations, and when a declaration changes), the      *)
(* operator's pause and resume, and the dispatch workflow that hands each  *)
(* due delivery to the application.  Temporal's schedules and the          *)
(* application's store and dispatcher are outside the repository: they do  *)
(* here what the code relies on.                                           *)
(***************************************************************************)
EXTENDS Integers, Sequences, FiniteSets

CONSTANTS Triggers,       \* trigger references (one tenant each)
          Declarations,   \* declarations: [trigger, spec, paused]
          Appliers,       \* processes that apply declarations
          Overlaps,       \* overlap policies of TriggerNow requests
          MaxApplies,     \* reconciliations, declarations and withdrawals
          MaxCommands,    \* pauses and resumes
          MaxDue          \* due times and immediate requests

TriggersAssumption ==
    /\ IsFiniteSet(Triggers)
    /\ \A d \in Declarations : d.trigger \in Triggers
    /\ MaxDue \in Nat

VARIABLES declared,   \* the application's store: trigger -> declaration or None
          schedule,   \* Temporal: trigger -> [spec, paused] or None
          ordered,    \* history: trigger -> what the operator, or creation, last said of paused
          ap,         \* applier -> [pc, todo]
          deliveries, \* dispatch workflows in order of start
          buffered,   \* trigger -> due times waiting for the running delivery
          accepted,   \* delivery ids the application has accepted
          work,       \* history: due number -> times the application started its work
          applies, commands, due

vars == <<declared, schedule, ordered, ap, deliveries, buffered, accepted, work, applies, commands, due>>

None == [spec |-> "none"]

(* --- Validation ------------------------------------------------------------ *)

ValidateTriggerRef(t) == t.trigger # " " /\ t.account # " " /\ t.project # " "
ValidateResourceRef(r) == r.kind # "" /\ r.id # "" /\ r.account # "" /\ r.project # ""

validateTriggerTimeZone(zone) == zone \notin {" ", "unknown"}

validateTriggerSources(timing) ==
    /\ timing.crons \o timing.calendars # <<>> \/ timing.intervals # <<>>
    /\ \A i \in DOMAIN timing.crons : timing.crons[i] # " "
    /\ \A i \in DOMAIN timing.intervals : timing.intervals[i].every > 0 /\ timing.intervals[i].offset >= 0

validateCalendarRanges(r) ==
    /\ r.start >= 0 /\ r.end >= 0 /\ r.step >= 0
    /\ r.end # 0 => r.end >= r.start

validateTriggerCalendars(calendars) == \A i \in DOMAIN calendars : validateCalendarRanges(calendars[i])

\* 0 is the zero time, which stands for no bound.
ValidateTriggerTiming(timing) ==
    /\ validateTriggerTimeZone(timing.zone)
    /\ validateTriggerSources(timing)
    /\ validateTriggerCalendars(timing.calendars)
    /\ validateTriggerCalendars(timing.exclusions)
    /\ (timing.startAt # 0 /\ timing.endAt # 0) => timing.endAt >= timing.startAt
    /\ timing.jitter >= 0

ValidateTriggerOverlapPolicy(policy) ==
    policy \in {"skip", "buffer_one", "buffer_all", "cancel_previous", "terminate_previous", "allow_concurrent"}

ValidateTriggerDeliveryPolicy(d) ==
    /\ d.timeout > 0
    /\ d.initial > 0 /\ d.maximum >= d.initial
    /\ d.backoff >= 1
    /\ d.attempts >= 0

ValidateTriggerPolicy(policy) ==
    /\ policy.catchup > 0
    /\ ValidateTriggerOverlapPolicy(policy.overlap)
    /\ ValidateTriggerDeliveryPolicy(policy.delivery)

ValidateTriggerSpec(spec) ==
    /\ ValidateTriggerRef(spec.ref)
    /\ ValidateResourceRef(spec.target)
    /\ spec.target.account = spec.ref.account /\ spec.target.project = spec.ref.project
    /\ ValidateTriggerTiming(spec.timing)
    /\ ValidateTriggerPolicy(spec.policy)

(* --- Declarations become schedules -------------------------------------------- *)

\* Temporal's name of a policy; a value outside the list would leave it unspecified.
temporalOverlapPolicy(policy) ==
    CASE policy = "skip" -> "SKIP"
      [] policy = "buffer_one" -> "BUFFER_ONE"
      [] policy = "buffer_all" -> "BUFFER_ALL"
      [] policy = "cancel_previous" -> "CANCEL_OTHER"
      [] policy = "terminate_previous" -> "TERMINATE_OTHER"
      [] policy = "allow_concurrent" -> "ALLOW_ALL"
      [] OTHER -> "UNSPECIFIED"

\* What the schedule's action carries into each delivery workflow.
temporalTriggerAction(spec) == [ref |-> spec.ref, target |-> spec.target, delivery |-> spec.policy.delivery]

temporalTriggerOptions(d) ==
    [spec |-> temporalTriggerAction(d.spec), overlap |-> temporalOverlapPolicy(d.spec.policy.overlap),
     pauseOnFailure |-> d.spec.policy.pauseOnFailure, paused |-> d.paused]

temporalTriggerDefinition(d, paused) == [temporalTriggerOptions(d) EXCEPT !.paused = paused]

Change == applies < MaxApplies /\ applies' = applies + 1

\* What the application's store may list: every declaration, in any order.
Listings ==
    LET all == {declared[t] : t \in Triggers} \ {None}
    IN {list \in [1 .. Cardinality(all) -> all] : \A d \in all : \E i \in DOMAIN list : list[i] = d}

\* Start-up: the declarations are read once, and applied one by one afterwards.
ReconcileTriggerDeclarations(a) ==
    /\ Change
    /\ ap[a].pc = "idle"
    /\ \E list \in Listings : ap' = [ap EXCEPT ![a] = [pc |-> "apply", todo |-> list]]
    /\ UNCHANGED <<declared, schedule, ordered, deliveries, buffered, accepted, work, commands, due>>

\* The application stores a declaration and applies it.
Declare(a, d) ==
    /\ Change
    /\ ap[a].pc = "idle"
    /\ declared' = [declared EXCEPT ![d.trigger] = d]
    /\ ap' = [ap EXCEPT ![a] = [pc |-> "apply", todo |-> <<d>>]]
    /\ UNCHANGED <<schedule, ordered, deliveries, buffered, accepted, work, commands, due>>

\* The application removes a declaration, and the trigger with it.
Withdraw(a, t) ==
    /\ Change
    /\ ap[a].pc = "idle" /\ declared[t] # None
    /\ ap' = [ap EXCEPT ![a] = [pc |-> "delete", todo |-> <<declared[t]>>]]
    /\ declared' = [declared EXCEPT ![t] = None]
    /\ UNCHANGED <<schedule, ordered, deliveries, buffered, accepted, work, commands, due>>

Idle == [pc |-> "idle", todo |-> <<>>]
After(todo) == IF Tail(todo) = <<>> THEN Idle ELSE [pc |-> "apply", todo |-> Tail(todo)]

\* One declaration: create, and update only what exists already.  An error ends
\* the whole reconciliation.
ApplyTrigger(a) ==
    LET d == Head(ap[a].todo)  t == d.trigger
    IN /\ ap[a].pc = "apply" /\ ap[a].todo # <<>>
       /\ IF ~ValidateTriggerSpec(d.spec)
          THEN ap' = [ap EXCEPT ![a] = Idle] /\ UNCHANGED <<schedule, ordered>>
          ELSE IF schedule[t] = None
          THEN /\ schedule' = [schedule EXCEPT ![t] = temporalTriggerOptions(d)]
               /\ ordered' = [ordered EXCEPT ![t] = d.paused]
               /\ ap' = [ap EXCEPT ![a] = After(@.todo)]
          ELSE ap' = [ap EXCEPT ![a].pc = "update"] /\ UNCHANGED <<schedule, ordered>>
       /\ UNCHANGED <<declared, deliveries, buffered, accepted, work, applies, commands, due>>

NothingToApply(a) ==
    /\ ap[a].pc = "apply" /\ ap[a].todo = <<>>
    /\ ap' = [ap EXCEPT ![a] = Idle]
    /\ UNCHANGED <<declared, schedule, ordered, deliveries, buffered, accepted, work, applies, commands, due>>

\* The state the schedule has when the update reaches it is kept.
updateTrigger(a) ==
    LET d == Head(ap[a].todo)  t == d.trigger
    IN /\ ap[a].pc = "update"
       /\ IF schedule[t] = None
          THEN ap' = [ap EXCEPT ![a] = Idle] /\ UNCHANGED schedule
          ELSE /\ schedule' = [schedule EXCEPT ![t] = temporalTriggerDefinition(d, @.paused)]
               /\ ap' = [ap EXCEPT ![a] = After(@.todo)]
       /\ UNCHANGED <<declared, ordered, deliveries, buffered, accepted, work, applies, commands, due>>

DeleteTrigger(a) ==
    LET t == Head(ap[a].todo).trigger
    IN /\ ap[a].pc = "delete"
       /\ schedule' = [schedule EXCEPT ![t] = None]
       /\ buffered' = [buffered EXCEPT ![t] = 0]
       /\ ap' = [ap EXCEPT ![a] = Idle]
       /\ UNCHANGED <<declared, ordered, deliveries, accepted, work, applies, commands, due>>

Command(t, paused) ==
    /\ commands < MaxCommands /\ commands' = commands + 1
    /\ schedule[t] # None
    /\ schedule' = [schedule EXCEPT ![t].paused = paused]
    /\ ordered' = [ordered EXCEPT ![t] = paused]
    /\ UNCHANGED <<declared, ap, deliveries, buffered, accepted, work, applies, due>>

PauseTrigger(t) == Command(t, TRUE)
ResumeTrigger(t) == Command(t, FALSE)

(* --- Due times ----------------------------------------------------------------- *)

Running(t) == {i \in DOMAIN deliveries : deliveries[i].trigger = t /\ deliveries[i].state = "running"}

Started(seq, t) == Append(seq, [trigger |-> t, action |-> schedule[t].spec, attempt |-> 1, state |-> "running"])

Stopped(t) == [i \in DOMAIN deliveries |->
                 IF i \in Running(t) THEN [deliveries[i] EXCEPT !.state = "stopped"] ELSE deliveries[i]]

\* Temporal starts, buffers, skips or makes room, by the overlap policy.
Due(t, overlap) ==
    /\ due < MaxDue /\ due' = due + 1
    /\ schedule[t] # None
    /\ IF Running(t) = {} \/ overlap = "ALLOW_ALL"
       THEN deliveries' = Started(deliveries, t) /\ UNCHANGED buffered
       ELSE IF overlap \in {"CANCEL_OTHER", "TERMINATE_OTHER"}
       THEN deliveries' = Started(Stopped(t), t) /\ UNCHANGED buffered
       ELSE /\ buffered' = [buffered EXCEPT ![t] =
                              IF overlap = "BUFFER_ALL" THEN @ + 1
                              ELSE IF overlap = "BUFFER_ONE" THEN 1 ELSE @]
            /\ UNCHANGED deliveries
    /\ UNCHANGED <<declared, schedule, ordered, ap, accepted, work, applies, commands>>

Scheduled(t) == schedule[t] # None /\ ~schedule[t].paused /\ Due(t, schedule[t].overlap)

TriggerNow(t, overlap) == ValidateTriggerOverlapPolicy(overlap) /\ Due(t, temporalOverlapPolicy(overlap))

Unbuffer(t) ==
    /\ buffered[t] > 0 /\ Running(t) = {}
    /\ buffered' = [buffered EXCEPT ![t] = @ - 1]
    /\ deliveries' = Started(deliveries, t)
    /\ UNCHANGED <<declared, schedule, ordered, ap, accepted, work, applies, commands, due>>

(* --- Dispatch -------------------------------------------------------------------- *)


\* Workflow id and run id of the delivery workflow: one per execution.
DeliveryID(i) == <<i>>

Finish(i, state) == deliveries' = [deliveries EXCEPT ![i].state = state]

\* A failed delivery pauses its schedule when the declaration says so.
Failed(i) ==
    LET t == deliveries[i].trigger
        pauses == schedule[t] # None /\ schedule[t].pauseOnFailure
    IN /\ Finish(i, "failed")
       /\ schedule' = IF pauses THEN [schedule EXCEPT ![t].paused = TRUE] ELSE schedule
       /\ ordered' = IF pauses THEN [ordered EXCEPT ![t] = TRUE] ELSE ordered

\* The attempt's error, or its lost answer: another attempt unless none is left
\* (0 attempts means no bound).
Retry(i) ==
    LET most == deliveries[i].action.delivery.attempts
    IN IF most # 0 /\ deliveries[i].attempt >= most
       THEN Failed(i)
       ELSE /\ deliveries' = [deliveries EXCEPT ![i].attempt = IF @ < 2 THEN @ + 1 ELSE @]
            /\ UNCHANGED <<schedule, ordered>>

\* The application accepts a delivery id once and starts its work with it.
Accept(i) ==
    /\ accepted' = accepted \cup {DeliveryID(i)}
    /\ work' = [work EXCEPT ![i] = IF DeliveryID(i) \in accepted THEN @ ELSE @ + 1]

TriggerDispatchWorkflow(i) ==
    /\ deliveries[i].state = "running"
    /\ \/ Accept(i) /\ Finish(i, "accepted") /\ UNCHANGED <<schedule, ordered>>
       \/ Accept(i) /\ Retry(i)
       \/ Retry(i) /\ UNCHANGED <<accepted, work>>
       \/ Failed(i) /\ UNCHANGED <<accepted, work>>
    /\ UNCHANGED <<declared, ap, buffered, applies, commands, due>>

Init ==
    /\ declared = [t \in Triggers |-> None]
    /\ schedule = [t \in Triggers |-> None]
    /\ ordered = [t \in Triggers |-> FALSE]
    /\ ap = [a \in Appliers |-> Idle]
    /\ deliveries = <<>>
    /\ buffered = [t \in Triggers |-> 0]
    /\ accepted = {}
    /\ work = [n \in 1..MaxDue |-> 0]
    /\ applies = 0 /\ commands = 0 /\ due = 0

Next ==
    \/ \E a \in Appliers :
          \/ ReconcileTriggerDeclarations(a) \/ ApplyTrigger(a) \/ NothingToApply(a)
          \/ updateTrigger(a) \/ DeleteTrigger(a)
          \/ \E d \in Declarations : Declare(a, d)
          \/ \E t \in Triggers : Withdraw(a, t)
    \/ \E t \in Triggers :
          \/ PauseTrigger(t) \/ ResumeTrigger(t) \/ Scheduled(t) \/ Unbuffer(t)
          \/ \E o \in Overlaps : TriggerNow(t, o)
    \/ \E i \in DOMAIN deliveries : TriggerDispatchWorkflow(i)

Spec == Init /\ [][Next]_vars

(* --- Properties -------------------------------------------------------------------- *)

\* The application's work for one due delivery starts at most once, whatever
\* attempts fail or lose their answer, and only for a declaration that passed
\* validation (TriggerDispatchWorkflow: "Dispatcher retries retain the same
\* DeliveryID, so application-owned work remains idempotent across failures").
WorkStartsOnce ==
    /\ \A n \in DOMAIN work : work[n] <= 1
    /\ \A i \in DOMAIN deliveries :
          \E d \in Declarations : /\ ValidateTriggerSpec(d.spec) /\ d.trigger = deliveries[i].trigger
                                  /\ deliveries[i].action = temporalTriggerAction(d.spec)

\* A schedule is paused exactly when its creation, the operator, or a failure that
\* pauses said so last: no reconciliation, whichever declaration it read before,
\* changes it (ApplyTrigger: "Temporal's existing lifecycle state is retained").
LifecycleKept == \A t \in Triggers : schedule[t] # None => schedule[t].paused = ordered[t]
=============================================================================
