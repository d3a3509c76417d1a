----------------------------- MODULE MCExecution -----------------------------
(***************************************************************************)
(* Small instances of Execution.                                           *)
(***************************************************************************)
EXTENDS Execution, Integers, TLC

-----------------------------------------------------------------------------
(* Two callers that agree, or of which the second asks for the run on      *)
(* another backend or for another run under the same key.                  *)

Asked(run, backend) == [run |-> run, key |-> "k", backend |-> backend]
MCRequests == {[x |-> Asked("r", "b"), y |-> other] :
                 other \in {Asked("r", "b"), Asked("r", "a"), Asked("s", "b")}}

-----------------------------------------------------------------------------
(* Operations retried under one request id, signals and controls of every  *)
(* kind, a status read, and two operations for one run.                    *)

Q1 == <<"nexus-run", "q1", 1>>
Requested(run, planned, backend) == [run |-> run, key |-> "k", scope |-> planned, backend |-> backend]
Ask(kind, run, type, payload) == [kind |-> kind, run |-> run, type |-> type, payload |-> payload]
Workload(requests, n, callers) == [requests |-> requests, rounds |-> n, callers |-> callers]
MCWorkloads ==
  {Workload("q1" :> Requested(<<>>, FALSE, "native"), 2,
        "a" :> Ask("signal", Q1, "step_modify", "p"))}
  \cup {Workload("q1" :> Requested(<<>>, FALSE, "native"), 1, "a" :> Ask("signal", Q1, ask[1], ask[2]))
           : ask \in {<<"user_message", "">>, <<"user_message", "p">>, <<"step_modify", "">>, <<"external_event", "">>, <<"cancel", "">>}}
  \cup {Workload("q1" :> Requested(<<>>, planned, "external"), 1, "a" :> Ask("control", Q1, type, "") @@ "b" :> Ask("status", Q1, "", ""))
         : planned \in BOOLEAN, type \in {"cancel", "pause"}}
  \cup {Workload("q1" :> Requested(<<>>, FALSE, "external"), 1, "a" :> Ask("signal", Q1, type, "")) : type \in {"", "external_event"}}
  \cup {Workload("q1" :> Requested(<<"x">>, TRUE, "native") @@ "q2" :> [Requested(<<"x">>, FALSE, "native") EXCEPT !.key = "j"], 1,
             <<>>)}

-----------------------------------------------------------------------------
(* Five agent runs: a streamed one under commands, a tree two levels deep  *)
(* under a token budget, one that continues as new and is billed, one that *)
(* does so without a blob store, and one that waits for its user.  Six     *)
(* queues: every type of step, a dependency chain, a split group and a     *)
(* step that rewrites the queue when it completes.                         *)

Agent == [mode |-> "agent", await |-> FALSE, blob |-> TRUE, idem |-> FALSE, billed |-> FALSE,
         threshold |-> 0, maxCont |-> 0, maxDepth |-> 1, budget |-> 0, credit |-> 1,
         signals |-> {}, answers |-> {<<>>, <<"tool">>}]

Commands == {"cancel", "pause", "resume"}

MCSetups ==
  { [Agent EXCEPT !.mode = "stream", !.idem = TRUE, !.signals = Commands,
                 !.answers = {<<>>, <<"tool">>, <<"tool", "delegate">>}],
    [Agent EXCEPT !.maxDepth = 2, !.budget = 3, !.answers = {<<>>, <<"delegate">>}],
    [Agent EXCEPT !.threshold = 1, !.maxCont = 1, !.billed = TRUE, !.signals = {"cancel"},
                 !.answers = {<<>>, <<"delegate">>}],
    [Agent EXCEPT !.threshold = 1, !.maxCont = 1, !.blob = FALSE, !.idem = TRUE],
    [Agent EXCEPT !.await = TRUE, !.maxDepth = 0, !.signals = Commands \cup {"message"},
                 !.answers = {<<>>, <<"delegate">>}] }

\* A queue's agent step has no tools of its own in these runs.
MCChildSetup == [Agent EXCEPT !.maxDepth = 0, !.answers = {<<>>}]

Unmoved == [append |-> "", inserts |-> <<>>, delete |-> {}, modify |-> ""]

StepOf(id, type, deps) ==
  [id |-> id, type |-> type, deps |-> deps, group |-> "", configured |-> TRUE,
   wait |-> "none", onResult |-> Unmoved, status |-> "authored"]

MCQueues ==
  { <<StepOf("a", "agent", {}), StepOf("b", "tool", {"a"}), StepOf("c", "join", {"a", "b"})>>,
    <<[StepOf("a", "tool", {}) EXCEPT !.group = "g"], [StepOf("b", "agent", {}) EXCEPT !.group = "g"],
      StepOf("c", "join", {"a", "b"})>>,
    <<StepOf("c", "eval", {"a"}), [StepOf("a", "wait", {}) EXCEPT !.wait = "fail"],
      [StepOf("b", "wait", {}) EXCEPT !.wait = "skip"]>>,
    <<[StepOf("a", "wait", {}) EXCEPT !.wait = "forever"], StepOf("b", "agent", {"a"})>>,
    <<[StepOf("a", "eval", {}) EXCEPT !.onResult =
         [Unmoved EXCEPT !.append = "a", !.inserts = <<StepOf("d", "tool", {"b"})>>, !.delete = {"c"}]],
      StepOf("c", "agent", {}), StepOf("b", "split", {})>>,
    <<[StepOf("a", "tool", {}) EXCEPT !.configured = FALSE], StepOf("b", "agent", {"a"}), StepOf("c", "split", {})>> }

MCMutations ==
  { [Unmoved EXCEPT !.delete = {"a"}],
    [Unmoved EXCEPT !.modify = "a", !.inserts = <<StepOf("a", "tool", {"b"})>>],
    [Unmoved EXCEPT !.append = "b", !.inserts = <<StepOf("d", "agent", {"a"})>>] }

-----------------------------------------------------------------------------
(* Two activities that ask for servers the operator's lists allow, refuse  *)
(* or do not know, in either order.                                        *)

Stdio(n, cmd, env) == [name |-> n, transport |-> "stdio", command |-> cmd, env |-> env, scheme |-> "", host |-> ""]
Net(n, s, h) == [name |-> n, transport |-> "sse", command |-> "", env |-> {}, scheme |-> s, host |-> h]
MCPolicy == [commands |-> {"tool"}, inherited |-> {"PATH"}, configEnv |-> {"MODE"}, hosts |-> {"inner"}]
MCTools == [f |-> {"read", "find"}, g |-> {"find"}]
Lists == {<<Stdio("f", "tool", {"MODE"}), Net("g", "https", "far")>>, <<Net("g", "https", "inner"), Stdio("f", "tool", {})>>,
          <<Stdio("f", "other", {}), Net("g", "ftp", "far")>>, <<Stdio("f", "tool", {"PATH"}), Stdio("g", "tool", {"X"})>>,
          <<[Stdio("f", "tool", {}) EXCEPT !.command = ""], Stdio("f", "tool", {})>>}
MCDemands == [{"a", "b"} -> Lists]

-----------------------------------------------------------------------------
(* Two sessions of one subprocess behind a listener with room for one      *)
(* notification, and a fact store that is down once.                       *)

Note(type, sub, text) == [type |-> type, sub |-> sub, text |-> text]
End(reason) == Note("turn/end", reason, "")
IdleNote == Note("session.status", "", "")
Say(t) == Note("assistant/chunk", "text-delta", t)
Long ==
  { <<Say("a"), Note("tool/call", "", "c"), Note("tool/result", "error", "o"), Say("b"), End("completed"), IdleNote>>,
    <<Note("assistant/chunk", "reasoning-delta", "r"), Say("a"), Say("b"), Note("assistant/chunk", "usage", ""), End("max-tokens")>>,
    <<Say("a"), Note("tool/call", "", "c"), Note("tool/result", "", "o"), End("interrupted")>>,
    <<Note("assistant/chunk", "tool-call-delta", ""), Note("turn/start", "", ""), End("blocked")>> }

MCSessions == {[r |-> s, s |-> <<End("completed")>>] : s \in Long}

-----------------------------------------------------------------------------
(* Two replicas that apply two declared triggers.                          *)

TriggerRef(t) == [trigger |-> t, account |-> "a", project |-> "p"]
Target(acc) == [kind |-> "k", id |-> "x", account |-> acc, project |-> "p"]
Timing == [zone |-> "UTC", crons |-> <<"daily">>, calendars |-> <<>>, intervals |-> <<>>, exclusions |-> <<>>,
           startAt |-> 0, endAt |-> 0, jitter |-> 0]
DeliveryPolicy(o, n, f) == [catchup |-> 1, overlap |-> o, pauseOnFailure |-> f,
                    delivery |-> [timeout |-> 1, initial |-> 1, maximum |-> 1, backoff |-> 1, attempts |-> n]]
SpecOf(t, timing, policy, acc) == [ref |-> TriggerRef(t), target |-> Target(acc), timing |-> timing, policy |-> policy]
DeclarationOf(t, spec, paused) == [trigger |-> t, spec |-> spec, paused |-> paused]
MCDeclarations ==
   {DeclarationOf("t", SpecOf("t", Timing, DeliveryPolicy("skip", 2, TRUE), "a"), TRUE),
    DeclarationOf("t", SpecOf("t", [Timing EXCEPT !.crons = <<>>, !.intervals = <<[every |-> 1, offset |-> 0]>>],
                DeliveryPolicy("buffer_one", 0, FALSE), "a"), FALSE),
    DeclarationOf("u", SpecOf("u", [Timing EXCEPT !.crons = <<>>], DeliveryPolicy("skip", 1, FALSE), "b"), FALSE)}
==============================================================================
