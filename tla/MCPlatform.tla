----------------------------- MODULE MCPlatform -----------------------------
(***************************************************************************)
(* Records: up to five concurrent calls on one record: every pair of       *)
(* gates, retries under the same key, racing creates, foreign tenants,     *)
(* malformed requests, and three appends to one ledger.  Processes: two    *)
(* starts of one id, a timer beside a cancel, a history that continues as  *)
(* new between two controls, messages and contracts that are refused, a    *)
(* late pause beside a cancel.                                             *)
(***************************************************************************)
EXTENDS Platform, Integers

NoResource == [kind |-> "", id |-> "", tenant |-> ""]

Res(t) == [kind |-> "file", id |-> "r", tenant |-> t]
Ref == [kind |-> "blob", uri |-> "u", artifact |-> "", count |-> 1]
NoRef == [kind |-> "blob", uri |-> "", artifact |-> "", count |-> 1]

Action(t, key, dry, approval) ==
    [id |-> "a", key |-> key, tenant |-> t, kind |-> "k", process |-> "", resource |-> Res(t),
     refs |-> {Ref}, dryRunRequired |-> dry, approvalRequired |-> approval]
Policy == [maxChunks |-> 2, maxChunkSize |-> 3, maxConcurrency |-> 0]
Chunk(id) == [id |-> id, size |-> 3, concurrency |-> 1, items |-> Ref]
Workset(t, key, chunks) ==
    [id |-> "w", key |-> key, tenant |-> t, kind |-> "k", process |-> "p", resource |-> NoResource,
     items |-> Ref, chunks |-> chunks, policy |-> Policy]
Entry(id, t, key) ==
    [id |-> id, key |-> key, tenant |-> t, kind |-> "k", process |-> "p", resource |-> NoResource,
     refs |-> {Ref}]

Create(op, spec) == [op |-> op, spec |-> spec, tenant |-> spec.tenant]
Update(op, id, t, key, ok) == [op |-> op, id |-> id, tenant |-> t, key |-> key, ok |-> ok, chunk |-> ""]
ChunkResult(id, key, ok) ==
    [op |-> "chunk", id |-> "w", tenant |-> "t1", key |-> key, ok |-> ok, chunk |-> id]

Get(t) == [op |-> "get", id |-> "a", tenant |-> t]
GetWorkset(t) == [op |-> "get", id |-> "w", tenant |-> t]
Scope(t) == [tenant |-> t, process |-> "", kind |-> "k", life |-> "", resource |-> NoResource, limit |-> 1, after |-> 0]
List(scope) == [op |-> "list", tenant |-> scope.tenant, scope |-> scope]

Request == Create("request", Action("t1", "k0", FALSE, FALSE))

Gated(dry, approve, last) ==
    <<"action", <<Create("request", Action("t1", "k0", TRUE, TRUE)),
                  Update("dryrun", "a", "t1", "k1", dry), Update("approval", "a", "t1", "k2", approve),
                  Update("complete", "a", "t1", "k3", TRUE), last>>>>

Racing(second, last) ==
    <<"action", <<Request, Create("request", second), Update("complete", "a", "t1", "k1", FALSE),
                  Update("cancel", "a", "t1", "k2", TRUE), last>>>>

Reading(read) == <<"action", <<Request, Update("cancel", "a", "t1", "k2", TRUE), read>>>>
Malformed(spec) == <<"action", <<Create("request", spec)>>>>

Chunked(ok, last) ==
    <<"workset", <<Create("start", Workset("t1", "k0", <<Chunk("c1"), Chunk("c2")>>)),
                   ChunkResult("c1", "k1", TRUE), ChunkResult("c1", "k1", TRUE),
                   ChunkResult("c2", "k1", ok), last>>>>

Appending(second) ==
    <<"ledger", <<Create("append", Entry("e1", "t1", "k1")), Create("append", second),
                  Create("append", Entry("e3", "t1", "k3")), Create("append", Entry("e4", "t2", "k1"))>>>>

Cases ==
    <<Gated(TRUE, TRUE, Update("complete", "a", "t1", "k3", TRUE)),
      Gated(TRUE, FALSE, Update("approval", "a", "t1", "k2", TRUE)),
      Gated(FALSE, TRUE, Update("complete", "a", "t1", "k3", TRUE)),
      Gated(TRUE, TRUE, Update("approval", "a", "t1", "k2", FALSE)),
      Racing(Action("t1", "k0", FALSE, FALSE), Update("cancel", "a", "t2", "k2", TRUE)),
      Racing(Action("t2", "k0", FALSE, FALSE), Update("cancel", "a", "t1", "k1", TRUE)),
      Racing(Action("t1", "k0", TRUE, FALSE), Update("dryrun", "a", "t1", "", TRUE)),
      Racing([Action("t1", "k0", FALSE, FALSE) EXCEPT !.id = "b"], Update("cancel", "a", "t2", "k1", TRUE)),
      Reading(Get("t1")), Reading(Get("t2")), Reading(List([Scope("t1") EXCEPT !.life = "canceled"])), Reading(List(Scope("t2"))),
      Reading(List(Scope(""))),
      Malformed([Action("t1", "k0", FALSE, FALSE) EXCEPT !.key = ""]),
      Malformed([Action("t1", "k0", FALSE, FALSE) EXCEPT !.resource = Res("t2")]),
      Malformed([Action("t1", "k0", FALSE, FALSE) EXCEPT !.resource = NoResource]),
      Malformed([Action("t1", "k0", FALSE, FALSE) EXCEPT !.refs = {NoRef}]),
      Chunked(TRUE, Update("cancel_workset", "w", "t1", "k1", TRUE)),
      Chunked(FALSE, ChunkResult("c9", "k3", TRUE)),
      <<"workset", <<Create("start", Workset("t1", "k0", <<>>)), ChunkResult("w", "k1", TRUE),
                     Update("cancel_workset", "w", "t2", "k1", TRUE), ChunkResult("w", "", TRUE)>>>>,
      <<"workset", <<Create("start", Workset("t1", "k0", <<Chunk("c1"), Chunk("c2"), Chunk("c3")>>))>>>>,
      <<"workset", <<Create("start", Workset("t1", "k0", <<>>)), Create("start", Workset("t1", "k0", <<>>)),
                     GetWorkset("t1"), Update("cancel_workset", "w", "t1", "k1", TRUE),
                     Update("cancel_workset", "w", "t1", "k1", TRUE)>>>>,
      <<"workset", <<Create("start", Workset("t1", "k0", <<[Chunk("c1") EXCEPT !.size = 4]>>))>>>>,
      <<"workset", <<Create("start", Workset("t1", "k0", <<>>)),
                     Create("start", [Workset("t1", "k1", <<>>) EXCEPT !.id = "v"]),
                     List(Scope("t1")), List([Scope("t1") EXCEPT !.limit = 0]), List([Scope("t1") EXCEPT !.limit = -1])>>>>,
      <<"ledger", <<Create("append", Entry("e1", "t1", "k1")), Create("append", Entry("e2", "t1", "k2")),
                    List(Scope("t1")), List([Scope("t1") EXCEPT !.after = 1]), List([Scope("t1") EXCEPT !.resource = Res("t2")])>>>>,
      Appending(Entry("e1", "t1", "k1")), Appending(Entry("e2", "t1", "k1")), Appending(Entry("e1", "t1", "k2")),
      Appending([Entry("e2", "t1", "k2") EXCEPT !.process = ""])>>

InStore(kind) ==
    [i \in DOMAIN Cases |-> [domain |-> Cases[i][1], calls |-> Cases[i][2], store |-> kind]]

AllScripts == InStore("memory") \o InStore("postgres")

-----------------------------------------------------------------------------
PResource == [kind |-> "file", id |-> "r", tenant |-> "t1"]
Limits(can, max) == [timeoutSeconds |-> 0, maxHistoryEvents |-> max, continueAsNewEvents |-> can]
Delay == [id |-> "delay", fireAt |-> 0, afterSeconds |-> 5]
Date == [id |-> "date", fireAt |-> 9, afterSeconds |-> 0]
PSpec(ts, policy) ==
    [id |-> "p", kind |-> "k", tenant |-> "t1", key |-> "k0", resource |-> PResource,
     policy |-> policy, timers |-> ts]

Signal(k) == [kind |-> "signal", key |-> k]
Control(op, k) == [kind |-> "control", key |-> k, op |-> op]

Scenario(n, ts, policy, ms) == [spec |-> PSpec(ts, policy), store |-> "postgres", starts |-> n, messages |-> ms]

MCScenarios ==
    {Scenario(2, {}, Limits(0, 0), <<Control("pause", <<"k1">>), Signal(<<"k2">>)>>),
     Scenario(2, {Delay}, Limits(0, 0), <<Control("cancel", <<"k1">>)>>),
     Scenario(1, {Delay}, Limits(3, 0), <<Control("pause", <<"k1">>), Control("resume", <<"k2">>)>>),
     Scenario(1, {}, Limits(0, 0), <<Signal(<<"k1">>), Control("restart", <<"k2">>)>>),
     Scenario(1, {Date, Delay}, Limits(0, 2), <<Signal(<<>>)>>),
     Scenario(1, {[Date EXCEPT !.afterSeconds = 1]}, Limits(0, 0), <<>>),
     Scenario(1, {}, Limits(0, 0), <<Control("pause", <<"k1">>), Control("cancel", <<"k2">>)>>),
     [Scenario(1, {Delay}, Limits(0, 0), <<Control("pause", <<"k1">>), Control("cancel", <<"k2">>)>>)
        EXCEPT !.store = "memory"],
     [Scenario(2, {}, Limits(0, 0), <<Control("cancel", <<"k1">>)>>) EXCEPT !.store = "memory"],
     Scenario(1, {}, Limits(3, 2), <<>>)}

-----------------------------------------------------------------------------
(* Two callers of the gateway: every route, requests that are refused,     *)
(* templates while two processes boot, ingested events, and the console of *)
(* a plan that moves on.                                                   *)

Routes == {"startRun", "signalRun", "controlRun", "statusRun",
           "startPlan", "statusPlan", "describePlan", "signalPlan", "controlPlan", "planAudits",
           "planArtifacts", "planArtifact", "planEvents", "planTraces", "planStream",
           "startProcess", "processes", "describeProcess", "statusProcess", "appendLedger",
           "ledger", "requestAction", "actions", "statusAction", "dryRun", "approve", "execute",
           "cancel", "startWorkset", "worksets", "statusWorkset", "resources"}

Call == [route |-> "startRun", cred |-> [header |-> "bearer", valid |-> TRUE, account |-> "a", actor |-> "absent"],
         project |-> "p", body |-> "ok", claims |-> "", id |-> 1, run |-> "same", actor |-> "",
         native |-> FALSE, input |-> "m", event |-> "e", limit |-> 0]

\* Each route once as it is meant to be used, with the account of another tenant
\* in the body.
Plain == {[Call EXCEPT !.route = r, !.claims = "b", !.project = p] :
            r \in Routes, p \in {"padded", "blank"}}

\* The ways a request is refused before or inside a handler.
RefusedCalls ==
    {[Call EXCEPT !.cred = c] :
        c \in {[header |-> h, valid |-> v, account |-> a, actor |-> "absent"] :
                 h \in {"absent", "bearer"}, v \in BOOLEAN, a \in {"absent", "a"}}}
    \cup {[Call EXCEPT !.route = r, !.body = b] : r \in {"startRun", "runEvents", "dryRun"},
                                                b \in {"unparsable", "incomplete"}}
    \cup {[Call EXCEPT !.native = TRUE, !.input = i] : i \in {"", "m"}}

Templates ==
    {[Call EXCEPT !.route = r, !.id = i] : r \in {"import", "template", "deleteTemplate"}, i \in 0..2}
    \cup {[Call EXCEPT !.route = "import", !.body = "incomplete"], [Call EXCEPT !.route = "templates"],
          [Call EXCEPT !.route = "import", !.input = ""]}

Ingests == {[Call EXCEPT !.route = "ingest", !.event = e, !.run = i] : e \in {"e", "f"}, i \in {"same", "other"}}

Consoles == {[Call EXCEPT !.route = "console", !.limit = l, !.project = p] : l \in 0..3, p \in {"p", "blank"}}

\* Two callers at a time, of one family, while the processes boot or the plan
\* advances where that family is concerned.
Pairs(family) == {[c \in {"c1", "c2"} |-> IF c = "c1" THEN q ELSE r] : q \in family, r \in family}

MCWorkloads ==
    {[want |-> [c \in {"c1", "c2"} |-> q], booting |-> {}, events |-> MaxEvents] : q \in Plain \cup RefusedCalls}
    \cup {[want |-> w, booting |-> Replicas, events |-> MaxEvents] : w \in Pairs(Templates)}
    \cup {[want |-> w, booting |-> {}, events |-> MaxEvents] : w \in Pairs(Ingests)}
    \cup {[want |-> [c \in {"c1", "c2"} |-> q], booting |-> {}, events |-> 1] : q \in Consoles}

-----------------------------------------------------------------------------
(* Three turns of one thread.                                              *)

Ev(t) == [type |-> t]
Msg(t, m) == [type |-> t, msg |-> m]
Finish(o) == [type |-> "finish", outcome |-> o]

MCThreadOf == [r \in 1..3 |-> "t"]
MCKeyOf == [r \in 1..3 |-> r]

\* Run 1 writes a message and asks; run 2 replays the message; run 3 may end
\* before it starts.
MCTurnScripts ==
    <<{<<Ev("start"), Msg("msgStart", "m"), Msg("msgEnd", "m"), Finish("interrupt")>>},
      {<<Ev("start"), Msg("msgStart", "m"), Msg("msgContent", "m"), Msg("msgEnd", "m")>>},
      {<<Ev("start"), Ev("custom"), Ev("error")>>}>>

\* A thread whose turns only start and finish, and nothing else.
PlainTurns == [r \in 1..3 |-> {<<Ev("start"), Finish("normal")>>}]
NoScripts == <<>>
=============================================================================
