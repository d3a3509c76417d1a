------------------------------ MODULE Gateway ------------------------------
(***************************************************************************)
(* The REST gateway in front of the runtimes (internal/controller/restapi) *)
(* and what it owns itself: the template store, the live-event ingest and  *)
(* the plan console.  A handler is a sequence of checks, each of which may *)
(* answer the request, followed by one call to a runtime; what the runtime *)
(* does with the call is the subject of other modules, so here it answers  *)
(* any of the classes agentOSError tells apart.  A client may repeat its   *)
(* request, and requests of several clients interleave at every call the   *)
(* gateway makes.                                                          *)
(***************************************************************************)
EXTENDS Naturals, Sequences

CONSTANTS Clients,     \* concurrent callers
          Workloads,   \* what may happen together: [want, booting, events]
          Wired,       \* runtimes the deployment configured
          Replicas,    \* processes that seed the default template at boot
          MaxSends,    \* how often a client sends its request
          MaxEvents,   \* length of the plan's journal
          ConsoleMax   \* largest event limit of the console

VARIABLES want,       \* client -> its request
          sends,      \* client -> how often it was sent
          serving,    \* client -> the stage its request is in
          status,     \* client -> HTTP status of its last answer, 0 before
          calls,      \* calls the runtimes received
          claimed,    \* event ids the dedupe store holds
          published,  \* event id -> number of publications
          templates,  \* rows of workflow_templates
          seeding,    \* replica -> stage of EnsureDefault
          journal,    \* events of the plan, each with the status it left
          page        \* client -> what the console has read

vars == <<want, sends, serving, status, calls, claimed, published, templates,
          seeding, journal, page>>

\* Journals and limits are counts.
GatewayAssumption ==
    /\ ConsoleMax \in Nat \ {0}
    /\ \A w \in Workloads : w.events \in Nat /\ \A c \in Clients : w.want[c].limit \in Nat

NoError == "none"

(* --- Credentials and scopes --------------------------------------------- *)

\* strings.TrimSpace on a project id: "blank" is white space only and "padded"
\* is "p" between white space.
TrimSpace(s) == IF s = "blank" THEN "" ELSE IF s = "padded" THEN "p" ELSE s

\* A credential is [header, valid, account, actor]: how the Authorization
\* header reads, whether the token verifies, and its claims.
bearerToken(cred) == cred.header = "bearer"

NoPrincipal == [account |-> "", actor |-> ""]

\* A claim that is missing or not a string reads as "".
stringClaim(claim) == IF claim \in {"absent", "number"} THEN "" ELSE claim

Verify(cred) ==
    IF cred.valid /\ stringClaim(cred.account) # ""
    THEN [account |-> stringClaim(cred.account), actor |-> stringClaim(cred.actor)]
    ELSE NoPrincipal

PrincipalFromCtx(q) ==
    IF bearerToken(q.cred) THEN Verify(q.cred) ELSE NoPrincipal

EffectiveActor(p) == IF p.actor # "" THEN p.actor ELSE p.account

\* Paths the deployment lists skip authentication; none of the routes below is
\* among them.
PublicRoutes == {"healthz"}

RequireAuth(q) ==
    IF q.route \in PublicRoutes \/ PrincipalFromCtx(q) # NoPrincipal THEN 0 ELSE 401

\* The authorizer the application wires allows a scope of the principal's own
\* account and refuses an object without one.
Authorize(principal, scope) ==
    IF scope.account = principal.account /\ scope.account # "" THEN 0 ELSE 403

tenant(q) == [account |-> PrincipalFromCtx(q).account, project |-> TrimSpace(q.project)]

tenantFromRequest(q) ==
    IF PrincipalFromCtx(q) = NoPrincipal THEN 401
    ELSE IF TrimSpace(q.project) = "" THEN 400
    ELSE Authorize(PrincipalFromCtx(q), tenant(q))

runActorFromRequest(q) ==
    IF PrincipalFromCtx(q) = NoPrincipal THEN 401 ELSE IF q.id = 0 THEN 400 ELSE 0

RunRoutes == {"startRun", "signalRun", "controlRun", "statusRun"}
PlanRoutes == {"startPlan", "statusPlan", "describePlan", "signalPlan", "controlPlan",
               "planAudits", "planArtifacts", "planArtifact", "planEvents",
               "planTraces", "planStream", "console"}
ProcessRoutes == {"startProcess", "processes", "describeProcess", "statusProcess",
                  "appendLedger", "ledger", "requestAction", "actions", "statusAction",
                  "dryRun", "approve", "execute", "cancel", "startWorkset",
                  "worksets", "statusWorkset", "resources"}
TemplateRoutes == {"import", "templates", "template", "deleteTemplate"}

(* --- Checks ------------------------------------------------------------- *)

\* The first check that answers the request, 0 when none does.
FirstRefusal(checks) ==
    LET refusals == {i \in DOMAIN checks : checks[i] # 0}
    IN IF refusals = {} THEN 0 ELSE checks[CHOOSE i \in refusals : \A j \in refusals : i <= j]

Parse(q) == IF q.body = "unparsable" THEN 400 ELSE 0

\* validate:"required" on a project accepts any text but the empty one.
validateAgentOSProjectScope(q) == IF q.project = "" THEN 400 ELSE 0

Required(q) == IF q.body = "incomplete" THEN 400 ELSE 0

\* Every query of the plan routes, and every one of the platform routes, names
\* its project and validates nothing else.
PlanScope(q) == validateAgentOSProjectScope(q)
PlatformScope(q) == validateAgentOSProjectScope(q)

validateRESTQuery(q) == IF q.route \in PlanRoutes THEN PlanScope(q) ELSE PlatformScope(q)

\* The runtimes' errors as the gateway reports them.  A process that does not
\* exist is an error of its own, which the table does not list.
agentOSError(err) ==
    IF err = "invalid" THEN 400 ELSE IF err = "notfound" THEN 404 ELSE 500

(* --- What a handler does once its checks pass ---------------------------- *)

\* refused: the status that ends the request before any call, or 0;
\* call: what the runtime receives; ok: the status of a successful call.
Handling(refused, call, ok) == [refused |-> refused, call |-> call, ok |-> ok]

Call(op, scope, actor) ==
    [op |-> op, account |-> scope.account, project |-> scope.project, actor |-> actor]

\* A call with the client whose request made it.
Received(c, call) ==
    [by |-> c, op |-> call.op, account |-> call.account, project |-> call.project,
     actor |-> call.actor]

\* Parse, authorize, overwrite the tenant the body names, operate.
applyTenant(spec, scope) == [spec EXCEPT !.account = scope.account, !.project = scope.project]

withTenantScopedBody(q, op, ok) ==
    LET spec == [account |-> q.claims, project |-> q.project]
    IN Handling(FirstRefusal(<<Parse(q), tenantFromRequest(q)>>),
                Call(op, applyTenant(spec, tenant(q)), ""), ok)

withPlanRef(q, op) ==
    Handling(FirstRefusal(<<Parse(q), Required(q), validateAgentOSProjectScope(q),
                            tenantFromRequest(q)>>),
             Call(op, tenant(q), ""), 200)

withQueryScope(q, op) ==
    Handling(FirstRefusal(<<Parse(q), validateRESTQuery(q), tenantFromRequest(q)>>),
             Call(op, tenant(q), ""), 200)

parseRuntimeScopedQuery(q) ==
    FirstRefusal(<<Parse(q), validateRESTQuery(q), tenantFromRequest(q)>>)

withPlatformRef(q, op) ==
    Handling(parseRuntimeScopedQuery(q), Call(op, tenant(q), ""), 200)

\* The selector carries the project as the query spelled it.
newProcessPlatformSelector(q) == [account |-> tenant(q).account, project |-> q.project]

withPlatformListScope(q, op) ==
    Handling(parseRuntimeScopedQuery(q), Call(op, newProcessPlatformSelector(q), ""), 200)

withPlatformQueryScope(q, op) ==
    Handling(parseRuntimeScopedQuery(q), Call(op, tenant(q), ""), 200)

\* The reference comes from the query; the body is read after it.
withAgentOSActionTransition(q, op) ==
    LET ref == withPlatformRef(q, op)
    IN [ref EXCEPT !.refused = FirstRefusal(<<ref.refused, Parse(q)>>)]

\* withPlanBody sends 202 whenever its operation returns no error.
withPlanBody(q, op, done) ==
    LET refused == FirstRefusal(<<Parse(q), Required(q), validateAgentOSProjectScope(q)>>)
    IN Handling(IF refused # 0 THEN refused ELSE IF done THEN 0 ELSE 202,
                Call(op, tenant(q), q.actor), 202)

\* A failed authorization has written its answer and returns no error.
withPlanActionBody(q, op) == withPlanBody(q, op, tenantFromRequest(q) = 0)

(* --- Runs ---------------------------------------------------------------- *)

startAgentOSRun(q) ==
    Handling(FirstRefusal(<<Parse(q), Required(q), validateAgentOSProjectScope(q),
                            IF q.native /\ q.input = "" THEN 400 ELSE 0,
                            tenantFromRequest(q)>>),
             Call("Start", tenant(q), ""), 202)

\* The actor of a signal or a control is the credential's.
runCommand(q, op) ==
    Handling(FirstRefusal(<<Parse(q), Required(q), runActorFromRequest(q)>>),
             Call(op, [account |-> PrincipalFromCtx(q).account, project |-> ""],
                  EffectiveActor(PrincipalFromCtx(q))), 202)

signalAgentOSRun(q) == runCommand(q, "Signal")
controlAgentOSRun(q) == runCommand(q, "Control")

statusAgentOSRun(q) ==
    Handling(runActorFromRequest(q),
             Call("Status", [account |-> PrincipalFromCtx(q).account, project |-> ""], ""), 200)

\* The history is addressed by run id alone.
listAgentOSRunEvents(q) ==
    Handling(FirstRefusal(<<Parse(q), Required(q)>>),
             Call("ListRunEvents", [account |-> "", project |-> ""], ""), 200)

(* --- Plans --------------------------------------------------------------- *)

startAgentOSPlan(q) == withTenantScopedBody(q, "StartPlan", 202)
statusAgentOSPlan(q) == withPlanRef(q, "StatusPlan")
describeAgentOSPlan(q) == withPlanRef(q, "DescribePlan")
signalAgentOSPlan(q) == withPlanActionBody(q, "SignalPlan")
controlAgentOSPlan(q) == withPlanActionBody(q, "ControlPlan")
listAgentOSPlanAudits(q) == withQueryScope(q, "ListPlanAudits")
listAgentOSPlanArtifacts(q) == withQueryScope(q, "ListPlanArtifacts")
getAgentOSPlanArtifact(q) == withQueryScope(q, "GetPlanArtifact")
listAgentOSPlanEvents(q) == withQueryScope(q, "ListPlanEvents")
listAgentOSPlanDebugTraces(q) == withQueryScope(q, "ListPlanDebugTraces")

streamAgentOSPlanEvents(q) ==
    Handling(FirstRefusal(<<Parse(q), Required(q), validateAgentOSProjectScope(q),
                            tenantFromRequest(q)>>),
             Call("SubscribePlan", tenant(q), ""), 200)

(* --- Processes, ledger, actions, worksets, resources ---------------------- *)

startAgentOSProcess(q) == withTenantScopedBody(q, "StartProcess", 202)
listAgentOSProcesses(q) == withPlatformQueryScope(q, "ListProcesses")
describeAgentOSProcess(q) == withPlatformRef(q, "DescribeProcess")
statusAgentOSProcess(q) == withPlatformRef(q, "StatusProcess")
appendAgentOSLedgerEntry(q) == withTenantScopedBody(q, "AppendLedgerEntry", 201)
listAgentOSLedgerEntries(q) == withPlatformListScope(q, "ListLedgerEntries")
requestAgentOSAction(q) == withTenantScopedBody(q, "RequestAction", 202)
listAgentOSActions(q) == withPlatformListScope(q, "ListActions")
statusAgentOSAction(q) == withPlatformRef(q, "StatusAction")
dryRunAgentOSAction(q) == withAgentOSActionTransition(q, "CompleteActionDryRun")
approveAgentOSAction(q) == withAgentOSActionTransition(q, "ResolveActionApproval")
executeAgentOSAction(q) == withAgentOSActionTransition(q, "CompleteActionExecution")
cancelAgentOSAction(q) == withAgentOSActionTransition(q, "CancelAction")
startAgentOSWorkset(q) == withTenantScopedBody(q, "StartWorkset", 202)
listAgentOSWorksets(q) == withPlatformListScope(q, "ListWorksets")
statusAgentOSWorkset(q) == withPlatformRef(q, "StatusWorkset")

getOrListAgentOSResources(q) ==
    withPlatformQueryScope(q, IF q.id # 0 THEN "GetResourceProjection"
                              ELSE "ListResourceProjections")

(* --- Routes --------------------------------------------------------------- *)

\* A route is mounted only when the runtime behind it is configured.
NewRoutes(route) ==
    CASE route \in RunRoutes      -> "runs" \in Wired
      [] route \in PlanRoutes     -> "plans" \in Wired
      [] route \in ProcessRoutes  -> "platform" \in Wired
      [] OTHER                    -> TRUE

registerAgentOSRunRoutes(q) ==
    CASE q.route = "startRun"   -> startAgentOSRun(q)
      [] q.route = "signalRun"  -> signalAgentOSRun(q)
      [] q.route = "controlRun" -> controlAgentOSRun(q)
      [] q.route = "statusRun"  -> statusAgentOSRun(q)

registerAgentOSPlanRoutes(q) ==
    CASE q.route = "startPlan"     -> startAgentOSPlan(q)
      [] q.route = "statusPlan"    -> statusAgentOSPlan(q)
      [] q.route = "describePlan"  -> describeAgentOSPlan(q)
      [] q.route = "signalPlan"    -> signalAgentOSPlan(q)
      [] q.route = "controlPlan"   -> controlAgentOSPlan(q)
      [] q.route = "planAudits"    -> listAgentOSPlanAudits(q)
      [] q.route = "planArtifacts" -> listAgentOSPlanArtifacts(q)
      [] q.route = "planArtifact"  -> getAgentOSPlanArtifact(q)
      [] q.route = "planEvents"    -> listAgentOSPlanEvents(q)
      [] q.route = "planTraces"    -> listAgentOSPlanDebugTraces(q)
      [] q.route = "planStream"    -> streamAgentOSPlanEvents(q)

registerAgentOSProcessPlatformRoutes(q) ==
    CASE q.route = "startProcess"    -> startAgentOSProcess(q)
      [] q.route = "processes"       -> listAgentOSProcesses(q)
      [] q.route = "describeProcess" -> describeAgentOSProcess(q)
      [] q.route = "statusProcess"   -> statusAgentOSProcess(q)
      [] q.route = "appendLedger"    -> appendAgentOSLedgerEntry(q)
      [] q.route = "ledger"          -> listAgentOSLedgerEntries(q)
      [] q.route = "requestAction"   -> requestAgentOSAction(q)
      [] q.route = "actions"         -> listAgentOSActions(q)
      [] q.route = "statusAction"    -> statusAgentOSAction(q)
      [] q.route = "dryRun"          -> dryRunAgentOSAction(q)
      [] q.route = "approve"         -> approveAgentOSAction(q)
      [] q.route = "execute"         -> executeAgentOSAction(q)
      [] q.route = "cancel"          -> cancelAgentOSAction(q)
      [] q.route = "startWorkset"    -> startAgentOSWorkset(q)
      [] q.route = "worksets"        -> listAgentOSWorksets(q)
      [] q.route = "statusWorkset"   -> statusAgentOSWorkset(q)
      [] q.route = "resources"       -> getOrListAgentOSResources(q)

Handle(q) ==
    CASE q.route \in RunRoutes     -> registerAgentOSRunRoutes(q)
      [] q.route \in PlanRoutes    -> registerAgentOSPlanRoutes(q)
      [] q.route \in ProcessRoutes -> registerAgentOSProcessPlatformRoutes(q)
      [] OTHER                     -> listAgentOSRunEvents(q)

(* --- Actions --------------------------------------------------------------- *)

NoPage == [described |-> 0, events |-> 0, traces |-> 0, reads |-> 0]

Answer(c, code) ==
    /\ status' = [status EXCEPT ![c] = code]
    /\ serving' = [serving EXCEPT ![c] = "idle"]

Send(c) ==
    /\ serving[c] = "idle"
    /\ sends[c] < MaxSends
    /\ sends' = [sends EXCEPT ![c] = @ + 1]
    /\ serving' = [serving EXCEPT ![c] = "sent"]
    /\ UNCHANGED <<want, status, calls, claimed, published, templates, seeding, journal, page>>

\* The middleware and the router, which run before any handler.
Route(c) ==
    /\ serving[c] = "sent"
    /\ LET refused == FirstRefusal(<<RequireAuth(want[c]),
                                     IF NewRoutes(want[c].route) THEN 0 ELSE 404>>)
       IN IF refused # 0 THEN Answer(c, refused)
          ELSE serving' = [serving EXCEPT ![c] = "handling"] /\ UNCHANGED status
    /\ UNCHANGED <<want, sends, calls, claimed, published, templates, seeding, journal, page>>

\* A handler up to and including its call.
HandleRequest(c) ==
    /\ serving[c] = "handling"
    /\ want[c].route \notin TemplateRoutes \cup {"ingest", "console"}
    /\ LET h == Handle(want[c])
       IN IF h.refused # 0
          THEN Answer(c, h.refused) /\ UNCHANGED calls
          ELSE /\ serving' = [serving EXCEPT ![c] = "calling"]
               /\ calls' = calls \cup {Received(c, h.call)}
               /\ UNCHANGED status
    /\ UNCHANGED <<want, sends, claimed, published, templates, seeding, journal, page>>

\* The runtime's answer: done, or an error of one of the classes the gateway
\* tells apart.
RuntimeAnswers(c) ==
    /\ serving[c] = "calling"
    /\ \E err \in {NoError, "invalid", "notfound", "processnotfound", "failure"} :
          Answer(c, IF err = NoError THEN Handle(want[c]).ok ELSE agentOSError(err))
    /\ UNCHANGED <<want, sends, calls, claimed, published, templates, seeding, journal, page>>

(* --- Templates -------------------------------------------------------------- *)

Insert(account) ==
    templates' = [next |-> templates.next + 1,
                  rows |-> templates.rows \cup {[id |-> templates.next, account |-> account]}]

Owned(account, id) == {row \in templates.rows : row.account = account /\ row.id = id}

\* The YAML's name is the template's name, and a template needs one.
importYAML(c) ==
    /\ serving[c] = "handling" /\ want[c].route = "import"
    /\ LET account == PrincipalFromCtx(want[c]).account
           refused == FirstRefusal(<<Parse(want[c]),
                                     IF want[c].input = "" THEN 400 ELSE 0,
                                     IF want[c].body = "incomplete" THEN 500 ELSE 0>>)
       IN IF refused # 0
          THEN Answer(c, refused) /\ UNCHANGED templates
          ELSE Insert(account) /\ Answer(c, 201)
    /\ UNCHANGED <<want, sends, calls, claimed, published, seeding, journal, page>>

\* list answers 200 whatever it finds; get answers 404 for every failure.
readTemplates(c) ==
    /\ serving[c] = "handling" /\ want[c].route \in {"templates", "template"}
    /\ Answer(c, IF want[c].route = "templates" THEN 200
                 ELSE IF want[c].id = 0 THEN 400
                 ELSE IF Owned(PrincipalFromCtx(want[c]).account, want[c].id) = {} THEN 404
                 ELSE 200)
    /\ UNCHANGED <<want, sends, calls, claimed, published, templates, seeding, journal, page>>

\* The repository's "not found" is not the error the handler tests for.
deleteTemplate(c) ==
    /\ serving[c] = "handling" /\ want[c].route = "deleteTemplate"
    /\ LET owned == Owned(PrincipalFromCtx(want[c]).account, want[c].id)
       IN /\ Answer(c, IF want[c].id = 0 THEN 400 ELSE IF owned = {} THEN 500 ELSE 204)
          /\ templates' = [templates EXCEPT !.rows = @ \ owned]
    /\ UNCHANGED <<want, sends, calls, claimed, published, seeding, journal, page>>

\* EnsureDefault at boot: list the bootstrap account's templates, then create
\* the default one if there was none.
ListDefaults(r) ==
    /\ seeding[r] = "boot"
    /\ seeding' = [seeding EXCEPT ![r] =
          IF \E row \in templates.rows : row.account = "bootstrap" THEN "done" ELSE "create"]
    /\ UNCHANGED <<want, sends, serving, status, calls, claimed, published, templates, journal, page>>

CreateDefault(r) ==
    /\ seeding[r] = "create"
    /\ Insert("bootstrap")
    /\ seeding' = [seeding EXCEPT ![r] = "done"]
    /\ UNCHANGED <<want, sends, serving, status, calls, claimed, published, journal, page>>

(* --- Live events ------------------------------------------------------------- *)

\* run_id may come from the path alone; event id, type and source must be there.
normalize(q) == FirstRefusal(<<Parse(q), IF q.run = "other" THEN 400 ELSE 0, Required(q)>>)


\* SETNX: the first claim of an id wins, and nothing gives one back.
ClaimEvent(c) ==
    /\ serving[c] = "handling" /\ want[c].route = "ingest"
    /\ LET q == want[c]
       IN IF normalize(q) # 0
          THEN Answer(c, normalize(q)) /\ UNCHANGED claimed
          ELSE \/ Answer(c, 500) /\ UNCHANGED claimed
               \/ IF q.event \in claimed
                  THEN Answer(c, 202) /\ UNCHANGED claimed
                  ELSE /\ claimed' = claimed \cup {q.event}
                       /\ serving' = [serving EXCEPT ![c] = "publishing"]
                       /\ UNCHANGED status
    /\ UNCHANGED <<want, sends, calls, published, templates, seeding, journal, page>>

\* Publish to the run's live channel; a failure may or may not have published.
Publish(c) ==
    /\ serving[c] = "publishing"
    /\ \E sent \in BOOLEAN, ok \in BOOLEAN :
          /\ ok => sent
          /\ published' = IF sent THEN [published EXCEPT ![want[c].event] = @ + 1] ELSE published
          /\ Answer(c, IF ok THEN 202 ELSE 500)
    /\ UNCHANGED <<want, sends, calls, claimed, templates, seeding, journal, page>>

(* --- The plan console --------------------------------------------------------- *)

\* The plan commits an event and the status it leaves in one transaction.
PlanAdvances ==
    /\ journal < MaxEvents
    /\ journal' = journal + 1
    /\ UNCHANGED <<want, sends, serving, status, calls, claimed, published, templates, seeding, page>>

DefaultEventLimit == ConsoleMax - 1

\* A limit above the maximum is refused and 0 asks for the default.
agentOSPlanConsoleLimit(requested) == IF requested = 0 THEN DefaultEventLimit ELSE requested

agentOSPlanConsole(c) ==
    /\ serving[c] = "handling" /\ want[c].route = "console"
    /\ LET q == want[c]
           refused == FirstRefusal(<<Parse(q), Required(q), validateAgentOSProjectScope(q),
                                     IF q.limit > ConsoleMax THEN 400 ELSE 0,
                                     tenantFromRequest(q)>>)
       IN IF refused # 0
          THEN Answer(c, refused) /\ UNCHANGED <<page, calls>>
          ELSE /\ serving' = [serving EXCEPT ![c] = "page"]
               /\ page' = [page EXCEPT ![c] = NoPage]
               /\ calls' = calls \cup {Received(c, Call("DescribePlan", tenant(q), ""))}
               /\ UNCHANGED status
    /\ UNCHANGED <<want, sends, claimed, published, templates, seeding, journal>>

\* The runtime's reads of the plan: the row with its status; the first events
\* and the first debug traces, up to the limit.
DescribePlan == journal
ListPlanEvents(limit) == IF journal < limit THEN journal ELSE limit
ListPlanDebugTraces(limit) == IF journal < limit THEN journal ELSE limit

\* The reads of one page, each a transaction of its own, in the code's order:
\* description, events, debug traces, and then artifacts and audits, whose
\* contents the page only shows.
collectPlanConsoleData(pg, limit) ==
    CASE pg.reads = 0 -> [pg EXCEPT !.described = DescribePlan, !.reads = 1]
      [] pg.reads = 1 -> [pg EXCEPT !.events = ListPlanEvents(limit), !.reads = 2]
      [] pg.reads = 2 -> [pg EXCEPT !.traces = ListPlanDebugTraces(limit), !.reads = 3]
      [] OTHER        -> [pg EXCEPT !.reads = @ + 1]

ReadPage(c) ==
    /\ serving[c] = "page" /\ page[c].reads < 5
    /\ page' = [page EXCEPT ![c] = collectPlanConsoleData(@, agentOSPlanConsoleLimit(want[c].limit))]
    /\ UNCHANGED <<want, sends, serving, status, calls, claimed, published, templates, seeding, journal>>

\* Any of the reads may fail, which ends the request.
ReadFails(c) ==
    /\ serving[c] = "page" /\ page[c].reads < 5
    /\ Answer(c, 500)
    /\ page' = [page EXCEPT ![c] = NoPage]
    /\ UNCHANGED <<want, sends, calls, claimed, published, templates, seeding, journal>>

newAgentOSPlanConsoleView(c) ==
    /\ serving[c] = "page" /\ page[c].reads = 5
    /\ Answer(c, 200)
    /\ UNCHANGED <<want, sends, calls, claimed, published, templates, seeding, journal, page>>

Init ==
    /\ \E w \in Workloads :
          /\ want = w.want
          /\ seeding = [r \in Replicas |-> IF r \in w.booting THEN "boot" ELSE "done"]
          /\ journal = w.events
    /\ sends = [c \in Clients |-> 0]
    /\ serving = [c \in Clients |-> "idle"]
    /\ status = [c \in Clients |-> 0]
    /\ calls = {}
    /\ claimed = {}
    /\ published = [e \in {want[c].event : c \in Clients} |-> 0]
    /\ templates = [next |-> 1, rows |-> {}]
    /\ page = [c \in Clients |-> NoPage]

Next ==
    \/ \E c \in Clients :
          \/ Send(c) \/ Route(c) \/ HandleRequest(c) \/ RuntimeAnswers(c)
          \/ importYAML(c) \/ readTemplates(c) \/ deleteTemplate(c)
          \/ ClaimEvent(c) \/ Publish(c)
          \/ agentOSPlanConsole(c) \/ ReadPage(c) \/ ReadFails(c)
          \/ newAgentOSPlanConsoleView(c)
    \/ \E r \in Replicas : ListDefaults(r) \/ CreateDefault(r)
    \/ PlanAdvances

Spec == Init /\ [][Next]_vars

(* --- Properties ---------------------------------------------------------------- *)

\* Whatever account a body claims and however a project is spelled, a runtime is
\* called for the account of the credential and the project that was authorized
\* (tenantFromRequest, applyTenant).  Operations addressed by run id name no
\* project and the run history no account.
CallIsTheCallers ==
    \A k \in calls :
       LET scope == tenant(want[k.by])
       IN /\ k.account \in {scope.account, ""}
          /\ k.project # "" => TrimSpace(k.project) = scope.project
          /\ k.account = "" => k.op = "ListRunEvents"

\* However often and by however many callers an event is ingested, and whichever
\* of those calls failed, it appears on the run's live channel at most once: the
\* claim precedes the publication and is never returned (Ingest, ClaimEvent).
IngestedOnce == \A e \in DOMAIN published : published[e] <= 1

\* A console page never shows a status whose event is missing from its own event
\* table, unless the table is full: the events are read after the description, so
\* a plan that moves on between the five reads can only add events
\* (collectPlanConsoleData).
ConsoleExplainsStatus ==
    \A c \in Clients :
       (want[c].route = "console" /\ status[c] = 200 /\ serving[c] = "idle") =>
          \/ page[c].events >= page[c].described
          \/ page[c].events = agentOSPlanConsoleLimit(want[c].limit)

=============================================================================
