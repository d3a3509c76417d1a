------------------------------ MODULE McpServers ------------------------------
(***************************************************************************)
(* The MCP manager of a worker (repo/mcp): concurrent prep activities      *)
(* connect the servers their agents name, under the operator's transport   *)
(* policy, and offer the discovered tools to the model; a tool call goes   *)
(* through the worker's tool registry (repo/toolkit).  Nothing in the      *)
(* program removes a server, so connections last as long as the worker.    *)
(***************************************************************************)
EXTENDS Naturals, Sequences

CONSTANTS
  Preps,        \* prep activities, each with its own list of configurations
  Demands,      \* set of [Preps -> Seq(configuration)]
  Policy,       \* [commands, inherited, configEnv, hosts]: the operator's lists
  Tools,        \* what a server offers, by server name
  Resolutions,  \* address classes a host may resolve to, at each dial
  MaxMcpFaults  \* bound on servers that do not answer

VARIABLES
  demand,       \* the member of Demands that is played
  cfgs,         \* Manager.cfgs: name -> configuration
  servers,      \* Manager.servers: name -> client
  toolMap,      \* Manager.toolMap: tool -> server name
  registry,     \* the toolkit registry: names of tools that can be executed
  clients,      \* clients that were started and not closed
  prep,         \* per activity
  mcpFaults

vars == <<demand, cfgs, servers, toolMap, registry, clients, prep, mcpFaults>>

Put(f, k, v) == [x \in DOMAIN f \union {k} |-> IF x = k THEN v ELSE f[x]]

\* ServerConfig.Validate: a name, a known transport and what it needs.
Validate(cfg) ==
  /\ cfg.name # ""
  /\ \/ cfg.transport = "stdio" /\ cfg.command # ""
     \/ cfg.transport \in {"sse", "streamable-http"} /\ cfg.scheme # ""

authorizeEnv(cfg) == \A key \in cfg.env : key \notin Policy.inherited /\ key \in Policy.configEnv

\* TransportPolicy.Authorize.
Authorize(cfg) ==
  /\ IF cfg.transport = "stdio" THEN cfg.command \in Policy.commands
     ELSE cfg.scheme \in {"http", "https"} /\ cfg.host # ""
  /\ authorizeEnv(cfg)

\* BuildEnv: the host keys the operator listed and the open keys of the config.
BuildEnv(cfg) == Policy.inherited \union (cfg.env \cap Policy.configEnv)

hostAllowed(host) == host \in Policy.hosts

\* dialVerified: the address used is the one that was looked at.
dialVerified(cfg, address) == hostAllowed(cfg.host) \/ address = "public"

IdlePrep(todo) == [pc |-> "next", todo |-> todo, client |-> <<>>, tools |-> {}, offered |-> {}, errs |-> {}]

Refuse(a) ==
  /\ prep' = [prep EXCEPT ![a].todo = Tail(@), ![a].errs = @ \union {Head(prep[a].todo).name}, ![a].pc = "next"]
  /\ UNCHANGED cfgs

serverToolDefs(name) == {t \in DOMAIN toolMap : toolMap[t] = name}

Cached(a, name) ==
  /\ prep' = [prep EXCEPT ![a].todo = Tail(@), ![a].offered = @ \union serverToolDefs(name),
                             ![a].pc = "next"]
  /\ UNCHANGED cfgs

\* Connect: a name that is known is connected with the configuration that was
\* registered under it.
Connect(a, name) ==
  IF name \in DOMAIN servers THEN Cached(a, name)
  ELSE /\ prep' = [prep EXCEPT ![a].pc = "start", ![a].client = <<cfgs[name]>>]
       /\ UNCHANGED cfgs


\* ConnectDynamic: shape, privilege, then the configuration is kept.
ConnectDynamic(a, cfg) ==
  IF ~Validate(cfg) \/ ~Authorize(cfg) THEN Refuse(a)
  ELSE IF cfg.name \in DOMAIN servers THEN Cached(a, cfg.name)
  ELSE /\ cfgs' = Put(cfgs, cfg.name, cfg)
       /\ prep' = [prep EXCEPT ![a].pc = "start", ![a].client = <<cfg>>]

\* EnsureConnected, one configuration: what it decides on is read under the lock,
\* and other activities move before it acts.
EnsureConnected(a) ==
  /\ prep[a].pc = "next" /\ prep[a].todo # <<>>
  /\ prep' = [prep EXCEPT ![a].pc = IF Head(prep[a].todo).name \in DOMAIN cfgs THEN "connect" ELSE "dynamic"]
  /\ UNCHANGED <<demand, cfgs, servers, toolMap, registry, clients, mcpFaults>>

Decide(a) ==
  /\ \/ prep[a].pc = "connect" /\ Connect(a, Head(prep[a].todo).name)
     \/ prep[a].pc = "dynamic" /\ ConnectDynamic(a, Head(prep[a].todo))
  /\ UNCHANGED <<demand, servers, toolMap, registry, clients, mcpFaults>>

\* Client.Start: the subprocess with its environment, or the verified dial, and
\* the handshake.  A server that does not answer leaves nothing behind.
Start(a) ==
  LET cfg == prep[a].client[1] IN
  /\ prep[a].pc = "start"
  /\ \E address \in Resolutions :
       IF cfg.transport # "stdio" /\ ~dialVerified(cfg, address)
       THEN /\ prep' = [prep EXCEPT ![a].pc = "next", ![a].todo = Tail(@), ![a].errs = @ \union {cfg.name}]
            /\ UNCHANGED <<clients, mcpFaults>>
       ELSE \/ /\ prep' = [prep EXCEPT ![a].pc = "list"]
               /\ clients' = clients \union
                    {[by |-> a, cfg |-> cfg,
                      env |-> IF cfg.transport = "stdio" THEN BuildEnv(cfg) ELSE {},
                      address |-> IF cfg.transport = "stdio" THEN "none" ELSE address]}
               /\ UNCHANGED mcpFaults
            \/ /\ mcpFaults < MaxMcpFaults /\ mcpFaults' = mcpFaults + 1
               /\ prep' = [prep EXCEPT ![a].pc = "next", ![a].todo = Tail(@), ![a].errs = @ \union {cfg.name}]
               /\ UNCHANGED clients
  /\ UNCHANGED <<demand, cfgs, servers, toolMap, registry>>

Mine(a) == {c \in clients : c.by = a /\ c.cfg = prep[a].client[1]}

\* ListTools; when it fails the client is closed.
ListTools(a) ==
  LET cfg == prep[a].client[1] IN
  /\ prep[a].pc = "list"
  /\ \/ /\ prep' = [prep EXCEPT ![a].pc = "install", ![a].tools = Tools[cfg.name]]
        /\ UNCHANGED <<clients, mcpFaults>>
     \/ /\ mcpFaults < MaxMcpFaults /\ mcpFaults' = mcpFaults + 1
        /\ prep' = [prep EXCEPT ![a].pc = "next", ![a].todo = Tail(@), ![a].errs = @ \union {cfg.name}]
        /\ clients' = clients \ Mine(a)
  /\ UNCHANGED <<demand, cfgs, servers, toolMap, registry>>

\* The locked end of connectLocked: the client replaces whatever is registered
\* under the name, a tool keeps the server it was first discovered on.  m.registry
\* is never set, so no tool is registered.
connectLocked(a) ==
  LET cfg == prep[a].client[1] IN
  /\ prep[a].pc = "install"
  /\ servers' = Put(servers, cfg.name, CHOOSE c \in Mine(a) : TRUE)
  /\ toolMap' = [t \in DOMAIN toolMap \union prep[a].tools |->
                   IF t \in DOMAIN toolMap THEN toolMap[t] ELSE cfg.name]
  /\ prep' = [prep EXCEPT ![a].pc = "next", ![a].todo = Tail(@), ![a].offered = @ \union prep[a].tools]
  /\ UNCHANGED <<demand, cfgs, registry, clients, mcpFaults>>

\* SetRegistry, at wiring time: registers what was discovered by then, nothing.
SetRegistry == registry = {}

Init ==
  /\ demand \in Demands
  /\ cfgs = <<>> /\ servers = <<>> /\ toolMap = <<>> /\ clients = {}
  /\ SetRegistry
  /\ prep = [a \in Preps |-> IdlePrep(demand[a])]
  /\ mcpFaults = 0

Next == \E a \in Preps : EnsureConnected(a) \/ Decide(a) \/ Start(a) \/ ListTools(a) \/ connectLocked(a)

Spec == Init /\ [][Next]_vars

------------------------------------------------------------------------------

===============================================================================
