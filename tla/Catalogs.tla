------------------------------- MODULE Catalogs -------------------------------
(***************************************************************************)
(* The capability and artifact schema catalogs.  Every gateway and every   *)
(* worker registers the declarations of its configuration when it starts,  *)
(* and does not start when one of them is refused; replicas of different   *)
(* versions start at the same time and restart at any time.                *)
(*                                                                         *)
(* A declaration holds JSON documents.  Its text is abstracted to the body *)
(* and the order of the keys: a jsonb column gives the body back in an     *)
(* order of its own, and marshalling a raw document keeps the order it has.*)
(***************************************************************************)
EXTENDS Naturals, Sequences, FiniteSets

CONSTANTS
    Replicas,
    Configs,        \* the configurations a replica may be started with
    MaxBoots

VARIABLES
    capability,     \* the tables: name -> [key, json], or None
    schema,
    proc            \* replica -> [pc, boots, config, i, exists]

vars == <<capability, schema, proc>>

\* a configuration declares something, each time a document with a name of its own kind
CatalogAssumption ==
    \A c \in Configs :
       /\ DOMAIN c = 1..Len(c) /\ Len(c) \in Nat \ {0}
       /\ \A i \in DOMAIN c :
             /\ c[i] = [kind |-> c[i].kind, name |-> c[i].name, body |-> c[i].body, order |-> c[i].order]
             /\ c[i].kind \in {"capability", "schema"}

None == [key |-> <<>>, json |-> [order |-> "none"]]
Names == UNION {{c[i].name : i \in DOMAIN c} : c \in Configs}

-----------------------------------------------------------------------------
(* Documents.                                                              *)

\* What the database returns for a stored document.
Jsonb(d) == [d EXCEPT !.order = "jsonb"]

\* canonicalRawJSON: decoded into a map and marshalled with sorted keys.
NormalizeArtifactSchema(d) == [d EXCEPT !.order = "sorted"]

\* The keys are digests of the marshalled declaration.
CapabilityRegistrationIdempotencyKey(d) == <<"capability", d>>
ArtifactSchemaRegistrationIdempotencyKey(d) == <<"artifact_schema", NormalizeArtifactSchema(d)>>

\* A capability is compared as it marshals, an artifact schema once normalized.
ValidateCapabilityRegistrationIdempotency(existing, requested) == existing = requested
ValidateArtifactSchemaRegistrationIdempotency(existing, requested) ==
    NormalizeArtifactSchema(existing) = NormalizeArtifactSchema(requested)

-----------------------------------------------------------------------------
(* The tables.                                                             *)

\* Unique keys: at most one row has it.
ByKey(table, key) == {n \in DOMAIN table : table[n].key = key}

\* A conflicting declaration updates nothing and returns no row.
Upsert(table, name, key, d) ==
    IF table[name] = None \/ table[name].key = key
    THEN [table EXCEPT ![name] = [key |-> key, json |-> Jsonb(d)]]
    ELSE table

-----------------------------------------------------------------------------
(* A replica that starts.                                                  *)

Declared(r) == proc[r].config[proc[r].i]
Is(r, kind, at) == proc[r].pc = at /\ Declared(r).kind = kind

To(r, at) == proc' = [proc EXCEPT ![r].pc = at]
Refused(r) == To(r, "refused")

\* The next declaration of the batch; after the last the replica runs.
Registered(r) ==
    proc' = [proc EXCEPT ![r].pc = IF proc[r].i = Len(proc[r].config) THEN "up" ELSE "byKey",
                         ![r].i = IF @ = Len(proc[r].config) THEN @ ELSE @ + 1]

\* registerAgentOSSchemas, and its counterpart in the worker: capabilities
\* first, then schemas, in the order of the configuration.
Boot(r) ==
    /\ proc[r].pc \in {"down", "refused"} /\ proc[r].boots < MaxBoots
    /\ \E c \in Configs :
          proc' = [proc EXCEPT ![r] = [pc |-> "byKey", boots |-> @.boots + 1, config |-> c, i |-> 1]]
    /\ UNCHANGED <<capability, schema>>

\* Stopped or killed, whatever it was doing.
Stops(r) ==
    /\ proc[r].pc # "down"
    /\ To(r, "down")
    /\ UNCHANGED <<capability, schema>>

\* The row that already has the key decides.
existingCapabilityByIdempotencyKey(r, otherwise) ==
    LET d == Declared(r)
        found == ByKey(capability, CapabilityRegistrationIdempotencyKey(d))
    IN IF found = {} THEN otherwise
       ELSE IF \A n \in found : ValidateCapabilityRegistrationIdempotency(capability[n].json, d)
       THEN Registered(r) ELSE Refused(r)

RegisterCapability(r) ==
    /\ Is(r, "capability", "byKey")
    /\ existingCapabilityByIdempotencyKey(r, To(r, "byName"))
    /\ UNCHANGED <<capability, schema>>

existingCapabilityByName(r) ==
    LET row == capability[Declared(r).name]
    IN /\ Is(r, "capability", "byName")
       /\ IF row = None \/ ValidateCapabilityRegistrationIdempotency(row.json, Declared(r))
          THEN To(r, "upsert") ELSE Refused(r)
       /\ UNCHANGED <<capability, schema>>

\* No row is a conflict; the unique index on the key cannot be met, since the
\* key names the capability.
UpsertCapability(r) ==
    LET d == Declared(r)
        key == CapabilityRegistrationIdempotencyKey(d)
        after == Upsert(capability, d.name, key, d)
    IN /\ Is(r, "capability", "upsert")
       /\ capability' = after
       /\ IF after[d.name].key = key THEN Registered(r) ELSE Refused(r)
       /\ UNCHANGED schema

\* RegisterArtifactSchema, the same three statements over the normalized
\* declaration.
RegisterArtifactSchema(r) ==
    LET d == NormalizeArtifactSchema(Declared(r))
        found == ByKey(schema, ArtifactSchemaRegistrationIdempotencyKey(d))
    IN /\ Is(r, "schema", "byKey")
       /\ IF found = {} THEN To(r, "byName")
          ELSE IF \A n \in found : ValidateArtifactSchemaRegistrationIdempotency(schema[n].json, d)
          THEN Registered(r) ELSE Refused(r)
       /\ UNCHANGED <<capability, schema>>

schemaByRef(r) ==
    LET row == schema[Declared(r).name]
    IN /\ Is(r, "schema", "byName")
       /\ IF row = None \/ ValidateArtifactSchemaRegistrationIdempotency(row.json, Declared(r))
          THEN To(r, "upsert") ELSE Refused(r)
       /\ UNCHANGED <<capability, schema>>

insertSchemaRow(r) ==
    LET d == NormalizeArtifactSchema(Declared(r))
        key == ArtifactSchemaRegistrationIdempotencyKey(d)
        after == Upsert(schema, d.name, key, d)
    IN /\ Is(r, "schema", "upsert")
       /\ schema' = after
       /\ IF after[d.name].key = key THEN Registered(r) ELSE Refused(r)
       /\ UNCHANGED capability

-----------------------------------------------------------------------------

Init ==
    /\ capability = [n \in Names |-> None]
    /\ schema = [n \in Names |-> None]
    /\ proc = [r \in Replicas |-> [pc |-> "down", boots |-> 0, config |-> <<>>, i |-> 0]]

Next ==
    \E r \in Replicas :
       \/ Boot(r) \/ Stops(r)
       \/ RegisterCapability(r) \/ existingCapabilityByName(r) \/ UpsertCapability(r)
       \/ RegisterArtifactSchema(r) \/ schemaByRef(r) \/ insertSchemaRow(r)

Spec == Init /\ [][Next]_vars

-----------------------------------------------------------------------------
(* Properties.                                                             *)

Body(d) == [d EXCEPT !.order = "none"]
Table(kind) == IF kind = "capability" THEN capability ELSE schema

\* RegisterCapabilities, RegisterArtifactSchemas: whatever replicas start at
\* the same time with other versions of a declaration, a replica that is up
\* declared exactly what every reader of the catalog is given.
RunningAgree ==
    \A r \in Replicas : proc[r].pc = "up" =>
       \A i \in DOMAIN proc[r].config :
          LET d == proc[r].config[i] IN Body(Table(d.kind)[d.name].json) = Body(d)

\* RegisterArtifactSchema: a replica is refused over a schema only when the
\* catalog holds another declaration of it, never for the order of its keys or
\* for having registered the same one before.
SchemaRefusedOnConflict ==
    \A r \in Replicas : proc[r].pc = "refused" /\ Declared(r).kind = "schema" =>
       Body(schema[Declared(r).name].json) # Body(Declared(r))

=============================================================================
