---------------------------- MODULE PlanArtifacts ----------------------------
(***************************************************************************)
(* The artifacts of one plan node: payload bytes in a blob store, metadata *)
(* in Postgres, the activity that claims what a finished run reports, and  *)
(* the mapping that reads an artifact into the input of a later node.      *)
(*                                                                         *)
(* A backend run writes its payloads with Put and reports the references.  *)
(* PublishPlanArtifactsActivity claims each of them once more, with no     *)
(* payload, under a key derived from the run and the name.  Backends,      *)
(* overlapping attempts of the activity and readers are the processes; a   *)
(* database statement, an object request or a file system call is a step.  *)
(***************************************************************************)
EXTENDS Naturals, Sequences, FiniteSets, Functions, TLC

CONSTANTS
    Scenarios,    \* what each process is asked: see the constants of the model
    MaxDeaths     \* processes that die in the middle of a call

VARIABLES
    backing,      \* "local", "s3" or "memory"
    calls,        \* the calls, one per process
    ends,         \* run -> TRUE when it succeeds
    rows,         \* the artifacts table: a sequence of rows, oldest first
    tmp,          \* blob key -> the inode its temporary name leads to, 0 for none
    final,        \* blob key -> the inode its name leads to, 0 for none
    inode,        \* inode -> the bytes in it
    node,         \* [run, registered]: the node's durable run, the run index
    wf,           \* the workflow: [run, phase, attempt]
    published,    \* status.Artifacts of the plan
    loc,          \* process -> its call in progress
    deaths

vars == <<backing, calls, ends, rows, tmp, final, inode, node, wf, published, loc, deaths>>

Procs == DOMAIN calls
Truncated == "truncated"
None == <<>>      \* no id, no key, no address
Lookup(f, k) == IF k \in DOMAIN f THEN f[k] ELSE 0

-----------------------------------------------------------------------------
(* References, payloads and keys.                                          *)

\* The media type an encoded payload is stored under: bytes and text are not
\* left under the JSON default.
EncodeArtifactPayload(payload, media) ==
    LET given == IF media = "" THEN "json" ELSE media
    IN [data |-> payload.body,
        media |-> IF given # "json" THEN given
                  ELSE CASE payload.type = "bytes" -> "octets"
                         [] payload.type = "text" -> "text"
                         [] OTHER -> "json"]

\* Stored bytes as a payload: the media type alone decides its shape.
DecodeArtifactPayload(data, media) ==
    [body |-> data,
     type |-> CASE media \in {"json", ""} -> "object"
                [] media = "text" -> "text"
                [] OTHER -> "bytes"]

NoPayload == [body |-> "", type |-> "none"]

\* The reference with the metadata of the payload it comes with.
encodeArtifactPayload(ref, payload) ==
    IF payload = NoPayload THEN ref
    ELSE LET encoded == EncodeArtifactPayload(payload, ref.media)
         IN [ref EXCEPT !.media = encoded.media, !.digest = encoded.data]

\* What the activity publishes a run's artifact under.
ArtifactPublishIdempotencyKey(run, name) == <<run, name>>

\* The defaults of a reference without an id of its own.
setArtifactRefDefaults(ref, key) == [ref EXCEPT !.id = IF @ = None THEN key ELSE @]

artifactBlobKey(ref) == <<ref.id, ref.digest>>

artifactIdempotencyIdentity(ref) == [ref EXCEPT !.uri = None]

\* A repeated publish must be the request that claimed the key.
ValidateArtifactPublishIdempotency(existing, requested) ==
    /\ existing.id = requested.id
    /\ requested.uri # None => existing.uri = requested.uri
    /\ artifactIdempotencyIdentity(existing) = artifactIdempotencyIdentity(requested)

\* A publish without payload may not claim the metadata of one.
ValidateNewRefOnlyArtifactPublish(ref) == ref.uri = None /\ ref.digest = ""

validateArtifactCreateInput(ref, key) == key # None /\ ref.name # "" /\ ref.kind # ""

\* The references a run reports: each has a name, a kind and an id, and none
\* belongs to another run.
normalizeRunArtifacts(run, refs) ==
    IF \A i \in DOMAIN refs : /\ refs[i].name # "" /\ refs[i].kind # "" /\ refs[i].id # None
                              /\ refs[i].run \in {"", run}
    THEN [i \in DOMAIN refs |-> [refs[i] EXCEPT !.run = run]]
    ELSE <<>>

\* The declared outputs of the node against what was published.
ValidateArtifactsAgainstSpecs(specs, refs) ==
    LET named(name) == {i \in DOMAIN refs : refs[i].name = name}
    IN /\ \A i \in DOMAIN refs : named(refs[i].name) = {i}
       /\ specs # {} =>
            /\ \A i \in DOMAIN refs : \E s \in specs :
                  /\ s.name = refs[i].name /\ s.kind = refs[i].kind
                  /\ s.media # "" => s.media = refs[i].media
            /\ \A s \in specs : s.required => named(s.name) # {}

\* The first reference with the name, in the order of publishing.
findArtifact(refs, name) ==
    LET found == {i \in DOMAIN refs : refs[i].name = name}
    IN IF found = {} THEN 0 ELSE CHOOSE i \in found : \A j \in found : i <= j

-----------------------------------------------------------------------------
(* The tables.                                                             *)

Matching(Test(_)) == SelectSeq(rows, Test)
artifactByIdempotencyKey(key) == Matching(LAMBDA r : r.key = key)
artifactByID(id) == Matching(LAMBDA r : r.ref.id = id)

\* The read of an artifact inside its plan and, when named, its run.
GetArtifactByScope(id, run) ==
    Matching(LAMBDA r : r.ref.id = id /\ (run = "" \/ r.ref.run = run))

\* The node's durable run and its row in the run index.
validateArtifactOwnership(ref) ==
    \/ ref.run = ""
    \/ ref.run = node.run /\ ref.run \in node.registered

\* ON CONFLICT DO NOTHING over the primary key and the tenant's key; the
\* foreign key asks only that the run is registered.
InsertArtifact(ref, key) ==
    IF artifactByID(ref.id) # <<>> \/ artifactByIdempotencyKey(key) # <<>> THEN rows
    ELSE Append(rows, [ref |-> ref, key |-> key, payload |-> NoPayload])

-----------------------------------------------------------------------------
(* A call in progress.                                                     *)

Idle == [pc |-> "idle", ref |-> <<>>, key |-> None, payload |-> NoPayload, todo |-> <<>>, file |-> 0,
         out |-> <<>>, got |-> NoPayload]

Go(p, at) == loc' = [loc EXCEPT ![p].pc = at]
Fail(p) == loc' = [loc EXCEPT ![p] = [Idle EXCEPT !.pc = "failed"]]
Blobs == <<tmp, final, inode>>
Fixed == <<backing, calls, ends>>
Plan == <<node, wf, published>>

\* The end of one Put: the answer of the call, or the next of the activity.
Answered(p, ref) ==
    LET l == loc[p]
        out == Append(l.out, ref)
    IN loc' = [loc EXCEPT ![p] =
         IF l.todo = <<>> THEN [Idle EXCEPT !.pc = "done", !.out = out]
         ELSE [l EXCEPT !.pc = "put", !.out = out, !.payload = NoPayload,
                        !.ref = Head(l.todo), !.todo = Tail(l.todo),
                        !.key = ArtifactPublishIdempotencyKey(Head(l.todo).run, Head(l.todo).name)]]

\* MemoryArtifactStore: the whole Put under its mutex.
MemoryPut(p) ==
    LET l == loc[p]
        ref == setArtifactRefDefaults(l.ref, l.key)
        existing == artifactByIdempotencyKey(l.key)
    IN /\ backing = "memory" /\ l.pc = "put"
       /\ IF ~validateArtifactCreateInput(ref, l.key) THEN Fail(p) /\ UNCHANGED rows
          ELSE IF existing # <<>>
          THEN /\ UNCHANGED rows
               /\ IF ValidateArtifactPublishIdempotency(existing[1].ref, ref)
                  THEN Answered(p, existing[1].ref) ELSE Fail(p)
          ELSE IF \/ l.payload = NoPayload /\ ~ValidateNewRefOnlyArtifactPublish(ref)
                  \/ artifactByID(ref.id) # <<>>
          THEN Fail(p) /\ UNCHANGED rows
          ELSE /\ rows' = Append(rows, [ref |-> ref, key |-> l.key, payload |-> l.payload])
               /\ Answered(p, ref)
       /\ UNCHANGED <<Fixed, Blobs, Plan, deaths>>

\* prepareArtifactPut, first statement: the run must be the node's.
Put(p) ==
    /\ backing # "memory" /\ loc[p].pc = "put"
    /\ IF /\ validateArtifactCreateInput(loc[p].ref, loc[p].key)
          /\ validateArtifactOwnership(loc[p].ref)
       THEN loc' = [loc EXCEPT ![p].pc = "existing",
                               ![p].ref = setArtifactRefDefaults(@, loc[p].key)]
       ELSE Fail(p)
    /\ UNCHANGED <<Fixed, rows, Blobs, Plan, deaths>>

\* A claimed key answers what is stored, when the request is the same.
existingArtifactPublish(p, otherwise) ==
    LET existing == artifactByIdempotencyKey(loc[p].key)
    IN IF existing = <<>> THEN otherwise
       ELSE IF ValidateArtifactPublishIdempotency(existing[1].ref, loc[p].ref)
       THEN Answered(p, existing[1].ref)
       ELSE Fail(p)

prepareArtifactPut(p) ==
    /\ loc[p].pc = "existing"
    /\ existingArtifactPublish(p,
         IF loc[p].payload = NoPayload /\ ~ValidateNewRefOnlyArtifactPublish(loc[p].ref) THEN Fail(p)
         ELSE Go(p, "available"))
    /\ UNCHANGED <<Fixed, rows, Blobs, Plan, deaths>>

validateArtifactIDAvailable(p) ==
    /\ loc[p].pc = "available"
    /\ IF artifactByID(loc[p].ref.id) # <<>> THEN Fail(p)
       ELSE Go(p, IF loc[p].payload = NoPayload THEN "insert" ELSE "blob")
    /\ UNCHANGED <<Fixed, rows, Blobs, Plan, deaths>>

-----------------------------------------------------------------------------
(* The blob stores.                                                        *)

Key(p) == artifactBlobKey(loc[p].ref)

\* The row is written once the payload is stored under its address.
Stored(p) ==
    loc' = [loc EXCEPT ![p].pc = "insert", ![p].ref.uri = Key(p)]

\* S3: one request stores the object whole.
PutObject(p) ==
    /\ backing = "s3" /\ loc[p].pc = "blob"
    /\ final' = Key(p) :> p @@ final
    /\ inode' = [inode EXCEPT ![p] = loc[p].payload.body]
    /\ Stored(p)
    /\ UNCHANGED <<Fixed, rows, tmp, Plan, deaths>>

\* The local store writes a temporary file and renames it.  os.WriteFile opens
\* the file the name leads to, truncating it, and only then writes the bytes.
WriteFileOpens(p) ==
    LET file == IF Lookup(tmp, Key(p)) = 0 THEN p ELSE Lookup(tmp, Key(p))
    IN /\ backing = "local" /\ loc[p].pc = "blob"
       /\ tmp' = Key(p) :> file @@ tmp
       /\ inode' = [inode EXCEPT ![file] = Truncated]
       /\ loc' = [loc EXCEPT ![p].pc = "write", ![p].file = file]
       /\ UNCHANGED <<Fixed, rows, final, Plan, deaths>>

WriteFile(p) ==
    /\ loc[p].pc = "write"
    /\ inode' = [inode EXCEPT ![loc[p].file] = loc[p].payload.body]
    /\ Go(p, "rename")
    /\ UNCHANGED <<Fixed, rows, tmp, final, Plan, deaths>>

\* The rename finds no temporary file when another writer renamed it first.
Rename(p) ==
    /\ loc[p].pc = "rename"
    /\ IF Lookup(tmp, Key(p)) = 0
       THEN Fail(p) /\ UNCHANGED <<tmp, final>>
       ELSE /\ final' = Key(p) :> Lookup(tmp, Key(p)) @@ final
            /\ tmp' = Key(p) :> 0 @@ tmp
            /\ Stored(p)
    /\ UNCHANGED <<Fixed, rows, inode, Plan, deaths>>

-----------------------------------------------------------------------------
(* The row.                                                                *)

\* No row returned means that a unique index holds the key or the id.
resolveArtifactNoRowsConflict(p) ==
    /\ loc[p].pc = "conflict"
    /\ existingArtifactPublish(p, Fail(p))
    /\ UNCHANGED <<Fixed, rows, Blobs, Plan, deaths>>

insertArtifact(p) ==
    LET l == loc[p]
    IN /\ l.pc = "insert"
       /\ IF l.ref.run # "" /\ l.ref.run \notin node.registered
          THEN Fail(p) /\ UNCHANGED rows
          ELSE /\ rows' = InsertArtifact(l.ref, l.key)
               /\ IF rows' = rows THEN Go(p, "conflict") ELSE Answered(p, l.ref)
       /\ UNCHANGED <<Fixed, Blobs, Plan, deaths>>

-----------------------------------------------------------------------------
(* Reading.                                                                *)

\* The bytes are checked against the row before they are decoded.
decodeStoredArtifactPayload(ref, data) ==
    IF data # ref.digest THEN NoPayload ELSE DecodeArtifactPayload(data, ref.media)

\* Get: the row, in the scope of the plan.
Get(p) ==
    LET found == GetArtifactByScope(loc[p].ref.id, "")
    IN /\ loc[p].pc = "get"
       /\ IF found = <<>> THEN Fail(p)
          ELSE loc' = [loc EXCEPT ![p].pc = "load", ![p].ref = found[1].ref]
       /\ UNCHANGED <<Fixed, rows, Blobs, Plan, deaths>>

\* The payload the reader ends up with; a memory store kept the value itself.
Load(p) ==
    LET ref == loc[p].ref
    IN IF ref.digest = "" THEN NoPayload
       ELSE IF backing = "memory" THEN artifactByID(ref.id)[1].payload
       ELSE IF ref.uri = None THEN NoPayload
       ELSE decodeStoredArtifactPayload(ref, inode[Lookup(final, ref.uri)])

\* Get, second half, for the mapping and for the schema check of the activity:
\* neither goes on without a payload.
GetBlob(p) ==
    /\ loc[p].pc = "load"
    /\ IF Load(p) = NoPayload THEN Fail(p)
       ELSE IF calls[p].kind = "publish"
       THEN loc' = [loc EXCEPT ![p].pc = "put", ![p].ref = Head(loc[p].todo),
                     ![p].todo = Tail(loc[p].todo),
                     ![p].key = ArtifactPublishIdempotencyKey(Head(loc[p].todo).run, Head(loc[p].todo).name)]
       ELSE loc' = [loc EXCEPT ![p] = [Idle EXCEPT !.pc = "done", !.got = Load(p), !.ref = loc[p].ref]]
    /\ UNCHANGED <<Fixed, rows, Blobs, Plan, deaths>>

-----------------------------------------------------------------------------
(* The calls.                                                              *)

\* A backend run stores a payload before it reports its end.
BackendPuts(p) ==
    LET c == calls[p]
    IN /\ c.kind = "put" /\ loc[p].pc = "idle"
       /\ c.run = wf.run /\ wf.phase = "run"
       /\ loc' = [loc EXCEPT ![p] = [Idle EXCEPT !.pc = "put", !.payload = c.payload,
                    !.key = c.key, !.ref = encodeArtifactPayload(c.ref, c.payload)]]
       /\ UNCHANGED <<Fixed, rows, Blobs, Plan, deaths>>

\* The references in a run's status: what the store answered its backend.
Reported(run) ==
    LET puts == SelectSeq([p \in Procs |-> p],
                          LAMBDA p : calls[p].kind = "put" /\ calls[p].run = run /\ loc[p].pc = "done")
    IN [i \in DOMAIN puts |-> loc[puts[i]].out[1]]

\* The run ends; its backend processes may still be in a call.
RunEnds ==
    /\ wf.phase = "run"
    /\ \A p \in Procs : calls[p].kind = "put" /\ calls[p].run = wf.run => loc[p].pc # "idle"
    /\ wf' = [wf EXCEPT !.phase = "publish", !.refs = Reported(wf.run)]
    /\ UNCHANGED <<Fixed, rows, Blobs, node, published, loc, deaths>>

\* PublishPlanArtifactsActivity, one attempt.  A succeeded run must meet the
\* contract of the node, and the payload of an output with a schema is read.
PublishPlanArtifactsActivity(p) ==
    LET c == calls[p]
        refs == normalizeRunArtifacts(c.run, wf.refs)
        claim == [Idle EXCEPT !.pc = "put", !.ref = Head(refs), !.todo = Tail(refs),
                   !.key = ArtifactPublishIdempotencyKey(c.run, Head(refs).name)]
    IN /\ c.kind = "publish" /\ loc[p].pc = "idle"
       /\ wf.phase = "publish" /\ c.run = wf.run
       /\ wf' = [wf EXCEPT !.attempt = p]
       /\ IF wf.refs # <<>> /\ refs = <<>> THEN Fail(p)
          ELSE IF ends[c.run] /\ ~ValidateArtifactsAgainstSpecs(c.specs, refs) THEN Fail(p)
          ELSE IF refs = <<>> THEN loc' = [loc EXCEPT ![p].pc = "done"]
          ELSE loc' = [loc EXCEPT ![p] =
                  IF ends[c.run] /\ c.schema
                  THEN [claim EXCEPT !.pc = "get", !.todo = refs] ELSE claim]
       /\ UNCHANGED <<Fixed, rows, Blobs, node, published, deaths>>

\* The workflow takes the answer of the last attempt it started: the failed
\* publish fails the node, references are appended to the plan's status, and
\* a run that failed is retried.
applyNodeRunTerminal ==
    LET p == wf.attempt
        next == IF loc[p].pc = "failed" THEN "failed"
                ELSE IF ends[wf.run] THEN "succeeded"
                ELSE IF wf.run = "r1" THEN "retry" ELSE "failed"
    IN /\ wf.phase = "publish" /\ p # 0 /\ loc[p].pc \in {"done", "failed"}
       /\ published' = published \o loc[p].out
       /\ wf' = [wf EXCEPT !.phase = next, !.attempt = 0, !.refs = <<>>]
       /\ node' = [node EXCEPT !.run = IF next = "retry" THEN "" ELSE @]
       /\ UNCHANGED <<Fixed, rows, Blobs, loc, deaths>>

\* The retried node starts another run, registered before it is the node's.
LaunchRetry ==
    /\ wf.phase = "retry"
    /\ wf' = [wf EXCEPT !.run = "r2", !.phase = "run"]
    /\ node' = [run |-> "r2", registered |-> node.registered \union {"r2"}]
    /\ UNCHANGED <<Fixed, rows, Blobs, published, loc, deaths>>

\* ResolveRunInput of a node that reads this one's artifact.
ResolveRunInput(p) ==
    LET i == findArtifact(published, calls[p].name)
    IN /\ calls[p].kind = "map" /\ loc[p].pc = "idle" /\ wf.phase = "succeeded"
       /\ IF i = 0
          THEN IF calls[p].required THEN Fail(p) ELSE Go(p, "done")
          ELSE loc' = [loc EXCEPT ![p] = [Idle EXCEPT !.pc = "get", !.ref = published[i]]]
       /\ UNCHANGED <<Fixed, rows, Blobs, Plan, deaths>>

\* A process dies in a call, between any two of its steps.
Dies(p) ==
    /\ deaths < MaxDeaths /\ loc[p].pc \notin {"idle", "done", "failed"}
    /\ Fail(p)
    /\ deaths' = deaths + 1
    /\ UNCHANGED <<Fixed, rows, Blobs, Plan>>

-----------------------------------------------------------------------------

Init ==
    /\ \E s \in Scenarios : calls = s.calls /\ ends = s.ends /\ backing = s.backing
    /\ rows = <<>> /\ published = <<>> /\ deaths = 0
    /\ tmp = <<>> /\ final = <<>>
    /\ inode = [p \in Procs |-> Truncated]
    /\ node = [run |-> "r1", registered |-> {"r1"}]
    /\ wf = [run |-> "r1", phase |-> "run", attempt |-> 0, refs |-> <<>>]
    /\ loc = [p \in Procs |-> Idle]

Next ==
    \/ \E p \in Procs :
          \/ MemoryPut(p) \/ Put(p) \/ prepareArtifactPut(p) \/ validateArtifactIDAvailable(p)
          \/ PutObject(p) \/ WriteFileOpens(p) \/ WriteFile(p) \/ Rename(p)
          \/ insertArtifact(p) \/ resolveArtifactNoRowsConflict(p)
          \/ Get(p) \/ GetBlob(p)
          \/ BackendPuts(p) \/ PublishPlanArtifactsActivity(p) \/ ResolveRunInput(p) \/ Dies(p)
    \/ RunEnds \/ applyNodeRunTerminal \/ LaunchRetry

Spec == Init /\ [][Next]_vars

-----------------------------------------------------------------------------
(* Properties.                                                             *)

\* Put: every publish that is answered is answered with the artifact that is
\* stored under its key, and a backend's with the payload it gave, whoever won
\* the race for the key or for the id.
AnswerIsTheArtifact ==
    \A p \in Procs :
       /\ \A i \in DOMAIN loc[p].out : \E r \in Range(rows) : r.ref = loc[p].out[i]
       /\ calls[p].kind = "put" /\ loc[p].pc = "done" =>
            \E r \in Range(rows) :
               /\ r.key = calls[p].key /\ r.ref = loc[p].out[1]
               /\ r.ref.digest = calls[p].payload.body

\* Get: what a later node is given as its input is, in body and in shape, the
\* payload that some run's Put stored under that artifact, never a part of it,
\* although writers of one blob share a temporary file and may die writing it.
ReadIsWhole ==
    \A p \in Procs : calls[p].kind = "map" /\ loc[p].got # NoPayload =>
       \E q \in Procs : /\ calls[q].kind = "put" /\ calls[q].payload = loc[p].got
                        /\ \E r \in Range(rows) : r.ref = loc[p].ref /\ r.key = calls[q].key

\* storePayloadForArtifact: in an object store the bytes of every artifact in
\* the table are there and are the ones its digest names, whatever other Puts
\* for its id were refused, died or lost the race for the row.
PayloadKept ==
    backing = "s3" => \A r \in Range(rows) :
       r.ref.uri # None => inode[Lookup(final, r.ref.uri)] = r.ref.digest
=============================================================================
