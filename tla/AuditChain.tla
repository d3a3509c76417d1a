----------------------------- MODULE AuditChain -----------------------------
(***************************************************************************)
(* The hash chain over one tenant's audit rows.                            *)
(*                                                                         *)
(* A writer (one RecordAudit call) looks its record up, stamps it with the *)
(* time, takes the tenant's advisory lock, reads the hash of the latest    *)
(* row and inserts its own row.  The verifier reads the rows in the order  *)
(* of (created_at, audit_id) and recomputes every hash.                    *)
(*                                                                         *)
(* A hash is the sequence of everything hashed into it, which is what a    *)
(* collision-free hash stands for.  A payload is its value, its layout and *)
(* the notation of its numbers.  jsonb reprints the layout and writes      *)
(* numbers out; the canonical form both sides hash has a layout of its     *)
(* own, but keeps the numbers as they are written.                         *)
(***************************************************************************)
EXTENDS Naturals, FiniteSets, Sequences

CONSTANTS
    Writers,      \* the concurrent RecordAudit calls
    AuditID,      \* the audit id derived from a writer's reference
    Value,        \* the payload a writer records
    Exponent,     \* the writers whose payload has a number with an exponent
    Legacy,       \* ids of rows written before the chain existed
    Precision,    \* clock ticks in one microsecond, the precision stored
    MaxClock,     \* bound on the clock
    MaxRollbacks, \* bound on the transactions that fail or are not answered
    MaxEdits      \* bound on the edits made behind the program's back

AuditAssumption ==
    /\ Writers \subseteq Nat \ {0}
    /\ AuditID \in [Writers -> Nat] /\ Exponent \subseteq Writers
    /\ \A w \in Writers : Value[w] # "edited"
    /\ Legacy \subseteq Nat /\ Legacy \cap {AuditID[w] : w \in Writers} = {}
    /\ IsFiniteSet(Legacy)
    /\ Precision \in Nat \ {0}
    /\ MaxClock \in Nat /\ MaxRollbacks \in Nat /\ MaxEdits \in Nat

Free == 0

VARIABLES
    rows,       \* the audit_logs rows of the tenant
    lock,       \* the holder of the tenant's advisory lock
    pc,         \* where each writer is
    created,    \* the time each writer stamped its record with
    prevHash,   \* the predecessor's hash each writer read
    clock,      \* the latest time read
    rollbacks,
    edited      \* ids of the rows edited behind the program's back

vars == <<rows, lock, pc, created, prevHash, clock, rollbacks, edited>>

-----------------------------------------------------------------------------
(* The canonical form shared by the writer and the verifier.               *)

auditChainTime(t) == t \div Precision
canonicalAuditPayloadMutant(p) == p

\* canonicalizeAuditJSON decodes with UseNumber: a number stays the literal it is.
canonicalAuditPayload(p) == [p EXCEPT !.layout = "canonical"]
jsonb(p) == [p EXCEPT !.layout = "reprinted", !.number = "plain"]

auditRowHash(prev, row) ==
    Append(prev, <<row.id, canonicalAuditPayload(row.payload), row.at>>)

Payload(w) ==
    [value |-> Value[w], layout |-> "caller",
     number |-> IF w \in Exponent THEN "exponent" ELSE "plain"]

\* The order of both queries: created_at, then audit_id.
Before(a, b) == a.at < b.at \/ (a.at = b.at /\ a.id < b.id)

Chained == {r \in rows : r.hash # <<>>}

LatestAuditRowHash ==
    IF Chained = {} THEN <<>>
    ELSE (CHOOSE r \in Chained : \A q \in Chained \ {r} : Before(q, r)).hash

-----------------------------------------------------------------------------
(* The verifier.                                                           *)

Predecessors(r) == {q \in rows : Before(q, r)}

PredecessorHash(r) ==
    IF Predecessors(r) = {} THEN <<>>
    ELSE (CHOOSE q \in Predecessors(r) :
             \A p \in Predecessors(r) \ {q} : Before(p, q)).hash

\* A row at which walkAuditChain reports a break, if it gets that far.
Broken(r) ==
    IF r.hash = <<>>
    THEN \E q \in Predecessors(r) : q.hash # <<>>
    ELSE \/ r.prev # PredecessorHash(r)
         \/ r.hash # auditRowHash(PredecessorHash(r), r)

BrokenAt == {r \in rows : Broken(r) /\ \A q \in Predecessors(r) : ~Broken(q)}

-----------------------------------------------------------------------------
(* RecordAudit.                                                            *)

Init ==
    /\ rows = {[id |-> i,
                payload |-> [value |-> "legacy", layout |-> "reprinted", number |-> "plain"],
                at |-> 0, prev |-> <<>>, hash |-> <<>>, nth |-> 0, by |-> Free] : i \in Legacy}
    /\ lock = Free
    /\ pc = [w \in Writers |-> "lookup"]
    /\ created = [w \in Writers |-> 0]
    /\ prevHash = [w \in Writers |-> <<>>]
    /\ clock = 2 * Precision - 1   \* the last tick of the first microsecond
    /\ rollbacks = 0
    /\ edited = {}

Stored(w) == {r \in rows : r.id = AuditID[w]}

\* A record found under the reference is the answer if it is the same record.
Replayed(w) ==
    IF \E r \in Stored(w) : r.payload.value = Value[w] THEN "replayed" ELSE "conflict"

GoTo(w, place) == pc' = [pc EXCEPT ![w] = place]

\* prepareAuditRecord and existingAuditRecord: answer a replay from the store.
Lookup(w) ==
    /\ pc[w] = "lookup"
    /\ GoTo(w, IF Stored(w) = {} THEN "stamp" ELSE Replayed(w))
    /\ UNCHANGED <<rows, lock, created, prevHash, clock, rollbacks, edited>>

\* setAuditRecordDefaults: the row's time, taken before the lock.
Stamp(w) ==
    /\ pc[w] = "stamp"
    /\ clock' \in clock .. MaxClock
    /\ created' = [created EXCEPT ![w] = clock']
    /\ GoTo(w, "lock")
    /\ UNCHANGED <<rows, lock, prevHash, rollbacks, edited>>

\* pg_advisory_xact_lock
Lock(w) ==
    /\ pc[w] = "lock"
    /\ lock = Free
    /\ lock' = w
    /\ GoTo(w, "read")
    /\ UNCHANGED <<rows, created, prevHash, clock, rollbacks, edited>>

ReadPredecessor(w) ==
    /\ pc[w] = "read"
    /\ prevHash' = [prevHash EXCEPT ![w] = LatestAuditRowHash]
    /\ GoTo(w, "insert")
    /\ UNCHANGED <<rows, lock, created, clock, rollbacks, edited>>

\* nth and by, which row of the table this is and whose, are not stored: the
\* properties use them.
NewRow(w) ==
    LET row == [id |-> AuditID[w], payload |-> Payload(w), at |-> auditChainTime(created[w])]
    IN  [id |-> row.id, payload |-> jsonb(row.payload), at |-> row.at, prev |-> prevHash[w],
         hash |-> auditRowHash(prevHash[w], row), nth |-> Cardinality(rows) + 1, by |-> w]

\* The insert and the commit, or the unique violation, its rollback and the
\* lookup of resolveUniqueInsertConflict.
Insert(w) ==
    /\ pc[w] = "insert"
    /\ lock' = Free
    /\ IF Stored(w) = {}
       THEN /\ rows' = rows \cup {NewRow(w)}
            /\ GoTo(w, "recorded")
       ELSE /\ rows' = rows
            /\ GoTo(w, Replayed(w))
    /\ UNCHANGED <<created, prevHash, clock, rollbacks, edited>>

\* A statement fails: the transaction rolls back, the caller gets the error and
\* records the audit again, as the command reconciler does.
Rollback(w) ==
    /\ pc[w] \in {"lock", "read", "insert"}
    /\ rollbacks < MaxRollbacks
    /\ rollbacks' = rollbacks + 1
    /\ lock' = IF lock = w THEN Free ELSE lock
    /\ GoTo(w, "lookup")
    /\ UNCHANGED <<rows, created, prevHash, clock, edited>>

\* The commit took effect and its answer is lost: the caller gets an error.
CommitUnanswered(w) ==
    /\ pc[w] = "insert" /\ Stored(w) = {}
    /\ rollbacks < MaxRollbacks
    /\ rollbacks' = rollbacks + 1
    /\ rows' = rows \cup {NewRow(w)}
    /\ lock' = Free
    /\ GoTo(w, "lookup")
    /\ UNCHANGED <<created, prevHash, clock, edited>>

\* Somebody changes a stored row with SQL of their own.
Edit(r) ==
    /\ r.id \notin edited
    /\ Cardinality(edited) < MaxEdits
    /\ \E changed \in {[r EXCEPT !.payload.value = "edited"], [r EXCEPT !.at = @ + 1]} :
          rows' = (rows \ {r}) \cup {changed}
    /\ edited' = edited \cup {r.id}
    /\ UNCHANGED <<lock, pc, created, prevHash, clock, rollbacks>>

Record(w) ==
    \/ Lookup(w) \/ Stamp(w) \/ Lock(w) \/ ReadPredecessor(w) \/ Insert(w)

Next ==
    \/ \E w \in Writers : Record(w) \/ Rollback(w) \/ CommitUnanswered(w)
    \/ \E r \in Chained : Edit(r)

Spec == Init /\ [][Next]_vars

-----------------------------------------------------------------------------
(* Properties.                                                             *)

Answers == {"recorded", "replayed", "conflict"}

TypeOK ==
    /\ \A r \in rows :
          r.id \in Nat /\ r.at \in Nat /\ r.nth \in Nat /\ (r.hash = <<>> => r.prev = <<>>)
    /\ lock \in Writers \cup {Free}
    /\ pc \in [Writers -> Answers \cup {"lookup", "stamp", "lock", "read", "insert"}]
    /\ created \in [Writers -> 0 .. MaxClock]
    /\ \A w \in Writers : pc[w] \in {"read", "insert"} => lock = w
    /\ clock \in 0 .. MaxClock
    /\ edited \subseteq {r.id : r \in rows}

\* An edit of a chained row, of its payload or of its time, is visible: the
\* verifier reports a break, wherever the edited row now sorts and whatever was
\* appended after it ("Audit rows are chained so that an edit is visible").
EditVisible == edited # {} => BrokenAt # {}

\* A writer that got an answer other than an error finds its own record stored,
\* once, however its insert raced the insert of the same reference and whether
\* or not an earlier try of its own was committed without an answer.
AnsweredIsStored ==
    \A w \in Writers :
        pc[w] \in {"recorded", "replayed"} =>
            /\ Cardinality(Stored(w)) = 1
            /\ AuditID[w] \notin edited => \E r \in Stored(w) : r.payload.value = Value[w]

AppendedInOrder == \A r, q \in Chained : r.nth < q.nth => Before(r, q)

\* When rows were appended in the order of their stamps and nobody edited one,
\* the chain of insertAuditRecordChained verifies, legacy prefix included; the
\* only row that walkAuditChain may still report is one with a number that jsonb
\* wrote out.
OrderedAppendsVerify ==
    edited = {} /\ AppendedInOrder => \A r \in BrokenAt : r.by \in Exponent

\* The verifier reports no break that no one caused.
NoUncausedBreak == edited = {} => BrokenAt = {}

=============================================================================
