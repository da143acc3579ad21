---------------------------- MODULE IncidentStore ---------------------------
(***************************************************************************)
(* The incident registry as it is built: a dict of live record objects     *)
(* under a lock, written through to SQLite before the lock is released,    *)
(* reloaded when the process starts.                                       *)
(*                                                                         *)
(*   ai_platform/tools/incident_store.py   IncidentStore, IncidentRecord   *)
(*                                                                         *)
(* A step is one bytecode-visible effect: an attribute assignment, the SQL *)
(* statement, the commit.  Threads may switch between any two.  get(),     *)
(* get_by_thread() and list() change nothing and are not modelled.         *)
(***************************************************************************)
EXTENDS Naturals, Sequences

CONSTANTS
    Fingerprints,   \* keys
    Threads,        \* conversation ids uuid4 can mint
    Workers,        \* threads of the server's pool
    None,           \* Python's None and SQL's NULL
    MaxWrites,      \* bound: calls of create() and update()
    MaxFaults,      \* bound: SQLite errors
    MaxRestarts     \* bound: restarts of the process

VARIABLES
    lock,       \* the worker inside the critical section, or None
    memory,     \* _by_fingerprint: the live records
    txn,        \* rows upserted but not committed
    disk,       \* committed rows
    worker,     \* local state of each thread
    writes,     \* calls of create() and update() so far
    faults,     \* SQLite errors so far
    restarts    \* restarts so far

vars == <<lock, memory, txn, disk, worker, writes, faults, restarts>>

\* The abstract registry: what is committed.
Registry == INSTANCE IncidentRegistry WITH table <- disk

ASSUME NoneIsNoValue ==
    None \notin Workers \cup Registry!Row \cup {"report", "action", "failure"}

-----------------------------------------------------------------------------
\* `todo` is what update() has left to assign.
WorkerState ==
    [pc   : {"idle", "assigning", "executing", "committing"},
     fp   : Fingerprints \cup {None},
     todo : Seq(Registry!FieldWrite)]

IdleWorker == [pc |-> "idle", fp |-> None, todo |-> <<>>]

Table == [Fingerprints -> Registry!Row \cup {None}]

NoRows == [f \in Fingerprints |-> None]

\* Type correctness: the dict, the open transaction and the committed rows hold
\* well-formed records for keys of the table and nothing else, whatever is
\* interrupted (IncidentRecord and the incidents table).
TypeOK ==
    /\ lock \in Workers \cup {None}
    /\ memory \in Table
    /\ txn \in Table
    /\ disk \in Table
    /\ worker \in [Workers -> WorkerState]
    /\ writes \in Nat
    /\ faults \in Nat
    /\ restarts \in Nat

Init ==
    /\ lock = None
    /\ memory = NoRows
    /\ txn = NoRows
    /\ disk = NoRows
    /\ worker = [w \in Workers |-> IdleWorker]
    /\ writes = 0
    /\ faults = 0
    /\ restarts = 0

-----------------------------------------------------------------------------
(* create() and update(): one critical section each.                        *)

\* `with self._lock:` on the way in; a thread that waits has done nothing yet.
\* Mutant: no lock.
EnterWithoutLock(w) ==
    /\ worker[w].pc = "idle"
    /\ writes < MaxWrites
    /\ writes' = writes + 1
    /\ lock' = w
Enter(w) ==
    /\ worker[w].pc = "idle"
    /\ lock = None
    /\ writes < MaxWrites
    /\ writes' = writes + 1
    /\ lock' = w

\* The dict gets the new record before the row is written.
Create(w) ==
    /\ Enter(w)
    /\ \E f \in Fingerprints, t \in Threads :
          /\ memory' = [memory EXCEPT ![f] = Registry!NewRow(t)]
          /\ worker' = [worker EXCEPT ![w].pc = "executing", ![w].fp = f]
    /\ UNCHANGED <<txn, disk, faults, restarts>>

\* An update of an unknown fingerprint returns before it writes anything.
Update(w) ==
    /\ Enter(w)
    /\ \E f \in Fingerprints, fields \in Registry!FieldWrites :
          /\ memory[f] # None
          /\ worker' = [worker EXCEPT ![w].pc = "assigning", ![w].fp = f,
                                      ![w].todo = fields]
    /\ UNCHANGED <<memory, txn, disk, faults, restarts>>

\* setattr(record, key, value), one attribute of the live record at a time.
\* Mutant: the last keyword argument is forgotten.
AssignAllButTheLast(w) ==
    /\ worker[w].pc = "assigning"
    /\ LET write == Head(worker[w].todo)
           rest == Tail(worker[w].todo)
       IN  /\ memory' = [memory EXCEPT ![worker[w].fp] = Registry!Set(@, write)]
           /\ worker' = [worker EXCEPT ![w].todo = rest,
                                       ![w].pc = IF Len(rest) <= 1 THEN "executing" ELSE @]
    /\ UNCHANGED <<lock, txn, disk, writes, faults, restarts>>
Assign(w) ==
    /\ worker[w].pc = "assigning"
    /\ LET write == Head(worker[w].todo)
           rest == Tail(worker[w].todo)
       IN  /\ memory' = [memory EXCEPT ![worker[w].fp] = Registry!Set(@, write)]
           /\ worker' = [worker EXCEPT ![w].todo = rest,
                                       ![w].pc = IF rest = <<>> THEN "executing" ELSE @]
    /\ UNCHANGED <<lock, txn, disk, writes, faults, restarts>>

\* The upsert of the whole record, inside the connection's transaction.
\* Mutants: ON CONFLICT leaves thread_id out; the statement forgets a column.
UpsertKeepingThread(f) ==
    IF disk[f] = None THEN memory[f] ELSE [memory[f] EXCEPT !.thread = disk[f].thread]
UpsertWithoutError(f) ==
    [column \in DOMAIN memory[f] \ {"error"} |-> memory[f][column]]
Upsert(f) == memory[f]

Execute(w) ==
    /\ worker[w].pc = "executing"
    /\ txn' = [txn EXCEPT ![worker[w].fp] = Upsert(worker[w].fp)]
    /\ worker' = [worker EXCEPT ![w].pc = "committing"]
    /\ UNCHANGED <<lock, memory, disk, writes, faults, restarts>>

\* `with self._lock:` on the way out, by return or by exception.
Leave(w) ==
    /\ lock' = None
    /\ worker' = [worker EXCEPT ![w] = IdleWorker]

Commit(w) ==
    /\ worker[w].pc = "committing"
    /\ disk' = [f \in Fingerprints |-> IF txn[f] = None THEN disk[f] ELSE txn[f]]
    /\ txn' = NoRows
    /\ Leave(w)
    /\ UNCHANGED <<memory, writes, faults, restarts>>

\* SQLite raises, in the statement or in the commit (which leaves the
\* transaction open); nothing undoes the assignments already made.
SQLiteFails(w) ==
    /\ worker[w].pc \in {"executing", "committing"}
    /\ faults < MaxFaults
    /\ faults' = faults + 1
    /\ Leave(w)
    /\ UNCHANGED <<memory, txn, disk, writes, restarts>>

-----------------------------------------------------------------------------
\* The process dies anywhere, and __init__ rebuilds the dict from the rows.
Restart ==
    /\ restarts < MaxRestarts
    /\ restarts' = restarts + 1
    /\ lock' = None
    /\ memory' = disk
    /\ txn' = NoRows
    /\ worker' = [w \in Workers |-> IdleWorker]
    /\ UNCHANGED <<disk, writes, faults>>

WorkerStep(w) ==
    \/ Create(w) \/ Update(w) \/ Assign(w) \/ Execute(w) \/ Commit(w) \/ SQLiteFails(w)

Next == (\E w \in Workers : WorkerStep(w)) \/ Restart

Spec == Init /\ [][Next]_vars

-----------------------------------------------------------------------------
\* Until SQLite raises, the dict and the table agree whenever no thread is
\* inside a critical section, so a restart between two calls loses nothing and
\* one in the middle of a call undoes just that call (docstring of
\* IncidentStore: the dict is "kept in sync on every write").
MemoryMatchesDisk == lock = None /\ faults = 0 => memory = disk

\* A row whose status agrees with what is stored beside it.
Whole(row) ==
    /\ row.status = "awaiting_approval" => row.pending # None
    /\ row.status = "completed" => row.pending = None /\ row.content # None
    /\ row.status = "error" => row.error # None
    /\ row.status = "investigating" => row = Registry!NewRow(row.thread)

\* Whatever raised and wherever the process died, no row was written in the
\* middle of an update: a row awaiting approval has its action, a completed
\* one its report, a failed one its error, and one under investigation is new
\* (update() assigns and upserts the record under one lock).
RowsAreWhole == \A f \in Fingerprints : disk[f] # None => Whole(disk[f])

\* Until SQLite raises, the store implements the atomic, durable registry its
\* callers are written against: whatever threads interleave and wherever the
\* process dies, each call of create() and update() is one step of it or none.
ImplementsRegistry ==
    Registry!Init /\ [][faults' = 0 => [Registry!Next]_disk]_vars
=============================================================================
