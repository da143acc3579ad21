------------------------- MODULE IncidentStoreProofs ------------------------
(***************************************************************************)
(* Theorems about IncidentStore, for every value of its constants: what    *)
(* the lock and the write-through to SQLite are worth.                     *)
(***************************************************************************)
EXTENDS IncidentStore, SequenceTheorems, TLAPS

-----------------------------------------------------------------------------
(* Rows and writes.                                                         *)

\* No field is written twice.
Distinct(fields) ==
    \A i, j \in DOMAIN fields : fields[i][1] = fields[j][1] => i = j

\* A write of an attribute keeps the row well formed and changes that column only.
LEMMA SetType ==
  ASSUME NEW row \in Registry!Row, NEW write \in Registry!FieldWrite
  PROVE  /\ Registry!Set(row, write) \in Registry!Row
         /\ write[1] \in DOMAIN row
BY DEF Registry!Row, Registry!FieldWrite, Registry!Set

\* The calls of update() are sequences of writes, at least one, to distinct fields.
LEMMA FieldWritesType ==
  ASSUME NEW fields \in Registry!FieldWrites
  PROVE  fields \in Seq(Registry!FieldWrite) /\ fields # <<>> /\ Distinct(fields)
<1>1. CASE fields = << <<"status", "resolved">> >>
  BY <1>1 DEF Registry!FieldWrite, Distinct
<1>2. CASE fields = << <<"status", "error">>, <<"error", "failure">> >>
  BY <1>2 DEF Registry!FieldWrite, Distinct
<1>3. CASE fields = << <<"status", "completed">>, <<"content", "report">>,
                       <<"pending", None>> >>
  BY <1>3 DEF Registry!FieldWrite, Distinct
<1>4. CASE fields = << <<"status", "awaiting_approval">>, <<"content", None>>,
                       <<"pending", "action">> >>
  BY <1>4 DEF Registry!FieldWrite, Distinct
<1> QED
  BY <1>1, <1>2, <1>3, <1>4 DEF Registry!FieldWrites

\* Making no write changes nothing.
LEMMA WrittenNothing ==
  ASSUME NEW row \in Registry!Row
  PROVE  Registry!Written(row, <<>>) = row
BY DEF Registry!Written, Registry!Row

\* Making the first write now and the others later is making them all.
LEMMA WrittenOneByOne ==
  ASSUME NEW row \in Registry!Row, NEW fields \in Seq(Registry!FieldWrite),
         fields # <<>>, Distinct(fields)
  PROVE  /\ Registry!Written(Registry!Set(row, Head(fields)), Tail(fields))
                = Registry!Written(row, fields)
         /\ Tail(fields) \in Seq(Registry!FieldWrite)
         /\ Distinct(Tail(fields))
<1> DEFINE first == Head(fields)
           rest == Tail(fields)
           next == Registry!Set(row, first)
<1>1. /\ first \in Registry!FieldWrite /\ first = fields[1]
      /\ rest \in Seq(Registry!FieldWrite)
      /\ DOMAIN fields = 1..Len(fields) /\ Len(fields) \in Nat \ {0}
      /\ DOMAIN rest = 1..(Len(fields) - 1)
      /\ \A i \in DOMAIN rest : rest[i] = fields[i + 1]
  BY HeadTailProperties, LenProperties, EmptySeq
<1>2. Distinct(rest)
  BY <1>1 DEF Distinct
<1>3. /\ DOMAIN next = DOMAIN row
      /\ \A column \in DOMAIN row :
            next[column] = IF column = first[1] THEN first[2] ELSE row[column]
  BY <1>1, SetType DEF Registry!Set
<1>4. ASSUME NEW column \in DOMAIN row
      PROVE  Registry!Written(next, rest)[column] = Registry!Written(row, fields)[column]
  <2>1. CASE column = first[1]
    <3>1. \A i \in DOMAIN fields : fields[i][1] = column <=> i = 1
      BY <1>1, <2>1 DEF Distinct
    <3>2. \A i \in DOMAIN rest : rest[i][1] # column
      BY <1>1, <3>1
    <3> QED
      BY <1>1, <1>3, <1>4, <2>1, <3>1, <3>2 DEF Registry!Written
  <2>2. CASE column # first[1] /\ \E i \in DOMAIN rest : rest[i][1] = column
    <3>1. PICK i \in DOMAIN rest : rest[i][1] = column
      BY <2>2
    <3>2. /\ i + 1 \in DOMAIN fields /\ fields[i + 1][1] = column
          /\ fields[i + 1][2] = rest[i][2]
      BY <1>1, <3>1
    <3>3. \A j \in DOMAIN fields : fields[j][1] = column <=> j = i + 1
      BY <3>2 DEF Distinct
    <3>4. \A j \in DOMAIN rest : rest[j][1] = column <=> j = i
      BY <1>2, <3>1 DEF Distinct
    <3>5. Registry!Written(row, fields)[column] = fields[i + 1][2]
      BY <1>4, <3>2, <3>3 DEF Registry!Written
    <3>6. Registry!Written(next, rest)[column] = rest[i][2]
      BY <1>3, <1>4, <3>1, <3>4 DEF Registry!Written
    <3> QED
      BY <3>2, <3>5, <3>6
  <2>3. CASE column # first[1] /\ ~\E i \in DOMAIN rest : rest[i][1] = column
    <3>1. ~\E i \in DOMAIN fields : fields[i][1] = column
      <4> SUFFICES ASSUME NEW i \in DOMAIN fields, fields[i][1] = column PROVE FALSE
        OBVIOUS
      <4>1. i # 1
        BY <1>1, <2>3
      <4>2. i - 1 \in DOMAIN rest /\ rest[i - 1] = fields[i]
        BY <1>1, <4>1
      <4> QED
        BY <2>3, <4>2
    <3> QED
      BY <1>3, <1>4, <2>3, <3>1 DEF Registry!Written
  <2> QED
    BY <2>1, <2>2, <2>3
<1>5. Registry!Written(next, rest) = Registry!Written(row, fields)
  BY <1>3, <1>4 DEF Registry!Written
<1> QED
  BY <1>1, <1>2, <1>5

\* Whatever a call of update() writes leaves a row that agrees with its status.
LEMMA WrittenIsWhole ==
  ASSUME NEW row \in Registry!Row, NEW fields \in Registry!FieldWrites
  PROVE  /\ Registry!Written(row, fields) \in Registry!Row
         /\ Whole(Registry!Written(row, fields))
BY NoneIsNoValue, SMTT(30) DEF Registry!FieldWrites, Registry!Written, Registry!Row, Whole

\* A new row is well formed and agrees with its status.
LEMMA NewRowType ==
  ASSUME NEW t \in Threads
  PROVE  Registry!NewRow(t) \in Registry!Row /\ Whole(Registry!NewRow(t))
BY DEF Registry!NewRow, Registry!Row, Whole

-----------------------------------------------------------------------------
(* Type correctness, and the lock.                                          *)

\* A thread that is not idle holds the lock, on a record it may write.
WorkInv ==
    \A w \in Workers : worker[w].pc # "idle" =>
        /\ lock = w
        /\ worker[w].fp \in Fingerprints
        /\ memory[worker[w].fp] \in Registry!Row
        /\ worker[w].pc = "assigning" => worker[w].todo # <<>> /\ Distinct(worker[w].todo)

TypeInv == TypeOK /\ WorkInv

\* Nothing is stored and nobody is at work.
LEMMA InitTyped == Init => TypeInv
BY DEF Init, TypeInv, TypeOK, WorkInv, NoRows, Table, WorkerState, IdleWorker

\* What a thread that enters, works or leaves does to the threads.
LEMMA WorkerTyped ==
  ASSUME TypeInv, NEW w \in Workers, NEW x \in WorkerState,
         worker' = [worker EXCEPT ![w] = x],
         \A v \in Workers \ {w} : worker[v].pc = "idle",
         lock' \in Workers \cup {None}, memory' \in Table, txn' \in Table, disk' \in Table,
         writes' \in Nat, faults' \in Nat, restarts' \in Nat,
         x.pc # "idle" =>
             /\ lock' = w
             /\ x.fp \in Fingerprints
             /\ memory'[x.fp] \in Registry!Row
             /\ x.pc = "assigning" => x.todo # <<>> /\ Distinct(x.todo)
  PROVE  TypeInv'
<1>1. TypeOK'
  BY DEF TypeInv, TypeOK
<1>2. worker'[w] = x /\ \A v \in Workers \ {w} : worker'[v] = worker[v]
  BY DEF TypeInv, TypeOK
<1>3. WorkInv'
  BY <1>2 DEF WorkInv
<1> QED
  BY <1>1, <1>3 DEF TypeInv

\* The others are idle while one is at work, or enters.
LEMMA OthersAreIdle ==
  ASSUME TypeInv, NEW w \in Workers, WorkerStep(w)
  PROVE  \A v \in Workers \ {w} : worker[v].pc = "idle"
<1>1. lock = None \/ lock = w
  BY DEF TypeInv, WorkInv, WorkerStep, Create, Update, Enter, Assign, Execute, Commit,
         SQLiteFails
<1> QED
  BY <1>1, NoneIsNoValue DEF TypeInv, WorkInv

\* Every step of a thread keeps the threads and the tables well formed.
LEMMA WorkerStepTyped ==
  ASSUME TypeInv, NEW w \in Workers, WorkerStep(w)
  PROVE  TypeInv'
<1>1. /\ TypeOK /\ worker[w] \in WorkerState
      /\ \A v \in Workers \ {w} : worker[v].pc = "idle"
  BY OthersAreIdle DEF TypeInv, TypeOK
<1>2. CASE Create(w)
  <2>1. PICK f \in Fingerprints, t \in Threads :
          /\ memory' = [memory EXCEPT ![f] = Registry!NewRow(t)]
          /\ worker' = [worker EXCEPT ![w].pc = "executing", ![w].fp = f]
    BY <1>2 DEF Create
  <2> DEFINE x == [worker[w] EXCEPT !.pc = "executing", !.fp = f]
  <2>2. x \in WorkerState /\ x.pc = "executing" /\ x.fp = f
    BY <1>1 DEF WorkerState
  <2>3. memory' \in Table /\ memory'[f] \in Registry!Row
    BY <1>1, <2>1, NewRowType DEF TypeOK, Table
  <2>4. worker' = [worker EXCEPT ![w] = x]
    BY <2>1
  <2>5. /\ lock' = w /\ writes' \in Nat
        /\ UNCHANGED <<txn, disk, faults, restarts>>
    BY <1>1, <1>2 DEF Create, Enter, TypeOK
  <2> QED
    BY <1>1, <2>2, <2>3, <2>4, <2>5, WorkerTyped DEF TypeOK
<1>3. CASE Update(w)
  <2>1. PICK f \in Fingerprints, fields \in Registry!FieldWrites :
          /\ memory[f] # None
          /\ worker' = [worker EXCEPT ![w].pc = "assigning", ![w].fp = f,
                                      ![w].todo = fields]
    BY <1>3 DEF Update
  <2> DEFINE x == [worker[w] EXCEPT !.pc = "assigning", !.fp = f, !.todo = fields]
  <2>2. /\ x \in WorkerState /\ x.fp = f /\ x.todo = fields
        /\ fields # <<>> /\ Distinct(fields)
    BY <1>1, FieldWritesType DEF WorkerState
  <2>3. memory[f] \in Registry!Row
    BY <1>1, <2>1 DEF TypeOK, Table
  <2>4. worker' = [worker EXCEPT ![w] = x]
    BY <2>1
  <2>5. /\ lock' = w /\ writes' \in Nat
        /\ UNCHANGED <<memory, txn, disk, faults, restarts>>
    BY <1>1, <1>3 DEF Update, Enter, TypeOK
  <2> QED
    BY <1>1, <2>2, <2>3, <2>4, <2>5, WorkerTyped DEF TypeOK
<1>4. CASE Assign(w)
  <2> DEFINE f == worker[w].fp
             row == memory[f]
             todo == worker[w].todo
             x == [worker[w] EXCEPT !.todo = Tail(todo),
                                    !.pc = IF Tail(todo) = <<>> THEN "executing" ELSE @]
  <2>1. /\ lock = w /\ f \in Fingerprints /\ row \in Registry!Row
        /\ todo \in Seq(Registry!FieldWrite) /\ todo # <<>> /\ Distinct(todo)
    BY <1>1, <1>4 DEF Assign, TypeInv, WorkInv, WorkerState
  <2>2. /\ Tail(todo) \in Seq(Registry!FieldWrite) /\ Distinct(Tail(todo))
        /\ Registry!Set(row, Head(todo)) \in Registry!Row
    BY <2>1, WrittenOneByOne, HeadTailProperties, SetType
  <2>3. /\ memory' = [memory EXCEPT ![f] = Registry!Set(row, Head(todo))]
        /\ worker' = [worker EXCEPT ![w] = x]
        /\ UNCHANGED <<lock, txn, disk, writes, faults, restarts>>
    BY <1>4 DEF Assign
  <2>4. /\ x \in WorkerState /\ x.fp = f /\ x.todo = Tail(todo)
        /\ x.pc = "assigning" => Tail(todo) # <<>>
    BY <1>1, <2>2 DEF WorkerState
  <2>5. memory' \in Table /\ memory'[f] \in Registry!Row
    BY <1>1, <2>1, <2>2, <2>3 DEF TypeOK, Table
  <2> QED
    BY <1>1, <2>1, <2>2, <2>3, <2>4, <2>5, WorkerTyped DEF TypeOK
<1>5. CASE Execute(w)
  <2> DEFINE f == worker[w].fp
             x == [worker[w] EXCEPT !.pc = "committing"]
  <2>1. lock = w /\ f \in Fingerprints /\ memory[f] \in Registry!Row
    BY <1>5 DEF Execute, TypeInv, WorkInv
  <2>2. /\ txn' = [txn EXCEPT ![f] = memory[f]]
        /\ worker' = [worker EXCEPT ![w] = x]
        /\ UNCHANGED <<lock, memory, disk, writes, faults, restarts>>
    BY <1>5 DEF Execute, Upsert
  <2>3. x \in WorkerState /\ x.pc = "committing" /\ x.fp = f
    BY <1>1 DEF WorkerState
  <2>4. txn' \in Table
    BY <1>1, <2>1, <2>2 DEF TypeOK, Table
  <2> QED
    BY <1>1, <2>1, <2>2, <2>3, <2>4, WorkerTyped DEF TypeOK
<1>6. IdleWorker \in WorkerState /\ IdleWorker.pc = "idle"
  BY DEF IdleWorker, WorkerState
<1>7. CASE Commit(w)
  <2>1. disk' \in Table /\ txn' \in Table
    BY <1>1, <1>7 DEF Commit, TypeOK, Table, NoRows
  <2>2. /\ lock' = None /\ worker' = [worker EXCEPT ![w] = IdleWorker]
        /\ UNCHANGED <<memory, writes, faults, restarts>>
    BY <1>7 DEF Commit, Leave
  <2> QED
    BY <1>1, <1>6, <2>1, <2>2, WorkerTyped DEF TypeOK
<1>8. CASE SQLiteFails(w)
  <2>1. /\ lock' = None /\ worker' = [worker EXCEPT ![w] = IdleWorker]
        /\ faults' \in Nat
        /\ UNCHANGED <<memory, txn, disk, writes, restarts>>
    BY <1>1, <1>8 DEF SQLiteFails, Leave, TypeOK
  <2> QED
    BY <1>1, <1>6, <2>1, WorkerTyped DEF TypeOK
<1> QED
  BY <1>2, <1>3, <1>4, <1>5, <1>7, <1>8 DEF WorkerStep

\* So does a restart, and so does every step.
LEMMA NextTyped == TypeInv /\ [Next]_vars => TypeInv'
<1> SUFFICES ASSUME TypeInv, [Next]_vars PROVE TypeInv'
  OBVIOUS
<1>1. CASE \E w \in Workers : WorkerStep(w)
  BY <1>1, WorkerStepTyped
<1>2. CASE Restart
  BY <1>2 DEF Restart, TypeInv, TypeOK, WorkInv, NoRows, Table, WorkerState, IdleWorker
<1>3. CASE UNCHANGED vars
  BY <1>3 DEF vars, TypeInv, TypeOK, WorkInv
<1> QED
  BY <1>1, <1>2, <1>3 DEF Next

\* At most one thread is at work, on well-formed rows, in every reachable state.
LEMMA TypeInvariant == Spec => []TypeInv
BY InitTyped, NextTyped, PTL DEF Spec

\* Type correctness: the dict, the open transaction and the committed rows stay
\* well formed, whatever raises and whenever the process dies.
THEOREM TypeCorrect == Spec => []TypeOK
<1>1. TypeInv => TypeOK
  BY DEF TypeInv
<1> QED
  BY <1>1, TypeInvariant, PTL

-----------------------------------------------------------------------------
(* The dict and the table.                                                  *)

\* A row that one call of update() makes of the committed one, ...
IsUpdate(before, row) ==
    /\ before # None
    /\ \E fields \in Registry!FieldWrites : row = Registry!Written(before, fields)

\* ... or one that a call of create() makes.
IsCall(before, row) ==
    IsUpdate(before, row) \/ \E t \in Threads : row = Registry!NewRow(t)

\* Until SQLite raises: the dict and the table differ at most in the record the
\* thread at work writes, nothing else is in the open transaction, and what
\* this thread will commit is the effect of one call.
SyncInv ==
    faults = 0 =>
        /\ lock = None => memory = disk /\ txn = NoRows
        /\ \A w \in Workers : worker[w].pc # "idle" =>
              LET f == worker[w].fp
              IN  /\ \A g \in Fingerprints \ {f} : memory[g] = disk[g] /\ txn[g] = None
                  /\ txn[f] = IF worker[w].pc = "committing" THEN memory[f] ELSE None
                  /\ IF worker[w].pc = "assigning"
                     THEN IsUpdate(disk[f], Registry!Written(memory[f], worker[w].todo))
                     ELSE IsCall(disk[f], memory[f])

\* At the start both are empty.
LEMMA InitSync == Init => SyncInv
BY DEF Init, SyncInv, IdleWorker

\* A thread at work, and the step that ends its work, keep them in step.
LEMMA WorkerStepKeepsSync ==
  ASSUME TypeInv, SyncInv, NEW w \in Workers, WorkerStep(w), faults' = 0
  PROVE  SyncInv'
<1>1. /\ TypeOK /\ worker[w] \in WorkerState
      /\ \A v \in Workers \ {w} : worker[v].pc = "idle"
  BY OthersAreIdle DEF TypeInv, TypeOK
<1>2. faults = 0
  <2>1. ~SQLiteFails(w)
    BY <1>1 DEF SQLiteFails, TypeOK
  <2> QED
    BY <2>1 DEF WorkerStep, Create, Update, Assign, Execute, Commit
<1>3. ASSUME NEW x, NEW f, x.pc # "idle", x.fp = f,
             worker' = [worker EXCEPT ![w] = x], lock' = w,
             \A g \in Fingerprints \ {f} : memory'[g] = disk'[g] /\ txn'[g] = None,
             txn'[f] = IF x.pc = "committing" THEN memory'[f] ELSE None,
             x.pc = "assigning" => IsUpdate(disk'[f], Registry!Written(memory'[f], x.todo)),
             x.pc # "assigning" => IsCall(disk'[f], memory'[f])
      PROVE  SyncInv'
  <2>1. worker'[w] = x /\ \A v \in Workers \ {w} : worker'[v].pc = "idle"
    BY <1>1, <1>3 DEF TypeOK
  <2>2. lock' # None
    BY <1>3, NoneIsNoValue
  <2> QED
    BY <1>3, <2>1, <2>2 DEF SyncInv
<1>4. ASSUME Enter(w)
      PROVE  memory = disk /\ txn = NoRows
  BY <1>2, <1>4 DEF Enter, SyncInv
<1>5. CASE Create(w)
  <2>1. PICK f \in Fingerprints, t \in Threads :
          /\ memory' = [memory EXCEPT ![f] = Registry!NewRow(t)]
          /\ worker' = [worker EXCEPT ![w].pc = "executing", ![w].fp = f]
    BY <1>5 DEF Create
  <2> DEFINE x == [worker[w] EXCEPT !.pc = "executing", !.fp = f]
  <2>2. x.pc = "executing" /\ x.fp = f
    BY <1>1 DEF WorkerState
  <2>3. worker' = [worker EXCEPT ![w] = x] /\ lock' = w /\ UNCHANGED <<txn, disk>>
    BY <1>5, <2>1 DEF Create, Enter
  <2>4. /\ memory'[f] = Registry!NewRow(t)
        /\ \A g \in Fingerprints \ {f} : memory'[g] = disk'[g]
        /\ \A g \in Fingerprints : txn'[g] = None
    BY <1>1, <1>4, <1>5, <2>1, <2>3 DEF Create, TypeOK, Table, NoRows
  <2>5. IsCall(disk'[f], memory'[f])
    BY <2>4 DEF IsCall
  <2> QED
    BY <1>3, <2>2, <2>3, <2>4, <2>5
<1>6. CASE Update(w)
  <2>1. PICK f \in Fingerprints, fields \in Registry!FieldWrites :
          /\ memory[f] # None
          /\ worker' = [worker EXCEPT ![w].pc = "assigning", ![w].fp = f,
                                      ![w].todo = fields]
    BY <1>6 DEF Update
  <2> DEFINE x == [worker[w] EXCEPT !.pc = "assigning", !.fp = f, !.todo = fields]
  <2>2. x.pc = "assigning" /\ x.fp = f /\ x.todo = fields
    BY <1>1 DEF WorkerState
  <2>3. /\ worker' = [worker EXCEPT ![w] = x] /\ lock' = w
        /\ UNCHANGED <<memory, txn, disk>>
    BY <1>6, <2>1 DEF Update, Enter
  <2>4. memory = disk /\ txn = NoRows
    BY <1>4, <1>6 DEF Update
  <2>5. IsUpdate(disk'[f], Registry!Written(memory'[f], x.todo))
    BY <2>1, <2>2, <2>3, <2>4 DEF IsUpdate
  <2>6. \A g \in Fingerprints : memory'[g] = disk'[g] /\ txn'[g] = None
    BY <2>3, <2>4 DEF NoRows
  <2>7. worker' = [worker EXCEPT ![w] = x] /\ lock' = w
    BY <2>3
  <2> HIDE DEF x
  <2> QED
    BY <1>3, <2>2, <2>5, <2>6, <2>7
<1>7. ASSUME worker[w].pc # "idle"
      PROVE  LET f == worker[w].fp
             IN  /\ lock = w /\ f \in Fingerprints /\ memory[f] \in Registry!Row
                 /\ \A g \in Fingerprints \ {f} : memory[g] = disk[g] /\ txn[g] = None
                 /\ txn[f] = IF worker[w].pc = "committing" THEN memory[f] ELSE None
                 /\ IF worker[w].pc = "assigning"
                    THEN IsUpdate(disk[f], Registry!Written(memory[f], worker[w].todo))
                    ELSE IsCall(disk[f], memory[f])
  BY <1>2, <1>7 DEF SyncInv, TypeInv, WorkInv
<1>8. CASE Assign(w)
  <2> DEFINE f == worker[w].fp
             row == memory[f]
             todo == worker[w].todo
             x == [worker[w] EXCEPT !.todo = Tail(todo),
                                    !.pc = IF Tail(todo) = <<>> THEN "executing" ELSE @]
  <2>1. /\ todo \in Seq(Registry!FieldWrite) /\ todo # <<>> /\ Distinct(todo)
        /\ worker[w].pc = "assigning"
    BY <1>1, <1>8 DEF Assign, TypeInv, WorkInv, WorkerState
  <2>2. /\ memory' = [memory EXCEPT ![f] = Registry!Set(row, Head(todo))]
        /\ worker' = [worker EXCEPT ![w] = x]
        /\ UNCHANGED <<lock, txn, disk>>
    BY <1>8 DEF Assign
  <2>3. /\ x.fp = f /\ x.todo = Tail(todo)
        /\ x.pc = IF Tail(todo) = <<>> THEN "executing" ELSE "assigning"
    BY <1>1, <2>1 DEF WorkerState
  <2>4. /\ memory'[f] = Registry!Set(row, Head(todo))
        /\ \A g \in Fingerprints \ {f} : memory'[g] = memory[g]
    BY <1>1, <1>7, <2>1, <2>2 DEF TypeOK, Table
  <2>5. /\ \A g \in Fingerprints \ {f} : memory'[g] = disk'[g] /\ txn'[g] = None
        /\ txn'[f] = None /\ lock' = w /\ worker' = [worker EXCEPT ![w] = x]
    BY <1>7, <2>1, <2>2, <2>4
  <2>6. /\ Registry!Written(memory'[f], Tail(todo)) = Registry!Written(row, todo)
        /\ memory'[f] \in Registry!Row
    BY <1>7, <2>1, <2>4, WrittenOneByOne, HeadTailProperties, SetType
  <2>7. IsUpdate(disk[f], Registry!Written(memory'[f], Tail(todo)))
    BY <1>7, <2>1, <2>6
  <2> HIDE DEF x
  <2>8. CASE Tail(todo) = <<>>
    <3>1. IsUpdate(disk[f], memory'[f])
      BY <2>6, <2>7, <2>8, WrittenNothing
    <3>2. IsCall(disk'[f], memory'[f])
      BY <2>2, <3>1 DEF IsCall, IsUpdate
    <3>3. x.pc = "executing"
      BY <2>3, <2>8
    <3> QED
      BY <1>3, <2>3, <2>5, <3>2, <3>3
  <2>9. CASE Tail(todo) # <<>>
    <3>1. IsUpdate(disk'[f], Registry!Written(memory'[f], x.todo))
      BY <2>2, <2>3, <2>7 DEF IsUpdate
    <3>2. x.pc = "assigning"
      BY <2>3, <2>9
    <3> QED
      BY <1>3, <2>3, <2>5, <3>1, <3>2
  <2> QED
    BY <2>8, <2>9
<1>9. CASE Execute(w)
  <2> DEFINE f == worker[w].fp
             x == [worker[w] EXCEPT !.pc = "committing"]
  <2>1. /\ worker[w].pc = "executing"
        /\ txn' = [txn EXCEPT ![f] = memory[f]]
        /\ worker' = [worker EXCEPT ![w] = x]
        /\ UNCHANGED <<lock, memory, disk>>
    BY <1>9 DEF Execute, Upsert
  <2>2. x.pc = "committing" /\ x.fp = f
    BY <1>1 DEF WorkerState
  <2>3. /\ txn'[f] = memory'[f] /\ lock' = w /\ worker' = [worker EXCEPT ![w] = x]
        /\ \A g \in Fingerprints \ {f} : memory'[g] = disk'[g] /\ txn'[g] = None
    BY <1>1, <1>7, <2>1 DEF TypeOK, Table
  <2>4. IsCall(disk'[f], memory'[f])
    BY <1>7, <2>1 DEF IsCall, IsUpdate
  <2> HIDE DEF x
  <2> QED
    BY <1>3, <2>2, <2>3, <2>4
<1>10. CASE Commit(w)
  <2>1. /\ worker[w].pc = "committing"
        /\ disk' = [f \in Fingerprints |-> IF txn[f] = None THEN disk[f] ELSE txn[f]]
        /\ txn' = NoRows /\ lock' = None /\ UNCHANGED memory
        /\ worker' = [worker EXCEPT ![w] = IdleWorker]
    BY <1>10 DEF Commit, Leave
  <2>2. \A v \in Workers : worker'[v].pc = "idle"
    BY <1>1, <2>1 DEF TypeOK, IdleWorker
  <2>3. \A f \in Fingerprints : disk'[f] = memory[f]
    BY <1>7, <2>1, NoneIsNoValue
  <2>4. memory' = disk'
    BY <1>1, <2>1, <2>3 DEF TypeOK, Table
  <2> QED
    BY <2>1, <2>2, <2>4 DEF SyncInv
<1>11. ~SQLiteFails(w)
  BY <1>1 DEF SQLiteFails, TypeOK
<1> QED
  BY <1>5, <1>6, <1>8, <1>9, <1>10, <1>11 DEF WorkerStep

\* Every step does, a restart by rebuilding the dict from the table.
LEMMA NextKeepsSync == TypeInv /\ SyncInv /\ [Next]_vars => SyncInv'
<1> SUFFICES ASSUME TypeInv, SyncInv, [Next]_vars, faults' = 0 PROVE SyncInv'
  BY DEF SyncInv
<1>1. CASE \E w \in Workers : WorkerStep(w)
  BY <1>1, WorkerStepKeepsSync
<1>2. CASE Restart
  BY <1>2 DEF Restart, SyncInv, IdleWorker
<1>3. CASE UNCHANGED vars
  BY <1>3 DEF vars, SyncInv, IsCall, IsUpdate
<1> QED
  BY <1>1, <1>2, <1>3 DEF Next

\* The dict and the table are in step in every reachable state.
LEMMA SyncInvariant == Spec => []SyncInv
BY InitSync, TypeInvariant, NextKeepsSync, PTL DEF Spec

\* Until SQLite raises, nothing the dict holds between two calls would be lost
\* in a restart.
THEOREM DictIsInSync == Spec => []MemoryMatchesDisk
<1>1. SyncInv => MemoryMatchesDisk
  BY DEF SyncInv, MemoryMatchesDisk
<1> QED
  BY <1>1, SyncInvariant, PTL

\* Until SQLite raises, the store implements the atomic, durable registry: every
\* commit is one of its steps, and every other step a stutter.
THEOREM StoreIsRegistry == Spec => ImplementsRegistry
<1>1. Init => Registry!Init
  BY DEF Init, Registry!Init, NoRows
<1>2. ASSUME TypeInv, SyncInv, [Next]_vars, faults' = 0
      PROVE  [Registry!Next]_disk
  <2>1. CASE UNCHANGED disk
    BY <2>1
  <2>2. CASE ~UNCHANGED disk
    <3>1. PICK w \in Workers : Commit(w)
      BY <1>2, <2>2 DEF Next, vars, WorkerStep, Create, Update, Assign, Execute, SQLiteFails,
                        Restart
    <3> DEFINE f == worker[w].fp
    <3>2. /\ f \in Fingerprints /\ memory[f] \in Registry!Row
          /\ txn[f] = memory[f] /\ \A g \in Fingerprints \ {f} : txn[g] = None
          /\ IsCall(disk[f], memory[f])
      BY <1>2, <3>1 DEF Commit, SyncInv, TypeInv, WorkInv
    <3>3. disk' = [disk EXCEPT ![f] = memory[f]]
      BY <1>2, <3>1, <3>2, NoneIsNoValue DEF Commit, TypeInv, TypeOK, Table
    <3>4. CASE IsUpdate(disk[f], memory[f])
      BY <3>2, <3>3, <3>4 DEF IsUpdate, Registry!Next, Registry!Update
    <3>5. CASE \E t \in Threads : memory[f] = Registry!NewRow(t)
      BY <3>2, <3>3, <3>5 DEF Registry!Next, Registry!Create
    <3> QED
      BY <3>2, <3>4, <3>5 DEF IsCall
  <2> QED
    BY <2>1, <2>2
<1> QED
  BY <1>1, <1>2, TypeInvariant, SyncInvariant, PTL DEF Spec, ImplementsRegistry

-----------------------------------------------------------------------------
(* Rows are whole, whatever raises.                                         *)

\* Committed and uncommitted rows are whole; so are the records of the dict,
\* but for one being assigned, which its remaining assignments make whole.
WholeInv ==
    /\ \A f \in Fingerprints : disk[f] # None => Whole(disk[f])
    /\ \A f \in Fingerprints : txn[f] # None => Whole(txn[f])
    /\ \A f \in Fingerprints : memory[f] # None =>
          \/ Whole(memory[f])
          \/ \E w \in Workers : worker[w].pc = "assigning" /\ worker[w].fp = f
    /\ \A w \in Workers : worker[w].pc = "assigning" =>
          Whole(Registry!Written(memory[worker[w].fp], worker[w].todo))

\* A thread at work keeps it.
LEMMA WorkerStepKeepsWhole ==
  ASSUME TypeInv, WholeInv, NEW w \in Workers, WorkerStep(w)
  PROVE  WholeInv'
<1>1. /\ TypeOK /\ worker[w] \in WorkerState
      /\ \A v \in Workers \ {w} : worker[v].pc = "idle"
  BY OthersAreIdle DEF TypeInv, TypeOK
<1>2. \A v \in Workers \ {w} : worker'[v] = worker[v]
  BY <1>1 DEF TypeOK, WorkerStep, Create, Update, Assign, Execute, Commit, SQLiteFails, Leave
<1>3. CASE Create(w)
  <2>1. PICK f \in Fingerprints, t \in Threads :
          /\ memory' = [memory EXCEPT ![f] = Registry!NewRow(t)]
          /\ worker' = [worker EXCEPT ![w].pc = "executing", ![w].fp = f]
    BY <1>3 DEF Create
  <2>2. worker[w].pc = "idle" /\ worker'[w].pc = "executing" /\ UNCHANGED <<txn, disk>>
    BY <1>1, <1>3, <2>1 DEF Create, Enter, TypeOK, WorkerState
  <2>3. /\ Whole(memory'[f])
        /\ \A g \in Fingerprints \ {f} : memory'[g] = memory[g]
    BY <1>1, <2>1, NewRowType DEF TypeOK, Table
  <2> QED
    BY <1>1, <1>2, <2>2, <2>3 DEF WholeInv, Whole
<1>4. CASE Update(w)
  <2>1. PICK f \in Fingerprints, fields \in Registry!FieldWrites :
          /\ memory[f] # None
          /\ worker' = [worker EXCEPT ![w].pc = "assigning", ![w].fp = f,
                                      ![w].todo = fields]
    BY <1>4 DEF Update
  <2>2. /\ worker[w].pc = "idle" /\ UNCHANGED <<memory, txn, disk>>
        /\ worker'[w].fp = f /\ worker'[w].todo = fields
    BY <1>1, <1>4, <2>1 DEF Update, Enter, TypeOK, WorkerState
  <2>3. Whole(Registry!Written(memory[f], fields))
    BY <1>1, <2>1, WrittenIsWhole DEF TypeOK, Table
  <2> QED
    BY <1>1, <1>2, <2>2, <2>3 DEF WholeInv, Whole
<1>5. CASE Assign(w)
  <2>1. PICK f, row, todo : f = worker[w].fp /\ row = memory[f] /\ todo = worker[w].todo
    OBVIOUS
  <2>2. /\ worker[w].pc = "assigning" /\ f \in Fingerprints /\ row \in Registry!Row
        /\ todo \in Seq(Registry!FieldWrite) /\ todo # <<>> /\ Distinct(todo)
    BY <1>1, <1>5, <2>1 DEF Assign, TypeInv, WorkInv, WorkerState
  <2>3. /\ memory' = [memory EXCEPT ![f] = Registry!Set(row, Head(todo))]
        /\ worker'[w].fp = f /\ worker'[w].todo = Tail(todo)
        /\ worker'[w].pc = IF Tail(todo) = <<>> THEN "executing" ELSE "assigning"
        /\ UNCHANGED <<txn, disk>>
    BY <1>1, <1>5, <2>1 DEF Assign, TypeOK, WorkerState
  <2>4. /\ memory'[f] = Registry!Set(row, Head(todo))
        /\ \A g \in Fingerprints \ {f} : memory'[g] = memory[g]
    BY <1>1, <2>2, <2>3 DEF TypeOK, Table
  <2>5. /\ Registry!Written(memory'[f], Tail(todo)) = Registry!Written(row, todo)
        /\ memory'[f] \in Registry!Row
    BY <2>2, <2>4, WrittenOneByOne, HeadTailProperties, SetType
  <2>6. Whole(Registry!Written(memory'[f], Tail(todo)))
    BY <2>1, <2>2, <2>5 DEF WholeInv
  <2>7. Tail(todo) = <<>> => Whole(memory'[f])
    BY <2>5, <2>6, WrittenNothing
  <2>8. \A g \in Fingerprints \ {f} : memory[g] # None => Whole(memory[g])
    BY <1>1, <2>1, <2>2 DEF WholeInv
  <2>9. \A g \in Fingerprints : memory'[g] # None =>
           \/ Whole(memory'[g])
           \/ \E v \in Workers : worker'[v].pc = "assigning" /\ worker'[v].fp = g
    <3>1. CASE Tail(todo) = <<>>
      BY <2>4, <2>7, <2>8, <3>1
    <3>2. CASE Tail(todo) # <<>>
      BY <2>3, <2>4, <2>8, <3>2
    <3> QED
      BY <3>1, <3>2
  <2>10. \A v \in Workers : worker'[v].pc = "assigning" =>
            Whole(Registry!Written(memory'[worker'[v].fp], worker'[v].todo))
    BY <1>1, <1>2, <2>3, <2>6
  <2> QED
    BY <2>3, <2>9, <2>10 DEF WholeInv
<1>6. CASE Execute(w)
  <2>1. PICK f \in Fingerprints : f = worker[w].fp /\ memory[f] \in Registry!Row
    BY <1>6 DEF Execute, TypeInv, WorkInv
  <2>2. /\ worker[w].pc = "executing" /\ worker'[w].pc = "committing"
        /\ txn' = [txn EXCEPT ![f] = memory[f]]
        /\ UNCHANGED <<memory, disk>>
    BY <1>1, <1>6, <2>1 DEF Execute, Upsert, TypeOK, WorkerState
  <2>3. Whole(memory[f])
    BY <1>1, <2>1, <2>2, NoneIsNoValue DEF WholeInv
  <2>4. \A g \in Fingerprints : txn'[g] # None => Whole(txn'[g])
    BY <1>1, <2>1, <2>2, <2>3 DEF WholeInv, TypeOK, Table
  <2> QED
    BY <1>1, <1>2, <2>2, <2>4 DEF WholeInv, Whole
<1>7. CASE Commit(w)
  <2>1. /\ worker[w].pc = "committing" /\ worker'[w].pc = "idle"
        /\ disk' = [f \in Fingerprints |-> IF txn[f] = None THEN disk[f] ELSE txn[f]]
        /\ txn' = NoRows /\ UNCHANGED memory
    BY <1>1, <1>7 DEF Commit, Leave, IdleWorker, TypeOK
  <2>2. \A f \in Fingerprints : disk'[f] # None => Whole(disk'[f])
    BY <2>1 DEF WholeInv
  <2> QED
    BY <1>1, <1>2, <2>1, <2>2 DEF WholeInv, Whole, NoRows
<1>8. CASE SQLiteFails(w)
  <2>1. /\ worker[w].pc # "assigning" /\ worker'[w].pc = "idle"
        /\ UNCHANGED <<memory, txn, disk>>
    BY <1>1, <1>8 DEF SQLiteFails, Leave, IdleWorker, TypeOK
  <2> QED
    BY <1>1, <1>2, <2>1 DEF WholeInv, Whole
<1> QED
  BY <1>3, <1>4, <1>5, <1>6, <1>7, <1>8 DEF WorkerStep

\* No committed row mixes two updates, with SQLite errors and restarts anywhere.
THEOREM NoTornRow == Spec => []RowsAreWhole
<1>1. Init => WholeInv
  BY DEF Init, WholeInv, NoRows, IdleWorker
<1>2. TypeInv /\ WholeInv /\ [Next]_vars => WholeInv'
  <2> SUFFICES ASSUME TypeInv, WholeInv, [Next]_vars PROVE WholeInv'
    OBVIOUS
  <2>1. CASE \E w \in Workers : WorkerStep(w)
    BY <2>1, WorkerStepKeepsWhole
  <2>2. CASE Restart
    BY <2>2 DEF Restart, WholeInv, Whole, NoRows, IdleWorker
  <2>3. CASE UNCHANGED vars
    BY <2>3 DEF vars, WholeInv, Whole
  <2> QED
    BY <2>1, <2>2, <2>3 DEF Next
<1>3. WholeInv => RowsAreWhole
  BY DEF WholeInv, RowsAreWhole
<1> QED
  BY <1>1, <1>2, <1>3, TypeInvariant, PTL DEF Spec
=============================================================================
