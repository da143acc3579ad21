-------------------------- MODULE AutoTriageProofs --------------------------
(***************************************************************************)
(* Theorems about AutoTriage, for every value of its constants.            *)
(***************************************************************************)
EXTENDS AutoTriage, SequenceTheorems, FiniteSetTheorems, TLAPS

\* A task that talks to the copilot knows its incident and its conversation,
\* and one about to record has a reply.
TasksAreReady ==
    \A r \in Requests :
        /\ req[r].pc \in TaskSteps => req[r].todo # <<>> /\ req[r].thread \in Threads
        /\ req[r].pc = "recording" => req[r].reply \in Replies

\* The same of an operator's approval; only a reply that is not an error gets
\* as far as the registry.
ApprovalsAreReady ==
    \A o \in Operators :
        /\ op[o].pc # "idle" => op[o].thread \in Threads
        /\ op[o].pc \in {"replied", "recording"} => op[o].reply \in {"final", "pending"}
        /\ op[o].pc = "recording" => op[o].fp \in Fingerprints

TypeInv == TypeOK /\ TasksAreReady /\ ApprovalsAreReady

-----------------------------------------------------------------------------
(* The values.                                                              *)

\* What a notification carries is a sequence of alerts.
LEMMA PayloadType == Payload \subseteq Seq(Alert)
<1> SUFFICES ASSUME NEW p \in Payload PROVE p \in Seq(Alert)
  OBVIOUS
<1>1. PICK n \in 1..MaxAlerts : p \in [1..n -> Alert]
  BY DEF Payload
<1>2. n \in Nat
  BY BoundsAreNatural
<1> QED
  BY <1>1, <1>2, SeqDef

\* A new record is a well-formed one, blank and under investigation.
LEMMA NewRecordType ==
  ASSUME NEW t \in Threads
  PROVE  /\ NewRecord(t) \in IncidentRecord
         /\ NewRecord(t).thread = t
         /\ NewRecord(t).status = "investigating"
BY DEF NewRecord, IncidentRecord, Status

\* A record an outcome is written to keeps its thread, agrees with its new status,
\* and is neither under investigation nor resolved.
LEMMA OutcomeType ==
  ASSUME NEW record \in IncidentRecord, NEW t \in Threads, NEW reply \in Replies
  PROVE  /\ Outcome(record, t, reply) \in IncidentRecord
         /\ Outcome(record, t, reply).thread = record.thread
         /\ Outcome(record, t, reply).status \notin {"investigating", "resolved"}
         /\ Whole(Outcome(record, t, reply))
<1>1. t # None
  BY NoneIsFresh
<1>2. CASE reply = "error"
  BY <1>1, <1>2 DEF Outcome, IncidentRecord, Status, Whole
<1>3. CASE reply = "pending"
  BY <1>1, <1>3 DEF Outcome, IncidentRecord, Status, Whole
<1>4. CASE reply = "final"
  BY <1>1, <1>4 DEF Outcome, IncidentRecord, Status, Whole
<1> QED
  BY <1>2, <1>3, <1>4 DEF Replies

\* Resolving a record keeps it well formed, and on its thread.
LEMMA ResolvedType ==
  ASSUME NEW record \in IncidentRecord
  PROVE  /\ [record EXCEPT !.status = "resolved"] \in IncidentRecord
         /\ [record EXCEPT !.status = "resolved"].thread = record.thread
         /\ [record EXCEPT !.status = "resolved"].status = "resolved"
         /\ Whole([record EXCEPT !.status = "resolved"])
BY DEF IncidentRecord, Status, Whole

-----------------------------------------------------------------------------
(* Type correctness.                                                        *)

\* Nothing has happened yet.
LEMMA InitTyped == Init => TypeInv
<1> SUFFICES ASSUME Init PROVE TypeInv
  OBVIOUS
<1>1. TypeOK
  BY DEF Init, TypeOK, RequestState, OperatorState, IdleOperator, Checkpoint
<1>2. TasksAreReady
  BY DEF Init, TasksAreReady, TaskSteps
<1>3. ApprovalsAreReady
  BY DEF Init, ApprovalsAreReady, IdleOperator
<1> QED
  BY <1>1, <1>2, <1>3 DEF TypeInv

\* A step that gives one request a new state keeps the invariant if that state
\* is well formed and what else it writes is.
LEMMA RequestTyped ==
  ASSUME TypeInv, NEW r \in Requests, NEW x \in RequestState,
         req' = [req EXCEPT ![r] = x],
         x.pc \in TaskSteps => x.todo # <<>> /\ x.thread \in Threads,
         x.pc = "recording" => x.reply \in Replies,
         store' \in [Fingerprints -> IncidentRecord \cup {None}],
         disk' \in [Fingerprints -> IncidentRecord \cup {None}],
         faults' \in Nat,
         checkpoint' \in [Threads -> Checkpoint],
         lastSeen' \in [Fingerprints -> {"none", "firing", "resolved"}],
         UNCHANGED <<op, restarts>>
  PROVE  TypeInv'
<1>1. TypeOK'
  BY DEF TypeInv, TypeOK
<1>2. TasksAreReady'
  BY DEF TypeInv, TypeOK, TasksAreReady
<1>3. ApprovalsAreReady'
  BY DEF TypeInv, ApprovalsAreReady
<1> QED
  BY <1>1, <1>2, <1>3 DEF TypeInv

\* The same for a step of an operator.
LEMMA OperatorTyped ==
  ASSUME TypeInv, NEW o \in Operators, NEW x \in OperatorState,
         op' = [op EXCEPT ![o] = x],
         x.pc # "idle" => x.thread \in Threads,
         x.pc \in {"replied", "recording"} => x.reply \in {"final", "pending"},
         x.pc = "recording" => x.fp \in Fingerprints,
         store' \in [Fingerprints -> IncidentRecord \cup {None}],
         disk' \in [Fingerprints -> IncidentRecord \cup {None}],
         faults' \in Nat,
         checkpoint' \in [Threads -> Checkpoint],
         UNCHANGED <<req, lastSeen, restarts>>
  PROVE  TypeInv'
<1>1. TypeOK'
  BY DEF TypeInv, TypeOK
<1>2. TasksAreReady'
  BY DEF TypeInv, TasksAreReady
<1>3. ApprovalsAreReady'
  BY DEF TypeInv, TypeOK, ApprovalsAreReady
<1> QED
  BY <1>1, <1>2, <1>3 DEF TypeInv

\* What the head of a payload is, and what is left behind it.
LEMMA AtAlertType ==
  ASSUME TypeInv, NEW r \in Requests, NEW pc, NEW status, AtAlert(r, pc, status)
  PROVE  /\ req[r] \in RequestState
         /\ AlertFp(r) \in Fingerprints
         /\ Head(req[r].alerts).status \in {"firing", "resolved"}
         /\ Tail(req[r].alerts) \in Seq(Alert)
<1>1. req[r] \in RequestState
  BY DEF TypeInv, TypeOK
<1>2. req[r].alerts \in Seq(Alert)
  BY <1>1 DEF RequestState
<1>3. /\ Head(req[r].alerts) \in Alert
      /\ Tail(req[r].alerts) \in Seq(Alert)
  BY <1>2, HeadTailProperties DEF AtAlert
<1> QED
  BY <1>1, <1>3 DEF AlertFp, Alert

\* Seeing an alert's status.
LEMMA SeesTyped ==
  ASSUME TypeInv, NEW r \in Requests, NEW pc, NEW status, AtAlert(r, pc, status), Sees(r)
  PROVE  lastSeen' \in [Fingerprints -> {"none", "firing", "resolved"}]
BY AtAlertType DEF Sees, TypeInv, TypeOK

\* Disposing of an alert.
LEMMA DisposeTyped ==
  ASSUME TypeInv, NEW r \in Requests, NEW pc, NEW status, AtAlert(r, pc, status),
         Dispose(r),
         store' \in [Fingerprints -> IncidentRecord \cup {None}],
         disk' \in [Fingerprints -> IncidentRecord \cup {None}],
         faults' \in Nat,
         checkpoint' \in [Threads -> Checkpoint],
         UNCHANGED <<op, restarts>>
  PROVE  TypeInv'
<1> DEFINE x == [req[r] EXCEPT !.pc = "checking", !.alerts = Tail(@)]
<1>1. x \in RequestState
  BY AtAlertType DEF RequestState, HandlerSteps
<1>2. req' = [req EXCEPT ![r] = x]
  BY DEF Dispose
<1>3. lastSeen' \in [Fingerprints -> {"none", "firing", "resolved"}]
  BY SeesTyped DEF Dispose
<1>4. x.pc = "checking"
  BY AtAlertType DEF RequestState
<1> QED
  BY <1>1, <1>2, <1>3, <1>4, RequestTyped DEF TaskSteps

\* An exception that ends a handler or a list of tasks.
LEMMA FailsTyped ==
  ASSUME TypeInv, NEW r \in Requests, NEW lost \in Seq(Fingerprints), Fails(r, lost),
         store' \in [Fingerprints -> IncidentRecord \cup {None}],
         disk' \in [Fingerprints -> IncidentRecord \cup {None}],
         faults' \in Nat,
         checkpoint' \in [Threads -> Checkpoint],
         lastSeen' \in [Fingerprints -> {"none", "firing", "resolved"}],
         UNCHANGED <<op, restarts>>
  PROVE  TypeInv'
<1> DEFINE x == [pc |-> "failed", alerts |-> <<>>, todo |-> lost,
                 thread |-> None, reply |-> "none"]
<1>1. x \in RequestState /\ x.pc = "failed"
  BY DEF RequestState
<1>2. req' = [req EXCEPT ![r] = x]
  BY DEF Fails
<1> QED
  BY <1>1, <1>2, RequestTyped DEF TaskSteps

\* Writing to the registry what a record becomes.
LEMMA PutTyped ==
  ASSUME TypeOK, NEW f \in Fingerprints, NEW record,
         store[f] # None => record \in IncidentRecord, Put(f, record)
  PROVE  store' \in [Fingerprints -> IncidentRecord \cup {None}]
BY DEF Put, TypeOK

\* Writing it through, or failing to.
LEMMA WriteTyped ==
  ASSUME TypeOK, NEW f \in Fingerprints,
         store' \in [Fingerprints -> IncidentRecord \cup {None}],
         Commits(f) \/ Raises(f)
  PROVE  disk' \in [Fingerprints -> IncidentRecord \cup {None}] /\ faults' \in Nat
<1> DEFINE row == store'[f]
           written == [disk EXCEPT ![f] = row]
<1>1. written \in [Fingerprints -> IncidentRecord \cup {None}]
  BY DEF TypeOK
<1>2. disk' \in {disk, written}
  BY DEF Commits, Raises
<1>3. faults' \in Nat
  BY DEF Commits, Raises, TypeOK
<1> QED
  BY <1>1, <1>2, <1>3 DEF TypeOK

\* The steps that handle a POST.
LEMMA HandlerTyped ==
  ASSUME TypeInv, NEW r \in Requests,
         \/ Receive(r) \/ CheckResolved(r) \/ ApplyResolved(r)
         \/ CheckFiring(r) \/ CreateIncident(r) \/ Respond(r)
  PROVE  TypeInv'
<1>1. TypeOK /\ req[r] \in RequestState
  BY DEF TypeInv, TypeOK
<1>2. CASE Receive(r)
  <2>1. PICK p \in Payload : req' = [req EXCEPT ![r].pc = "checking", ![r].alerts = p]
    BY <1>2 DEF Receive
  <2> DEFINE x == [req[r] EXCEPT !.pc = "checking", !.alerts = p]
  <2>2. x \in RequestState /\ x.pc = "checking"
    BY <1>1, PayloadType DEF RequestState, HandlerSteps
  <2>3. req' = [req EXCEPT ![r] = x]
    BY <2>1
  <2> QED
    BY <1>1, <1>2, <2>2, <2>3, RequestTyped DEF Receive, TaskSteps, TypeOK
<1>3. CASE CheckResolved(r)
  <2>1. CASE Dispose(r)
    BY <1>1, <1>3, <2>1, DisposeTyped DEF CheckResolved, TypeOK
  <2>2. CASE req' = [req EXCEPT ![r].pc = "resolving"] /\ UNCHANGED lastSeen
    <3> DEFINE x == [req[r] EXCEPT !.pc = "resolving"]
    <3>1. x \in RequestState /\ x.pc = "resolving"
      BY <1>1 DEF RequestState, HandlerSteps
    <3>2. req' = [req EXCEPT ![r] = x]
      BY <2>2
    <3> QED
      BY <1>1, <1>3, <2>2, <3>1, <3>2, RequestTyped DEF CheckResolved, TaskSteps, TypeOK
  <2> QED
    BY <1>3, <2>1, <2>2 DEF CheckResolved
<1>4. CASE ApplyResolved(r)
  <2> DEFINE f == AlertFp(r)
  <2>1. AtAlert(r, "resolving", "resolved")
    BY <1>4 DEF ApplyResolved
  <2>2. f \in Fingerprints
    BY <2>1, AtAlertType
  <2>3. store[f] # None => [store[f] EXCEPT !.status = "resolved"] \in IncidentRecord
    BY <1>1, <2>2, ResolvedType DEF TypeOK
  <2>4. store' \in [Fingerprints -> IncidentRecord \cup {None}]
    BY <1>1, <1>4, <2>2, <2>3, PutTyped DEF ApplyResolved
  <2>5. disk' \in [Fingerprints -> IncidentRecord \cup {None}] /\ faults' \in Nat
    BY <1>1, <1>4, <2>2, <2>4, WriteTyped DEF ApplyResolved
  <2>6. checkpoint' \in [Threads -> Checkpoint] /\ UNCHANGED <<op, restarts>>
    BY <1>1, <1>4 DEF ApplyResolved, TypeOK
  <2>7. CASE Dispose(r)
    BY <2>1, <2>4, <2>5, <2>6, <2>7, DisposeTyped
  <2>8. CASE Sees(r) /\ Fails(r, req[r].todo)
    <3>1. req[r].todo \in Seq(Fingerprints)
      BY <1>1 DEF RequestState
    <3> QED
      BY <2>1, <2>4, <2>5, <2>6, <2>8, <3>1, SeesTyped, FailsTyped
  <2> QED
    BY <1>4, <2>7, <2>8 DEF ApplyResolved
<1>5. CASE CheckFiring(r)
  <2>1. CASE Dispose(r)
    BY <1>1, <1>5, <2>1, DisposeTyped DEF CheckFiring, TypeOK
  <2>2. CASE req' = [req EXCEPT ![r].pc = "creating"] /\ UNCHANGED lastSeen
    <3> DEFINE x == [req[r] EXCEPT !.pc = "creating"]
    <3>1. x \in RequestState /\ x.pc = "creating"
      BY <1>1 DEF RequestState, HandlerSteps
    <3>2. req' = [req EXCEPT ![r] = x]
      BY <2>2
    <3> QED
      BY <1>1, <1>5, <2>2, <3>1, <3>2, RequestTyped DEF CheckFiring, TaskSteps, TypeOK
  <2> QED
    BY <1>5, <2>1, <2>2 DEF CheckFiring
<1>6. CASE CreateIncident(r)
  <2> DEFINE f == AlertFp(r)
  <2>1. AtAlert(r, "creating", "firing")
    BY <1>6 DEF CreateIncident
  <2>2. f \in Fingerprints /\ Tail(req[r].alerts) \in Seq(Alert)
    BY <2>1, AtAlertType
  <2>3. PICK t \in Threads : RegisterUnder(r, t)
    BY <1>6 DEF CreateIncident, FreshThreads
  <2> DEFINE todo == Append(req[r].todo, f)
             x == [req[r] EXCEPT !.pc = "checking", !.alerts = Tail(@), !.todo = todo]
  <2>4. todo \in Seq(Fingerprints)
    BY <1>1, <2>2, AppendProperties DEF RequestState
  <2>5. store' \in [Fingerprints -> IncidentRecord \cup {None}]
    BY <1>1, <2>2, <2>3, NewRecordType DEF RegisterUnder, TypeOK
  <2>6. disk' \in [Fingerprints -> IncidentRecord \cup {None}] /\ faults' \in Nat
    BY <1>1, <2>2, <2>3, <2>5, WriteTyped DEF RegisterUnder
  <2>7. checkpoint' \in [Threads -> Checkpoint] /\ UNCHANGED <<op, restarts>>
    BY <1>1, <2>3 DEF RegisterUnder, TypeOK, Checkpoint
  <2>8. lastSeen' \in [Fingerprints -> {"none", "firing", "resolved"}]
    BY <2>1, <2>3, SeesTyped DEF RegisterUnder
  <2>9. CASE req' = [req EXCEPT ![r] = x]
    <3>1. x \in RequestState /\ x.pc = "checking"
      BY <1>1, <2>2, <2>4 DEF RequestState, HandlerSteps
    <3> QED
      BY <2>5, <2>6, <2>7, <2>8, <2>9, <3>1, RequestTyped DEF TaskSteps
  <2>10. CASE Fails(r, todo)
    BY <2>4, <2>5, <2>6, <2>7, <2>8, <2>10, FailsTyped
  <2> QED
    BY <2>3, <2>9, <2>10 DEF RegisterUnder
<1>7. CASE Respond(r)
  <2> DEFINE x == [req[r] EXCEPT !.pc = "background"]
  <2>1. x \in RequestState /\ x.pc = "background"
    BY <1>1 DEF RequestState
  <2>2. req' = [req EXCEPT ![r] = x]
    BY <1>7 DEF Respond
  <2> QED
    BY <1>1, <1>7, <2>1, <2>2, RequestTyped DEF Respond, TaskSteps, TypeOK
<1> QED
  BY <1>2, <1>3, <1>4, <1>5, <1>6, <1>7

\* The steps that run a POST's background tasks.
LEMMA TaskTyped ==
  ASSUME TypeInv, NEW r \in Requests,
         \/ StartInvestigation(r) \/ AskReturns(r) \/ AskHangs(r)
         \/ RecordFinding(r) \/ FinishRequest(r)
  PROVE  TypeInv'
<1>1. TypeOK /\ req[r] \in RequestState /\ req[r].todo \in Seq(Fingerprints)
  BY DEF TypeInv, TypeOK, RequestState
<1>2. ASSUME req[r].todo # <<>>
      PROVE  Head(req[r].todo) \in Fingerprints /\ Tail(req[r].todo) \in Seq(Fingerprints)
  BY <1>1, <1>2, HeadTailProperties
<1>3. CASE StartInvestigation(r)
  <2> DEFINE record == store[Head(req[r].todo)]
  <2>1. req[r].todo # <<>> /\ record \in IncidentRecord \cup {None}
    BY <1>1, <1>2, <1>3 DEF StartInvestigation, TypeOK
  <2>2. UNCHANGED <<store, disk, op, checkpoint, lastSeen, faults, restarts>>
    BY <1>3 DEF StartInvestigation
  <2>3. CASE record = None
    <3> DEFINE x == [req[r] EXCEPT !.todo = Tail(@)]
    <3>1. x \in RequestState /\ x.pc = "background"
      BY <1>1, <1>2, <1>3, <2>1 DEF RequestState, StartInvestigation
    <3>2. req' = [req EXCEPT ![r] = x]
      BY <1>3, <2>3 DEF StartInvestigation
    <3> QED
      BY <1>1, <2>2, <3>1, <3>2, RequestTyped DEF TaskSteps, TypeOK
  <2>4. CASE record # None
    <3> DEFINE x == [req[r] EXCEPT !.pc = "asking", !.thread = record.thread]
    <3>1. record.thread \in Threads
      BY <2>1, <2>4 DEF IncidentRecord
    <3>2. /\ x \in RequestState /\ x.pc = "asking"
          /\ x.todo = req[r].todo /\ x.thread = record.thread
      BY <1>1, <3>1 DEF RequestState, TaskSteps
    <3>3. req' = [req EXCEPT ![r] = x]
      BY <1>3, <2>4 DEF StartInvestigation
    <3> QED
      BY <1>1, <2>1, <2>2, <3>1, <3>2, <3>3, RequestTyped DEF TypeOK
  <2> QED
    BY <2>3, <2>4
<1>4. CASE AskReturns(r)
  <2>1. PICK reply \in Replies :
          /\ req' = [req EXCEPT ![r].pc = "recording", ![r].reply = reply]
          /\ checkpoint' = [checkpoint EXCEPT ![req[r].thread] = SavedBy(reply)]
    BY <1>4 DEF AskReturns
  <2> DEFINE x == [req[r] EXCEPT !.pc = "recording", !.reply = reply]
  <2>2. req[r].todo # <<>> /\ req[r].thread \in Threads
    BY <1>4 DEF AskReturns, TypeInv, TasksAreReady, TaskSteps
  <2>3. SavedBy(reply) \in {"done", "paused", "failed"}
    BY DEF SavedBy, Replies
  <2>4. checkpoint' \in [Threads -> Checkpoint]
    BY <1>1, <2>1, <2>2, <2>3 DEF TypeOK, Checkpoint
  <2>5. /\ x \in RequestState /\ x.reply = reply
        /\ x.todo = req[r].todo /\ x.thread = req[r].thread
    BY <1>1 DEF RequestState, TaskSteps
  <2>6. req' = [req EXCEPT ![r] = x]
    BY <2>1
  <2> QED
    BY <1>1, <1>4, <2>2, <2>4, <2>5, <2>6, RequestTyped, ZenonT(60) DEF AskReturns, TypeOK
<1>5. CASE RecordFinding(r)
  <2> DEFINE f == Head(req[r].todo)
             outcome == Outcome(store[f], req[r].thread, req[r].reply)
             x == [req[r] EXCEPT !.pc = "background", !.todo = Tail(@),
                                 !.thread = None, !.reply = "none"]
  <2>1. req[r].todo # <<>> /\ req[r].thread \in Threads /\ req[r].reply \in Replies
    BY <1>5 DEF RecordFinding, TypeInv, TasksAreReady, TaskSteps
  <2>2. f \in Fingerprints /\ Tail(req[r].todo) \in Seq(Fingerprints)
    BY <1>2, <2>1
  <2>3. store[f] # None => outcome \in IncidentRecord
    BY <1>1, <2>1, <2>2, OutcomeType DEF TypeOK
  <2>4. store' \in [Fingerprints -> IncidentRecord \cup {None}]
    BY <1>1, <1>5, <2>2, <2>3, PutTyped DEF RecordFinding
  <2>5. disk' \in [Fingerprints -> IncidentRecord \cup {None}] /\ faults' \in Nat
    BY <1>1, <1>5, <2>2, <2>4, WriteTyped DEF RecordFinding
  <2>6. /\ checkpoint' \in [Threads -> Checkpoint]
        /\ lastSeen' \in [Fingerprints -> {"none", "firing", "resolved"}]
        /\ UNCHANGED <<op, restarts>>
    BY <1>1, <1>5 DEF RecordFinding, TypeOK
  <2>7. CASE NextTask(r)
    <3>1. x \in RequestState /\ x.pc = "background"
      BY <1>1, <2>2 DEF RequestState
    <3>2. req' = [req EXCEPT ![r] = x]
      BY <2>7 DEF NextTask
    <3> QED
      BY <2>4, <2>5, <2>6, <3>1, <3>2, RequestTyped DEF TaskSteps
  <2>8. CASE Fails(r, Tail(req[r].todo))
    BY <2>2, <2>4, <2>5, <2>6, <2>8, FailsTyped
  <2> QED
    BY <1>5, <2>7, <2>8 DEF RecordFinding
<1>6. CASE FinishRequest(r)
  <2> DEFINE x == [req[r] EXCEPT !.pc = "done"]
  <2>1. x \in RequestState /\ x.pc = "done"
    BY <1>1 DEF RequestState
  <2>2. req' = [req EXCEPT ![r] = x]
    BY <1>6 DEF FinishRequest
  <2> QED
    BY <1>1, <1>6, <2>1, <2>2, RequestTyped DEF FinishRequest, TaskSteps, TypeOK
<1>7. CASE AskHangs(r)
  <2> DEFINE x == [req[r] EXCEPT !.pc = "hung"]
  <2>1. req[r].todo # <<>> /\ req[r].thread \in Threads
    BY <1>7 DEF AskHangs, TypeInv, TasksAreReady, TaskSteps
  <2>2. checkpoint' \in [Threads -> Checkpoint]
    BY <1>1, <1>7, <2>1 DEF AskHangs, TypeOK, Checkpoint
  <2>3. /\ x \in RequestState /\ x.pc = "hung"
        /\ x.todo = req[r].todo /\ x.thread = req[r].thread
    BY <1>1 DEF RequestState, TaskSteps
  <2>4. req' = [req EXCEPT ![r] = x]
    BY <1>7 DEF AskHangs
  <2> QED
    BY <1>1, <1>7, <2>1, <2>2, <2>3, <2>4, RequestTyped, ZenonT(60) DEF AskHangs, TypeOK
<1> QED
  BY <1>3, <1>4, <1>5, <1>6, <1>7

\* The panel shows the next proposal of the conversation, or nothing.
LEMMA AfterReplyTyped ==
  ASSUME TypeInv, NEW o \in Operators, op[o].pc \in {"replied", "recording"},
         op' = AfterReply(o),
         store' \in [Fingerprints -> IncidentRecord \cup {None}],
         disk' \in [Fingerprints -> IncidentRecord \cup {None}],
         faults' \in Nat,
         UNCHANGED <<req, checkpoint, lastSeen, restarts>>
  PROVE  TypeInv'
<1>1. TypeOK /\ op[o] \in OperatorState /\ op[o].thread \in Threads
  BY DEF TypeInv, TypeOK, ApprovalsAreReady
<1> DEFINE x == IF op[o].reply = "pending"
                THEN [op[o] EXCEPT !.pc = "viewing", !.fp = None, !.reply = "none"]
                ELSE IdleOperator
<1>2. /\ x \in OperatorState /\ x.pc \in {"viewing", "idle"}
      /\ x.pc # "idle" => x.thread \in Threads
  BY <1>1 DEF OperatorState, IdleOperator
<1>3. op' = [op EXCEPT ![o] = x]
  BY DEF AfterReply
<1> QED
  BY <1>1, <1>2, <1>3, OperatorTyped DEF TypeOK

\* The steps of an operator and of the call its click makes.
LEMMA OperatorStepTyped ==
  ASSUME TypeInv, NEW o \in Operators, OperatorStep(o)
  PROVE  TypeInv'
<1>1. TypeOK /\ op[o] \in OperatorState
  BY DEF TypeInv, TypeOK
<1>2. CASE ShowApproval(o)
  <2>1. PICK f \in Fingerprints :
          /\ store[f] # None
          /\ op' = [op EXCEPT ![o].pc = "viewing", ![o].thread = store[f].thread]
    BY <1>2 DEF ShowApproval
  <2>2. store[f].thread \in Threads
    BY <1>1, <2>1 DEF TypeOK, IncidentRecord
  <2> DEFINE x == [op[o] EXCEPT !.pc = "viewing", !.thread = store[f].thread]
  <2>3. x \in OperatorState /\ x.pc = "viewing" /\ x.thread \in Threads
    BY <1>1, <2>2 DEF OperatorState
  <2>4. op' = [op EXCEPT ![o] = x]
    BY <2>1
  <2> QED
    BY <1>1, <1>2, <2>3, <2>4, OperatorTyped DEF ShowApproval, TypeOK
<1>3. CASE Decide(o)
  <2> DEFINE x == [op[o] EXCEPT !.pc = "resuming"]
  <2>1. x \in OperatorState /\ x.pc = "resuming" /\ x.thread \in Threads
    BY <1>1, <1>3 DEF OperatorState, Decide, TypeInv, ApprovalsAreReady
  <2>2. op' = [op EXCEPT ![o] = x]
    BY <1>3 DEF Decide
  <2> QED
    BY <1>1, <1>3, <2>1, <2>2, OperatorTyped DEF Decide, TypeOK
<1>4. CASE RespondReturns(o)
  <2> DEFINE t == op[o].thread
  <2>1. t \in Threads
    BY <1>4 DEF RespondReturns, TypeInv, ApprovalsAreReady
  <2>2. PICK reply \in RepliesToResume(t) : \E saved \in SavedByResume(t, reply) :
          /\ checkpoint' = [checkpoint EXCEPT ![t] = saved]
          /\ op' = IF reply = "error"
                   THEN [op EXCEPT ![o] = IdleOperator]
                   ELSE [op EXCEPT ![o].pc = "replied", ![o].reply = reply]
    BY <1>4 DEF RespondReturns
  <2>3. PICK saved \in SavedByResume(t, reply) :
          /\ checkpoint' = [checkpoint EXCEPT ![t] = saved]
          /\ op' = IF reply = "error"
                   THEN [op EXCEPT ![o] = IdleOperator]
                   ELSE [op EXCEPT ![o].pc = "replied", ![o].reply = reply]
    BY <2>2
  <2>4. reply \in Replies
    BY DEF RepliesToResume, Replies
  <2>5. saved \in Checkpoint
    BY <1>1, <2>1, <2>4 DEF SavedByResume, SavedBy, Replies, Checkpoint, TypeOK
  <2>6. checkpoint' \in [Threads -> Checkpoint]
    BY <1>1, <2>1, <2>3, <2>5 DEF TypeOK
  <2> DEFINE x == IF reply = "error" THEN IdleOperator
                  ELSE [op[o] EXCEPT !.pc = "replied", !.reply = reply]
  <2>7. /\ x \in OperatorState
        /\ x.pc \in {"idle", "replied"}
        /\ x.pc # "idle" => x.thread \in Threads /\ x.reply \in {"final", "pending"}
    BY <1>1, <2>1, <2>4 DEF OperatorState, IdleOperator, Replies
  <2>8. op' = [op EXCEPT ![o] = x]
    BY <2>3
  <2> QED
    BY <1>1, <1>4, <2>6, <2>7, <2>8, OperatorTyped DEF RespondReturns, TypeOK
<1>5. CASE FindRecord(o)
  <2>1. CASE op' = AfterReply(o)
    BY <1>1, <1>5, <2>1, AfterReplyTyped DEF FindRecord, TypeOK
  <2>2. CASE op' # AfterReply(o)
    <3>1. PICK f \in Fingerprints : op' = [op EXCEPT ![o].pc = "recording", ![o].fp = f]
      BY <1>5, <2>2 DEF FindRecord
    <3> DEFINE x == [op[o] EXCEPT !.pc = "recording", !.fp = f]
    <3>2. op[o].thread \in Threads /\ op[o].reply \in {"final", "pending"}
      BY <1>5 DEF FindRecord, TypeInv, ApprovalsAreReady
    <3>3. /\ x \in OperatorState /\ x.thread = op[o].thread
          /\ x.reply = op[o].reply /\ x.fp = f
      BY <1>1 DEF OperatorState
    <3>4. op' = [op EXCEPT ![o] = x]
      BY <3>1
    <3> QED
      BY <1>1, <1>5, <3>2, <3>3, <3>4, OperatorTyped DEF FindRecord, TypeOK
  <2> QED
    BY <2>1, <2>2
<1>6. CASE RecordApproval(o)
  <2> DEFINE f == op[o].fp
             outcome == Outcome(store[f], op[o].thread, op[o].reply)
  <2>1. f \in Fingerprints /\ op[o].thread \in Threads /\ op[o].reply \in Replies
    BY <1>6 DEF RecordApproval, TypeInv, ApprovalsAreReady, Replies
  <2>2. store[f] # None => outcome \in IncidentRecord
    BY <1>1, <2>1, OutcomeType DEF TypeOK
  <2>3. store' \in [Fingerprints -> IncidentRecord \cup {None}]
    BY <1>1, <1>6, <2>1, <2>2, PutTyped DEF RecordApproval
  <2>4. disk' \in [Fingerprints -> IncidentRecord \cup {None}] /\ faults' \in Nat
    BY <1>1, <1>6, <2>1, <2>3, WriteTyped DEF RecordApproval
  <2>5. CASE op' = AfterReply(o)
    BY <1>6, <2>3, <2>4, <2>5, AfterReplyTyped DEF RecordApproval
  <2>6. CASE op' = [op EXCEPT ![o] = IdleOperator]
    <3>1. IdleOperator \in OperatorState /\ IdleOperator.pc = "idle"
      BY DEF IdleOperator, OperatorState
    <3>2. checkpoint' \in [Threads -> Checkpoint] /\ UNCHANGED <<req, lastSeen, restarts>>
      BY <1>1, <1>6 DEF RecordApproval, TypeOK
    <3> QED
      BY <2>3, <2>4, <2>6, <3>1, <3>2, OperatorTyped
  <2> QED
    BY <1>6, <2>5, <2>6 DEF RecordApproval
<1> QED
  BY <1>2, <1>3, <1>4, <1>5, <1>6 DEF OperatorStep

\* A restart forgets requests and calls, and keeps what is durable.
LEMMA RestartTyped == TypeInv /\ Restart => TypeInv'
<1> SUFFICES ASSUME TypeInv, Restart PROVE TypeInv'
  OBVIOUS
<1>1. req' \in [Requests -> RequestState]
  BY DEF Restart, TypeInv, TypeOK, RequestState
<1>2. op' \in [Operators -> OperatorState]
  BY DEF Restart, TypeInv, TypeOK, OperatorState, IdleOperator
<1>3. checkpoint' \in [Threads -> Checkpoint] /\ restarts' \in Nat
  BY DEF Restart, TypeInv, TypeOK, Checkpoint
<1>4. TasksAreReady'
  BY DEF Restart, TypeInv, TasksAreReady, TaskSteps
<1>5. ApprovalsAreReady'
  BY DEF Restart, TypeInv, ApprovalsAreReady, IdleOperator
<1> QED
  BY <1>1, <1>2, <1>3, <1>4, <1>5 DEF Restart, TypeInv, TypeOK

\* Every step keeps the invariant.
LEMMA NextTyped == TypeInv /\ [Next]_vars => TypeInv'
<1> SUFFICES ASSUME TypeInv, [Next]_vars PROVE TypeInv'
  OBVIOUS
<1>1. CASE \E r \in Requests : Receive(r) \/ RequestStep(r)
  BY <1>1, HandlerTyped, TaskTyped DEF RequestStep
<1>2. CASE \E o \in Operators : OperatorStep(o)
  BY <1>2, OperatorStepTyped
<1>3. CASE Restart
  BY <1>3, RestartTyped
<1>4. CASE UNCHANGED vars
  BY <1>4 DEF vars, TypeInv, TypeOK, TasksAreReady, ApprovalsAreReady
<1> QED
  BY <1>1, <1>2, <1>3, <1>4 DEF Next

\* Requests, tasks, calls and records are well formed in every reachable state.
LEMMA TypeInvariant == Spec => []TypeInv
BY InitTyped, NextTyped, PTL DEF Spec

\* Type correctness: whatever handlers, tasks and approvals interleave and
\* whenever the process restarts, the registry holds only well-formed records.
THEOREM TypeCorrect == Spec => []TypeOK
<1>1. TypeInv => TypeOK
  BY DEF TypeInv
<1> QED
  BY <1>1, TypeInvariant, PTL

-----------------------------------------------------------------------------
(* What a step may do to the registry.                                      *)

\* The record of f is written by a resolved notification, ...
ResolvedIn(f) ==
    store[f] # None /\ store'[f] = [store[f] EXCEPT !.status = "resolved"]

\* ... by a task or an approval that has a reply, ...
OutcomeIn(f) ==
    /\ store[f] # None
    /\ \E t \in Threads, reply \in Replies : store'[f] = Outcome(store[f], t, reply)

\* ... or by a firing notification, on a conversation minted for it, ...
CreatedIn(f) ==
    \E t \in Threads :
        /\ checkpoint[t] = "unused" /\ checkpoint'[t] # "unused"
        /\ store' = [store EXCEPT ![f] = NewRecord(t)]
        /\ \A g \in Fingerprints \ {f} : disk'[g] = disk[g]

\* ... or is read back from its row by a restart; a row is written through from
\* the record, or stays.
RegistryStep ==
    /\ \A f \in Fingerprints :
          /\ disk'[f] \in {disk[f], store'[f]}
          /\ store'[f] \in {store[f], disk[f]} \/ ResolvedIn(f) \/ OutcomeIn(f) \/ CreatedIn(f)
    /\ \A t \in Threads : checkpoint[t] # "unused" => checkpoint'[t] # "unused"

\* Every step is one of these for every record, and no minted id is reused.
LEMMA StepsOfRegistry == TypeInv /\ [Next]_vars => RegistryStep
<1> SUFFICES ASSUME TypeInv, [Next]_vars PROVE RegistryStep
  OBVIOUS
<1>0. TypeOK
  BY DEF TypeInv
<1>1. ASSUME UNCHANGED <<store, disk, checkpoint>> PROVE RegistryStep
  BY <1>1 DEF RegistryStep
<1>2. ASSUME NEW f \in Fingerprints, Commits(f) \/ Raises(f)
      PROVE  /\ disk'[f] \in {disk[f], store'[f]}
             /\ \A g \in Fingerprints \ {f} : disk'[g] = disk[g]
  BY <1>0, <1>2 DEF Commits, Raises, TypeOK
<1>3. ASSUME NEW f \in Fingerprints, NEW record, Put(f, record), Commits(f) \/ Raises(f),
             UNCHANGED checkpoint,
             store[f] # None =>
                \/ record = [store[f] EXCEPT !.status = "resolved"]
                \/ \E t \in Threads, reply \in Replies : record = Outcome(store[f], t, reply)
      PROVE  RegistryStep
  <2>1. ASSUME NEW g \in Fingerprints \ {f} PROVE store'[g] = store[g] /\ disk'[g] = disk[g]
    BY <1>0, <1>2, <1>3 DEF Put, TypeOK
  <2>2. store'[f] = IF store[f] = None THEN store[f] ELSE record
    BY <1>0, <1>3 DEF Put, TypeOK
  <2>3. store'[f] = store[f] \/ ResolvedIn(f) \/ OutcomeIn(f)
    BY <1>3, <2>2 DEF ResolvedIn, OutcomeIn
  <2> QED
    BY <1>2, <1>3, <2>1, <2>3 DEF RegistryStep
<1>4. ASSUME NEW r \in Requests, Receive(r) \/ RequestStep(r) PROVE RegistryStep
  <2>1. CASE \/ Receive(r) \/ CheckResolved(r) \/ CheckFiring(r) \/ Respond(r)
             \/ StartInvestigation(r) \/ FinishRequest(r)
    BY <1>1, <2>1 DEF Receive, CheckResolved, CheckFiring, Respond,
                      StartInvestigation, FinishRequest
  <2>2. CASE ApplyResolved(r)
    <3>1. AlertFp(r) \in Fingerprints
      BY <2>2, AtAlertType DEF ApplyResolved
    <3> QED
      BY <1>3, <2>2, <3>1 DEF ApplyResolved
  <2>3. CASE CreateIncident(r)
    <3> DEFINE f == AlertFp(r)
    <3>1. f \in Fingerprints
      BY <2>3, AtAlertType DEF CreateIncident
    <3>2. PICK t \in Threads : checkpoint[t] = "unused" /\ RegisterUnder(r, t)
      BY <2>3 DEF CreateIncident, FreshThreads
    <3>3. /\ store' = [store EXCEPT ![f] = NewRecord(t)]
          /\ checkpoint' = [checkpoint EXCEPT ![t] = "empty"]
          /\ Commits(f) \/ Raises(f)
      BY <3>2 DEF RegisterUnder
    <3>4. CreatedIn(f)
      BY <1>0, <1>2, <3>1, <3>2, <3>3 DEF CreatedIn, TypeOK
    <3>5. \A g \in Fingerprints \ {f} : store'[g] = store[g] /\ disk'[g] = disk[g]
      BY <1>0, <1>2, <3>1, <3>3 DEF TypeOK
    <3>6. \A s \in Threads : checkpoint[s] # "unused" => checkpoint'[s] # "unused"
      BY <1>0, <3>3 DEF TypeOK
    <3> QED
      BY <1>2, <3>1, <3>3, <3>4, <3>5, <3>6 DEF RegistryStep
  <2>4. CASE AskReturns(r)
    <3>1. PICK reply \in Replies :
            checkpoint' = [checkpoint EXCEPT ![req[r].thread] = SavedBy(reply)]
      BY <2>4 DEF AskReturns
    <3>2. SavedBy(reply) # "unused"
      BY DEF SavedBy, Replies
    <3> QED
      BY <1>0, <2>4, <3>1, <3>2 DEF AskReturns, RegistryStep, TypeOK
  <2>5. CASE RecordFinding(r)
    <3> DEFINE f == Head(req[r].todo)
    <3>1. /\ req[r].todo # <<>> /\ req[r].todo \in Seq(Fingerprints)
          /\ req[r].thread \in Threads /\ req[r].reply \in Replies
      BY <1>0, <2>5 DEF RecordFinding, TypeInv, TypeOK, RequestState, TasksAreReady, TaskSteps
    <3>2. f \in Fingerprints
      BY <3>1, HeadTailProperties
    <3> QED
      BY <1>3, <2>5, <3>1, <3>2 DEF RecordFinding
  <2>6. CASE AskHangs(r)
    BY <1>0, <2>6 DEF AskHangs, RegistryStep, TypeOK
  <2> QED
    BY <1>4, <2>1, <2>2, <2>3, <2>4, <2>5, <2>6 DEF RequestStep
<1>5. ASSUME NEW o \in Operators, OperatorStep(o) PROVE RegistryStep
  <2>1. CASE ShowApproval(o) \/ Decide(o) \/ FindRecord(o)
    BY <1>1, <2>1 DEF ShowApproval, Decide, FindRecord
  <2>2. CASE RespondReturns(o)
    <3> DEFINE t == op[o].thread
    <3>1. PICK reply \in RepliesToResume(t) : \E saved \in SavedByResume(t, reply) :
            checkpoint' = [checkpoint EXCEPT ![t] = saved]
      BY <2>2 DEF RespondReturns
    <3>2. PICK saved \in SavedByResume(t, reply) :
            checkpoint' = [checkpoint EXCEPT ![t] = saved]
      BY <3>1
    <3>3. saved = checkpoint[t] \/ saved # "unused"
      BY DEF SavedByResume, SavedBy, RepliesToResume, Replies
    <3> QED
      BY <1>0, <2>2, <3>2, <3>3 DEF RespondReturns, RegistryStep, TypeOK
  <2>3. CASE RecordApproval(o)
    <3>1. op[o].fp \in Fingerprints /\ op[o].thread \in Threads /\ op[o].reply \in Replies
      BY <2>3 DEF RecordApproval, TypeInv, ApprovalsAreReady, Replies
    <3> QED
      BY <1>3, <2>3, <3>1 DEF RecordApproval
  <2> QED
    BY <1>5, <2>1, <2>2, <2>3 DEF OperatorStep
<1>6. CASE Restart
  BY <1>0, <1>6 DEF Restart, RegistryStep, TypeOK
<1> QED
  BY <1>1, <1>4, <1>5, <1>6 DEF Next, vars

-----------------------------------------------------------------------------
(* Records agree with themselves, and name their conversation.              *)

\* What is known of f: its record, and the row a restart would read.
Rows(f) == {store[f], disk[f]} \ {None}

\* Both agree with their status, ...
RowsAgree == \A f \in Fingerprints : \A row \in Rows(f) : Whole(row)

\* ... name a thread that has been minted: a new incident's is another, ...
ThreadsAreMinted ==
    \A f \in Fingerprints : \A row \in Rows(f) : checkpoint[row.thread] # "unused"

\* ... and that is no other incident's.
RowsNameOneIncident ==
    \A f, g \in Fingerprints : \A row \in Rows(f), other \in Rows(g) :
        row.thread = other.thread => f = g

RegistryInv == RowsAgree /\ ThreadsAreMinted /\ RowsNameOneIncident

\* A registry without records.
LEMMA InitRegistry == Init => RegistryInv
BY DEF Init, RegistryInv, RowsAgree, ThreadsAreMinted, RowsNameOneIncident, Rows

\* Each of the ways to write a record keeps all three.
LEMMA StepKeepsRegistry == TypeInv /\ RegistryInv /\ [Next]_vars => RegistryInv'
<1> SUFFICES ASSUME TypeInv, RegistryInv, RegistryStep PROVE RegistryInv'
  BY StepsOfRegistry
<1> USE DEF RegistryInv
<1>1. TypeOK /\ \A f \in Fingerprints : Rows(f) \subseteq IncidentRecord
  BY DEF TypeInv, TypeOK, Rows
<1>2. ASSUME NEW f \in Fingerprints, NEW row \in Rows(f)'
      PROVE  \/ /\ Whole(row)
                /\ \E old \in Rows(f) : row.thread = old.thread
             \/ CreatedIn(f) /\ row = store'[f]
  <2>1. row \in Rows(f) \/ (row = store'[f] /\ row # None)
    BY <1>2 DEF Rows, RegistryStep
  <2>2. CASE row \in Rows(f)
    BY <2>2 DEF RowsAgree
  <2>3. CASE row = store'[f] /\ row # None /\ store'[f] \in {store[f], disk[f]}
    BY <2>3 DEF RowsAgree, Rows
  <2>4. CASE row = store'[f] /\ ResolvedIn(f)
    <3>1. store[f] \in Rows(f) /\ store[f] \in IncidentRecord
      BY <1>1, <2>4 DEF ResolvedIn, Rows
    <3> QED
      BY <2>4, <3>1, ResolvedType DEF ResolvedIn
  <2>5. CASE row = store'[f] /\ OutcomeIn(f)
    <3>1. store[f] \in Rows(f) /\ store[f] \in IncidentRecord
      BY <1>1, <2>5 DEF OutcomeIn, Rows
    <3> QED
      BY <2>5, <3>1, OutcomeType DEF OutcomeIn
  <2> QED
    BY <2>1, <2>2, <2>3, <2>4, <2>5 DEF RegistryStep
<1>3. ASSUME NEW f \in Fingerprints, CreatedIn(f)
      PROVE  /\ Whole(store'[f])
             /\ store'[f].thread \in Threads
             /\ checkpoint[store'[f].thread] = "unused"
             /\ checkpoint'[store'[f].thread] # "unused"
             /\ \A g \in Fingerprints \ {f} : Rows(g)' = Rows(g)
  <2>1. PICK t \in Threads :
          /\ checkpoint[t] = "unused" /\ checkpoint'[t] # "unused"
          /\ store' = [store EXCEPT ![f] = NewRecord(t)]
          /\ \A g \in Fingerprints \ {f} : disk'[g] = disk[g]
    BY <1>3 DEF CreatedIn
  <2>2. store'[f] = NewRecord(t) /\ NewRecord(t).thread = t
    BY <1>1, <2>1, NewRecordType DEF TypeOK
  <2>3. Whole(NewRecord(t))
    BY NewRecordType DEF Whole
  <2>4. \A g \in Fingerprints \ {f} : Rows(g)' = Rows(g)
    BY <1>1, <2>1 DEF TypeOK, Rows
  <2> QED
    BY <2>1, <2>2, <2>3, <2>4
<1>4. RowsAgree'
  <2> SUFFICES ASSUME NEW f \in Fingerprints, NEW row \in Rows(f)' PROVE Whole(row)
    BY DEF RowsAgree, Whole, NewRecord
  <2> QED
    BY <1>2, <1>3
<1>5. ThreadsAreMinted'
  <2> SUFFICES ASSUME NEW f \in Fingerprints, NEW row \in Rows(f)'
               PROVE  checkpoint'[row.thread] # "unused"
    BY DEF ThreadsAreMinted
  <2>1. CASE CreatedIn(f) /\ row = store'[f]
    BY <1>3, <2>1
  <2>2. ASSUME NEW old \in Rows(f), row.thread = old.thread
        PROVE  checkpoint'[row.thread] # "unused"
    BY <1>1, <2>2 DEF ThreadsAreMinted, RegistryStep, IncidentRecord
  <2> QED
    BY <1>2, <2>1, <2>2
<1>6. RowsNameOneIncident'
  <2> SUFFICES ASSUME NEW f \in Fingerprints, NEW g \in Fingerprints, f # g,
                      NEW row \in Rows(f)', NEW other \in Rows(g)',
                      row.thread = other.thread
               PROVE  FALSE
    BY DEF RowsNameOneIncident
  <2>1. ASSUME NEW i \in Fingerprints, NEW j \in Fingerprints, i # j,
               NEW x \in Rows(i)', NEW y \in Rows(j)', x.thread = y.thread,
               CreatedIn(i), x = store'[i]
        PROVE  FALSE
    <3>1. y \in Rows(j) /\ checkpoint[y.thread] # "unused"
      BY <1>3, <2>1 DEF ThreadsAreMinted
    <3> QED
      BY <1>3, <2>1, <3>1
  <2>2. CASE CreatedIn(f) /\ row = store'[f]
    BY <2>1, <2>2
  <2>3. CASE CreatedIn(g) /\ other = store'[g]
    BY <2>1, <2>3
  <2> QED
    BY <1>2, <2>2, <2>3 DEF RowsNameOneIncident
<1> QED
  BY <1>4, <1>5, <1>6

\* The three hold together in every reachable state.
LEMMA RegistryInvariant == Spec => []RegistryInv
BY TypeInvariant, InitRegistry, StepKeepsRegistry, PTL DEF Spec

\* A record's status agrees with the outcome stored beside it, whoever of the
\* handlers, tasks and approvals wrote last.
THEOREM StatusAgrees == Spec => []StatusMatchesOutcome
<1>1. RegistryInv => StatusMatchesOutcome
  BY DEF RegistryInv, RowsAgree, Rows, StatusMatchesOutcome
<1> QED
  BY <1>1, RegistryInvariant, PTL

\* get_by_thread has one answer: no two incidents share a conversation.
THEOREM ThreadsAreDedicated == Spec => []ThreadNamesOneIncident
<1>1. RegistryInv => ThreadNamesOneIncident
  BY DEF RegistryInv, RowsNameOneIncident, Rows, ThreadNamesOneIncident
<1> QED
  BY <1>1, RegistryInvariant, PTL
-----------------------------------------------------------------------------
(* No incident is orphaned.                                                 *)

\* Request r has still to settle f, or an error of SQLite ended it first.
Answers(r, f) == Owes(r, f) \/ Dropped(r, f)

\* What a request answers for, it answers for while neither its tasks nor the
\* record move, and whatever ends it.
LEMMA StillAnswers ==
  ASSUME NEW r \in Requests, NEW f \in Fingerprints, Answers(r, f),
         store'[f] = store[f], req'[r].todo = req[r].todo,
         req[r].pc = "failed" => req'[r].pc = "failed",
         req'[r].pc \in TaskSteps =>
             req[r].pc \in TaskSteps /\ req'[r].thread = req[r].thread
  PROVE  Answers(r, f)'
BY DEF Answers, Owes, Dropped

\* A task that waits is owed; behind an exception, it is dropped.
LEMMA WaitingAnswers ==
  ASSUME NEW r \in Requests, NEW f \in Fingerprints, NEW i \in DOMAIN req'[r].todo,
         req'[r].todo[i] = f, req'[r].pc \in {"checking", "background", "failed"}
  PROVE  Answers(r, f)'
BY DEF Answers, Owes, Dropped, TaskSteps

\* A handler keeps what is owed, and a new incident gets a task of its own.
LEMMA HandlerKeepsOwed ==
  ASSUME TypeInv, InvestigationIsOwed, NEW r \in Requests,
         \/ Receive(r) \/ CheckResolved(r) \/ ApplyResolved(r)
         \/ CheckFiring(r) \/ CreateIncident(r) \/ Respond(r),
         NEW f \in Fingerprints, restarts = 0, Investigating(f)'
  PROVE  \E s \in Requests : Answers(s, f)'
<1>1. TypeOK /\ req[r] \in RequestState /\ req[r].todo \in Seq(Fingerprints)
  BY DEF TypeInv, TypeOK, RequestState
<1>2. ASSUME NEW t \in Threads, RegisterUnder(r, t)
      PROVE  /\ req'[r].pc \in {"checking", "failed"}
             /\ req'[r].todo = Append(req[r].todo, AlertFp(r))
  BY <1>1, <1>2 DEF RegisterUnder, Fails, TypeOK, RequestState
<1>3. CASE CreateIncident(r) /\ AlertFp(r) = f
  <2>1. /\ req'[r].pc \in {"checking", "failed"}
        /\ req'[r].todo = Append(req[r].todo, f)
    BY <1>2, <1>3 DEF CreateIncident, FreshThreads
  <2>2. /\ Len(req[r].todo) + 1 \in DOMAIN req'[r].todo
        /\ req'[r].todo[Len(req[r].todo) + 1] = f
    BY <1>1, <2>1, AppendProperties, LenProperties
  <2>3. Answers(r, f)'
    BY <2>1, <2>2, WaitingAnswers
  <2> QED
    BY <2>3
<1>4. CASE ~(CreateIncident(r) /\ AlertFp(r) = f)
  <2>1. Investigating(f) /\ store'[f] = store[f]
    <3>1. CASE ApplyResolved(r)
      BY <1>1, <3>1 DEF ApplyResolved, Put, Investigating, TypeOK, IncidentRecord
    <3>2. CASE CreateIncident(r)
      BY <1>1, <1>4, <3>2 DEF CreateIncident, FreshThreads, RegisterUnder,
                                 Investigating, TypeOK
    <3>3. CASE Receive(r) \/ CheckResolved(r) \/ CheckFiring(r) \/ Respond(r)
      BY <3>3 DEF Receive, CheckResolved, CheckFiring, Respond, Investigating
    <3> QED
      BY <3>1, <3>2, <3>3
  <2>2. PICK s \in Requests : Answers(s, f)
    BY <2>1 DEF InvestigationIsOwed, Answers
  <2>3. CASE s # r
    <3>1. req'[s] = req[s]
      BY <1>1, <2>3 DEF TypeOK, Receive, CheckResolved, ApplyResolved, CheckFiring,
             CreateIncident, FreshThreads, RegisterUnder, Respond, Dispose, Fails
    <3> QED
      BY <2>1, <2>2, <3>1, StillAnswers
  <2>4. CASE s = r /\ CreateIncident(r)
    <3>1. /\ req'[r].pc \in {"checking", "failed"}
          /\ req'[r].todo = Append(req[r].todo, AlertFp(r))
      BY <1>2, <2>4 DEF CreateIncident, FreshThreads
    <3>2. PICK i \in DOMAIN req[r].todo : req[r].todo[i] = f
      BY <2>2, <2>4 DEF Answers, Owes, Dropped
    <3>3. AlertFp(r) \in Fingerprints
      BY <2>4, AtAlertType DEF CreateIncident
    <3>4. i \in DOMAIN req'[r].todo /\ req'[r].todo[i] = f
      BY <1>1, <3>1, <3>2, <3>3, AppendProperties, LenProperties
    <3>5. Answers(r, f)'
      BY <3>1, <3>4, WaitingAnswers
    <3> QED
      BY <3>5
  <2>5. CASE s = r /\ ~CreateIncident(r)
    <3>1. /\ req'[r].todo = req[r].todo
          /\ req[r].pc # "failed"
          /\ req'[r].pc \in {"checking", "resolving", "creating", "background", "failed"}
      BY <1>1, <2>5 DEF TypeOK, RequestState, Receive, CheckResolved, ApplyResolved,
             CheckFiring, Respond, Dispose, Fails, AtAlert
    <3> QED
      BY <2>1, <2>2, <2>5, <3>1, StillAnswers DEF TaskSteps
  <2> QED
    BY <2>3, <2>4, <2>5
<1> QED
  BY <1>3, <1>4

\* A task keeps what is owed to other incidents, and settles its own.
LEMMA TaskKeepsOwed ==
  ASSUME TypeInv, InvestigationIsOwed, NEW r \in Requests,
         \/ StartInvestigation(r) \/ AskReturns(r) \/ AskHangs(r)
         \/ RecordFinding(r) \/ FinishRequest(r),
         NEW f \in Fingerprints, restarts = 0, Investigating(f)'
  PROVE  \E s \in Requests : Answers(s, f)'
<1>1. TypeOK /\ req[r] \in RequestState /\ req[r].todo \in Seq(Fingerprints)
  BY DEF TypeInv, TypeOK, RequestState
<1>2. /\ Investigating(f) /\ store'[f] = store[f]
      /\ RecordFinding(r) => f # Head(req[r].todo)
  <2>1. CASE RecordFinding(r)
    <3> DEFINE g == Head(req[r].todo)
               outcome == Outcome(store[g], req[r].thread, req[r].reply)
    <3>1. /\ req[r].todo # <<>> /\ g \in Fingerprints
          /\ req[r].thread \in Threads /\ req[r].reply \in Replies
      BY <1>1, <2>1, HeadTailProperties DEF RecordFinding, TypeInv, TasksAreReady, TaskSteps
    <3>2. store[g] # None => outcome.status # "investigating"
      BY <1>1, <3>1, OutcomeType DEF TypeOK
    <3>3. /\ f = g /\ store[g] # None => store'[f] = outcome
          /\ f # g \/ store[g] = None => store'[f] = store[f]
      BY <1>1, <2>1, <3>1 DEF RecordFinding, Put, TypeOK
    <3> QED
      BY <3>2, <3>3 DEF Investigating
  <2>2. CASE StartInvestigation(r) \/ AskReturns(r) \/ AskHangs(r) \/ FinishRequest(r)
    BY <2>2 DEF StartInvestigation, AskReturns, AskHangs, FinishRequest, RecordFinding,
                Investigating
  <2> QED
    BY <2>1, <2>2
<1>3. PICK s \in Requests : Answers(s, f)
  BY <1>2 DEF InvestigationIsOwed, Answers
<1>4. CASE s # r
  <2>1. req'[s] = req[s]
    BY <1>1, <1>4 DEF TypeOK, StartInvestigation, AskReturns, AskHangs, RecordFinding,
                          NextTask, Fails, FinishRequest
  <2> QED
    BY <1>2, <1>3, <2>1, StillAnswers
<1>5. ASSUME s = r, req[r].todo # <<>>, Head(req[r].todo) # f,
             req'[r].todo = Tail(req[r].todo), req'[r].pc \in {"background", "failed"}
      PROVE  Answers(r, f)'
  <2>1. PICK i \in DOMAIN req[r].todo : req[r].todo[i] = f
    BY <1>3, <1>5 DEF Answers, Owes, Dropped
  <2>2. i \in 1..Len(req[r].todo) /\ i # 1
    BY <1>1, <1>5, <2>1, LenProperties
  <2>3. i - 1 \in DOMAIN Tail(req[r].todo) /\ Tail(req[r].todo)[i - 1] = f
    BY <1>1, <1>5, <2>1, <2>2, HeadTailProperties, LenProperties, SMTT(30)
  <2> QED
    BY <1>5, <2>3, WaitingAnswers
<1>6. CASE s = r /\ StartInvestigation(r)
  <2> DEFINE record == store[Head(req[r].todo)]
  <2>1. CASE record = None
    <3>1. /\ req[r].todo # <<>> /\ Head(req[r].todo) # f
          /\ req'[r].todo = Tail(req[r].todo) /\ req'[r].pc = "background"
      BY <1>1, <1>2, <1>6, <2>1 DEF StartInvestigation, Investigating, TypeOK, RequestState
    <3> QED
      BY <1>5, <1>6, <3>1
  <2>2. CASE record # None
    <3>1. /\ req'[r].todo = req[r].todo /\ req'[r].pc = "asking"
          /\ req'[r].thread = store[Head(req[r].todo)].thread
      BY <1>1, <1>6, <2>2 DEF StartInvestigation, TypeOK, RequestState
    <3>2. PICK i \in DOMAIN req[r].todo : req[r].todo[i] = f
      BY <1>3, <1>6 DEF Answers, Owes, Dropped
    <3>3. i = 1 => req'[r].thread = store'[f].thread
      BY <1>1, <1>2, <3>1, <3>2
    <3>4. Answers(r, f)'
      BY <3>1, <3>2, <3>3 DEF Answers, Owes
    <3> QED
      BY <3>4
  <2> QED
    BY <2>1, <2>2
<1>7. CASE s = r /\ (AskReturns(r) \/ AskHangs(r))
  <2>1. /\ req'[r].todo = req[r].todo /\ req'[r].thread = req[r].thread
        /\ req'[r].pc # "failed"
    <3>1. CASE AskHangs(r)
      BY <1>1, <3>1 DEF AskHangs, TypeOK, RequestState
    <3>2. ASSUME NEW reply \in Replies,
                 req' = [req EXCEPT ![r].pc = "recording", ![r].reply = reply]
          PROVE  /\ req'[r].todo = req[r].todo /\ req'[r].thread = req[r].thread
                 /\ req'[r].pc # "failed"
      BY <1>1, <3>2 DEF TypeOK, RequestState
    <3> QED
      BY <1>7, <3>1, <3>2 DEF AskReturns
  <2>2. req[r].pc = "asking"
    BY <1>7 DEF AskReturns, AskHangs
  <2> QED
    BY <1>2, <1>3, <1>7, <2>1, <2>2, StillAnswers DEF TaskSteps
<1>8. CASE s = r /\ RecordFinding(r)
  <2>1. /\ req[r].todo # <<>> /\ req'[r].todo = Tail(req[r].todo)
        /\ req'[r].pc \in {"background", "failed"}
    BY <1>1, <1>8, SMTT(30) DEF RecordFinding, NextTask, Fails, TypeOK, RequestState, TypeInv,
                      TasksAreReady, TaskSteps
  <2> QED
    BY <1>2, <1>5, <1>8, <2>1
<1>9. CASE s = r /\ FinishRequest(r)
  BY <1>1, <1>3, <1>9 DEF FinishRequest, Answers, Owes, Dropped
<1> QED
  BY <1>4, <1>6, <1>7, <1>8, <1>9

\* An operator moves no task, and what it writes settles the incident.
LEMMA OperatorKeepsOwed ==
  ASSUME TypeInv, InvestigationIsOwed, NEW o \in Operators, OperatorStep(o),
         NEW f \in Fingerprints, restarts = 0, Investigating(f)'
  PROVE  \E s \in Requests : Answers(s, f)'
<1>1. UNCHANGED req
  BY DEF OperatorStep, ShowApproval, Decide, RespondReturns, FindRecord, RecordApproval
<1>2. Investigating(f) /\ store'[f] = store[f]
  <2>1. CASE RecordApproval(o)
    <3> DEFINE g == op[o].fp
               outcome == Outcome(store[g], op[o].thread, op[o].reply)
    <3>1. /\ TypeOK /\ g \in Fingerprints
          /\ op[o].thread \in Threads /\ op[o].reply \in Replies
      BY <2>1 DEF RecordApproval, TypeInv, ApprovalsAreReady, Replies
    <3>2. store[g] # None => outcome.status # "investigating"
      BY <3>1, OutcomeType DEF TypeOK
    <3>3. /\ f = g /\ store[g] # None => store'[f] = outcome
          /\ f # g \/ store[g] = None => store'[f] = store[f]
      BY <2>1, <3>1 DEF RecordApproval, Put, TypeOK
    <3> QED
      BY <3>2, <3>3 DEF Investigating
  <2>2. CASE ~RecordApproval(o)
    BY <2>2 DEF OperatorStep, ShowApproval, Decide, RespondReturns, FindRecord, Investigating
  <2> QED
    BY <2>1, <2>2
<1>3. PICK s \in Requests : Answers(s, f)
  BY <1>2 DEF InvestigationIsOwed, Answers
<1> QED
  BY <1>1, <1>2, <1>3, StillAnswers

\* Every step keeps it, until the process restarts.
LEMMA StepKeepsOwed == TypeInv /\ InvestigationIsOwed /\ [Next]_vars => InvestigationIsOwed'
<1> SUFFICES ASSUME TypeInv, InvestigationIsOwed, [Next]_vars, restarts' = 0,
                    NEW f \in Fingerprints, Investigating(f)'
             PROVE  \E s \in Requests : Answers(s, f)'
  BY DEF InvestigationIsOwed, Answers
<1>1. CASE \E r \in Requests : Receive(r) \/ RequestStep(r)
  <2>1. PICK r \in Requests : Receive(r) \/ RequestStep(r)
    BY <1>1
  <2>2. restarts = 0
    BY <2>1 DEF RequestStep, Receive, CheckResolved, ApplyResolved, CheckFiring, CreateIncident,
                RegisterUnder, Respond, StartInvestigation, AskReturns, AskHangs, RecordFinding,
                FinishRequest
  <2> QED
    BY <2>1, <2>2, HandlerKeepsOwed, TaskKeepsOwed DEF RequestStep
<1>2. CASE \E o \in Operators : OperatorStep(o)
  <2>1. PICK o \in Operators : OperatorStep(o)
    BY <1>2
  <2>2. restarts = 0
    BY <2>1 DEF OperatorStep, ShowApproval, Decide, RespondReturns, FindRecord, RecordApproval
  <2> QED
    BY <2>1, <2>2, OperatorKeepsOwed
<1>3. CASE Restart
  BY <1>3 DEF Restart, TypeInv, TypeOK
<1>4. CASE UNCHANGED vars
  BY <1>4 DEF vars, InvestigationIsOwed, Investigating, Answers, Owes, Dropped
<1> QED
  BY <1>1, <1>2, <1>3, <1>4 DEF Next

\* No incident is orphaned but by a restart or an error of SQLite: until the
\* process restarts, an incident shown as under investigation has a task that has
\* still to settle it, or one that an exception of the store ended first.
THEOREM NoIncidentIsOrphaned == Spec => []InvestigationIsOwed
<1>1. Init => InvestigationIsOwed
  BY DEF Init, InvestigationIsOwed, Investigating
<1> QED
  BY <1>1, TypeInvariant, StepKeepsOwed, PTL DEF Spec

\* A handler, or a list of tasks, fails only by an error of SQLite.
FailedByFault == faults = 0 => \A r \in Requests : req[r].pc # "failed"

\* No step fails one otherwise.
LEMMA StepKeepsUnfailed == TypeInv /\ FailedByFault /\ [Next]_vars => FailedByFault'
<1> SUFFICES ASSUME TypeInv, FailedByFault, [Next]_vars, faults' = 0,
                    NEW r \in Requests
             PROVE  req'[r].pc # "failed"
  BY DEF FailedByFault
<1>1. TypeOK /\ req[r] \in RequestState
  BY DEF TypeInv, TypeOK
<1>2. faults = 0 /\ \A f : ~Raises(f)
  <2>1. \A f : ~Raises(f)
    BY <1>1 DEF Raises, TypeOK
  <2>2. UNCHANGED faults
    BY <2>1 DEF Next, vars, RequestStep, OperatorStep, Receive, CheckResolved, ApplyResolved,
           CheckFiring, CreateIncident, RegisterUnder, Respond, StartInvestigation, AskReturns,
           AskHangs, RecordFinding, FinishRequest, ShowApproval, Decide, RespondReturns,
           FindRecord, RecordApproval, Restart, Commits
  <2> QED
    BY <2>1, <2>2
<1>3. req[r].pc # "failed"
  BY <1>2 DEF FailedByFault
<1>4. ASSUME NEW s \in Requests, Receive(s) \/ RequestStep(s) PROVE req'[r].pc # "failed"
  <2>1. req \in [Requests -> RequestState] /\ req[s] \in RequestState
    BY <1>1 DEF TypeOK
  <2> USE <1>3, <2>1 DEF RequestState
  <2>2. CASE Receive(s)
    BY <2>2 DEF Receive
  <2>3. CASE CheckResolved(s) \/ CheckFiring(s)
    BY <2>3 DEF CheckResolved, CheckFiring, Dispose
  <2>4. CASE ApplyResolved(s)
    BY <1>2, <2>4 DEF ApplyResolved, Dispose
  <2>5. CASE CreateIncident(s)
    <3>1. PICK t \in Threads : RegisterUnder(s, t)
      BY <2>5 DEF CreateIncident, FreshThreads
    <3> QED
      BY <1>2, <3>1, SMTT(30) DEF RegisterUnder
  <2>6. CASE Respond(s) \/ FinishRequest(s)
    BY <2>6 DEF Respond, FinishRequest
  <2>7. CASE StartInvestigation(s)
    BY <2>7 DEF StartInvestigation
  <2>8. CASE AskReturns(s) \/ AskHangs(s)
    <3>1. CASE AskHangs(s)
      BY <3>1 DEF AskHangs
    <3>2. ASSUME NEW reply, req' = [req EXCEPT ![s].pc = "recording", ![s].reply = reply]
          PROVE  req'[r].pc # "failed"
      BY <3>2
    <3>3. CASE AskReturns(s)
      BY <3>2, <3>3, Zenon DEF AskReturns
    <3> QED
      BY <2>8, <3>1, <3>3
  <2>9. CASE RecordFinding(s)
    <3>1. NextTask(s)
      BY <1>2, <2>9, Zenon DEF RecordFinding
    <3> QED
      BY <3>1 DEF NextTask
  <2> QED
    BY <1>4, <2>2, <2>3, <2>4, <2>5, <2>6, <2>7, <2>8, <2>9 DEF RequestStep
<1>5. CASE \E o \in Operators : OperatorStep(o)
  BY <1>3, <1>5 DEF OperatorStep, ShowApproval, Decide, RespondReturns, FindRecord,
                    RecordApproval
<1>6. CASE Restart
  BY <1>3, <1>6 DEF Restart
<1>7. CASE UNCHANGED vars
  BY <1>3, <1>7 DEF vars
<1> QED
  BY <1>4, <1>5, <1>6, <1>7 DEF Next

\* With neither a restart nor an error of SQLite, an incident shown as under
\* investigation always has a task that has still to settle it.
THEOREM NoIncidentIsDroppedUnfailed ==
  Spec => [](restarts = 0 /\ faults = 0 => NoIncidentIsDropped)
<1>1. Init => FailedByFault
  BY DEF Init, FailedByFault
<1>2. InvestigationIsOwed /\ FailedByFault
        => (restarts = 0 /\ faults = 0 => NoIncidentIsDropped)
  BY DEF InvestigationIsOwed, FailedByFault, NoIncidentIsDropped, Dropped
<1> QED
  BY <1>1, <1>2, TypeInvariant, NoIncidentIsOrphaned, StepKeepsUnfailed, PTL DEF Spec

-----------------------------------------------------------------------------
(* A repeat notification keeps its incident.                                *)

\* Notifications are handled one at a time.
OneHandler ==
    \A r, s \in Requests :
        req[r].pc \in HandlerSteps /\ req[s].pc \in HandlerSteps => r = s

\* Until an error of SQLite, a restart reads back what the dict holds.
InSync == faults = 0 => store = disk

\* An alert last seen firing has an open incident, ...
FiringIsOpen == \A f \in Fingerprints : lastSeen[f] = "firing" => Open(f)

\* ... and one whose incident is about to be created was not last seen firing;
\* only a restart after an error of SQLite can take an open incident away.
CreatingIsNews ==
    \A r \in Requests : req[r].pc = "creating" => lastSeen[AlertFp(r)] # "firing"

ResendInv ==
    /\ OneHandler
    /\ InSync
    /\ faults = 0 \/ restarts = 0 => FiringIsOpen /\ CreatingIsNews

\* What a handler that is done with an alert, or fails on it, has seen of it.
LEMMA SeesOne ==
  ASSUME TypeInv, NEW r \in Requests, NEW pc, NEW status,
         AtAlert(r, pc, status), Sees(r)
  PROVE  /\ lastSeen'[AlertFp(r)] = status
         /\ \A f \in Fingerprints : f # AlertFp(r) => lastSeen'[f] = lastSeen[f]
BY AtAlertType DEF TypeInv, TypeOK, Sees, AtAlert

\* Errors and restarts are counted up.
LEMMA CountersGrow ==
  ASSUME TypeInv, [Next]_vars
  PROVE  /\ faults' = 0 => faults = 0
         /\ restarts' = 0 => restarts = 0 /\ ~Restart
<1>1. faults \in Nat /\ restarts \in Nat
  BY DEF TypeInv, TypeOK
<1>2. faults' \in {faults, faults + 1}
  BY DEF Next, vars, RequestStep, OperatorStep, Receive, CheckResolved, ApplyResolved,
         CheckFiring, CreateIncident, RegisterUnder, Respond, StartInvestigation, AskReturns,
         AskHangs, RecordFinding, FinishRequest, ShowApproval, Decide, RespondReturns,
         FindRecord, RecordApproval, Restart, Commits, Raises
<1>3. ~Restart => restarts' = restarts
  BY DEF Next, vars, RequestStep, OperatorStep, Receive, CheckResolved, ApplyResolved,
         CheckFiring, CreateIncident, RegisterUnder, Respond, StartInvestigation, AskReturns,
         AskHangs, RecordFinding, FinishRequest, ShowApproval, Decide, RespondReturns,
         FindRecord, RecordApproval
<1>4. Restart => restarts' = restarts + 1
  BY DEF Restart
<1> QED
  BY <1>1, <1>2, <1>3, <1>4

\* Every write that does not raise keeps dict and table together.
LEMMA StepKeepsInSync == TypeInv /\ InSync /\ [Next]_vars => InSync'
<1> SUFFICES ASSUME TypeInv, InSync, [Next]_vars, faults' = 0 PROVE store' = disk'
  BY DEF InSync
<1>1. TypeOK /\ store = disk
  BY CountersGrow DEF TypeInv, InSync
<1>2. \A f : ~Raises(f)
  BY <1>1 DEF Raises, TypeOK
<1>3. ASSUME NEW f, NEW record, Put(f, record), Commits(f) PROVE store' = disk'
  BY <1>1, <1>3 DEF Put, Commits, TypeOK
<1>4. ASSUME NEW r \in Requests, Receive(r) \/ RequestStep(r) PROVE store' = disk'
  <2>1. CASE ApplyResolved(r)
    BY <1>2, <1>3, <2>1 DEF ApplyResolved
  <2>2. CASE CreateIncident(r)
    <3>1. PICK t \in Threads : RegisterUnder(r, t)
      BY <2>2 DEF CreateIncident, FreshThreads
    <3>2. AlertFp(r) \in Fingerprints
      BY <2>2, AtAlertType DEF CreateIncident
    <3> QED
      BY <1>1, <1>2, <3>1, <3>2 DEF RegisterUnder, Commits, TypeOK
  <2>3. CASE RecordFinding(r)
    BY <1>2, <1>3, <2>3 DEF RecordFinding
  <2>4. CASE \/ Receive(r) \/ CheckResolved(r) \/ CheckFiring(r) \/ Respond(r)
             \/ StartInvestigation(r) \/ AskReturns(r) \/ AskHangs(r) \/ FinishRequest(r)
    BY <1>1, <2>4 DEF Receive, CheckResolved, CheckFiring, Respond, StartInvestigation,
                AskReturns, AskHangs, FinishRequest
  <2> QED
    BY <1>4, <2>1, <2>2, <2>3, <2>4 DEF RequestStep
<1>5. ASSUME NEW o \in Operators, OperatorStep(o) PROVE store' = disk'
  <2>1. CASE RecordApproval(o)
    BY <1>2, <1>3, <2>1 DEF RecordApproval
  <2>2. CASE ShowApproval(o) \/ Decide(o) \/ RespondReturns(o) \/ FindRecord(o)
    BY <1>1, <2>2 DEF ShowApproval, Decide, RespondReturns, FindRecord
  <2> QED
    BY <1>5, <2>1, <2>2 DEF OperatorStep
<1>6. CASE Restart \/ UNCHANGED vars
  BY <1>1, <1>6 DEF Restart, vars
<1> QED
  BY <1>4, <1>5, <1>6 DEF Next

\* An open incident stays open, on its conversation, unless a handler resolves
\* or creates just that one.
LEMMA StaysOpen ==
  ASSUME TypeInv, [Next]_vars, NEW f \in Fingerprints, Open(f),
         \A r \in Requests : AlertFp(r) = f => ~ApplyResolved(r) /\ ~CreateIncident(r),
         Restart => store = disk
  PROVE  Open(f)' /\ store'[f].thread = store[f].thread
<1>1. TypeOK /\ store[f] \in IncidentRecord
  BY DEF TypeInv, TypeOK, Open
<1>2. ASSUME NEW g, NEW t \in Threads, NEW reply \in Replies,
             Put(g, Outcome(store[g], t, reply))
      PROVE  Open(f)' /\ store'[f].thread = store[f].thread
  <2>1. CASE g = f
    <3>1. store'[f] = Outcome(store[f], t, reply)
      BY <1>1, <1>2, <2>1 DEF Put, Open, TypeOK
    <3>2. /\ store'[f] \in IncidentRecord
          /\ store'[f].thread = store[f].thread /\ store'[f].status # "resolved"
      BY <1>1, <3>1, OutcomeType
    <3> QED
      BY <3>2, NoneIsNoRecord DEF Open
  <2>2. CASE g # f
    BY <1>1, <1>2, <2>2 DEF Put, Open, TypeOK
  <2> QED
    BY <2>1, <2>2
<1>3. CASE \E r \in Requests : Receive(r) \/ RequestStep(r)
  <2>1. PICK r \in Requests : Receive(r) \/ RequestStep(r)
    BY <1>3
  <2>2. CASE ApplyResolved(r)
    BY <1>1, <2>2 DEF ApplyResolved, Put, Open, TypeOK
  <2>3. CASE CreateIncident(r)
    BY <1>1, <2>3 DEF CreateIncident, FreshThreads, RegisterUnder, Open, TypeOK
  <2>4. CASE RecordFinding(r)
    BY <1>2, <2>4 DEF RecordFinding, TypeInv, TasksAreReady, TaskSteps
  <2>5. CASE \/ Receive(r) \/ CheckResolved(r) \/ CheckFiring(r) \/ Respond(r)
             \/ StartInvestigation(r) \/ AskReturns(r) \/ AskHangs(r) \/ FinishRequest(r)
    BY <2>5 DEF Receive, CheckResolved, CheckFiring, Respond, StartInvestigation,
                AskReturns, AskHangs, FinishRequest, Open
  <2> QED
    BY <2>1, <2>2, <2>3, <2>4, <2>5 DEF RequestStep
<1>4. CASE \E o \in Operators : OperatorStep(o)
  <2>1. PICK o \in Operators : OperatorStep(o)
    BY <1>4
  <2>2. CASE RecordApproval(o)
    BY <1>2, <2>2 DEF RecordApproval, TypeInv, ApprovalsAreReady, Replies
  <2>3. CASE ShowApproval(o) \/ Decide(o) \/ RespondReturns(o) \/ FindRecord(o)
    BY <2>3 DEF ShowApproval, Decide, RespondReturns, FindRecord, Open
  <2> QED
    BY <2>1, <2>2, <2>3 DEF OperatorStep
<1>5. CASE Restart \/ UNCHANGED vars
  BY <1>5 DEF Restart, vars, Open
<1> QED
  BY <1>3, <1>4, <1>5 DEF Next

\* One at a time, because a notification waits while another is handled.
LEMMA StepKeepsOneHandler ==
  ASSUME IsFiniteSet(Requests), MaxHandlers = 1, TypeInv, OneHandler, [Next]_vars
  PROVE  OneHandler'
<1>1. TypeOK /\ req \in [Requests -> RequestState]
  BY DEF TypeInv, TypeOK
<1>2. ASSUME NEW r \in Requests, Receive(r)
      PROVE  \A s \in Requests : req[s].pc \notin HandlerSteps
  <2> DEFINE busy == {s \in Requests : req[s].pc \in HandlerSteps}
  <2>1. IsFiniteSet(busy)
    BY FS_Subset
  <2>2. Cardinality(busy) < 1
    BY <1>2 DEF Receive, HandlersBusy
  <2>3. busy = {}
    BY <2>1, <2>2, FS_CardinalityType, FS_EmptySet
  <2> QED
    BY <2>3
<1>3. ASSUME NEW r \in Requests, Receive(r) \/ RequestStep(r)
      PROVE  \A s \in Requests \ {r} : req'[s] = req[s]
  BY <1>1, <1>3 DEF Receive, RequestStep, CheckResolved, ApplyResolved, CheckFiring,
       CreateIncident, RegisterUnder, Respond, StartInvestigation, AskReturns, AskHangs,
       RecordFinding, FinishRequest, Dispose, NextTask, Fails
<1>4. ASSUME NEW r \in Requests, RequestStep(r), req'[r].pc \in HandlerSteps
      PROVE  req[r].pc \in HandlerSteps
  <2> USE <1>1, <1>4 DEF RequestState, HandlerSteps
  <2>1. CASE CheckResolved(r) \/ CheckFiring(r)
    BY <2>1 DEF CheckResolved, CheckFiring, AtAlert
  <2>2. CASE ApplyResolved(r) \/ CreateIncident(r)
    BY <2>2 DEF ApplyResolved, CreateIncident, RegisterUnder, AtAlert, Fails
  <2>3. CASE Respond(r)
    BY <2>3 DEF Respond
  <2>4. CASE StartInvestigation(r) \/ AskReturns(r) \/ AskHangs(r)
    BY <2>4 DEF StartInvestigation, AskReturns, AskHangs
  <2>5. CASE RecordFinding(r) \/ FinishRequest(r)
    BY <2>5 DEF RecordFinding, FinishRequest, NextTask, Fails
  <2> QED
    BY <2>1, <2>2, <2>3, <2>4, <2>5 DEF RequestStep
<1>5. CASE \E r \in Requests : Receive(r) \/ RequestStep(r)
  BY <1>2, <1>3, <1>4, <1>5 DEF OneHandler
<1>6. CASE \E o \in Operators : OperatorStep(o)
  BY <1>6 DEF OneHandler, OperatorStep, ShowApproval, Decide, RespondReturns, FindRecord,
       RecordApproval
<1>7. CASE Restart
  BY <1>7 DEF OneHandler, Restart, HandlerSteps
<1>8. CASE UNCHANGED vars
  BY <1>8 DEF OneHandler, vars
<1> QED
  BY <1>5, <1>6, <1>7, <1>8 DEF Next

\* Only a handler that is done with an alert changes what was last seen of it.
LEMMA SeenByHandler ==
  ASSUME TypeInv, [Next]_vars, NEW f \in Fingerprints, lastSeen'[f] # lastSeen[f]
  PROVE  \E r \in Requests :
            /\ AlertFp(r) = f
            /\ req[r].pc \in HandlerSteps
            /\ \/ lastSeen'[f] = "resolved" /\ (CheckResolved(r) \/ ApplyResolved(r))
               \/ CheckFiring(r) /\ Open(f) /\ UNCHANGED store
               \/ CreateIncident(r)
<1>1. TypeOK
  BY DEF TypeInv
<1>2. PICK r \in Requests :
        CheckResolved(r) \/ ApplyResolved(r) \/ CheckFiring(r) \/ CreateIncident(r)
  BY DEF Next, vars, RequestStep, OperatorStep, Receive, Respond, StartInvestigation,
         AskReturns, AskHangs, RecordFinding, FinishRequest, ShowApproval, Decide,
         RespondReturns, FindRecord, RecordApproval, Restart
<1>3. req[r].pc \in HandlerSteps
  BY <1>2 DEF CheckResolved, ApplyResolved, CheckFiring, CreateIncident, AtAlert, HandlerSteps
<1>4. CASE CheckResolved(r)
  <2>1. AtAlert(r, "checking", "resolved") /\ Sees(r)
    BY <1>4 DEF CheckResolved, Dispose
  <2> QED
    BY <1>3, <1>4, <2>1, SeesOne
<1>5. CASE ApplyResolved(r)
  <2>1. AtAlert(r, "resolving", "resolved") /\ Sees(r)
    BY <1>5 DEF ApplyResolved, Dispose
  <2> QED
    BY <1>3, <1>5, <2>1, SeesOne
<1>6. CASE CheckFiring(r)
  <2>1. AtAlert(r, "checking", "firing") /\ Sees(r) /\ Open(AlertFp(r)) /\ UNCHANGED store
    BY <1>6 DEF CheckFiring, Dispose
  <2> QED
    BY <1>3, <1>6, <2>1, SeesOne
<1>7. CASE CreateIncident(r)
  <2>1. AlertFp(r) = f
    BY <1>1, <1>7, AtAlertType DEF CreateIncident, FreshThreads, RegisterUnder, Sees, TypeOK
  <2> QED
    BY <1>3, <1>7, <2>1
<1> QED
  BY <1>2, <1>4, <1>5, <1>6, <1>7

\* Seeing an alert fire leaves its incident open, and nothing closes it but
\* seeing the alert resolved.
LEMMA StepKeepsFiringOpen ==
  ASSUME TypeInv, FiringIsOpen, [Next]_vars, Restart => store = disk
  PROVE  FiringIsOpen'
<1> SUFFICES ASSUME NEW f \in Fingerprints, lastSeen'[f] = "firing" PROVE Open(f)'
  BY DEF FiringIsOpen, Open
<1>1. TypeOK
  BY DEF TypeInv
<1>2. CASE \E r \in Requests : AlertFp(r) = f /\ ApplyResolved(r)
  <2>1. PICK r \in Requests : AlertFp(r) = f /\ ApplyResolved(r)
    BY <1>2
  <2>2. AtAlert(r, "resolving", "resolved") /\ Sees(r)
    BY <2>1 DEF ApplyResolved, Dispose
  <2> QED
    BY <2>1, <2>2, SeesOne
<1>3. CASE \E r \in Requests : AlertFp(r) = f /\ CreateIncident(r)
  <2>1. PICK t \in Threads : store' = [store EXCEPT ![f] = NewRecord(t)]
    BY <1>3 DEF CreateIncident, FreshThreads, RegisterUnder
  <2>2. store'[f] = NewRecord(t)
    BY <1>1, <2>1 DEF TypeOK
  <2> QED
    BY <2>2, NewRecordType, NoneIsNoRecord DEF Open
<1>4. CASE \A r \in Requests : AlertFp(r) = f => ~ApplyResolved(r) /\ ~CreateIncident(r)
  <2>1. CASE lastSeen[f] = "firing"
    BY <1>4, <2>1, StaysOpen DEF FiringIsOpen
  <2>2. CASE lastSeen[f] # "firing"
    BY <1>4, <2>2, SeenByHandler DEF Open
  <2> QED
    BY <2>1, <2>2
<1> QED
  BY <1>2, <1>3, <1>4

\* A handler goes on to create only what was not last seen firing, and with no
\* other handler about, it stays that way.
LEMMA StepKeepsNews ==
  ASSUME TypeInv, OneHandler, FiringIsOpen, CreatingIsNews, [Next]_vars
  PROVE  CreatingIsNews'
<1> SUFFICES ASSUME NEW r \in Requests, req'[r].pc = "creating"
             PROVE  lastSeen'[AlertFp(r)'] # "firing"
  BY DEF CreatingIsNews, AlertFp
<1>1. TypeOK /\ req[r] \in RequestState
  BY DEF TypeInv, TypeOK
<1>2. CASE req'[r] = req[r]
  <2>1. lastSeen[AlertFp(r)] # "firing" /\ AlertFp(r)' = AlertFp(r)
    BY <1>2 DEF CreatingIsNews, AlertFp
  <2>2. CASE UNCHANGED lastSeen
    BY <2>1, <2>2
  <2>3. CASE ~UNCHANGED lastSeen
    <3>1. PICK s \in Requests :
            /\ CheckResolved(s) \/ ApplyResolved(s) \/ CheckFiring(s) \/ CreateIncident(s)
            /\ req[s].pc \in HandlerSteps
      BY <2>3 DEF Next, vars, RequestStep, OperatorStep, Receive, Respond, StartInvestigation,
           AskReturns, AskHangs, RecordFinding, FinishRequest, ShowApproval, Decide,
           RespondReturns, FindRecord, RecordApproval, Restart, CheckResolved, ApplyResolved, CheckFiring,
           CreateIncident, AtAlert, HandlerSteps
    <3>2. s = r /\ req[r].pc = "creating"
      BY <1>2, <3>1 DEF OneHandler, HandlerSteps
    <3>3. CreateIncident(r)
      BY <3>1, <3>2 DEF CheckResolved, ApplyResolved, CheckFiring, AtAlert
    <3>4. req'[r].pc \in {"checking", "failed"}
      BY <1>1, <3>3 DEF CreateIncident, FreshThreads, RegisterUnder, Fails, TypeOK, RequestState
    <3> QED
      BY <3>4
  <2> QED
    BY <2>2, <2>3
<1>3. CASE req'[r] # req[r]
  <2>1. CheckFiring(r)
    <3>1. ASSUME NEW s \in Requests, Receive(s) \/ RequestStep(s) PROVE s = r
      BY <1>1, <1>3, <3>1 DEF TypeOK, Receive, RequestStep, CheckResolved, ApplyResolved,
           CheckFiring, CreateIncident, RegisterUnder, Respond, StartInvestigation,
           AskReturns, AskHangs, RecordFinding, FinishRequest, Dispose, NextTask, Fails
    <3>2. Receive(r) \/ RequestStep(r)
      <4>1. ~Restart
        BY <1>3 DEF Restart
      <4>2. ~\E o \in Operators : OperatorStep(o)
        BY <1>3 DEF OperatorStep, ShowApproval, Decide, RespondReturns, FindRecord,
             RecordApproval
      <4>3. ~UNCHANGED vars
        BY <1>3 DEF vars
      <4> QED
        BY <3>1, <4>1, <4>2, <4>3 DEF Next
    <3>3. ~Receive(r) /\ ~CheckResolved(r) /\ ~ApplyResolved(r) /\ ~Respond(r)
      BY <1>1 DEF TypeOK, RequestState, Receive, CheckResolved, ApplyResolved, Respond,
           Dispose, Fails
    <3>4. ~CreateIncident(r)
      BY <1>1 DEF TypeOK, RequestState, CreateIncident, FreshThreads, RegisterUnder, Fails
    <3>5. ~StartInvestigation(r)
      <4> DEFINE thread == store[Head(req[r].todo)].thread
      <4>1. ASSUME req[r].pc = "background", req' = [req EXCEPT ![r].todo = Tail(@)]
            PROVE  FALSE
        BY <1>1, <4>1 DEF TypeOK, RequestState
      <4>2. ASSUME req' = [req EXCEPT ![r].pc = "asking", ![r].thread = thread]
            PROVE  FALSE
        BY <1>1, <4>2 DEF TypeOK, RequestState
      <4> QED
        BY <4>1, <4>2 DEF StartInvestigation
    <3>6. ~AskReturns(r) /\ ~AskHangs(r)
      <4>1. ASSUME NEW reply \in Replies,
                   req' = [req EXCEPT ![r].pc = "recording", ![r].reply = reply]
            PROVE  FALSE
        BY <1>1, <4>1 DEF TypeOK, RequestState
      <4> QED
        BY <1>1, <4>1 DEF AskReturns, AskHangs, TypeOK, RequestState
    <3>7. ~RecordFinding(r) /\ ~FinishRequest(r)
      BY <1>1 DEF TypeOK, RequestState, RecordFinding, NextTask, Fails, FinishRequest
    <3> QED
      BY <3>2, <3>3, <3>4, <3>5, <3>6, <3>7 DEF RequestStep
  <2>2. ~Dispose(r)
    BY <1>1 DEF TypeOK, RequestState, Dispose
  <2>3. /\ ~Open(AlertFp(r)) /\ UNCHANGED lastSeen
        /\ req' = [req EXCEPT ![r].pc = "creating"]
    BY <2>1, <2>2 DEF CheckFiring
  <2>4. AlertFp(r)' = AlertFp(r) /\ AlertFp(r) \in Fingerprints
    BY <1>1, <2>1, <2>3, AtAlertType DEF TypeOK, RequestState, AlertFp, CheckFiring
  <2> QED
    BY <2>3, <2>4 DEF FiringIsOpen
<1> QED
  BY <1>2, <1>3

\* While notifications are handled one at a time, the three hold together.
LEMMA ResendInvariant ==
  ASSUME IsFiniteSet(Requests), MaxHandlers = 1
  PROVE  Spec => []ResendInv
<1>1. Init => ResendInv
  BY DEF Init, ResendInv, OneHandler, InSync, FiringIsOpen, CreatingIsNews, HandlerSteps
<1>2. ASSUME TypeInv, ResendInv, [Next]_vars PROVE ResendInv'
  <2>1. OneHandler' /\ InSync'
    BY <1>2, StepKeepsOneHandler, StepKeepsInSync DEF ResendInv
  <2>2. ASSUME faults' = 0 \/ restarts' = 0 PROVE FiringIsOpen' /\ CreatingIsNews'
    <3>1. (faults = 0 \/ restarts = 0) /\ (Restart => store = disk)
      BY <1>2, <2>2, CountersGrow DEF ResendInv, InSync
    <3> QED
      BY <1>2, <3>1, StepKeepsFiringOpen, StepKeepsNews DEF ResendInv
  <2> QED
    BY <2>1, <2>2 DEF ResendInv
<1> QED
  BY <1>1, <1>2, TypeInvariant, PTL DEF Spec

\* While notifications are handled one at a time, a repeat notification of an
\* alert that is still firing never replaces its incident, whatever tasks,
\* approvals, errors of SQLite or restarts come in between, but for a restart
\* together with an error.
THEOREM ResendIsNoNewIncident ==
  ASSUME IsFiniteSet(Requests), MaxHandlers = 1
  PROVE  Spec => ResendKeepsIncident
<1>1. ASSUME TypeInv, ResendInv, [Next]_vars
      PROVE  [\A f \in Fingerprints :
                lastSeen[f] = "firing" /\ lastSeen'[f] = "firing"
                /\ (faults' = 0 \/ restarts' = 0) =>
                    store[f] # None /\ store'[f].thread = store[f].thread]_vars
  <2> SUFFICES ASSUME NEW f \in Fingerprints, lastSeen[f] = "firing", lastSeen'[f] = "firing",
                      faults' = 0 \/ restarts' = 0
               PROVE  store[f] # None /\ store'[f].thread = store[f].thread
    OBVIOUS
  <2>1. (faults = 0 \/ restarts = 0) /\ (Restart => store = disk)
    BY <1>1, CountersGrow DEF ResendInv, InSync
  <2>2. TypeOK /\ Open(f) /\ CreatingIsNews
    BY <1>1, <2>1 DEF TypeInv, ResendInv, FiringIsOpen
  <2>3. CASE \E r \in Requests : AlertFp(r) = f /\ ApplyResolved(r)
    BY <2>2, <2>3 DEF ApplyResolved, Dispose, Sees, AtAlert, TypeOK
  <2>4. CASE \E r \in Requests : AlertFp(r) = f /\ CreateIncident(r)
    BY <2>2, <2>4 DEF CreateIncident, AtAlert, CreatingIsNews
  <2>5. CASE \A r \in Requests : AlertFp(r) = f => ~ApplyResolved(r) /\ ~CreateIncident(r)
    BY <1>1, <2>1, <2>2, <2>5, StaysOpen DEF Open
  <2> QED
    BY <2>3, <2>4, <2>5
<1> QED
  BY <1>1, TypeInvariant, ResendInvariant, PTL DEF Spec, ResendKeepsIncident
=============================================================================
