----------------------------- MODULE AutoTriage -----------------------------
(***************************************************************************)
(* Auto-triage of firing alerts: the Alertmanager webhook, the background  *)
(* investigation of each new incident, and the operators who answer the    *)
(* remediation an investigation proposes.                                  *)
(*                                                                         *)
(*   ai_platform/webui/auto_responder.py   the three functions that decide *)
(*   ai_platform/webui/server.py           the endpoints that call them    *)
(*   ai_platform/tools/incident_store.py   the registry they share         *)
(*   ai_platform/webui/static/index.html   the panel an operator acts on   *)
(*                                                                         *)
(* Every endpoint is a plain `def`, so requests run concurrently in a      *)
(* thread pool.  A step here is one critical section of the store's lock   *)
(* (module IncidentStore opens it up) or one call on the copilot.  A write *)
(* to the store may raise, and a call on the copilot may never return.     *)
(***************************************************************************)
EXTENDS Naturals, Sequences, FiniteSets

CONSTANTS
    Fingerprints,   \* alert identities: a hash of the alert's label set
    Requests,       \* webhook POSTs; each is delivered at most once
    Operators,      \* browsers showing the Incidents panel
    Threads,        \* the conversation ids uuid4 can mint
    None,           \* Python's None
    MaxAlerts,      \* bound: alerts grouped into one POST
    MaxHandlers,    \* bound: POSTs being handled at the same time
    MaxFaults,      \* bound: errors of SQLite
    MaxHangs,       \* bound: calls on the copilot that never return, at a time
    MaxRestarts     \* bound: restarts of the server process

ASSUME NoneIsFresh == None \notin Threads \cup Fingerprints

ASSUME BoundsAreNatural ==
    /\ MaxAlerts \in Nat \ {0}
    /\ MaxHandlers \in Nat \ {0}
    /\ MaxFaults \in Nat
    /\ MaxHangs \in Nat
    /\ MaxRestarts \in Nat

VARIABLES
    store,       \* IncidentStore._by_fingerprint
    disk,        \* the rows a restart finds in the incidents table
    req,         \* local state of each webhook POST and of its background tasks
    op,          \* local state of each browser and of its /api/approve call
    checkpoint,  \* what the copilot's InMemorySaver holds for a thread
    lastSeen,    \* history: status of the last notification disposed of
    faults,      \* errors of SQLite so far
    restarts     \* restarts so far

vars == <<store, disk, req, op, checkpoint, lastSeen, faults, restarts>>

-----------------------------------------------------------------------------
(* Values.  A copilot reply is abstracted to which of its three forms it    *)
(* has, and a text or a proposal to the thread whose conversation wrote it. *)

Alert == [fingerprint : Fingerprints, status : {"firing", "resolved"}]

\* Alertmanager groups distinct alerts into one notification.
Payload ==
    {p \in UNION {[1..n -> Alert] : n \in 1..MaxAlerts} :
        \A i, j \in DOMAIN p : p[i].fingerprint = p[j].fingerprint => i = j}

Status == {"investigating", "awaiting_approval", "completed", "error", "resolved"}

Replies == {"final", "pending", "error"}

IncidentRecord ==
    [thread : Threads, status : Status, content : Threads \cup {None},
     pending : Threads \cup {None}, error : Threads \cup {None}]

ASSUME NoneIsNoRecord == None \notin IncidentRecord

\* "unused" until create() mints the id; "empty" is a thread nothing is saved for.
Checkpoint == {"unused", "empty", "paused", "done", "failed"}

HandlerSteps == {"checking", "resolving", "creating"}

TaskSteps == {"asking", "hung", "recording"}

\* "failed": an exception ended the handler or the background tasks.  What is
\* then left in todo is history: nobody will investigate it.
RequestState ==
    [pc     : {"unused", "background", "done", "failed"} \cup HandlerSteps \cup TaskSteps,
     alerts : Seq(Alert),
     todo   : Seq(Fingerprints),
     thread : Threads \cup {None},
     reply  : Replies \cup {"none"}]

OperatorState ==
    [pc     : {"idle", "viewing", "resuming", "replied", "recording"},
     thread : Threads \cup {None},
     fp     : Fingerprints \cup {None},
     reply  : Replies \cup {"none"}]

\* Type correctness: the registry holds only well-formed records, whatever
\* handlers, tasks and approvals wrote them (IncidentRecord's fields).
TypeOK ==
    /\ store \in [Fingerprints -> IncidentRecord \cup {None}]
    /\ disk \in [Fingerprints -> IncidentRecord \cup {None}]
    /\ req \in [Requests -> RequestState]
    /\ op \in [Operators -> OperatorState]
    /\ checkpoint \in [Threads -> Checkpoint]
    /\ lastSeen \in [Fingerprints -> {"none", "firing", "resolved"}]
    /\ faults \in Nat
    /\ restarts \in Nat

IdleOperator == [pc |-> "idle", thread |-> None, fp |-> None, reply |-> "none"]

Init ==
    /\ store = [f \in Fingerprints |-> None]
    /\ disk = [f \in Fingerprints |-> None]
    /\ req = [r \in Requests |-> [pc |-> "unused", alerts |-> <<>>, todo |-> <<>>,
                                  thread |-> None, reply |-> "none"]]
    /\ op = [o \in Operators |-> IdleOperator]
    /\ checkpoint = [t \in Threads |-> "unused"]
    /\ lastSeen = [f \in Fingerprints |-> "none"]
    /\ faults = 0
    /\ restarts = 0

-----------------------------------------------------------------------------
(* The registry's operations, each one critical section of its lock.        *)

\* A record exists and its incident is still open.
Open(f) == store[f] # None /\ store[f].status # "resolved"

\* A record exists and nothing has settled its incident yet.
Investigating(f) == store[f] # None /\ store[f].status = "investigating"

\* update() changes nothing when the fingerprint is not registered.
Put(f, record) ==
    store' = IF store[f] = None THEN store ELSE [store EXCEPT ![f] = record]

\* _persist(): the row is written through and committed, ...
Commits(f) ==
    /\ disk' = [disk EXCEPT ![f] = store'[f]]
    /\ UNCHANGED faults

\* ... or SQLite raises, with the dict already changed.  A failed commit leaves
\* the row in the open transaction, where a later write may still commit it: a
\* restart finds the old row or the new one.
Raises(f) ==
    /\ store'[f] # None
    /\ faults < MaxFaults
    /\ faults' = faults + 1
    /\ disk' \in {disk, [disk EXCEPT ![f] = store'[f]]}

\* The fields an investigation or an approval writes back after a reply on t.
\* Mutants: the reply's own type as status; the answered action stays pending.
OutcomeStatusIsReply(record, t, reply) ==
    [record EXCEPT !.status = reply]
OutcomeKeepsPending(record, t, reply) ==
    CASE reply = "error"   -> [record EXCEPT !.status = "error", !.error = t]
      [] reply = "pending" -> [record EXCEPT !.status = "awaiting_approval",
                                             !.content = None, !.pending = t]
      [] reply = "final"   -> [record EXCEPT !.status = "completed", !.content = t]
Outcome(record, t, reply) ==
    CASE reply = "error"   -> [record EXCEPT !.status = "error", !.error = t]
      [] reply = "pending" -> [record EXCEPT !.status = "awaiting_approval",
                                             !.content = None, !.pending = t]
      [] reply = "final"   -> [record EXCEPT !.status = "completed",
                                             !.content = t, !.pending = None]

-----------------------------------------------------------------------------
(* handle_alertmanager_webhook: one alert of the payload after another.     *)

HandlersBusy == Cardinality({r \in Requests : req[r].pc \in HandlerSteps})

Receive(r) ==
    /\ req[r].pc = "unused"
    /\ HandlersBusy < MaxHandlers
    /\ \E p \in Payload :
          req' = [req EXCEPT ![r].pc = "checking", ![r].alerts = p]
    /\ UNCHANGED <<store, disk, op, checkpoint, lastSeen, faults, restarts>>

\* The alert r's loop is at.
AtAlert(r, pc, status) ==
    /\ req[r].pc = pc
    /\ req[r].alerts # <<>>
    /\ Head(req[r].alerts).status = status

AlertFp(r) == Head(req[r].alerts).fingerprint

Sees(r) == lastSeen' = [lastSeen EXCEPT ![AlertFp(r)] = Head(req[r].alerts).status]

\* The handler is done with the alert at the head of its payload.
Dispose(r) ==
    /\ req' = [req EXCEPT ![r].pc = "checking", ![r].alerts = Tail(@)]
    /\ Sees(r)

\* An exception ends the handler (HTTP 500, and the list of tasks is lost) or the
\* task it is raised in, with the tasks behind it: `lost` gets no investigation.
Fails(r, lost) ==
    req' = [req EXCEPT ![r] = [pc |-> "failed", alerts |-> <<>>, todo |-> lost,
                               thread |-> None, reply |-> "none"]]

\* `existing = store.get(...)`, then the branch for a resolved notification.
CheckResolved(r) ==
    /\ AtAlert(r, "checking", "resolved")
    /\ \/ /\ Open(AlertFp(r))
          /\ req' = [req EXCEPT ![r].pc = "resolving"]
          /\ UNCHANGED lastSeen
       \/ /\ ~Open(AlertFp(r))
          /\ Dispose(r)
    /\ UNCHANGED <<store, disk, op, checkpoint, faults, restarts>>

ApplyResolved(r) ==
    /\ AtAlert(r, "resolving", "resolved")
    /\ LET f == AlertFp(r)
       IN  /\ Put(f, [store[f] EXCEPT !.status = "resolved"])
           /\ \/ Commits(f) /\ Dispose(r)
              \/ Raises(f) /\ Sees(r) /\ Fails(r, req[r].todo)
    /\ UNCHANGED <<op, checkpoint, restarts>>

\* The same read, then the branches for a firing one: repeat, or new incident.
\* Mutant: only an incident still under investigation counts as open.
CheckFiringOpenOnlyWhileInvestigating(r) ==
    /\ AtAlert(r, "checking", "firing")
    /\ \/ /\ Investigating(AlertFp(r))
          /\ Dispose(r)
       \/ /\ ~Investigating(AlertFp(r))
          /\ req' = [req EXCEPT ![r].pc = "creating"]
          /\ UNCHANGED lastSeen
    /\ UNCHANGED <<store, disk, op, checkpoint, faults, restarts>>
CheckFiring(r) ==
    /\ AtAlert(r, "checking", "firing")
    /\ \/ /\ Open(AlertFp(r))
          /\ Dispose(r)
       \/ /\ ~Open(AlertFp(r))
          /\ req' = [req EXCEPT ![r].pc = "creating"]
          /\ UNCHANGED lastSeen
    /\ UNCHANGED <<store, disk, op, checkpoint, faults, restarts>>

NewRecord(t) ==
    [thread |-> t, status |-> "investigating", content |-> None,
     pending |-> None, error |-> None]

\* uuid4 mints an id nobody has used; which one it is makes no difference.
FreshThreads == {t \in Threads : checkpoint[t] = "unused"}

\* store.create() upserts a record with a fresh thread, and the fingerprint joins
\* the ones this POST will investigate, unless it raises: then none of them is.
\* Mutants: any id; the fingerprint is not handed to a background task.
RegisterUnder(r, t) ==
    LET f == AlertFp(r)
        todo == Append(req[r].todo, f)
    IN  /\ store' = [store EXCEPT ![f] = NewRecord(t)]
        /\ checkpoint' = [checkpoint EXCEPT ![t] = "empty"]
        /\ Sees(r)
        /\ \/ Commits(f) /\ req' = [req EXCEPT ![r].pc = "checking",
                                              ![r].alerts = Tail(@), ![r].todo = todo]
           \/ Raises(f) /\ Fails(r, todo)
        /\ UNCHANGED <<op, restarts>>
CreateIncidentOnAnyThread(r) ==
    /\ AtAlert(r, "creating", "firing")
    /\ \E t \in Threads : RegisterUnder(r, t)
CreateIncidentWithoutTask(r) ==
    /\ AtAlert(r, "creating", "firing")
    /\ FreshThreads # {}
    /\ LET t == CHOOSE t \in FreshThreads : TRUE
       IN  /\ store' = [store EXCEPT ![AlertFp(r)] = NewRecord(t)]
           /\ checkpoint' = [checkpoint EXCEPT ![t] = "empty"]
    /\ Commits(AlertFp(r))
    /\ Dispose(r)
    /\ UNCHANGED <<op, restarts>>
CreateIncident(r) ==
    /\ AtAlert(r, "creating", "firing")
    /\ FreshThreads # {}
    /\ RegisterUnder(r, CHOOSE t \in FreshThreads : TRUE)

\* The endpoint returns 200 with one background task per new fingerprint.
Respond(r) ==
    /\ req[r].pc = "checking"
    /\ req[r].alerts = <<>>
    /\ req' = [req EXCEPT ![r].pc = "background"]
    /\ UNCHANGED <<store, disk, op, checkpoint, lastSeen, faults, restarts>>

-----------------------------------------------------------------------------
(* investigate_incident: the POST's background tasks, one after another.    *)

\* `record = store.get(fingerprint)`: the thread is read from whatever record
\* is registered when the task starts.
StartInvestigation(r) ==
    /\ req[r].pc = "background"
    /\ req[r].todo # <<>>
    /\ LET record == store[Head(req[r].todo)]
       IN  req' = IF record = None
                  THEN [req EXCEPT ![r].todo = Tail(@)]
                  ELSE [req EXCEPT ![r].pc = "asking", ![r].thread = record.thread]
    /\ UNCHANGED <<store, disk, op, checkpoint, lastSeen, faults, restarts>>

\* What a turn that ended with the given reply leaves in the checkpointer.
SavedBy(reply) ==
    CASE reply = "final" -> "done" [] reply = "pending" -> "paused"
      [] reply = "error" -> "failed"

AskReturns(r) ==
    /\ req[r].pc = "asking"
    /\ \E reply \in Replies :
          /\ req' = [req EXCEPT ![r].pc = "recording", ![r].reply = reply]
          /\ checkpoint' = [checkpoint EXCEPT ![req[r].thread] = SavedBy(reply)]
    /\ UNCHANGED <<store, disk, op, lastSeen, faults, restarts>>

\* No client of the copilot's tools has a time-out, and a trace walk may go round
\* for ever: the turn stops in the middle, and holds the tasks behind it.
AskHangs(r) ==
    /\ req[r].pc = "asking"
    /\ Cardinality({s \in Requests : req[s].pc = "hung"}) < MaxHangs
    /\ req' = [req EXCEPT ![r].pc = "hung"]
    /\ checkpoint' = [checkpoint EXCEPT ![req[r].thread] = "failed"]
    /\ UNCHANGED <<store, disk, op, lastSeen, faults, restarts>>

\* Mutant: the background tasks end with the first of them.
NextTaskAlone(r) ==
    req' = [req EXCEPT ![r].pc = "background", ![r].todo = <<>>,
                       ![r].thread = None, ![r].reply = "none"]
NextTask(r) ==
    req' = [req EXCEPT ![r].pc = "background", ![r].todo = Tail(@),
                       ![r].thread = None, ![r].reply = "none"]

\* store.update(fingerprint, ...): keyed by the fingerprint, not by the thread,
\* and outside the try: if it raises, the POST's later tasks do not run.
\* Mutant: a failed turn is not written back.
RecordFindingUnlessFailed(r) ==
    /\ req[r].pc = "recording"
    /\ IF req[r].reply = "error"
       THEN UNCHANGED <<store, disk, faults>>
       ELSE LET f == Head(req[r].todo)
            IN  Put(f, Outcome(store[f], req[r].thread, req[r].reply)) /\ Commits(f)
    /\ NextTask(r)
    /\ UNCHANGED <<op, checkpoint, lastSeen, restarts>>
RecordFinding(r) ==
    /\ req[r].pc = "recording"
    /\ LET f == Head(req[r].todo)
       IN  /\ Put(f, Outcome(store[f], req[r].thread, req[r].reply))
           /\ \/ Commits(f) /\ NextTask(r)
              \/ Raises(f) /\ Fails(r, Tail(req[r].todo))
    /\ UNCHANGED <<op, checkpoint, lastSeen, restarts>>

FinishRequest(r) ==
    /\ req[r].pc = "background"
    /\ req[r].todo = <<>>
    /\ req' = [req EXCEPT ![r].pc = "done"]
    /\ UNCHANGED <<store, disk, op, checkpoint, lastSeen, faults, restarts>>

-----------------------------------------------------------------------------
(* An operator: the Incidents panel, POST /api/approve and                  *)
(* record_approval_outcome.                                                 *)

\* openIncident() shows the approval of any record with a pending action and
\* remembers its thread; the record may change while the modal stays open.
ShowApproval(o) ==
    /\ op[o].pc = "idle"
    /\ \E f \in Fingerprints :
          /\ store[f] # None
          /\ store[f].pending # None
          /\ op' = [op EXCEPT ![o].pc = "viewing", ![o].thread = store[f].thread]
    /\ UNCHANGED <<store, disk, req, checkpoint, lastSeen, faults, restarts>>

Decide(o) ==
    /\ op[o].pc = "viewing"
    /\ op' = [op EXCEPT ![o].pc = "resuming"]
    /\ UNCHANGED <<store, disk, req, checkpoint, lastSeen, faults, restarts>>

\* Only a conversation with something left to run can propose an action.
RepliesToResume(t) ==
    IF checkpoint[t] \in {"paused", "failed"} THEN Replies ELSE {"final", "error"}

\* A failed turn may have stopped before or after it left the pause.
SavedByResume(t, reply) ==
    IF reply = "error" THEN {checkpoint[t], "failed"} ELSE {SavedBy(reply)}

RespondReturns(o) ==
    /\ op[o].pc = "resuming"
    /\ LET t == op[o].thread IN
       \E reply \in RepliesToResume(t) : \E saved \in SavedByResume(t, reply) :
          /\ checkpoint' = [checkpoint EXCEPT ![t] = saved]
          /\ op' = IF reply = "error"   \* HTTP 500: no record is updated
                   THEN [op EXCEPT ![o] = IdleOperator]
                   ELSE [op EXCEPT ![o].pc = "replied", ![o].reply = reply]
    /\ UNCHANGED <<store, disk, req, lastSeen, faults, restarts>>

\* handleReply(): a new proposal is shown at once, a final answer ends it.
AfterReply(o) ==
    IF op[o].reply = "pending"
    THEN [op EXCEPT ![o].pc = "viewing", ![o].fp = None, ![o].reply = "none"]
    ELSE [op EXCEPT ![o] = IdleOperator]

\* `record = store.get_by_thread(thread_id)`
FindRecord(o) ==
    /\ op[o].pc = "replied"
    /\ LET found == {f \in Fingerprints : store[f] # None /\ store[f].thread = op[o].thread}
       IN  \/ /\ found = {}
              /\ op' = AfterReply(o)
           \/ \E f \in found : op' = [op EXCEPT ![o].pc = "recording", ![o].fp = f]
    /\ UNCHANGED <<store, disk, req, checkpoint, lastSeen, faults, restarts>>

\* `store.update(record.fingerprint, ...)`, a second critical section; if it
\* raises, the panel gets a 500 instead of the reply.
RecordApproval(o) ==
    /\ op[o].pc = "recording"
    /\ LET f == op[o].fp
       IN  /\ Put(f, Outcome(store[f], op[o].thread, op[o].reply))
           /\ \/ Commits(f) /\ op' = AfterReply(o)
              \/ Raises(f) /\ op' = [op EXCEPT ![o] = IdleOperator]
    /\ UNCHANGED <<req, checkpoint, lastSeen, restarts>>

-----------------------------------------------------------------------------
(* The process restarts: SQLite brings the records back, while the requests *)
(* and their tasks, the calls in progress and every checkpoint are gone.    *)

Restart ==
    /\ restarts < MaxRestarts
    /\ restarts' = restarts + 1
    /\ store' = disk
    /\ req' = [r \in Requests |->
                 IF req[r].pc = "unused" THEN req[r]
                 ELSE [pc |-> "done", alerts |-> <<>>, todo |-> <<>>,
                       thread |-> None, reply |-> "none"]]
    /\ op' = [o \in Operators |->
                 IF op[o].pc \in {"idle", "viewing"} THEN op[o] ELSE IdleOperator]
    /\ checkpoint' = [t \in Threads |->
                        IF checkpoint[t] = "unused" THEN "unused" ELSE "empty"]
    /\ UNCHANGED <<disk, lastSeen, faults>>

-----------------------------------------------------------------------------
\* What the server runs on its own once a POST has arrived.
RequestStep(r) ==
    \/ CheckResolved(r) \/ ApplyResolved(r)
    \/ CheckFiring(r) \/ CreateIncident(r) \/ Respond(r)
    \/ StartInvestigation(r) \/ AskReturns(r) \/ AskHangs(r)
    \/ RecordFinding(r) \/ FinishRequest(r)

OperatorStep(o) ==
    \/ ShowApproval(o) \/ Decide(o)
    \/ RespondReturns(o) \/ FindRecord(o) \/ RecordApproval(o)

Next ==
    \/ \E r \in Requests : Receive(r) \/ RequestStep(r)
    \/ \E o \in Operators : OperatorStep(o)
    \/ Restart

Spec == Init /\ [][Next]_vars

\* The thread pool keeps running what it started (its forty threads outnumber
\* what hangs here), and a call on the copilot ends in one of its two ways: it
\* returns, or it hangs.  Nothing obliges Alertmanager to send, an operator to
\* decide, or a call to return.
FairSpec == Spec /\ \A r \in Requests : WF_vars(RequestStep(r))

-----------------------------------------------------------------------------
(* Properties that hold.                                                    *)

\* A record whose status agrees with what is stored beside it.
Whole(record) ==
    /\ record.status = "awaiting_approval" => record.pending # None
    /\ record.status = "completed" => record.pending = None /\ record.content # None
    /\ record.status = "error" => record.error # None
    /\ record.status = "investigating" => record = NewRecord(record.thread)

\* A record's status agrees with the outcome stored beside it, whoever wrote
\* last: one awaiting approval has an action to approve, a completed one has
\* an answer and nothing to approve, and one under investigation is blank
\* (investigate_incident, record_approval_outcome and create write the same
\* fields from different threads).
StatusMatchesOutcome == \A f \in Fingerprints : store[f] # None => Whole(store[f])

\* A conversation belongs to one incident, so get_by_thread, which returns the
\* first match, cannot credit an approval to another incident.
ThreadNamesOneIncident ==
    \A f, g \in Fingerprints :
        store[f] # None /\ store[g] # None /\ store[f].thread = store[g].thread => f = g

\* Request r still owes the incident of f an investigation: a task for f is
\* waiting, or is talking on the thread of the record now registered.
Owes(r, f) ==
    /\ req[r].pc # "failed"
    /\ \E i \in DOMAIN req[r].todo :
          /\ req[r].todo[i] = f
          /\ i = 1 /\ req[r].pc \in TaskSteps => req[r].thread = store[f].thread

\* Request r was to investigate f, and an error of SQLite ended it first.
Dropped(r, f) == req[r].pc = "failed" /\ \E i \in DOMAIN req[r].todo : req[r].todo[i] = f

\* No incident is orphaned but by a restart or an error of SQLite: whatever
\* handlers interleave, an incident shown as under investigation has a task that
\* has still to settle it, or a POST that had one when the store raised (the
\* webhook creates the record long before the task runs).
InvestigationIsOwed ==
    restarts = 0 =>
        \A f \in Fingerprints :
            Investigating(f) => \E r \in Requests : Owes(r, f) \/ Dropped(r, f)

\* The same with nothing dropped: it holds as long as SQLite raises no error and the
\* process is not restarted (module docstring of auto_responder.py: a new firing alert
\* is "picked up and investigated automatically").
NoIncidentIsDropped ==
    \A f \in Fingerprints : Investigating(f) => \E r \in Requests : Owes(r, f)

\* A repeat notification of an alert that is still firing never replaces its
\* incident: not while an investigation or an approval is rewriting the status,
\* not after an error of SQLite and not after a restart, as long as it is not both
\* (the dedup check of handle_alertmanager_webhook).
ResendKeepsIncident ==
    [][\A f \in Fingerprints :
          lastSeen[f] = "firing" /\ lastSeen'[f] = "firing"
          /\ (faults' = 0 \/ restarts' = 0) =>
              store[f] # None /\ store'[f].thread = store[f].thread]_vars

\* Every incident the webhook registers is eventually settled with a report, a
\* proposal or an error, or resolved, unless the process restarts, an error of
\* SQLite drops its task, or its task or one before it hangs in the copilot
\* (investigate_incident runs after the 200, one task of the POST after another).
EveryIncidentSettles ==
    \A f \in Fingerprints :
        Investigating(f) ~>
            \/ ~Investigating(f)
            \/ restarts > 0
            \/ \E r \in Requests : Dropped(r, f) \/ (Owes(r, f) /\ req[r].pc = "hung")

-----------------------------------------------------------------------------
(* What the documentation promises and the code does not keep; each is the  *)
(* property of one run that finds a counterexample.                         *)

\* A resolved alert that fires again is a new incident (docstring of
\* handle_alertmanager_webhook): disposing of a firing notification that
\* follows a resolved one leaves the fingerprint with a new thread.
RefireIsNewIncident ==
    [][\A f \in Fingerprints :
          lastSeen[f] = "resolved" /\ lastSeen'[f] = "firing" =>
              store[f] = None \/ store'[f].thread # store[f].thread]_vars

\* An incident shown as awaiting approval is not stuck there: its conversation
\* is paused on the action, or a call is about to move it on (docstring of
\* record_approval_outcome).
AwaitingIsAnswerable ==
    \A f \in Fingerprints :
        store[f] # None /\ store[f].status = "awaiting_approval" =>
            LET t == store[f].thread
            IN  \/ checkpoint[t] = "paused"
                \/ \E o \in Operators :
                      op[o].pc \notin {"idle", "viewing"} /\ op[o].thread = t
                \/ \E r \in Requests : req[r].pc \in TaskSteps /\ req[r].thread = t

\* Every incident is investigated in the end, restarts or not (module docstring
\* of auto_responder.py: a new firing alert is "picked up and investigated
\* automatically").
EveryIncidentIsInvestigated ==
    \A f \in Fingerprints : Investigating(f) ~> ~Investigating(f)
=============================================================================
