---------------------------- MODULE ApprovalGate ----------------------------
(***************************************************************************)
(* The human-approval gate in front of the platform's only write: one      *)
(* copilot conversation, the calls on SRECopilot that run it, the          *)
(* remediation tool that pauses it, and the browsers that answer.          *)
(*                                                                         *)
(*   ai_platform/copilot/agent.py          ask, respond_to_approval, _run  *)
(*   ai_platform/copilot/copilot_tools.py  remediate_scale_deployment      *)
(*   ai_platform/tools/kubernetes_client.py  scale_deployment              *)
(*   ai_platform/webui/server.py           /api/chat, /api/approve         *)
(*   ai_platform/webui/static/index.html   the approval modal              *)
(*                                                                         *)
(* Conversations are keyed by thread_id and never meet, so one is enough.  *)
(* What LangGraph does with it (no lock per thread; a superstep works on   *)
(* the checkpoint it loaded and saves the next one) is modelled from how   *)
(* agent.py and its tests use it.                                          *)
(***************************************************************************)
EXTENDS Naturals, FiniteSets

CONSTANTS
    Browsers,       \* clients of the web UI that have this conversation open
    Responder,      \* the background task that opens the investigation
    Proposals,      \* remediate_scale_deployment calls the model may emit
    None,           \* Python's None
    MaxAttempts,    \* _run's max_attempts
    MaxConcurrent,  \* bound: calls running at the same time
    MaxCalls,       \* bound: calls made on the conversation
    MaxRestarts     \* bound: restarts of the server process

ASSUME NoneIsNoProposal == None \notin Proposals

ASSUME ResponderIsNoBrowser == Responder \notin Browsers

ASSUME BoundsAreNatural ==
    /\ MaxAttempts \in Nat \ {0}
    /\ MaxConcurrent \in Nat \ {0}
    /\ MaxCalls \in Nat
    /\ MaxRestarts \in Nat

VARIABLES
    ckpt,       \* the latest checkpoint the InMemorySaver holds
    call,       \* each caller's invocation of _run
    shown,      \* the proposal in each browser's modal
    panel,      \* pending_action of the incident's record
    emitted,    \* proposals the model has made so far
    cluster,    \* per proposal: calls of scale_deployment that took effect
    finished,   \* per proposal: times the tool returned having applied it
    accepted,   \* history: approvals the paused conversation took, per proposal
    consent,    \* history: proposals some browser approved while showing them
    calls,      \* calls made so far
    overlapped, \* history: two calls have run at the same time
    restarts    \* restarts so far

vars == <<ckpt, call, shown, panel, emitted, cluster, finished, accepted,
          consent, calls, overlapped, restarts>>

-----------------------------------------------------------------------------
Callers == Browsers \cup {Responder}

Decisions == {"none", "approve", "reject"}

\* `node` is what runs next: the model, the remediation tool, or nothing.
\* `decision` is the resume value saved with a paused tool call, and
\* `dangling` a tool call in the history that no tool message answers.
Checkpoint ==
    [node : {"empty", "idle", "agent", "tool"}, action : Proposals \cup {None},
     decision : Decisions, dangling : BOOLEAN]

\* `at` is the checkpoint the call works on, `input` what it passes to stream.
Call ==
    [pc : {"idle", "loading", "running", "hung"}, kind : {"none", "investigate", "chat", "approve"},
     input : {"question", "decision", "retry"}, decision : Decisions,
     attempt : Nat, at : Checkpoint]

Empty == [node |-> "empty", action |-> None, decision |-> "none", dangling |-> FALSE]

NoCall == [pc |-> "idle", kind |-> "none", input |-> "question", decision |-> "none",
           attempt |-> 0, at |-> Empty]

\* A call that will never return; it does nothing more.
HungCall == [NoCall EXCEPT !.pc = "hung"]

\* Type correctness: every checkpoint a call loads, works on or saves is one
\* the graph can resume from (LangGraph's state as _run uses it).
TypeOK ==
    /\ ckpt \in Checkpoint
    /\ call \in [Callers -> Call]
    /\ shown \in [Browsers -> Proposals \cup {None}]
    /\ panel \in Proposals \cup {None}
    /\ emitted \in SUBSET Proposals
    /\ cluster \in [Proposals -> Nat]
    /\ finished \in [Proposals -> Nat]
    /\ accepted \in [Proposals -> Nat]
    /\ consent \in SUBSET Proposals
    /\ calls \in Nat
    /\ overlapped \in BOOLEAN
    /\ restarts \in Nat

Init ==
    /\ ckpt = Empty
    /\ call = [c \in Callers |-> NoCall]
    /\ shown = [b \in Browsers |-> None]
    /\ panel = None
    /\ emitted = {}
    /\ cluster = [p \in Proposals |-> 0]
    /\ finished = [p \in Proposals |-> 0]
    /\ accepted = [p \in Proposals |-> 0]
    /\ consent = {}
    /\ calls = 0
    /\ overlapped = FALSE
    /\ restarts = 0

-----------------------------------------------------------------------------
(* Calls start: ask(question) and respond_to_approval(decision).            *)

Running == {c \in Callers : call[c].pc \notin {"idle", "hung"}}

\* A caller hands _run its input; attempts count from zero.  A browser whose call
\* hangs can send again.
Begin(c, kind, input, decision) ==
    /\ c \notin Running
    /\ Cardinality(Running) < MaxConcurrent
    /\ calls < MaxCalls
    /\ calls' = calls + 1
    /\ overlapped' = (overlapped \/ Running # {})
    /\ call' = [call EXCEPT ![c] = [NoCall EXCEPT !.pc = "loading", !.kind = kind,
                                                  !.input = input, !.decision = decision]]
    /\ UNCHANGED <<ckpt, panel, emitted, cluster, finished, accepted, restarts>>

\* The task of the webhook asks once, on a thread nobody has used yet.
Investigate ==
    /\ ckpt.node = "empty"
    /\ calls = 0
    /\ Begin(Responder, "investigate", "question", "none")
    /\ UNCHANGED <<shown, consent>>

\* The composer stays usable (Enter) while the modal is open.
SendMessage(b) ==
    /\ Begin(b, "chat", "question", "none")
    /\ UNCHANGED <<shown, consent>>

\* openIncident() shows the record's pending action, whatever its status; the
\* overlay keeps the operator from opening one while a modal is shown.
OpenIncident(b) ==
    /\ panel # None
    /\ shown[b] = None
    /\ shown' = [shown EXCEPT ![b] = panel]
    /\ UNCHANGED <<ckpt, call, panel, emitted, cluster, finished, accepted, consent,
                   calls, overlapped, restarts>>

\* The page is reloaded: its modal is gone, the pause it stood for is not.
Reload(b) ==
    /\ shown[b] # None
    /\ b \notin Running
    /\ shown' = [shown EXCEPT ![b] = None]
    /\ UNCHANGED <<ckpt, call, panel, emitted, cluster, finished, accepted, consent,
                   calls, overlapped, restarts>>

\* A click posts the thread and the decision, never the action it is about.
RespondToApproval(b) ==
    /\ shown[b] # None
    /\ \E decision \in {"approve", "reject"} :
          /\ Begin(b, "approve", "decision", decision)
          /\ consent' = IF decision = "approve" THEN consent \cup {shown[b]} ELSE consent
    /\ shown' = [shown EXCEPT ![b] = None]

-----------------------------------------------------------------------------
(* _run: at most MaxAttempts streams over the graph.                        *)

\* The call works on the given checkpoint, which is also what is now saved.
Save(c, checkpoint) ==
    /\ ckpt' = checkpoint
    /\ call' = [call EXCEPT ![c].pc = "running", ![c].at = checkpoint]

Idle(c) == call' = [call EXCEPT ![c] = NoCall]

\* An attempt raised: the next one passes None, the last one re-raises.
\* Mutant: the attempts are not counted.
FailWithoutCounting(c) ==
    /\ call' = [call EXCEPT ![c].pc = "loading", ![c].input = "retry"]
Fail(c) ==
    IF call[c].attempt + 1 < MaxAttempts
    THEN call' = [call EXCEPT ![c].pc = "loading", ![c].input = "retry",
                              ![c].attempt = @ + 1]
    ELSE Idle(c)

\* A new question starts at the model; a tool call still paused is abandoned.
LoadQuestion(c) ==
    /\ call[c].pc = "loading"
    /\ call[c].input = "question"
    /\ Save(c, [node |-> "agent", action |-> None, decision |-> "none",
                dangling |-> ckpt.dangling \/ ckpt.node = "tool"])
    /\ UNCHANGED <<shown, panel, emitted, cluster, finished, accepted, consent,
                   calls, overlapped, restarts>>

\* Command(resume=...) is saved with a paused tool call; elsewhere it only
\* continues what was left, and on an unknown thread there is nothing to do.
LoadDecision(c) ==
    /\ call[c].pc = "loading"
    /\ call[c].input = "decision"
    /\ \/ /\ ckpt.node = "tool"
          /\ Save(c, [ckpt EXCEPT !.decision = call[c].decision])
          /\ accepted' = IF call[c].decision = "approve"
                         THEN [accepted EXCEPT ![ckpt.action] = @ + 1] ELSE accepted
       \/ /\ ckpt.node \in {"agent", "idle"}
          /\ Save(c, ckpt)
          /\ UNCHANGED accepted
       \/ /\ ckpt.node = "empty"
          /\ Fail(c)
          /\ UNCHANGED <<ckpt, accepted>>
    /\ UNCHANGED <<shown, panel, emitted, cluster, finished, consent, calls,
                   overlapped, restarts>>

\* A retry resumes from whatever checkpoint is the latest by now.
LoadRetry(c) ==
    /\ call[c].pc = "loading"
    /\ call[c].input = "retry"
    /\ \/ ckpt.node # "empty" /\ Save(c, ckpt)
       \/ ckpt.node = "empty" /\ Fail(c) /\ UNCHANGED ckpt
    /\ UNCHANGED <<shown, panel, emitted, cluster, finished, accepted, consent,
                   calls, overlapped, restarts>>

-----------------------------------------------------------------------------
(* The supersteps of the graph.                                             *)

\* The model answers, proposes a remediation, or the turn raises (a malformed
\* tool call, an error of the API); with an unanswered tool call it always raises.
AgentStep(c) ==
    /\ call[c].pc = "running"
    /\ call[c].at.node = "agent"
    /\ \/ /\ Fail(c)
          /\ UNCHANGED <<ckpt, emitted>>
       \/ /\ ~call[c].at.dangling
          /\ Save(c, [call[c].at EXCEPT !.node = "idle"])
          /\ UNCHANGED emitted
       \/ /\ ~call[c].at.dangling
          /\ \E p \in Proposals \ emitted :
                /\ Save(c, [call[c].at EXCEPT !.node = "tool", !.action = p])
                /\ emitted' = emitted \cup {p}
    /\ UNCHANGED <<shown, panel, cluster, finished, accepted, consent, calls,
                   overlapped, restarts>>

\* Once the tool has returned, its checkpoint and the decision are history.
AfterTool(checkpoint) ==
    [checkpoint EXCEPT !.node = "agent", !.action = None, !.decision = "none"]

\* The tool runs from its first line, and interrupt() yields the saved decision.
\* Mutant: any decision is taken for an approval.
AtToolTruthy(c, decision) ==
    /\ call[c].pc = "running"
    /\ call[c].at.node = "tool"
    /\ call[c].at.decision = "none" <=> decision = "none"
AtTool(c, decision) ==
    /\ call[c].pc = "running"
    /\ call[c].at.node = "tool"
    /\ call[c].at.decision = decision

\* `if not approved: return "Remediation cancelled..."`
Cancel(c) ==
    /\ AtTool(c, "reject")
    /\ Save(c, AfterTool(call[c].at))
    /\ UNCHANGED <<shown, panel, emitted, cluster, finished, accepted, consent,
                   calls, overlapped, restarts>>

\* kubernetes_agent.scale_deployment: it applies the change and returns, or it
\* raises, before the API server applied it or after.
\* Mutant: the checkpoint after the tool is not saved.
ScaleBeforeItsCheckpoint(c) ==
    /\ AtTool(c, "approve")
    /\ LET p == call[c].at.action
       IN  /\ call' = [call EXCEPT ![c].at = AfterTool(@)]
           /\ cluster' = [cluster EXCEPT ![p] = @ + 1]
           /\ finished' = [finished EXCEPT ![p] = @ + 1]
    /\ UNCHANGED <<ckpt, shown, panel, emitted, accepted, consent, calls,
                   overlapped, restarts>>
Scale(c) ==
    /\ AtTool(c, "approve")
    /\ LET p == call[c].at.action
       IN  \/ /\ Save(c, AfterTool(call[c].at))
              /\ cluster' = [cluster EXCEPT ![p] = @ + 1]
              /\ finished' = [finished EXCEPT ![p] = @ + 1]
           \/ /\ Fail(c)
              /\ cluster' \in {cluster, [cluster EXCEPT ![p] = @ + 1]}
              /\ UNCHANGED <<ckpt, finished>>
    /\ UNCHANGED <<shown, panel, emitted, accepted, consent, calls, overlapped, restarts>>

\* No Kubernetes call has a time-out, and a trace walk may go round for ever: the
\* turn hangs in a read-only tool, or in the write, applied or not.
Hang(c) ==
    /\ \/ /\ call[c].pc = "running"
          /\ call[c].at.node = "agent"
          /\ ~call[c].at.dangling
          /\ UNCHANGED cluster
       \/ /\ AtTool(c, "approve")
          /\ cluster' \in {cluster, [cluster EXCEPT ![call[c].at.action] = @ + 1]}
    /\ call' = [call EXCEPT ![c] = HungCall]
    /\ UNCHANGED <<ckpt, shown, panel, emitted, finished, accepted, consent, calls,
                   overlapped, restarts>>

-----------------------------------------------------------------------------
(* The call returns, and the endpoint that made it writes down the reply.   *)

\* Only an investigation or an approval updates the incident's record.
Report(c, pending) ==
    /\ panel' = IF call[c].kind = "chat" THEN panel ELSE pending
    /\ shown' = IF c \in Browsers /\ pending # None
                THEN [shown EXCEPT ![c] = pending] ELSE shown
    /\ Idle(c)
    /\ UNCHANGED <<ckpt, emitted, cluster, finished, accepted, consent, calls,
                   overlapped, restarts>>

\* interrupt(): no decision is saved yet, so the turn ends with the action.
\* Mutant: the list of interrupts itself is returned.
InterruptWithTuple(c) == AtTool(c, "none") /\ Report(c, <<call[c].at.action>>)
Interrupt(c) == AtTool(c, "none") /\ Report(c, call[c].at.action)

Answer(c) ==
    /\ call[c].pc = "running"
    /\ call[c].at.node = "idle"
    /\ Report(c, None)

\* The process restarts: the checkpoints and the calls in progress are gone,
\* the record and the open browsers are not.
Restart ==
    /\ restarts < MaxRestarts
    /\ restarts' = restarts + 1
    /\ ckpt' = Empty
    /\ call' = [c \in Callers |-> NoCall]
    /\ UNCHANGED <<shown, panel, emitted, cluster, finished, accepted, consent, calls,
                   overlapped>>

-----------------------------------------------------------------------------
\* What the server does on its own once a call has been made.
CallStep(c) ==
    \/ LoadQuestion(c) \/ LoadDecision(c) \/ LoadRetry(c)
    \/ AgentStep(c) \/ Cancel(c) \/ Scale(c) \/ Hang(c)
    \/ Interrupt(c) \/ Answer(c)

BrowserStep(b) ==
    SendMessage(b) \/ OpenIncident(b) \/ Reload(b) \/ RespondToApproval(b)

Next ==
    \/ Investigate
    \/ \E b \in Browsers : BrowserStep(b)
    \/ \E c \in Callers : CallStep(c)
    \/ Restart

Spec == Init /\ [][Next]_vars

\* A started call keeps running: its thread is scheduled, and what it waits for
\* ends with an answer or an exception, or never (Hang).
FairSpec == Spec /\ \A c \in Callers : WF_vars(CallStep(c))

-----------------------------------------------------------------------------
(* Properties that hold.                                                    *)

\* The cluster is written only for an action whose own pause took an approval:
\* no rejection, chat message, retry or second browser reaches the write, and
\* an approval of one action does not carry over to the next (README.md:
\* "structurally unreachable until approved").
WriteNeedsApproval == \A p \in Proposals : cluster[p] > 0 => accepted[p] > 0

\* While calls do not overlap, retries may repeat a write that raised, but at
\* most MaxAttempts times for each approval its pause took (_run retries the
\* whole turn, the write included).
WritesAreBounded ==
    ~overlapped => \A p \in Proposals : cluster[p] <= MaxAttempts * accepted[p]

\* While calls do not overlap, an action whose tool call returned is never applied
\* again, whatever fails after it: the retry resumes after the tool's
\* checkpoint (docstring of ask: "continues from the last successful
\* checkpoint").
AppliedOnce ==
    [][~overlapped' =>
          \A p \in Proposals : finished[p] > 0 => cluster'[p] = cluster[p]]_vars

\* Every call returns, by its last attempt at the latest, unless one of its own
\* tools hangs, whatever another call on the conversation does to its checkpoint
\* meanwhile, hanging in the middle of it included (the loop in _run).
EveryCallReturns ==
    \A c \in Callers : c \in Running ~> call[c].pc \in {"idle", "hung"}

-----------------------------------------------------------------------------
(* What the documentation promises and the code does not keep.              *)

\* An action that reached the cluster was approved by someone who was looking
\* at that action (docstring of remediate_scale_deployment: "The human will see
\* exactly the service_name, desired_replicas, and reason you pass in").
WriteWasSeen == \A p \in Proposals : cluster[p] > 0 => p \in consent
=============================================================================
