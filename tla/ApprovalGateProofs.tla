------------------------- MODULE ApprovalGateProofs -------------------------
(***************************************************************************)
(* Proofs about ApprovalGate, for any browsers, proposals, bounds and      *)
(* number of calls at a time.                                              *)
(***************************************************************************)
EXTENDS ApprovalGate, TLAPS

-----------------------------------------------------------------------------
(* Type correctness.                                                        *)

\* What every call step does to a conversation, whichever step it is.
LEMMA SaveType ==
  ASSUME TypeOK, NEW c \in Callers, NEW k \in Checkpoint, Save(c, k)
  PROVE  ckpt' \in Checkpoint /\ call' \in [Callers -> Call]
<1>1. call[c] \in Call
  BY DEF TypeOK
<1>2. [call[c] EXCEPT !.pc = "running", !.at = k] \in Call
  BY <1>1 DEF Call
<1>3. call' = [call EXCEPT ![c] = [call[c] EXCEPT !.pc = "running", !.at = k]]
  BY <1>1 DEF Save, Call, TypeOK
<1> QED
  BY <1>2, <1>3 DEF TypeOK, Save

LEMMA NoCallType == NoCall \in Call /\ HungCall \in Call /\ Empty \in Checkpoint
BY DEF NoCall, HungCall, Empty, Call, Checkpoint, Decisions

\* A call that ends, by returning or by hanging.
Ends(c) == Idle(c) \/ call' = [call EXCEPT ![c] = HungCall]

LEMMA EndsType ==
  ASSUME TypeOK, NEW c \in Callers, Ends(c)
  PROVE  call' \in [Callers -> Call]
BY NoCallType DEF TypeOK, Ends, Idle

LEMMA FailType ==
  ASSUME TypeOK, NEW c \in Callers, Fail(c)
  PROVE  call' \in [Callers -> Call]
<1>1. CASE Idle(c)
  BY <1>1, EndsType DEF Ends
<1>2. CASE call' = [call EXCEPT ![c].pc = "loading", ![c].input = "retry",
                                ![c].attempt = @ + 1]
  BY <1>2 DEF TypeOK, Call
<1> QED
  BY <1>1, <1>2 DEF Fail

LEMMA BeginType ==
  ASSUME TypeOK, NEW c \in Callers, NEW kind \in {"investigate", "chat", "approve"},
         NEW input \in {"question", "decision"}, NEW decision \in Decisions,
         Begin(c, kind, input, decision)
  PROVE  /\ call' \in [Callers -> Call] /\ calls' \in Nat /\ overlapped' \in BOOLEAN
         /\ UNCHANGED <<ckpt, panel, emitted, cluster, finished, accepted, restarts>>
<1>1. [NoCall EXCEPT !.pc = "loading", !.kind = kind, !.input = input,
                     !.decision = decision] \in Call
  BY NoCallType DEF Call
<1> QED
  BY <1>1 DEF TypeOK, Begin

\* The three ways a call step moves its call on are typed, and so is the rest.
LEMMA CallStepKeepsType ==
  ASSUME TypeOK, NEW c \in Callers, CallStep(c)
  PROVE  TypeOK'
<1>1. ckpt \in Checkpoint /\ call[c] \in Call /\ call[c].at \in Checkpoint
  BY DEF TypeOK, Call
<1>2. CASE LoadQuestion(c)
  <2>1. [node |-> "agent", action |-> None, decision |-> "none",
         dangling |-> ckpt.dangling \/ ckpt.node = "tool"] \in Checkpoint
    BY <1>1 DEF Checkpoint, Decisions
  <2> QED
    BY <1>2, <2>1, SaveType DEF LoadQuestion, TypeOK
<1>3. CASE LoadDecision(c)
  <2>1. [ckpt EXCEPT !.decision = call[c].decision] \in Checkpoint
    BY <1>1 DEF Checkpoint, Call
  <2>2. ckpt' \in Checkpoint /\ call' \in [Callers -> Call]
    BY <1>1, <1>3, <2>1, SaveType, FailType DEF LoadDecision, TypeOK
  <2>3. accepted' \in [Proposals -> Nat]
    BY <1>3 DEF LoadDecision, TypeOK
  <2> QED
    BY <1>3, <2>2, <2>3 DEF LoadDecision, TypeOK
<1>4. CASE LoadRetry(c)
  BY <1>1, <1>4, SaveType, FailType DEF LoadRetry, TypeOK
<1>5. CASE AgentStep(c)
  <2>1. /\ [call[c].at EXCEPT !.node = "idle"] \in Checkpoint
        /\ \A p \in Proposals :
              [call[c].at EXCEPT !.node = "tool", !.action = p] \in Checkpoint
    BY <1>1 DEF Checkpoint
  <2>2. ckpt' \in Checkpoint /\ call' \in [Callers -> Call]
    BY <1>1, <1>5, <2>1, SaveType, FailType DEF AgentStep
  <2>3. emitted' \in SUBSET Proposals
    BY <1>5 DEF AgentStep, TypeOK
  <2> QED
    BY <1>5, <2>2, <2>3 DEF AgentStep, TypeOK
<1>6. AfterTool(call[c].at) \in Checkpoint
  BY <1>1 DEF AfterTool, Checkpoint, Decisions
<1>7. CASE Cancel(c)
  BY <1>6, <1>7, SaveType DEF Cancel, TypeOK
<1>8. CASE Scale(c)
  <2>1. ckpt' \in Checkpoint /\ call' \in [Callers -> Call]
    BY <1>1, <1>6, <1>8, SaveType, FailType DEF Scale
  <2>2. cluster' \in [Proposals -> Nat] /\ finished' \in [Proposals -> Nat]
    BY <1>8 DEF Scale, TypeOK
  <2> QED
    BY <1>8, <2>1, <2>2 DEF Scale, TypeOK
<1>9. ASSUME NEW pending \in Proposals \cup {None}, Report(c, pending)
      PROVE  TypeOK'
  BY <1>9, EndsType DEF Report, Ends, TypeOK
<1>10. CASE Interrupt(c)
  BY <1>1, <1>9, <1>10 DEF Interrupt, Checkpoint
<1>11. CASE Answer(c)
  BY <1>9, <1>11 DEF Answer
<1>12. CASE Hang(c)
  <2>1. call' \in [Callers -> Call]
    BY <1>12, EndsType DEF Hang, Ends
  <2>2. cluster' \in [Proposals -> Nat]
    BY <1>12 DEF Hang, TypeOK
  <2> QED
    BY <1>12, <2>1, <2>2 DEF Hang, TypeOK
<1> QED
  BY <1>2, <1>3, <1>4, <1>5, <1>7, <1>8, <1>10, <1>11, <1>12 DEF CallStep

LEMMA BrowserStepKeepsType ==
  ASSUME TypeOK, NEW b \in Browsers, BrowserStep(b)
  PROVE  TypeOK'
<1>1. b \in Callers
  BY DEF Callers
<1>2. CASE SendMessage(b)
  BY <1>1, <1>2, BeginType DEF SendMessage, TypeOK, Decisions
<1>3. CASE OpenIncident(b)
  BY <1>3 DEF OpenIncident, TypeOK
<1>4. CASE Reload(b)
  BY <1>4 DEF Reload, TypeOK
<1>5. CASE RespondToApproval(b)
  <2>1. PICK decision \in {"approve", "reject"} :
          /\ Begin(b, "approve", "decision", decision)
          /\ consent' = IF decision = "approve" THEN consent \cup {shown[b]} ELSE consent
    BY <1>5 DEF RespondToApproval
  <2>2. shown[b] \in Proposals /\ shown' = [shown EXCEPT ![b] = None]
    BY <1>5 DEF RespondToApproval, TypeOK
  <2>3. decision \in Decisions
    BY DEF Decisions
  <2> QED
    BY <1>1, <2>1, <2>2, <2>3, BeginType DEF TypeOK
<1> QED
  BY <1>2, <1>3, <1>4, <1>5 DEF BrowserStep

LEMMA InitIsTyped == Init => TypeOK
<1> SUFFICES ASSUME Init PROVE TypeOK
  OBVIOUS
<1>1. ckpt \in Checkpoint /\ call \in [Callers -> Call]
  BY NoCallType DEF Init
<1> QED
  BY <1>1 DEF Init, TypeOK

LEMMA StepKeepsType == TypeOK /\ [Next]_vars => TypeOK'
<1> SUFFICES ASSUME TypeOK, [Next]_vars PROVE TypeOK'
  OBVIOUS
<1>1. CASE Investigate
  <2>1. Responder \in Callers /\ "none" \in Decisions
    BY DEF Callers, Decisions
  <2> QED
    BY <1>1, <2>1, BeginType DEF Investigate, TypeOK
<1>2. CASE \E b \in Browsers : BrowserStep(b)
  BY <1>2, BrowserStepKeepsType
<1>3. CASE \E c \in Callers : CallStep(c)
  BY <1>3, CallStepKeepsType
<1>4. CASE Restart
  BY <1>4, NoCallType DEF Restart, TypeOK
<1>5. CASE UNCHANGED vars
  BY <1>5 DEF vars, TypeOK
<1> QED
  BY <1>1, <1>2, <1>3, <1>4, <1>5 DEF Next

\* Every checkpoint a call loads, works on or saves is one the graph can resume
\* from, through any retries, approvals and restarts.
THEOREM TypeCorrect == Spec => []TypeOK
BY InitIsTyped, StepKeepsType, PTL DEF Spec

-----------------------------------------------------------------------------
(* No write without an approval of the very action that is written.         *)

\* What a checkpoint may hold when `approvals` is what paused calls have taken:
\* a decision belongs to the paused action, and "approve" was counted for it.
Sound(k, approvals) ==
    IF k.node = "tool"
    THEN /\ k.action \in Proposals
         /\ k.decision = "approve" => approvals[k.action] > 0
    ELSE k.decision = "none"

\* Concurrent calls work on checkpoints of different ages; all of them are sound.
ConsentInv ==
    /\ Sound(ckpt, accepted)
    /\ \A c \in Callers : Sound(call[c].at, accepted)
    /\ WriteNeedsApproval

LEMMA EmptyIsSound ==
  \A approvals : Sound(Empty, approvals) /\ NoCall.at = Empty /\ HungCall.at = Empty
BY DEF Sound, Empty, NoCall, HungCall

\* A call that moves on, fails or ends changes no other call, and works on its
\* new checkpoint, its old one, or none.
LEMMA CallFrame ==
  ASSUME TypeOK, NEW c \in Callers
  PROVE  /\ \A k : Save(c, k) =>
              /\ ckpt' = k /\ call'[c].at = k /\ call'[c].pc = "running"
              /\ call'[c].attempt = call[c].attempt
              /\ \A d \in Callers \ {c} : call'[d] = call[d]
         /\ Ends(c) => /\ call'[c] \in {NoCall, HungCall}
                       /\ \A d \in Callers \ {c} : call'[d] = call[d]
         /\ Idle(c) => call'[c] = NoCall
         /\ Fail(c) => /\ \/ call'[c] = NoCall
                          \/ /\ call'[c].at = call[c].at /\ call'[c].pc = "loading"
                             /\ call'[c].attempt = call[c].attempt + 1
                             /\ call'[c].attempt < MaxAttempts
                       /\ \A d \in Callers \ {c} : call'[d] = call[d]
<1>1. call[c] \in Call
  BY DEF TypeOK
<1>2. ASSUME NEW k, Save(c, k)
      PROVE  /\ ckpt' = k /\ call'[c].at = k /\ call'[c].pc = "running"
             /\ call'[c].attempt = call[c].attempt
             /\ \A d \in Callers \ {c} : call'[d] = call[d]
  <2> DEFINE next == [call[c] EXCEPT !.pc = "running", !.at = k]
  <2>1. call' = [call EXCEPT ![c] = next]
    BY <1>1, <1>2 DEF Save, Call, TypeOK
  <2>2. next.at = k /\ next.pc = "running" /\ next.attempt = call[c].attempt
    BY <1>1 DEF Call
  <2> HIDE DEF next
  <2> QED
    BY <1>2, <2>1, <2>2 DEF Save, TypeOK
<1>3. /\ Ends(c) => /\ call'[c] \in {NoCall, HungCall}
                    /\ \A d \in Callers \ {c} : call'[d] = call[d]
      /\ Idle(c) => call'[c] = NoCall
      /\ Idle(c) => Ends(c)
  BY DEF Ends, Idle, TypeOK
<1>4. CASE call' = [call EXCEPT ![c].pc = "loading", ![c].input = "retry",
                                ![c].attempt = @ + 1]
  <2>1. /\ call'[c].at = call[c].at /\ call'[c].pc = "loading"
        /\ call'[c].attempt = call[c].attempt + 1
        /\ \A d \in Callers \ {c} : call'[d] = call[d]
    BY <1>1, <1>4 DEF TypeOK, Call
  <2> QED
    BY <1>2, <1>3, <2>1 DEF Fail
<1>5. CASE ~(call' = [call EXCEPT ![c].pc = "loading", ![c].input = "retry",
                                  ![c].attempt = @ + 1])
  BY <1>2, <1>3, <1>5 DEF Fail
<1> QED
  BY <1>4, <1>5

\* Saving a sound checkpoint, or none, keeps all of them sound as long as
\* approvals are only added.
LEMMA SoundSteps ==
  ASSUME TypeOK, TypeOK', ConsentInv, NEW c \in Callers,
         \A p \in Proposals : accepted'[p] >= accepted[p]
  PROVE  /\ \A k : Save(c, k) /\ Sound(k, accepted') =>
              Sound(ckpt, accepted)' /\ \A d \in Callers : Sound(call[d].at, accepted)'
         /\ (Fail(c) \/ Ends(c)) /\ UNCHANGED ckpt =>
              Sound(ckpt, accepted)' /\ \A d \in Callers : Sound(call[d].at, accepted)'
<1>1. ASSUME NEW k, Sound(k, accepted) PROVE Sound(k, accepted')
  BY <1>1 DEF Sound, TypeOK
<1>2. Sound(ckpt, accepted') /\ \A d \in Callers : Sound(call[d].at, accepted')
  BY <1>1 DEF ConsentInv
<1>3. ASSUME NEW k, Save(c, k), Sound(k, accepted')
      PROVE  Sound(ckpt, accepted)' /\ \A d \in Callers : Sound(call[d].at, accepted)'
  BY <1>2, <1>3, CallFrame
<1>4. ASSUME Fail(c) \/ Ends(c), UNCHANGED ckpt
      PROVE  Sound(ckpt, accepted)' /\ \A d \in Callers : Sound(call[d].at, accepted)'
  BY <1>2, <1>4, CallFrame, EmptyIsSound
<1> QED
  BY <1>3, <1>4

LEMMA CallStepKeepsConsent ==
  ASSUME TypeOK, TypeOK', ConsentInv, NEW c \in Callers, CallStep(c)
  PROVE  ConsentInv'
<1>1. /\ ckpt \in Checkpoint /\ call[c] \in Call /\ call[c].at \in Checkpoint
      /\ Sound(ckpt, accepted) /\ Sound(call[c].at, accepted)
      /\ accepted \in [Proposals -> Nat]
  BY DEF TypeOK, Call, ConsentInv
<1>2. ASSUME UNCHANGED <<accepted, cluster>>,
             \/ \E k : Save(c, k) /\ Sound(k, accepted)
             \/ (Fail(c) \/ Ends(c)) /\ UNCHANGED ckpt
      PROVE  ConsentInv'
  <2>1. \A p \in Proposals : accepted'[p] >= accepted[p]
    BY <1>1, <1>2
  <2> QED
    BY <1>2, <2>1, SoundSteps DEF ConsentInv, WriteNeedsApproval
<1>3. CASE LoadQuestion(c)
  <2>1. Sound([node |-> "agent", action |-> None, decision |-> "none",
               dangling |-> ckpt.dangling \/ ckpt.node = "tool"], accepted)
    BY DEF Sound
  <2> QED
    BY <1>2, <1>3, <2>1 DEF LoadQuestion
<1>4. CASE LoadDecision(c)
  <2>1. CASE ckpt.node # "tool"
    BY <1>1, <1>2, <1>4, <2>1 DEF LoadDecision
  <2>2. CASE ckpt.node = "tool"
    <3> DEFINE k == [ckpt EXCEPT !.decision = call[c].decision]
    <3>1. Save(c, k)
      BY <1>4, <2>2 DEF LoadDecision
    <3>2. /\ accepted' = IF call[c].decision = "approve"
                         THEN [accepted EXCEPT ![ckpt.action] = @ + 1] ELSE accepted
          /\ UNCHANGED cluster
      BY <1>4, <2>2 DEF LoadDecision
    <3>3. ckpt.action \in Proposals
      BY <1>1, <2>2 DEF Sound
    <3>4. /\ \A p \in Proposals : accepted'[p] >= accepted[p]
          /\ call[c].decision = "approve" => accepted'[ckpt.action] > 0
      BY <1>1, <3>2, <3>3
    <3>5. Sound(k, accepted')
      BY <1>1, <2>2, <3>3, <3>4 DEF Sound, Checkpoint
    <3>6. WriteNeedsApproval'
      BY <1>1, <3>2, <3>4 DEF ConsentInv, WriteNeedsApproval, TypeOK
    <3> QED
      BY <3>1, <3>4, <3>5, <3>6, SoundSteps DEF ConsentInv
  <2> QED
    BY <2>1, <2>2
<1>5. CASE LoadRetry(c)
  BY <1>1, <1>2, <1>5 DEF LoadRetry
<1>6. CASE AgentStep(c)
  <2>1. /\ Sound([call[c].at EXCEPT !.node = "idle"], accepted)
        /\ \A p \in Proposals :
              Sound([call[c].at EXCEPT !.node = "tool", !.action = p], accepted)
    BY <1>1, <1>6 DEF AgentStep, Sound, Checkpoint
  <2> QED
    BY <1>2, <1>6, <2>1 DEF AgentStep
<1>7. Sound(AfterTool(call[c].at), accepted)
  BY <1>1 DEF Sound, AfterTool, Checkpoint
<1>8. CASE Cancel(c)
  BY <1>2, <1>7, <1>8 DEF Cancel
<1>9. CASE Scale(c) \/ (Hang(c) /\ AtTool(c, "approve"))
  <2>1. PICK p \in Proposals : p = call[c].at.action /\ accepted[p] > 0
    BY <1>1, <1>9 DEF Scale, AtTool, Sound
  <2>2. /\ UNCHANGED accepted
        /\ cluster' = cluster \/ cluster' = [cluster EXCEPT ![p] = @ + 1]
    BY <1>9, <2>1 DEF Scale, Hang
  <2>3. WriteNeedsApproval'
    BY <2>1, <2>2 DEF ConsentInv, WriteNeedsApproval, TypeOK
  <2>4. \A q \in Proposals : accepted'[q] >= accepted[q]
    BY <1>1, <2>2
  <2>5. Sound(ckpt, accepted)' /\ \A d \in Callers : Sound(call[d].at, accepted)'
    BY <1>7, <1>9, <2>2, <2>4, SoundSteps DEF Scale, Hang, Ends
  <2> QED
    BY <2>3, <2>5 DEF ConsentInv
<1>10. CASE Interrupt(c) \/ Answer(c)
  BY <1>2, <1>10 DEF Interrupt, Answer, Report, Ends
<1>11. CASE Hang(c) /\ ~AtTool(c, "approve")
  BY <1>2, <1>11 DEF Hang, Ends
<1> QED
  BY <1>3, <1>4, <1>5, <1>6, <1>8, <1>9, <1>10, <1>11 DEF CallStep

\* Starting a call loads no checkpoint.
LEMMA BeginFrame ==
  ASSUME TypeOK, NEW c \in Callers, NEW kind, NEW input, NEW decision,
         Begin(c, kind, input, decision)
  PROVE  /\ call'[c].pc = "loading" /\ call'[c].at = Empty
         /\ call'[c].input = input /\ call'[c].attempt = 0
         /\ \A d \in Callers \ {c} : call'[d] = call[d]
         /\ c \notin Running /\ overlapped' = (overlapped \/ Running # {})
         /\ UNCHANGED <<ckpt, emitted, cluster, finished, accepted>>
<1>1. call'[c] = [NoCall EXCEPT !.pc = "loading", !.kind = kind, !.input = input,
                                !.decision = decision]
  BY DEF Begin, TypeOK
<1>2. /\ call'[c].pc = "loading" /\ call'[c].at = Empty
      /\ call'[c].input = input /\ call'[c].attempt = 0
  BY <1>1 DEF NoCall
<1> QED
  BY <1>2 DEF Begin, TypeOK

LEMMA BeginKeepsConsent ==
  ASSUME TypeOK, ConsentInv, NEW c \in Callers, NEW kind, NEW input, NEW decision,
         Begin(c, kind, input, decision)
  PROVE  ConsentInv'
<1>1. call'[c].at = Empty
  BY BeginFrame
<1>2. /\ \A d \in Callers \ {c} : call'[d] = call[d]
      /\ UNCHANGED <<ckpt, cluster, accepted>>
  BY BeginFrame
<1>3. \A d \in Callers : Sound(call'[d].at, accepted')
  BY <1>1, <1>2, EmptyIsSound DEF ConsentInv
<1> QED
  BY <1>2, <1>3 DEF ConsentInv, WriteNeedsApproval

LEMMA InitIsSound == Init => ConsentInv
BY EmptyIsSound DEF Init, ConsentInv, WriteNeedsApproval

LEMMA StepKeepsConsent == TypeOK /\ TypeOK' /\ ConsentInv /\ [Next]_vars => ConsentInv'
<1> SUFFICES ASSUME TypeOK, TypeOK', ConsentInv, [Next]_vars PROVE ConsentInv'
  OBVIOUS
<1>1. CASE Investigate
  BY <1>1, BeginKeepsConsent DEF Investigate, Callers
<1>2. CASE \E b \in Browsers : SendMessage(b) \/ RespondToApproval(b)
  BY <1>2, BeginKeepsConsent DEF SendMessage, RespondToApproval, Callers
<1>3. CASE \E b \in Browsers : OpenIncident(b) \/ Reload(b)
  BY <1>3 DEF OpenIncident, Reload, ConsentInv, WriteNeedsApproval
<1>4. CASE \E c \in Callers : CallStep(c)
  BY <1>4, CallStepKeepsConsent
<1>5. CASE Restart
  <2>1. ckpt' = Empty /\ \A c \in Callers : call'[c].at = Empty
    BY <1>5 DEF Restart, NoCall
  <2> QED
    BY <1>5, <2>1, EmptyIsSound DEF Restart, ConsentInv, WriteNeedsApproval
<1>6. CASE UNCHANGED vars
  BY <1>6 DEF vars, ConsentInv, WriteNeedsApproval
<1> QED
  BY <1>1, <1>2, <1>3, <1>4, <1>5, <1>6 DEF Next, BrowserStep

\* The cluster is written only for an action whose own pause took an approval.
THEOREM ApprovedBeforeWritten == Spec => []WriteNeedsApproval
<1>1. ConsentInv => WriteNeedsApproval
  BY DEF ConsentInv
<1> QED
  BY <1>1, InitIsSound, StepKeepsConsent, TypeCorrect, PTL DEF Spec

-----------------------------------------------------------------------------
(* What an applied action cannot do is be applied again.                    *)

\* Every call step moves a running call on and keeps the history variable.
LEMMA CallStepShape ==
  ASSUME NEW c \in Callers, CallStep(c)
  PROVE  /\ c \in Running /\ UNCHANGED overlapped
         /\ \/ \E k : Save(c, k)
            \/ (Fail(c) \/ Ends(c)) /\ UNCHANGED ckpt
BY DEF CallStep, LoadQuestion, LoadDecision, LoadRetry, AgentStep, Cancel, Scale, AtTool,
       Hang, Interrupt, Answer, Report, Ends, Running

\* Actions paused on or applied have been proposed, whatever overlaps.
EmittedInv ==
    /\ ckpt.node = "tool" => ckpt.action \in emitted
    /\ \A c \in Callers : call[c].at.node = "tool" => call[c].at.action \in emitted
    /\ \A p \in Proposals : finished[p] > 0 => p \in emitted

\* While calls do not overlap there is one call, and what it works on is the
\* latest checkpoint, which is never paused on an action already applied.
AloneInv ==
    ~overlapped =>
        /\ \A c, d \in Running : c = d
        /\ \A c \in Callers : call[c].pc = "running" => call[c].at = ckpt
        /\ ckpt.node = "tool" => finished[ckpt.action] = 0

LEMMA CallStepKeepsEmitted ==
  ASSUME TypeOK, EmittedInv, NEW c \in Callers, CallStep(c)
  PROVE  EmittedInv'
<1>1. /\ ckpt \in Checkpoint /\ call[c] \in Call /\ call[c].at \in Checkpoint
  BY DEF TypeOK, Call
<1>2. ASSUME NEW k, Save(c, k), emitted \subseteq emitted',
             k.node = "tool" => k.action \in emitted',
             \A p \in Proposals : finished'[p] > 0 => p \in emitted'
      PROVE  EmittedInv'
  BY <1>2, CallFrame DEF EmittedInv
<1>3. ASSUME Fail(c) \/ Ends(c), UNCHANGED <<ckpt, emitted, finished>>
      PROVE  EmittedInv'
  BY <1>3, CallFrame DEF EmittedInv, NoCall, HungCall, Empty
<1>4. CASE LoadQuestion(c)
  BY <1>2, <1>4 DEF LoadQuestion, EmittedInv
<1>5. CASE LoadDecision(c)
  <2>1. /\ [ckpt EXCEPT !.decision = call[c].decision].node = ckpt.node
        /\ [ckpt EXCEPT !.decision = call[c].decision].action = ckpt.action
    BY <1>1 DEF Checkpoint
  <2>2. UNCHANGED <<emitted, finished>>
    BY <1>5 DEF LoadDecision
  <2>3. CASE \E k : Save(c, k) /\ k.node = ckpt.node /\ k.action = ckpt.action
    BY <1>2, <2>2, <2>3 DEF EmittedInv
  <2>4. CASE Fail(c) /\ UNCHANGED ckpt
    BY <1>3, <2>2, <2>4
  <2> QED
    BY <1>5, <2>1, <2>3, <2>4 DEF LoadDecision
<1>6. CASE LoadRetry(c)
  BY <1>2, <1>3, <1>6 DEF LoadRetry, EmittedInv
<1>7. CASE AgentStep(c)
  <2>1. CASE Fail(c) /\ UNCHANGED <<ckpt, emitted>>
    BY <1>3, <1>7, <2>1 DEF AgentStep
  <2>2. CASE Save(c, [call[c].at EXCEPT !.node = "idle"]) /\ UNCHANGED emitted
    <3>1. [call[c].at EXCEPT !.node = "idle"].node = "idle"
      BY <1>1 DEF Checkpoint
    <3> QED
      BY <1>2, <1>7, <2>2, <3>1 DEF AgentStep, EmittedInv
  <2>3. ASSUME NEW p \in Proposals \ emitted, emitted' = emitted \cup {p},
               Save(c, [call[c].at EXCEPT !.node = "tool", !.action = p])
        PROVE  EmittedInv'
    <3>1. [call[c].at EXCEPT !.node = "tool", !.action = p].action = p
      BY <1>1 DEF Checkpoint
    <3> QED
      BY <1>2, <1>7, <2>3, <3>1 DEF AgentStep, EmittedInv
  <2> QED
    BY <1>7, <2>1, <2>2, <2>3 DEF AgentStep
<1>8. AfterTool(call[c].at).node = "agent"
  BY <1>1 DEF AfterTool, Checkpoint
<1>9. CASE Cancel(c)
  BY <1>2, <1>8, <1>9 DEF Cancel, EmittedInv
<1>10. CASE Scale(c)
  <2>1. call[c].at.action \in emitted
    BY <1>10 DEF Scale, AtTool, EmittedInv
  <2>2. \A p \in Proposals : finished'[p] > 0 => p \in emitted'
    BY <1>10, <2>1 DEF Scale, EmittedInv, TypeOK
  <2> QED
    BY <1>2, <1>3, <1>8, <1>10, <2>2 DEF Scale
<1>11. CASE Interrupt(c) \/ Answer(c) \/ Hang(c)
  BY <1>3, <1>11 DEF Interrupt, Answer, Report, Hang, Ends
<1> QED
  BY <1>4, <1>5, <1>6, <1>7, <1>9, <1>10, <1>11 DEF CallStep

LEMMA CallStepKeepsAlone ==
  ASSUME TypeOK, EmittedInv, ConsentInv, AloneInv, NEW c \in Callers, CallStep(c)
  PROVE  AloneInv'
<1> SUFFICES ASSUME ~overlapped' 
             PROVE  /\ \A d, e \in Running' : d = e
                    /\ \A d \in Callers : call'[d].pc = "running" => call'[d].at = ckpt'
                    /\ ckpt'.node = "tool" => finished'[ckpt'.action] = 0
  BY DEF AloneInv
<1>1. /\ ~overlapped /\ c \in Running
      /\ \A d \in Running : d = c
      /\ call[c].pc = "running" => call[c].at = ckpt
      /\ ckpt.node = "tool" => finished[ckpt.action] = 0
      /\ finished \in [Proposals -> Nat]
  BY CallStepShape DEF AloneInv, Running, TypeOK
<1>2. \A d \in Callers \ {c} : call'[d] = call[d] /\ call'[d].pc \in {"idle", "hung"}
  BY <1>1, CallStepShape, CallFrame DEF Running
<1>3. \A d, e \in Running' : d = e
  BY <1>2 DEF Running
<1>4. call'[c].pc = "running" => call'[c].at = ckpt'
  BY CallStepShape, CallFrame DEF NoCall, HungCall
<1>5. ckpt \in Checkpoint /\ call[c] \in Call /\ call[c].at \in Checkpoint
  BY DEF TypeOK, Call
<1>6. ASSUME ckpt'.node = "tool"
      PROVE  finished'[ckpt'.action] = 0
  <2>1. CASE LoadQuestion(c)
    BY <1>6, <2>1, CallFrame DEF LoadQuestion
  <2>2. CASE LoadDecision(c)
    <3>1. /\ [ckpt EXCEPT !.decision = call[c].decision].node = ckpt.node
          /\ [ckpt EXCEPT !.decision = call[c].decision].action = ckpt.action
      BY <1>5 DEF Checkpoint
    <3>2. ASSUME NEW k, Save(c, k), k.node = ckpt.node, k.action = ckpt.action,
                 finished' = finished
          PROVE  finished'[ckpt'.action] = 0
      BY <1>1, <1>6, <3>2, CallFrame
    <3>3. CASE Fail(c) /\ UNCHANGED <<ckpt, finished>>
      BY <1>1, <1>6, <3>3
    <3> QED
      BY <2>2, <3>1, <3>2, <3>3, Zenon DEF LoadDecision
  <2>3. CASE LoadRetry(c)
    BY <1>1, <1>6, <2>3, CallFrame DEF LoadRetry
  <2>4. CASE AgentStep(c)
    <3>1. PICK p \in Proposals \ emitted :
            Save(c, [call[c].at EXCEPT !.node = "tool", !.action = p])
      <4>1. [call[c].at EXCEPT !.node = "idle"].node = "idle"
        BY <1>5 DEF Checkpoint
      <4> QED
        BY <1>1, <1>6, <2>4, <4>1, CallFrame DEF AgentStep
    <3>2. ckpt'.action = p
      <4>1. [call[c].at EXCEPT !.node = "tool", !.action = p].action = p
        BY <1>5 DEF Checkpoint
      <4> QED
        BY <3>1, <4>1, CallFrame
    <3>3. finished[p] = 0
      BY <1>1, <3>1 DEF EmittedInv
    <3> QED
      BY <2>4, <3>2, <3>3 DEF AgentStep
  <2>5. AfterTool(call[c].at).node = "agent"
    BY <1>5 DEF AfterTool, Checkpoint
  <2>6. CASE Cancel(c)
    BY <1>6, <2>5, <2>6, CallFrame DEF Cancel
  <2>7. CASE Scale(c)
    BY <1>1, <1>6, <2>5, <2>7, CallFrame DEF Scale
  <2>8. CASE Interrupt(c) \/ Answer(c) \/ Hang(c)
    BY <1>1, <1>6, <2>8 DEF Interrupt, Answer, Report, Hang
  <2> QED
    BY <2>1, <2>2, <2>3, <2>4, <2>6, <2>7, <2>8 DEF CallStep
<1> QED
  BY <1>2, <1>3, <1>4, <1>6

\* The steps that start, show, reload, restart or stutter keep all of it.
LEMMA OtherStepsKeepSole ==
  ASSUME TypeOK, EmittedInv, AloneInv,
         [Next]_vars, ~\E c \in Callers : CallStep(c)
  PROVE  EmittedInv' /\ AloneInv'
<1>1. ASSUME NEW c \in Callers, NEW kind, NEW input, NEW decision,
             Begin(c, kind, input, decision)
      PROVE  EmittedInv' /\ AloneInv'
  <2>1. EmittedInv'
    BY <1>1, BeginFrame DEF EmittedInv, Empty
  <2>2. AloneInv'
    <3> SUFFICES ASSUME ~overlapped'
                 PROVE  /\ \A d, e \in Running' : d = e
                        /\ \A d \in Callers : call'[d].pc = "running" => call'[d].at = ckpt'
                        /\ ckpt'.node = "tool" => finished'[ckpt'.action] = 0
      BY DEF AloneInv
    <3>1. ~overlapped /\ \A d \in Callers : call[d].pc \in {"idle", "hung"}
      BY <1>1, BeginFrame DEF Running
    <3>2. /\ call'[c].pc = "loading"
          /\ \A d \in Callers \ {c} : call'[d].pc \in {"idle", "hung"}
      BY <1>1, <3>1, BeginFrame
    <3>3. \A d, e \in Running' : d = e
      BY <3>2 DEF Running
    <3> QED
      BY <1>1, <3>1, <3>2, <3>3, BeginFrame DEF AloneInv
  <2> QED
    BY <2>1, <2>2
<1>2. CASE Investigate
  BY <1>1, <1>2 DEF Investigate, Callers
<1>3. CASE \E b \in Browsers : SendMessage(b) \/ RespondToApproval(b)
  BY <1>1, <1>3 DEF SendMessage, RespondToApproval, Callers
<1>4. CASE UNCHANGED <<ckpt, call, emitted, finished, overlapped>>
  BY <1>4 DEF EmittedInv, AloneInv, Running
<1>5. CASE Restart
  <2>1. /\ ckpt' = Empty /\ UNCHANGED <<emitted, finished>>
        /\ \A c \in Callers : call'[c] = NoCall
    BY <1>5 DEF Restart
  <2> QED
    BY <2>1 DEF EmittedInv, AloneInv, Running, NoCall, Empty
<1>6. CASE \E b \in Browsers : OpenIncident(b) \/ Reload(b)
  BY <1>4, <1>6 DEF OpenIncident, Reload
<1> QED
  BY <1>2, <1>3, <1>4, <1>5, <1>6 DEF Next, BrowserStep, vars

\* Everything about one call at a time that the two theorems below need.
SoleInv == TypeOK /\ ConsentInv /\ EmittedInv /\ AloneInv

LEMMA SoleInvariant == Spec => []SoleInv
<1>1. Init => SoleInv
  <2> SUFFICES ASSUME Init PROVE SoleInv
    OBVIOUS
  <2>1. TypeOK /\ ConsentInv
    BY InitIsTyped, InitIsSound
  <2>2. ckpt = Empty /\ \A c \in Callers : call[c] = NoCall
    BY DEF Init
  <2>3. \A p \in Proposals : finished[p] = 0
    BY DEF Init
  <2> QED
    BY <2>1, <2>2, <2>3 DEF SoleInv, EmittedInv, AloneInv, Running, NoCall, Empty
<1>2. SoleInv /\ [Next]_vars => SoleInv'
  <2> SUFFICES ASSUME SoleInv, [Next]_vars PROVE SoleInv'
    OBVIOUS
  <2>1. TypeOK' /\ ConsentInv'
    BY StepKeepsType, StepKeepsConsent DEF SoleInv
  <2>2. EmittedInv' /\ AloneInv'
    BY CallStepKeepsEmitted, CallStepKeepsAlone, OtherStepsKeepSole DEF SoleInv
  <2> QED
    BY <2>1, <2>2 DEF SoleInv
<1> QED
  BY <1>1, <1>2, PTL DEF Spec

\* While calls do not overlap, an action whose tool call returned is never
\* applied again, by any retry, later approval or message, before or after a
\* restart.
THEOREM NotAppliedTwice == Spec => AppliedOnce
<1>1. SoleInv /\ [Next]_vars =>
        [~overlapped' =>
            \A p \in Proposals : finished[p] > 0 => cluster'[p] = cluster[p]]_vars
  <2> SUFFICES ASSUME SoleInv, [Next]_vars, ~overlapped',
                      NEW p \in Proposals, finished[p] > 0
               PROVE  cluster'[p] = cluster[p]
    OBVIOUS
  <2>1. CASE UNCHANGED cluster
    BY <2>1
  <2>2. CASE ~UNCHANGED cluster
    <3>1. PICK c \in Callers : Scale(c) \/ (Hang(c) /\ AtTool(c, "approve"))
      BY <2>2 DEF Next, vars, BrowserStep, CallStep, Investigate, SendMessage, OpenIncident,
                  Reload, RespondToApproval, Begin, Restart, LoadQuestion, LoadDecision,
                  LoadRetry, AgentStep, Cancel, Hang, Interrupt, Answer, Report
    <3>2. /\ call[c].at = ckpt /\ ckpt.node = "tool" /\ finished[ckpt.action] = 0
          /\ cluster' \in {cluster, [cluster EXCEPT ![ckpt.action] = @ + 1]}
      BY <3>1 DEF Scale, Hang, AtTool, SoleInv, AloneInv
    <3> QED
      BY <3>2 DEF SoleInv, TypeOK
  <2> QED
    BY <2>1, <2>2
<1> QED
  BY <1>1, SoleInvariant, PTL DEF Spec, AppliedOnce

-----------------------------------------------------------------------------
(* How often a retried turn can write.                                      *)

\* The writes a call may still make under the decision it resumed with.
Spending(c) ==
    /\ \/ call[c].pc = "running"
       \/ call[c].pc = "loading" /\ call[c].input = "retry"
    /\ ckpt.node = "tool" /\ ckpt.decision = "approve"

\* While calls do not overlap, a call that resumed with an approval has left of
\* that approval's MaxAttempts writes what its attempts have not used up.
BudgetInv ==
    /\ \A c \in Callers : call[c].attempt < MaxAttempts
    /\ ~overlapped =>
          /\ \A p \in Proposals : cluster[p] <= MaxAttempts * accepted[p]
          /\ \A c \in Callers : Spending(c) =>
                cluster[ckpt.action] + (MaxAttempts - call[c].attempt)
                    <= MaxAttempts * accepted[ckpt.action]

LEMMA OneMoreApproval ==
  ASSUME NEW a \in Nat
  PROVE  /\ MaxAttempts \in Nat /\ MaxAttempts * a \in Nat
         /\ MaxAttempts * (a + 1) = MaxAttempts * a + MaxAttempts
BY BoundsAreNatural

LEMMA CallStepKeepsBudget ==
  ASSUME SoleInv, BudgetInv, NEW c \in Callers, CallStep(c)
  PROVE  BudgetInv'
<1>1. /\ ckpt \in Checkpoint /\ call[c] \in Call /\ call[c].at \in Checkpoint
      /\ TypeOK /\ call[c].attempt \in Nat /\ call[c].attempt < MaxAttempts
      /\ MaxAttempts \in Nat /\ 0 < MaxAttempts
      /\ accepted \in [Proposals -> Nat] /\ cluster \in [Proposals -> Nat]
  BY BoundsAreNatural DEF SoleInv, BudgetInv, TypeOK, Call
<1>2. /\ \A d \in Callers \ {c} : call'[d] = call[d]
      /\ call'[c].attempt < MaxAttempts
  BY <1>1, CallStepShape, CallFrame DEF NoCall, HungCall
<1>3. \A d \in Callers : call'[d].attempt < MaxAttempts
  BY <1>1, <1>2 DEF BudgetInv
<1> SUFFICES ASSUME ~overlapped'
             PROVE  /\ \A p \in Proposals : cluster'[p] <= MaxAttempts * accepted'[p]
                    /\ \A d \in Callers : Spending(d)' =>
                          cluster'[ckpt'.action] + (MaxAttempts - call'[d].attempt)
                              <= MaxAttempts * accepted'[ckpt'.action]
  BY <1>3 DEF BudgetInv
<1>4. /\ ~overlapped /\ c \in Running
      /\ \A d \in Running : d = c
      /\ call[c].pc = "running" => call[c].at = ckpt
      /\ \A p \in Proposals : cluster[p] <= MaxAttempts * accepted[p]
      /\ Spending(c) => cluster[ckpt.action] + (MaxAttempts - call[c].attempt)
                            <= MaxAttempts * accepted[ckpt.action]
      /\ Sound(ckpt, accepted)
  BY CallStepShape DEF SoleInv, AloneInv, ConsentInv, BudgetInv, Running
<1>5. \A d \in Callers : Spending(d)' => d = c
  BY <1>2, <1>4 DEF Spending, Running
<1>6. ASSUME UNCHANGED <<cluster, accepted>>, ~Spending(c)'
      PROVE  BudgetInv'
  BY <1>3, <1>4, <1>5, <1>6 DEF BudgetInv
<1>7. CASE LoadQuestion(c)
  <2>1. ckpt'.node = "agent"
    BY <1>1, <1>7, CallFrame DEF LoadQuestion
  <2> QED
    BY <1>6, <1>7, <2>1 DEF LoadQuestion, Spending, BudgetInv
<1>8. CASE LoadDecision(c)
  <2>1. CASE ckpt.node # "tool"
    <3>1. ckpt' = ckpt /\ UNCHANGED <<cluster, accepted>>
      BY <1>1, <1>8, <2>1, CallFrame DEF LoadDecision
    <3> QED
      BY <1>6, <2>1, <3>1 DEF Spending, BudgetInv
  <2>2. CASE ckpt.node = "tool"
    <3> DEFINE k == [ckpt EXCEPT !.decision = call[c].decision]
    <3>1. /\ k.decision = call[c].decision /\ k.action = ckpt.action
          /\ ckpt.action \in Proposals
      BY <1>1, <1>4, <2>2 DEF Checkpoint, Sound
    <3>2. ckpt' = k /\ call'[c].attempt = call[c].attempt
      BY <1>1, <1>8, <2>2, CallFrame DEF LoadDecision
    <3>3. /\ accepted' = IF call[c].decision = "approve"
                         THEN [accepted EXCEPT ![ckpt.action] = @ + 1] ELSE accepted
          /\ UNCHANGED cluster
      BY <1>8, <2>2 DEF LoadDecision
    <3>4. CASE call[c].decision # "approve"
      BY <1>6, <3>1, <3>2, <3>3, <3>4 DEF Spending, BudgetInv
    <3>5. CASE call[c].decision = "approve"
      <4> DEFINE p == ckpt.action
      <4>1. /\ accepted'[p] = accepted[p] + 1
            /\ \A q \in Proposals \ {p} : accepted'[q] = accepted[q]
        BY <1>1, <3>1, <3>3, <3>5
      <4>2. cluster[p] + MaxAttempts <= MaxAttempts * accepted'[p]
        BY <1>1, <1>4, <3>1, <4>1, OneMoreApproval
      <4>3. \A q \in Proposals : cluster'[q] <= MaxAttempts * accepted'[q]
        <5>1. ASSUME NEW q \in Proposals, q # p
              PROVE  cluster'[q] <= MaxAttempts * accepted'[q]
          BY <1>4, <3>3, <4>1, <5>1
        <5>2. cluster'[p] <= MaxAttempts * accepted'[p]
          <6>1. cluster[p] \in Nat /\ MaxAttempts * accepted'[p] \in Nat
            BY <1>1, <3>1, <4>1, OneMoreApproval
          <6> QED
            BY <1>1, <3>3, <4>2, <6>1
        <5> QED
          BY <5>1, <5>2
      <4>4. cluster'[ckpt'.action] + (MaxAttempts - call'[c].attempt)
                <= MaxAttempts * accepted'[ckpt'.action]
        <5>1. cluster[p] \in Nat /\ MaxAttempts * accepted'[p] \in Nat
          BY <1>1, <3>1, <4>1, OneMoreApproval
        <5>2. cluster[p] + (MaxAttempts - call[c].attempt) <= MaxAttempts * accepted'[p]
          BY <1>1, <4>2, <5>1
        <5>3. ckpt'.action = p
          BY <3>1, <3>2
        <5> QED
          BY <3>2, <3>3, <5>2, <5>3
      <4> QED
        BY <1>3, <1>5, <4>3, <4>4 DEF BudgetInv
    <3> QED
      BY <3>4, <3>5
  <2> QED
    BY <2>1, <2>2 DEF BudgetInv
<1>9. CASE LoadRetry(c)
  <2>1. CASE Save(c, ckpt)
    <3>1. /\ ckpt' = ckpt /\ call'[c].attempt = call[c].attempt
          /\ UNCHANGED <<cluster, accepted>>
          /\ Spending(c)' => Spending(c)
      BY <1>1, <1>9, <2>1, CallFrame DEF LoadRetry, Spending
    <3> QED
      BY <1>4, <1>5, <3>1
  <2>2. CASE ckpt.node = "empty" /\ UNCHANGED ckpt
    BY <1>6, <1>9, <2>2 DEF LoadRetry, Spending, BudgetInv
  <2> QED
    BY <1>9, <2>1, <2>2 DEF LoadRetry
<1>10. CASE AgentStep(c)
  <2>1. ~Spending(c)'
    <3>1. /\ [call[c].at EXCEPT !.node = "idle"].node = "idle"
          /\ \A p : [call[c].at EXCEPT !.node = "tool", !.action = p].decision = "none"
      BY <1>1, <1>4, <1>10 DEF Checkpoint, AgentStep, Sound
    <3>2. CASE UNCHANGED ckpt
      BY <1>4, <1>10, <3>2 DEF AgentStep, Spending
    <3>3. CASE \E k : Save(c, k) /\ (k.node = "idle" \/ k.decision = "none")
      BY <1>1, <3>3, CallFrame DEF Spending
    <3> QED
      BY <1>10, <3>1, <3>2, <3>3 DEF AgentStep
  <2> QED
    BY <1>6, <1>10, <2>1 DEF AgentStep, BudgetInv
<1>11. AfterTool(call[c].at).node = "agent"
  BY <1>1 DEF AfterTool, Checkpoint
<1>12. CASE Cancel(c)
  <2>1. ckpt'.node = "agent"
    BY <1>1, <1>11, <1>12, CallFrame DEF Cancel
  <2> QED
    BY <1>6, <1>12, <2>1 DEF Cancel, Spending, BudgetInv
<1>13. CASE Scale(c) \/ (Hang(c) /\ AtTool(c, "approve"))
  <2> DEFINE p == ckpt.action
  <2>1. /\ p \in Proposals /\ Spending(c) /\ call[c].at.action = p
        /\ cluster[p] + (MaxAttempts - call[c].attempt) <= MaxAttempts * accepted[p]
    <3>1. p \in Proposals /\ Spending(c) /\ call[c].at.action = p
      BY <1>4, <1>13 DEF Scale, AtTool, Spending, Sound
    <3> QED
      BY <1>4, <3>1
  <2>2. /\ UNCHANGED accepted
        /\ cluster' = cluster \/ cluster' = [cluster EXCEPT ![p] = @ + 1]
    BY <1>13, <2>1 DEF Scale, Hang
  <2>3. /\ cluster[p] \in Nat /\ MaxAttempts * accepted[p] \in Nat
        /\ cluster'[p] \in {cluster[p], cluster[p] + 1}
        /\ \A q \in Proposals \ {p} : cluster'[q] = cluster[q]
    BY <1>1, <2>1, <2>2, OneMoreApproval
  <2>4. \A q \in Proposals : cluster'[q] <= MaxAttempts * accepted'[q]
    <3>1. cluster'[p] <= MaxAttempts * accepted[p]
      BY <1>1, <2>1, <2>3
    <3> QED
      BY <1>4, <2>2, <2>3, <3>1
  <2>5. CASE call'[c] \in {NoCall, HungCall} \/ ckpt'.node = "agent"
    BY <1>5, <2>4, <2>5 DEF Spending, NoCall, HungCall
  <2>6. CASE /\ UNCHANGED ckpt
             /\ call'[c].attempt = call[c].attempt + 1
    <3>1. cluster'[p] + (MaxAttempts - call'[c].attempt) <= MaxAttempts * accepted[p]
      BY <1>1, <2>1, <2>3, <2>6
    <3> QED
      BY <1>5, <2>2, <2>4, <2>6, <3>1
  <2> QED
    BY <1>1, <1>11, <1>13, <2>5, <2>6, CallFrame DEF Scale, Hang, Ends
<1>14. CASE Interrupt(c) \/ Answer(c) \/ (Hang(c) /\ ~AtTool(c, "approve"))
  <2>1. call'[c] \in {NoCall, HungCall} /\ UNCHANGED <<cluster, accepted>>
    BY <1>1, <1>14, CallFrame DEF Interrupt, Answer, Report, Hang, Ends
  <2> QED
    BY <1>6, <2>1 DEF Spending, NoCall, HungCall, BudgetInv
<1> QED
  BY <1>7, <1>8, <1>9, <1>10, <1>12, <1>13, <1>14 DEF CallStep, BudgetInv

\* While calls do not overlap, the cluster is written at most MaxAttempts times
\* for each approval the paused action took.
THEOREM WritesWithinBudget == Spec => []WritesAreBounded
<1>1. Init => BudgetInv
  BY BoundsAreNatural DEF Init, BudgetInv, Spending, NoCall
<1>2. SoleInv /\ BudgetInv /\ [Next]_vars => BudgetInv'
  <2> SUFFICES ASSUME SoleInv, BudgetInv, [Next]_vars PROVE BudgetInv'
    OBVIOUS
  <2>1. ASSUME NEW c \in Callers, NEW kind, NEW input, NEW decision,
               input # "retry", Begin(c, kind, input, decision)
        PROVE  BudgetInv'
    <3>1. /\ call'[c].pc = "loading" /\ call'[c].input # "retry" /\ call'[c].attempt = 0
          /\ \A d \in Callers \ {c} : call'[d] = call[d]
          /\ overlapped' = (overlapped \/ Running # {})
          /\ UNCHANGED <<ckpt, cluster, accepted>>
      BY <2>1, BeginFrame DEF SoleInv
    <3>2. \A d \in Callers : call'[d].attempt < MaxAttempts
      BY <3>1, BoundsAreNatural DEF BudgetInv
    <3>3. \A d \in Callers : Spending(d)' => Spending(d) /\ call'[d] = call[d]
      BY <3>1 DEF Spending
    <3> QED
      BY <3>1, <3>2, <3>3 DEF BudgetInv
  <2>2. CASE Investigate
    BY <2>1, <2>2 DEF Investigate, Callers
  <2>3. CASE \E b \in Browsers : SendMessage(b) \/ RespondToApproval(b)
    BY <2>1, <2>3 DEF SendMessage, RespondToApproval, Callers
  <2>4. CASE UNCHANGED <<ckpt, call, cluster, accepted, overlapped>>
    BY <2>4 DEF BudgetInv, Spending
  <2>5. CASE \E b \in Browsers : OpenIncident(b) \/ Reload(b)
    BY <2>4, <2>5 DEF OpenIncident, Reload
  <2>6. CASE \E c \in Callers : CallStep(c)
    BY <2>6, CallStepKeepsBudget
  <2>7. CASE Restart
    <3>1. /\ \A c \in Callers : call'[c] = NoCall
          /\ UNCHANGED <<cluster, accepted, overlapped>>
      BY <2>7 DEF Restart
    <3> QED
      BY <3>1, BoundsAreNatural DEF BudgetInv, Spending, NoCall
  <2> QED
    BY <2>2, <2>3, <2>4, <2>5, <2>6, <2>7 DEF Next, BrowserStep, vars
<1>3. BudgetInv => WritesAreBounded
  BY DEF BudgetInv, WritesAreBounded
<1> QED
  BY <1>1, <1>2, <1>3, SoleInvariant, PTL DEF Spec
=============================================================================
