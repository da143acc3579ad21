--------------------------- MODULE OperatorConsole ---------------------------
(***************************************************************************)
(* The operator's page and the server behind it: what the page shows, the  *)
(* requests it has under way, the copilot they share, and the incidents    *)
(* that alerts open meanwhile.                                             *)
(*                                                                         *)
(*   ai_platform/webui/static/index.html   init, loadIncidents,            *)
(*                      openIncident, sendMessage, respondToApproval       *)
(*   ai_platform/webui/server.py           _require_auth, get_copilot and  *)
(*                      the endpoints                                      *)
(*   ai_platform/webui/auto_responder.py   investigate_incident,           *)
(*                      record_approval_outcome                            *)
(*                                                                         *)
(* Requests are answered in any order.  The endpoints run in a pool of     *)
(* threads, so several run get_copilot() at once.  A turn of the copilot   *)
(* is one step here: ApprovalGate looks inside it and lets turns of one    *)
(* conversation overlap; AutoTriage has alerts that fire again.            *)
(***************************************************************************)
EXTENDS Naturals, FiniteSets

CONSTANTS
    Slots,          \* requests the page may have under way, polls apart
    Polls,          \* polls of /api/incidents it may have under way
    Sessions,       \* thread ids /api/session hands out, one for each visit
    None,           \* null
    NumIncidents,   \* bound: alerts that fire
    MaxCopilots,    \* bound: copilots built, as many as can be building at once
    MaxProposals,   \* bound: remediations proposed
    MaxEvents       \* bound: messages on a thread, incidents opened by hand, failed
                    \* requests, ended sessions, restarts of the server, copilots it
                    \* cannot build and turns that hang, together

Incidents == 1..NumIncidents    \* in the order they are created; also their thread ids

Threads == Incidents \cup Sessions

ASSUME NoneIsNothing == None \notin Threads /\ None \notin [of : Threads, nth : Nat]

ASSUME CallersDiffer ==
    Slots \cap Polls = {} /\ Slots \cap Incidents = {} /\ Polls \cap Incidents = {}

ASSUME ThreadsDiffer == Incidents \cap Sessions = {}

ASSUME ConsoleBounds ==
    /\ NumIncidents \in Nat
    /\ MaxCopilots \in Nat
    /\ MaxProposals \in Nat
    /\ MaxEvents \in Nat

VARIABLES
    \* the browser
    signedIn,   \* its session cookie names a user
    visiting,   \* it is on the page, not on /login
    threadId,
    shownOf,    \* the threads the messages in the chat pane belong to
    modal,      \* the action in the approval modal
    lastShown,  \* lastShownApprovalThreadId
    sending,    \* the send button is disabled
    \* the wire and the server
    requests,   \* requests of the page, and of Alertmanager for each incident
    handed,     \* session threads handed out
    copilot,    \* _copilot: the latest of those built, 0 for None
    conv,       \* per copilot and thread, where its conversation stands
    proposed,   \* remediations proposed
    records,    \* the incident registry
    \* history
    decided,    \* actions that took a decision
    before,     \* how many of those proposed are from before the latest restart
    moved,      \* the page went on to another thread while it waited for an answer
    events      \* those MaxEvents bounds

pageVars == <<visiting, threadId, shownOf, modal, lastShown, sending, moved>>
serverVars == <<handed, copilot, conv, proposed, records, decided, before>>
vars == <<signedIn, pageVars, requests, serverVars, events>>

-----------------------------------------------------------------------------
Callers == Slots \cup Polls \cup Incidents

Action == [of : Threads, nth : 1..MaxProposals]

\* A conversation was never used, is complete, was left where a turn raised, is paused
\* for an action, or is broken by the tool call of one that was abandoned.
Standing ==
    [at : {"empty", "idle", "left", "broken", "paused"}, for : Action \cup {None}]

At(place) == [at |-> place, for |-> None]

PausedFor(a) == [at |-> "paused", for |-> a]

BrokenBy(a) == [at |-> "broken", for |-> a]

Statuses == {"none", "investigating", "awaiting_approval", "completed", "error"}

Record == [status : Statuses, pending : Action \cup {None}]

Registry == [Incidents -> Record]

NoRecords == [i \in Incidents |-> [status |-> "none", pending |-> None]]

Request ==
    [kind : {"none", "init", "poll", "chat", "approve", "alert"},
     stage : {"free", "sent", "building", "returning", "asking", "hung", "reporting",
              "answered"},
     thread : Threads \cup {None}, approved : BOOLEAN, copilot : 0..MaxCopilots,
     awaited : BOOLEAN,     \* the page still waits for it
     outcome : {"ok", "error", "401"}, action : Action \cup {None}, list : Registry]

Free == [kind |-> "none", stage |-> "free", thread |-> None, approved |-> FALSE, copilot |-> 0,
         awaited |-> FALSE, outcome |-> "ok", action |-> None, list |-> NoRecords]

Init ==
    /\ signedIn = FALSE
    /\ visiting = FALSE
    /\ threadId = None
    /\ shownOf = {}
    /\ modal = None
    /\ lastShown = None
    /\ sending = FALSE
    /\ moved = FALSE
    /\ requests = [r \in Callers |-> Free]
    /\ handed = {}
    /\ copilot = 0
    /\ conv = [c \in 1..MaxCopilots |-> [t \in Threads |-> At("empty")]]
    /\ proposed = 0
    /\ records = NoRecords
    /\ decided = {}
    /\ before = 0
    /\ events = 0

\* What MaxEvents bounds
Happens ==
    /\ events < MaxEvents
    /\ events' = events + 1

-----------------------------------------------------------------------------
\* The browser

Posted(kind, thread, approved) ==
    [Free EXCEPT !.kind = kind, !.stage = "sent", !.thread = thread, !.approved = approved,
                 !.awaited = TRUE]

FreeOnes(places) == {r \in places : requests[r] = Free}

Post(kind, thread, approved) ==
    LET r == CHOOSE r \in FreeOnes(Slots) : TRUE
    IN  requests' = [requests EXCEPT ![r] = Posted(kind, thread, approved)]

Waits == \E r \in Slots : requests[r].awaited

\* What becomes of the page's requests when it is left: the server goes on with them,
\* except that nothing more comes of one that hangs.
Orphaned ==
    [r \in Callers |->
        IF requests[r].stage \in {"sent", "answered", "hung"} /\ r \notin Incidents THEN Free
        ELSE [requests[r] EXCEPT !.awaited = FALSE]]

EmptyPage ==
    /\ threadId' = None
    /\ shownOf' = {}
    /\ modal' = None
    /\ lastShown' = None
    /\ sending' = FALSE
    /\ moved' = FALSE

GoToLogin ==
    /\ visiting' = FALSE
    /\ requests' = Orphaned
    /\ EmptyPage

\* /auth/callback signs an allowed user in and the page is loaded: init() asks
\* who the user is, and the first poll is sent meanwhile.
Visit ==
    /\ ~visiting
    /\ handed # Sessions
    /\ signedIn' = TRUE
    /\ visiting' = TRUE
    /\ EmptyPage
    /\ FreeOnes(Slots) # {}
    /\ Post("init", None, FALSE)
    /\ UNCHANGED <<serverVars, events>>

\* The cookie is no longer valid, or the operator signs out, here or elsewhere.
SessionEnds ==
    /\ signedIn
    /\ Happens
    /\ signedIn' = FALSE
    /\ \/ UNCHANGED <<pageVars, requests>>
       \/ visiting /\ modal = None /\ GoToLogin
    /\ UNCHANGED serverVars

\* setInterval(loadIncidents, 5000), and the timeline tab
Poll(p) ==
    /\ visiting
    /\ requests[p] = Free
    /\ requests' = [requests EXCEPT ![p] = Posted("poll", None, FALSE)]
    /\ UNCHANGED <<signedIn, pageVars, serverVars, events>>

\* The Enter key works whether or not the button is disabled or the modal is open.
SendMessage ==
    /\ visiting
    /\ FreeOnes(Slots) # {}
    /\ IF threadId = None THEN UNCHANGED events ELSE Happens
    /\ shownOf' = shownOf \cup ({threadId} \ {None})
    /\ sending' = TRUE
    /\ Post("chat", threadId, FALSE)
    /\ UNCHANGED <<signedIn, visiting, threadId, modal, lastShown, moved, serverVars>>

RespondToApproval ==
    /\ modal # None
    /\ FreeOnes(Slots) # {}
    /\ modal' = None
    /\ \E approved \in BOOLEAN : Post("approve", threadId, approved)
    /\ UNCHANGED <<signedIn, visiting, threadId, shownOf, lastShown, sending, moved,
                   serverVars, events>>

\* Mutant: the messages of the thread before stay in the pane.
OpenIncidentBelow(i, record) ==
    /\ threadId' = i
    /\ shownOf' = shownOf \cup {i}
    /\ modal' = record.pending
    /\ moved' = Waits

\* openIncident(): nothing of the thread before stays, except what is still to come
OpenIncident(i, record) ==
    /\ threadId' = i
    /\ shownOf' = {i}
    /\ modal' = record.pending
    /\ moved' = Waits

-----------------------------------------------------------------------------
\* Answers, whenever they come

Took(r) == requests' = [requests EXCEPT ![r] = Free]

\* init(): loadMe(), then /api/session, which no session and no answer to the first end
\* on /login; without an answer to the second threadId stays null.
TakeSession(r, outcome) ==
    /\ requests[r].kind = "init"
    /\ outcome # "401"
    /\ threadId' = IF outcome = "ok" THEN requests[r].thread ELSE threadId
    /\ Took(r)
    /\ UNCHANGED <<visiting, shownOf, modal, lastShown, sending, moved>>

TakeToLogin(r, outcome) ==
    /\ outcome = "401" \/ (requests[r].kind = "init" /\ outcome = "error")
    /\ GoToLogin

Surfacable(list) ==
    {i \in Incidents : /\ list[i].status = "awaiting_approval"
                       /\ list[i].pending # None
                       /\ lastShown # i}

\* records.find(...), the newest first
Newest(incidents) == {i \in incidents : \A j \in incidents : j <= i}

\* Mutant: only the newest incident that awaits approval is looked at.
ComesUpIfNewest(list) ==
    LET awaiting == {i \in Incidents : /\ list[i].status = "awaiting_approval"
                                       /\ list[i].pending # None}
    IN  IF modal = None /\ awaiting # {} THEN Newest(awaiting) \ {lastShown} ELSE {}

\* loadIncidents(): nothing comes up over a modal.
ComesUp(list) == IF modal = None THEN Surfacable(list) ELSE {}

TakePoll(r, outcome) ==
    /\ requests[r].kind = "poll"
    /\ outcome # "401"
    /\ LET found == IF outcome = "ok" THEN ComesUp(requests[r].list) ELSE {}
       IN  IF found = {}
           THEN UNCHANGED <<threadId, shownOf, modal, lastShown, moved>>
           ELSE \E i \in Newest(found) :
                   lastShown' = i /\ OpenIncident(i, requests[r].list[i])
    /\ Took(r)
    /\ UNCHANGED <<visiting, sending>>

\* Mutant: the button is enabled again only by a reply.
TakeReplyEnabling(r, outcome) ==
    /\ requests[r].kind \in {"chat", "approve"}
    /\ outcome # "401"
    /\ IF outcome = "ok" /\ requests[r].action # None
       THEN modal' = requests[r].action /\ UNCHANGED shownOf
       ELSE shownOf' = shownOf \cup ({requests[r].thread} \ {None}) /\ UNCHANGED modal
    /\ sending' = IF requests[r].kind = "chat" /\ outcome = "ok" THEN FALSE ELSE sending
    /\ Took(r)
    /\ UNCHANGED <<visiting, threadId, lastShown, moved>>

\* handleReply() shows the action, or a message, on whatever thread the page is by now.
TakeReply(r, outcome) ==
    /\ requests[r].kind \in {"chat", "approve"}
    /\ outcome # "401"
    /\ IF outcome = "ok" /\ requests[r].action # None
       THEN modal' = requests[r].action /\ UNCHANGED shownOf
       ELSE shownOf' = shownOf \cup ({requests[r].thread} \ {None}) /\ UNCHANGED modal
    /\ sending' = IF requests[r].kind = "chat" THEN FALSE ELSE sending
    /\ Took(r)
    /\ UNCHANGED <<visiting, threadId, lastShown, moved>>

Take(r, outcome) ==
    \/ TakeToLogin(r, outcome)
    \/ TakeSession(r, outcome)
    \/ TakePoll(r, outcome)
    \/ TakeReply(r, outcome)

AnswerArrives(r) ==
    /\ requests[r].stage = "answered"
    /\ Take(r, requests[r].outcome)
    /\ UNCHANGED <<signedIn, serverVars, events>>

\* fetch() throws, on the way there or on the way back.
RequestFails(r) ==
    /\ requests[r].stage \in {"sent", "answered"}
    /\ Happens
    /\ Take(r, "error")
    /\ UNCHANGED <<signedIn, serverVars>>

\* The cards of the timeline and the hub are drawn from an answer, which is old when
\* the operator clicks one; the overlay covers them.
Click(p, i) ==
    /\ requests[p].stage = "answered"
    /\ requests[p].outcome = "ok"
    /\ requests[p].list[i].status # "none"
    /\ modal = None
    /\ ComesUp(requests[p].list) = {}
    /\ Happens
    /\ OpenIncident(i, requests[p].list[i])
    /\ Took(p)
    /\ UNCHANGED <<signedIn, visiting, lastShown, sending, serverVars>>

-----------------------------------------------------------------------------
\* The server

\* An answer nobody waits for any more is gone.
Answered(request) ==
    IF request.awaited
    THEN [request EXCEPT !.stage = "answered", !.approved = FALSE, !.copilot = 0]
    ELSE Free

Answer(r, outcome) ==
    requests' = [requests EXCEPT ![r] = Answered([@ EXCEPT !.outcome = outcome])]

\* _require_auth: everything the page asks for needs a session.
Refuse(r) ==
    /\ requests[r].stage = "sent"
    /\ ~signedIn
    /\ Answer(r, "401")
    /\ UNCHANGED <<signedIn, pageVars, serverVars, events>>

Admitted(r, kinds) ==
    /\ requests[r].stage = "sent"
    /\ requests[r].kind \in kinds
    /\ signedIn

\* /api/me and /api/session
NewSession(r) ==
    /\ Admitted(r, {"init"})
    /\ \E t \in Sessions \ handed :
          /\ handed' = handed \cup {t}
          /\ requests' = [requests EXCEPT ![r].stage = "answered", ![r].thread = t]
    /\ UNCHANGED <<signedIn, pageVars, copilot, conv, proposed, records, decided, before,
                   events>>

\* /api/incidents
ListIncidents(r) ==
    /\ Admitted(r, {"poll"})
    /\ requests' = [requests EXCEPT ![r].stage = "answered", ![r].list = records]
    /\ UNCHANGED <<signedIn, pageVars, serverVars, events>>

\* A thread_id of null is no string: 422.
Unprocessable(r) ==
    /\ Admitted(r, {"chat", "approve"})
    /\ requests[r].thread = None
    /\ Answer(r, "error")
    /\ UNCHANGED <<signedIn, pageVars, serverVars, events>>

\* `return _copilot`; the webhook then registers the incident, and its background
\* task keeps this copilot.
Obtains(r, request) ==
    /\ requests' = [requests EXCEPT ![r] = [request EXCEPT !.stage = "asking", !.copilot = copilot]]
    /\ records' = IF request.kind = "alert"
                  THEN [records EXCEPT ![r].status = "investigating"] ELSE records

\* get_copilot(): whoever finds none builds one.
GetsCopilot(r, request) ==
    \/ copilot # 0 /\ Obtains(r, request)
    \/ /\ copilot = 0
       /\ Cardinality({q \in Callers : requests[q].stage = "building"}) < MaxCopilots
       /\ requests' = [requests EXCEPT ![r] = [request EXCEPT !.stage = "building"]]
       /\ UNCHANGED records

TurnAsked(r) ==
    /\ Admitted(r, {"chat", "approve"})
    /\ requests[r].thread # None
    /\ GetsCopilot(r, requests[r])
    /\ UNCHANGED <<signedIn, pageVars, handed, copilot, conv, proposed, decided, before,
                   events>>

\* Alertmanager's webhook, for an alert that is new
AlertFires(i) ==
    /\ requests[i] = Free
    /\ records[i].status = "none"
    /\ \A j \in 1..(i - 1) : records[j].status # "none"
    /\ GetsCopilot(i, [Free EXCEPT !.kind = "alert", !.thread = i])
    /\ UNCHANGED <<signedIn, pageVars, handed, copilot, conv, proposed, decided, before,
                   events>>

\* `_copilot = build_copilot(...)`, whatever another thread has assigned meanwhile, and
\* then whatever one assigns before `return _copilot`
BuildCopilot(r) ==
    /\ requests[r].stage = "building"
    /\ copilot < MaxCopilots
    /\ copilot' = copilot + 1
    /\ requests' = [requests EXCEPT ![r].stage = "returning"]
    /\ UNCHANGED <<signedIn, pageVars, handed, conv, proposed, records, decided, before,
                   events>>

\* build_copilot() raises outside of any try: an alert was not registered.
BuildFails(r) ==
    /\ requests[r].stage = "building"
    /\ Happens
    /\ Answer(r, "error")
    /\ UNCHANGED <<signedIn, pageVars, handed, copilot, conv, proposed, records, decided,
                   before>>

ObtainCopilot(r) ==
    /\ requests[r].stage = "returning"
    /\ Obtains(r, requests[r])
    /\ UNCHANGED <<signedIn, pageVars, handed, copilot, conv, proposed, decided, before,
                   events>>

-----------------------------------------------------------------------------
\* Turns

\* The turn ended there: /api/chat answers, the others have a record to update.
Ends(r, standing, outcome, action) ==
    /\ conv' = [conv EXCEPT ![requests[r].copilot][requests[r].thread] = standing]
    /\ LET request == [requests[r] EXCEPT !.outcome = outcome, !.action = action]
       IN  requests' = [requests EXCEPT ![r] =
               IF \/ request.kind = "alert"
                  \/ request.kind = "approve" /\ outcome = "ok" /\ request.thread \in Incidents
               THEN [request EXCEPT !.stage = "reporting", !.copilot = 0] ELSE Answered(request)]
    /\ UNCHANGED events

\* A tool of the turn never returns: a client of Kubernetes has no time-out, and the
\* walk of a trace may go round.
Hangs(r, standing) ==
    /\ Happens
    /\ conv' = [conv EXCEPT ![requests[r].copilot][requests[r].thread] = standing]
    /\ requests' = [requests EXCEPT ![r].stage = "hung", ![r].copilot = 0]

\* The model answers, proposes a remediation, or the turn raises or hangs on its way.
ModelRuns(r) ==
    LET a == [of |-> requests[r].thread, nth |-> proposed + 1]
    IN  \/ Ends(r, At("idle"), "ok", None) /\ UNCHANGED proposed
        \/ Ends(r, At("left"), "error", None) /\ UNCHANGED proposed
        \/ Hangs(r, At("left")) /\ UNCHANGED proposed
        \/ /\ proposed < MaxProposals
           /\ proposed' = proposed + 1
           /\ Ends(r, PausedFor(a), "ok", a)

Stands(r) == conv[requests[r].copilot][requests[r].thread]

Asking(r, kinds) == requests[r].stage = "asking" /\ requests[r].kind \in kinds

\* Mutant: a message to a paused conversation quietly ends the pause.
AskAfresh(r) ==
    /\ Asking(r, {"chat", "alert"})
    /\ \/ /\ Stands(r).at \in {"empty", "idle", "left", "paused"}
          /\ ModelRuns(r)
       \/ /\ Stands(r).at = "broken"
          /\ Ends(r, Stands(r), "error", None)
          /\ UNCHANGED proposed
    /\ UNCHANGED <<signedIn, pageVars, handed, copilot, records, decided, before>>

\* ask(): a message to a paused conversation leaves its tool call without an answer,
\* which the model's API refuses from then on.
Ask(r) ==
    /\ Asking(r, {"chat", "alert"})
    /\ \/ /\ Stands(r).at \in {"empty", "idle", "left"}
          /\ ModelRuns(r)
       \/ /\ Stands(r).at \in {"paused", "broken"}
          /\ Ends(r, BrokenBy(Stands(r).for), "error", None)
          /\ UNCHANGED proposed
    /\ UNCHANGED <<signedIn, pageVars, handed, copilot, records, decided, before>>

\* Mutant: a tool call without an answer is run by any decision.
DecideBroken(r) ==
    /\ Asking(r, {"approve"})
    /\ Stands(r).at \in {"paused", "broken"}
    /\ decided' = decided \cup {Stands(r).for}
    /\ \/ ModelRuns(r)
       \/ requests[r].approved /\ Ends(r, Stands(r), "error", None) /\ UNCHANGED proposed
    /\ UNCHANGED <<signedIn, pageVars, handed, copilot, records, before>>

\* respond_to_approval() of a conversation that is paused: the tool applies the action
\* or returns that it was rejected, and the model goes on; or the tool raises or
\* hangs, having applied it or not, and the conversation stays where it is.
Decide(r) ==
    /\ Asking(r, {"approve"})
    /\ Stands(r).at = "paused"
    /\ decided' = decided \cup {Stands(r).for}
    /\ \/ ModelRuns(r)
       \/ /\ requests[r].approved
          /\ Ends(r, Stands(r), "error", None) \/ Hangs(r, Stands(r))
          /\ UNCHANGED proposed
    /\ UNCHANGED <<signedIn, pageVars, handed, copilot, records, before>>

\* Of one that is not: what was left goes on, what is complete is returned again.
ResumeUnpaused(r) ==
    /\ Asking(r, {"approve"})
    /\ \/ /\ Stands(r).at \in {"empty", "broken"}
          /\ Ends(r, Stands(r), "error", None)
          /\ UNCHANGED proposed
       \/ /\ Stands(r).at = "idle"
          /\ Ends(r, Stands(r), "ok", None)
          /\ UNCHANGED proposed
       \/ /\ Stands(r).at = "left"
          /\ ModelRuns(r)
    /\ UNCHANGED <<signedIn, pageVars, handed, copilot, records, decided, before>>

\* Mutant: the whole reply is stored where its pending action belongs.
ReportReply(r) ==
    /\ requests[r].stage = "reporting"
    /\ records' = [records EXCEPT ![requests[r].thread] =
          IF requests[r].outcome = "error" THEN [@ EXCEPT !.status = "error"]
          ELSE [status  |-> IF requests[r].action # None THEN "awaiting_approval" ELSE "completed",
                pending |-> [pending_action |-> requests[r].action]]]
    /\ requests' = [requests EXCEPT ![r] = Answered(@)]
    /\ UNCHANGED <<signedIn, pageVars, handed, copilot, conv, proposed, decided, before,
                   events>>

\* An error is noted without touching the pending action.
Report(r) ==
    /\ requests[r].stage = "reporting"
    /\ records' = [records EXCEPT ![requests[r].thread] =
          IF requests[r].outcome = "error" THEN [@ EXCEPT !.status = "error"]
          ELSE [status  |-> IF requests[r].action # None THEN "awaiting_approval" ELSE "completed",
                pending |-> requests[r].action]]
    /\ requests' = [requests EXCEPT ![r] = Answered(@)]
    /\ UNCHANGED <<signedIn, pageVars, handed, copilot, conv, proposed, decided, before,
                   events>>

-----------------------------------------------------------------------------
\* A restart cuts off what the server was at. The records are in a database; the copilot
\* and its conversations are in memory, and the key sessions are signed with may be.
Cut(request) ==
    IF request.stage \in {"free", "sent", "answered"} THEN request
    ELSE Answered([request EXCEPT !.outcome = "error", !.action = None])

Restart ==
    /\ Happens
    /\ copilot' = 0
    /\ conv' = [c \in 1..MaxCopilots |-> [t \in Threads |-> At("empty")]]
    /\ requests' = [r \in Callers |-> Cut(requests[r])]
    /\ before' = proposed
    /\ signedIn' \in {signedIn, FALSE}
    /\ UNCHANGED <<pageVars, handed, proposed, records, decided>>

-----------------------------------------------------------------------------
ServerStep(r) ==
    \/ Refuse(r) \/ NewSession(r) \/ ListIncidents(r) \/ Unprocessable(r)
    \/ TurnAsked(r) \/ BuildCopilot(r) \/ BuildFails(r) \/ ObtainCopilot(r)
    \/ Ask(r) \/ Decide(r) \/ ResumeUnpaused(r)
    \/ Report(r)

Next ==
    \/ Visit \/ SessionEnds
    \/ \E p \in Polls : Poll(p) \/ \E i \in Incidents : Click(p, i)
    \/ SendMessage \/ RespondToApproval
    \/ \E i \in Incidents : AlertFires(i)
    \/ \E r \in Slots \cup Polls : AnswerArrives(r) \/ RequestFails(r)
    \/ \E r \in Callers : ServerStep(r)
    \/ Restart

Spec == Init /\ [][Next]_vars

\* The server's threads are scheduled, so that a turn ends or hangs; an answer arrives
\* or fails; the page polls while it is open; the operator answers what the page asks.
FairSpec ==
    /\ Spec
    /\ \A r \in Callers : WF_vars(ServerStep(r))
    /\ \A r \in Slots \cup Polls : WF_vars(AnswerArrives(r))
    /\ \A p \in Polls : WF_vars(Poll(p))
    /\ WF_vars(RespondToApproval)

-----------------------------------------------------------------------------
\* Type correctness: whatever request is under way, on whatever thread.
TypeOK ==
    /\ signedIn \in BOOLEAN /\ visiting \in BOOLEAN
    /\ threadId \in Threads \cup {None} /\ shownOf \in SUBSET Threads
    /\ modal \in Action \cup {None} /\ lastShown \in Incidents \cup {None}
    /\ sending \in BOOLEAN /\ moved \in BOOLEAN
    /\ requests \in [Callers -> Request]
    /\ handed \in SUBSET Sessions
    /\ copilot \in 0..MaxCopilots
    /\ conv \in [1..MaxCopilots -> [Threads -> Standing]]
    /\ proposed \in 0..MaxProposals
    /\ records \in Registry
    /\ decided \in SUBSET Action
    /\ before \in 0..MaxProposals
    /\ events \in 0..MaxEvents

\* The modal and the messages are the open thread's, so that a decision goes to the
\* conversation the action is about, unless the page opened an incident while an
\* answer was still on its way (threadId, showApproval, openIncident, handleReply).
PageShowsItsThread ==
    ~moved => /\ modal # None => modal.of = threadId
              /\ shownOf \subseteq {threadId}

\* A pending action on an incident's record stands in that incident's conversation
\* with a copilot of this process, unless it was answered or abandoned or a restart
\* came between: no failed, repeated or hanging turn of that thread or another loses
\* it.  Where two were built it may be the one that no longer serves, and no decision
\* reaches it (InMemorySaver, record_approval_outcome, get_copilot).
PendingIsStillPaused ==
    \A i \in Incidents :
        LET a == records[i].pending
        IN  a # None => /\ a.of = i
                        /\ \/ a \in decided
                           \/ a.nth <= before
                           \/ \E c \in 1..copilot : conv[c][i] \in {PausedFor(a), BrokenBy(a)}

\* An action abandoned by a message takes no decision from then on, from no modal that
\* still shows it and on no copilot, so it is not applied (ask, respond_to_approval).
Abandoned(a) == \E c \in 1..MaxCopilots, t \in Threads : conv[c][t] = BrokenBy(a)

AbandonedIsNeverDecided ==
    [][\A a \in Action : Abandoned(a) /\ a \in decided' => a \in decided]_vars

\* The send button comes back, with an answer, an error, an ended session or another
\* page, whatever is asked or restarted meanwhile, unless the turn it waits for hangs:
\* fetch() has no time-out (the finally of sendMessage).
SendingEnds ==
    sending ~> \/ ~sending
               \/ \E r \in Slots : requests[r].kind = "chat" /\ requests[r].stage = "hung"

\* An incident that awaits approval comes up on the open page by itself while at most
\* one other stays undecided and not all the page's requests hang: of three, two can
\* keep coming up in turn (loadIncidents and lastShownApprovalThreadId).
AwaitingComesUp ==
    \A i \in Incidents :
        /\ visiting
        /\ records[i].status = "awaiting_approval" /\ records[i].pending # None
        ~> \/ lastShown = i
           \/ ~visiting
           \/ records[i].status # "awaiting_approval"
           \/ \A r \in Slots : requests[r].stage = "hung"
           \/ \E j, k \in Incidents \ {i} :
                 j # k /\ records[j].status = "awaiting_approval"
                       /\ records[k].status = "awaiting_approval"
=============================================================================
