------------------------- MODULE OperatorConsoleProofs -------------------------
(***************************************************************************)
(* Proofs about OperatorConsole, for any number of requests, polls, visits,*)
(* incidents and proposals.                                                *)
(***************************************************************************)
EXTENDS OperatorConsole, TLAPS

\* Incident i's pending action is one its own conversation proposed.
OwnPending(list) == \A i \in Incidents : list[i].pending # None => list[i].pending.of = i

\* A request at each of its stages, when so many copilots are built
SoundRequest(r, q, built) ==
    /\ q \in Request
    /\ q.copilot <= built
    /\ q.stage = "asking" <=> q.copilot # 0
    /\ q.stage \in {"asking", "building", "returning"} => q.thread # None
    /\ q.stage = "returning" => built # 0
    /\ q.stage = "reporting" => q.thread \in Incidents /\ built # 0
    /\ q.kind = "alert" => q.thread \in Incidents
    /\ q.stage \in {"sent", "answered"} => q.awaited
    /\ q.awaited => r \notin Incidents /\ (q.kind = "poll" \/ r \in Slots)
    /\ q.action # None => q.action.of = q.thread
    /\ q.stage \notin {"reporting", "answered"} => q.action = None
    /\ q.stage = "free" => ~q.awaited
    /\ OwnPending(q.list)

RequestsAreSound == \A r \in Callers : SoundRequest(r, requests[r], copilot)

RecordsAreSound == OwnPending(records)

\* What the page waits for is about the thread it is on, unless it moved; the one
\* answer that names the thread comes before there is any.
PageWaitsForItsThread ==
    /\ ~visiting => modal = None /\ \A r \in Callers : ~requests[r].awaited
    /\ \A r, q \in Callers :
          /\ requests[r].awaited /\ requests[r].kind = "init"
          /\ requests[q].awaited /\ requests[q].kind = "init"
          => r = q
    /\ ~moved => \A r \in Callers : requests[r].awaited =>
          /\ requests[r].kind = "init" => threadId = None
          /\ requests[r].kind \in {"chat", "approve"} => requests[r].thread \in {None, threadId}

\* An action stands in one conversation only, and the next one is new.
ActionsStandOnce ==
    /\ \A c \in 1..MaxCopilots, t \in Threads :
          /\ conv[c][t].at = "paused" => conv[c][t].for # None
          /\ conv[c][t].for # None => conv[c][t].for.nth <= proposed
    /\ before <= proposed
    /\ \A c, d \in 1..MaxCopilots, t, u \in Threads :
          conv[c][t].for # None /\ conv[c][t].for = conv[d][u].for => c = d /\ t = u

\* An action of incident i was decided, was proposed before the latest restart, or
\* stands in the conversation of i with one of the copilots built.
Kept(a, i, done, last, built, standings) ==
    \/ a \in done
    \/ a.nth <= last
    \/ \E c \in 1..built : standings[c][i] \in {PausedFor(a), BrokenBy(a)}

PendingIsKept ==
    /\ \A i \in Incidents : records[i].pending # None =>
          Kept(records[i].pending, i, decided, before, copilot, conv)
    /\ \A r \in Callers :
          requests[r].stage = "reporting" /\ requests[r].action # None
              => Kept(requests[r].action, requests[r].thread, decided, before, copilot, conv)

\* The invariant that is inductive
IInv ==
    /\ TypeOK
    /\ RequestsAreSound
    /\ RecordsAreSound
    /\ PageShowsItsThread
    /\ PageWaitsForItsThread
    /\ ActionsStandOnce
    /\ PendingIsKept

-----------------------------------------------------------------------------
\* Values

LEMMA FreeIsSound ==
    ASSUME NEW r, NEW built \in Nat
    PROVE  SoundRequest(r, Free, built) /\ ~Free.awaited /\ Free.stage = "free"
  <1>1. NoRecords \in Registry /\ OwnPending(NoRecords)
    BY DEF NoRecords, Registry, Record, Statuses, OwnPending
  <1>2. Free \in Request
    BY <1>1, ConsoleBounds DEF Free, Request
  <1> QED BY <1>1, <1>2 DEF SoundRequest, Free

LEMMA PostedIsSound ==
    ASSUME NEW r, NEW built \in Nat, NEW thread \in Threads \cup {None}, NEW approved \in BOOLEAN,
           NEW kind \in {"init", "poll", "chat", "approve"}, r \notin Incidents, kind = "poll" \/ r \in Slots
    PROVE  SoundRequest(r, Posted(kind, thread, approved), built)
  <1>1. Free \in Request /\ OwnPending(Free.list) /\ Free.action = None
    BY FreeIsSound DEF SoundRequest, Free
  <1>2. Posted(kind, thread, approved) \in Request
    BY <1>1, ZenonT(60) DEF Posted, Request
  <1> QED BY <1>1, <1>2 DEF SoundRequest, Posted, Free

LEMMA AnsweredIsSound ==
    ASSUME NEW r, NEW q \in Request, NEW built \in Nat,
           q.action # None => q.action.of = q.thread,
           q.kind = "alert" => q.thread \in Incidents,
           q.awaited => r \notin Incidents /\ (q.kind = "poll" \/ r \in Slots),
           OwnPending(q.list)
    PROVE  SoundRequest(r, Answered(q), built)
  <1>1. CASE q.awaited
    <2> DEFINE a == [q EXCEPT !.stage = "answered", !.approved = FALSE, !.copilot = 0]
    <2>1. a \in Request
      <3>1. 0 \in 0..MaxCopilots
        BY ConsoleBounds
      <3> QED BY <3>1 DEF Request
    <2>2. /\ a.stage = "answered" /\ a.copilot = 0
          /\ a.kind = q.kind /\ a.thread = q.thread /\ a.awaited = q.awaited
          /\ a.action = q.action /\ a.list = q.list
      BY DEF Request
    <2> HIDE DEF a
    <2>3. SoundRequest(r, a, built)
      BY <1>1, <2>1, <2>2 DEF SoundRequest
    <2> QED BY <1>1, <2>3 DEF Answered, a
  <1>2. CASE ~q.awaited
    BY <1>2, FreeIsSound DEF Answered
  <1> QED BY <1>1, <1>2

\* Of the page's requests, one changes.
LEMMA OneRequest ==
    ASSUME TypeOK, RequestsAreSound, NEW r \in Callers, NEW q,
           copilot' \in Nat, copilot <= copilot',
           requests' = [requests EXCEPT ![r] = q], SoundRequest(r, q, copilot')
    PROVE  RequestsAreSound' /\ requests' \in [Callers -> Request]
  <1>1. requests' \in [Callers -> Request]
    BY DEF TypeOK, SoundRequest
  <1>2. ASSUME NEW p \in Callers PROVE SoundRequest(p, requests'[p], copilot')
    <2>1. CASE p = r
      BY <2>1 DEF TypeOK
    <2>2. CASE p # r
      <3>1. requests'[p] = requests[p] /\ SoundRequest(p, requests[p], copilot)
        BY <2>2 DEF TypeOK, RequestsAreSound
      <3>2. requests[p].copilot \in Nat /\ copilot \in Nat
        BY ConsoleBounds DEF TypeOK, Request
      <3> QED BY <3>1, <3>2 DEF SoundRequest
    <2> QED BY <2>1, <2>2
  <1> QED BY <1>1, <1>2 DEF RequestsAreSound

\* Leaving the page frees its requests or leaves them to the server.
LEMMA OrphanedAreSound ==
    ASSUME TypeOK, RequestsAreSound, requests' = Orphaned, copilot' = copilot
    PROVE  /\ RequestsAreSound' /\ requests' \in [Callers -> Request]
           /\ \A r \in Callers :
                 /\ ~requests'[r].awaited
                 /\ requests'[r].stage = "reporting" =>
                       /\ requests[r].stage = "reporting"
                       /\ requests'[r].action = requests[r].action
                       /\ requests'[r].thread = requests[r].thread
  <1>a. requests' = [r \in Callers |-> requests'[r]]
    BY DEF Orphaned
  <1> SUFFICES ASSUME NEW r \in Callers
               PROVE  /\ SoundRequest(r, requests'[r], copilot)
                      /\ ~requests'[r].awaited
                      /\ requests'[r].stage = "reporting" =>
                            /\ requests[r].stage = "reporting"
                            /\ requests'[r].action = requests[r].action
                            /\ requests'[r].thread = requests[r].thread
    BY <1>a DEF RequestsAreSound, SoundRequest
  <1>1. copilot \in Nat /\ SoundRequest(r, requests[r], copilot) /\ requests[r] \in Request
    BY ConsoleBounds DEF TypeOK, RequestsAreSound
  <1>2. CASE requests'[r] = Free
    BY <1>1, <1>2, FreeIsSound
  <1>3. CASE /\ requests'[r] = [requests[r] EXCEPT !.awaited = FALSE]
             /\ requests[r].stage \notin {"sent", "answered"}
    <2>1. [requests[r] EXCEPT !.awaited = FALSE] \in Request
      BY <1>1 DEF Request
    <2> QED BY <1>1, <1>3, <2>1 DEF SoundRequest, Request
  <1>4. CASE r \in Incidents /\ requests[r].stage \in {"sent", "answered"}
    BY <1>1, <1>4 DEF SoundRequest
  <1> QED BY <1>2, <1>3, <1>4 DEF Orphaned

-----------------------------------------------------------------------------
\* What a step leaves alone

\* No request of the page is new: the server answers, drops or goes on with each.
OnlyOldRequests ==
    \A r \in Callers : requests'[r].awaited =>
        /\ requests[r].awaited
        /\ requests'[r].kind = requests[r].kind
        /\ requests[r].kind # "init" => requests'[r].thread = requests[r].thread

NothingNewToReport ==
    \A r \in Callers : requests'[r].stage = "reporting" =>
        /\ requests[r].stage = "reporting"
        /\ requests'[r].action = requests[r].action
        /\ requests'[r].thread = requests[r].thread

LEMMA PageIsKept ==
    ASSUME IInv, UNCHANGED pageVars, OnlyOldRequests
    PROVE  PageShowsItsThread' /\ PageWaitsForItsThread'
  <1>1. PageShowsItsThread'
    BY DEF IInv, PageShowsItsThread, pageVars
  <1>2. PageWaitsForItsThread'
    BY DEF IInv, PageWaitsForItsThread, pageVars, OnlyOldRequests
  <1> QED BY <1>1, <1>2

LEMMA ConversationsAreKept ==
    ASSUME IInv, UNCHANGED <<conv, proposed, before>>
    PROVE  ActionsStandOnce'
  BY DEF IInv, ActionsStandOnce

LEMMA PendingStays ==
    ASSUME IInv, UNCHANGED <<conv, copilot, records, decided, before>>, NothingNewToReport
    PROVE  PendingIsKept'
  BY DEF IInv, PendingIsKept, NothingNewToReport

\* The browser's steps leave the server alone.
LEMMA ServerIsKept ==
    ASSUME IInv, UNCHANGED serverVars, NothingNewToReport
    PROVE  RecordsAreSound' /\ ActionsStandOnce' /\ PendingIsKept'
  BY ConversationsAreKept, PendingStays DEF IInv, RecordsAreSound, serverVars

\* A request that is dropped or posted has nothing to report.
LEMMA NothingToReport ==
    ASSUME TypeOK, NEW r \in Callers, NEW q, requests' = [requests EXCEPT ![r] = q],
           q.stage # "reporting"
    PROVE  NothingNewToReport
  BY DEF TypeOK, NothingNewToReport

-----------------------------------------------------------------------------
\* The browser's steps

LEMMA Chosen ==
    ASSUME FreeOnes(Slots) # {}
    PROVE  (CHOOSE r \in FreeOnes(Slots) : TRUE) \in FreeOnes(Slots)
  OBVIOUS

\* A request that is posted takes a free place.
LEMMA PostTakesAFreePlace ==
    ASSUME FreeOnes(Slots) # {}, NEW kind, NEW thread, NEW approved, Post(kind, thread, approved)
    PROVE  \E r \in Slots : /\ requests[r] = Free
                            /\ requests' = [requests EXCEPT ![r] = Posted(kind, thread, approved)]
  BY Chosen DEF Post, FreeOnes

LEMMA PostedFields ==
    ASSUME NEW kind, NEW thread, NEW approved
    PROVE  /\ Posted(kind, thread, approved).kind = kind
           /\ Posted(kind, thread, approved).thread = thread
           /\ Posted(kind, thread, approved).awaited
  BY DEF Posted, Free

LEMMA PostIsSound ==
    ASSUME IInv, UNCHANGED serverVars, NEW r \in Callers, r \notin Incidents,
           NEW kind \in {"init", "poll", "chat", "approve"}, kind = "poll" \/ r \in Slots,
           NEW thread \in Threads \cup {None}, NEW approved \in BOOLEAN,
           requests' = [requests EXCEPT ![r] = Posted(kind, thread, approved)]
    PROVE  /\ RequestsAreSound' /\ requests' \in [Callers -> Request]
           /\ RecordsAreSound' /\ ActionsStandOnce' /\ PendingIsKept'
           /\ requests'[r].kind = kind /\ requests'[r].thread = thread /\ requests'[r].awaited
           /\ \A p \in Callers \ {r} : requests'[p] = requests[p]
  <1> DEFINE q == Posted(kind, thread, approved)
  <1>1. copilot \in Nat /\ copilot' = copilot /\ copilot <= copilot'
    BY ConsoleBounds DEF IInv, TypeOK, serverVars
  <1>2. SoundRequest(r, q, copilot')
    BY <1>1, PostedIsSound
  <1>3. q.stage # "reporting"
    BY DEF Posted, Free
  <1>6. q.kind = kind /\ q.thread = thread /\ q.awaited
    BY PostedFields
  <1> HIDE DEF q
  <1>7. requests' = [requests EXCEPT ![r] = q]
    BY DEF q
  <1>4. NothingNewToReport
    BY <1>3, <1>7, NothingToReport DEF IInv
  <1>5. RequestsAreSound' /\ requests' \in [Callers -> Request]
    BY <1>1, <1>2, <1>7, OneRequest DEF IInv
  <1>8. requests'[r] = q /\ \A p \in Callers \ {r} : requests'[p] = requests[p]
    BY <1>7 DEF IInv, TypeOK
  <1> QED BY <1>4, <1>5, <1>6, <1>8, ServerIsKept

LEMMA VisitIInv == ASSUME IInv, Visit PROVE IInv'
  <1> USE DEF Visit
  <1>1. PICK r \in Slots : requests' = [requests EXCEPT ![r] = Posted("init", None, FALSE)]
    BY PostTakesAFreePlace
  <1>2. r \in Callers /\ r \notin Incidents
    BY CallersDiffer DEF Callers
  <1>3. /\ RequestsAreSound' /\ requests' \in [Callers -> Request]
        /\ RecordsAreSound' /\ ActionsStandOnce' /\ PendingIsKept'
    BY <1>1, <1>2, PostIsSound
  <1>4. TypeOK'
    BY <1>3 DEF IInv, TypeOK, EmptyPage, serverVars
  <1>5. PageShowsItsThread'
    BY DEF PageShowsItsThread, EmptyPage
  <1>7. requests'[r].kind = "init" /\ \A p \in Callers \ {r} : requests'[p] = requests[p]
    BY <1>1, <1>2, PostIsSound
  <1>6. \A p \in Callers : requests'[p].awaited => p = r
    BY <1>7 DEF IInv, PageWaitsForItsThread
  <1>8. PageWaitsForItsThread'
    BY <1>6, <1>7 DEF PageWaitsForItsThread, EmptyPage
  <1> QED BY <1>3, <1>4, <1>5, <1>8 DEF IInv

LEMMA GoToLoginIInv ==
    ASSUME IInv, GoToLogin, UNCHANGED serverVars, signedIn' \in BOOLEAN, events' \in 0..MaxEvents
    PROVE  IInv'
  <1> USE DEF GoToLogin
  <1>1. RequestsAreSound' /\ requests' \in [Callers -> Request]
    BY OrphanedAreSound DEF IInv, serverVars
  <1>2. NothingNewToReport /\ \A r \in Callers : ~requests'[r].awaited
    BY OrphanedAreSound DEF IInv, serverVars, NothingNewToReport
  <1>3. RecordsAreSound' /\ ActionsStandOnce' /\ PendingIsKept'
    BY <1>2, ServerIsKept
  <1>4. TypeOK'
    BY <1>1 DEF IInv, TypeOK, EmptyPage, serverVars
  <1>5. PageShowsItsThread' /\ PageWaitsForItsThread'
    BY <1>2 DEF PageShowsItsThread, PageWaitsForItsThread, EmptyPage
  <1> QED BY <1>1, <1>3, <1>4, <1>5 DEF IInv

LEMMA HappensBounded == ASSUME TypeOK, Happens PROVE events' \in 0..MaxEvents
  BY ConsoleBounds DEF TypeOK, Happens

LEMMA SessionEndsIInv == ASSUME IInv, SessionEnds PROVE IInv'
  <1> USE DEF SessionEnds
  <1>1. events' \in 0..MaxEvents
    BY HappensBounded DEF IInv
  <1>2. CASE UNCHANGED <<pageVars, requests>>
    BY <1>1, <1>2, PageIsKept, ServerIsKept
       DEF IInv, TypeOK, RequestsAreSound, OnlyOldRequests, NothingNewToReport,
           pageVars, serverVars
  <1>3. CASE GoToLogin
    BY <1>1, <1>3, GoToLoginIInv
  <1> QED BY <1>2, <1>3

LEMMA PollIInv == ASSUME IInv, NEW p \in Polls, Poll(p) PROVE IInv'
  <1> USE DEF Poll
  <1>1. p \in Callers /\ p \notin Incidents
    BY CallersDiffer DEF Callers
  <1>2. requests' = [requests EXCEPT ![p] = Posted("poll", None, FALSE)]
    OBVIOUS
  <1>3. /\ RequestsAreSound' /\ requests' \in [Callers -> Request]
        /\ RecordsAreSound' /\ ActionsStandOnce' /\ PendingIsKept'
    BY <1>1, <1>2, PostIsSound
  <1>4. TypeOK'
    BY <1>3 DEF IInv, TypeOK, pageVars, serverVars
  <1>5. requests'[p].kind = "poll" /\ \A q \in Callers \ {p} : requests'[q] = requests[q]
    BY <1>1, <1>2, PostIsSound
  <1>6. PageShowsItsThread'
    BY DEF IInv, PageShowsItsThread, pageVars
  <1>7. PageWaitsForItsThread'
    BY <1>5, ZenonT(60) DEF IInv, PageWaitsForItsThread, pageVars
  <1> QED BY <1>3, <1>4, <1>6, <1>7 DEF IInv

LEMMA SendMessageIInv == ASSUME IInv, SendMessage PROVE IInv'
  <1> USE DEF SendMessage
  <1>1. PICK r \in Slots : requests' = [requests EXCEPT ![r] = Posted("chat", threadId, FALSE)]
    BY PostTakesAFreePlace
  <1>2. r \in Callers /\ r \notin Incidents
    BY CallersDiffer DEF Callers
  <1>3. threadId \in Threads \cup {None}
    BY DEF IInv, TypeOK
  <1>4. /\ RequestsAreSound' /\ requests' \in [Callers -> Request]
        /\ RecordsAreSound' /\ ActionsStandOnce' /\ PendingIsKept'
    BY <1>1, <1>2, <1>3, PostIsSound
  <1>5. TypeOK'
    BY <1>4, HappensBounded DEF IInv, TypeOK, serverVars
  <1>6. /\ requests'[r].kind = "chat" /\ requests'[r].thread = threadId
        /\ \A q \in Callers \ {r} : requests'[q] = requests[q]
    BY <1>1, <1>2, <1>3, PostIsSound
  <1>7. PageShowsItsThread'
    BY DEF IInv, PageShowsItsThread
  <1>8. PageWaitsForItsThread'
    BY <1>6 DEF IInv, PageWaitsForItsThread
  <1> QED BY <1>4, <1>5, <1>7, <1>8 DEF IInv

LEMMA RespondToApprovalIInv == ASSUME IInv, RespondToApproval PROVE IInv'
  <1> USE DEF RespondToApproval
  <1>1. PICK approved \in BOOLEAN : Post("approve", threadId, approved)
    OBVIOUS
  <1>2. PICK r \in Slots :
            requests' = [requests EXCEPT ![r] = Posted("approve", threadId, approved)]
    BY <1>1, PostTakesAFreePlace
  <1>3. r \in Callers /\ r \notin Incidents
    BY CallersDiffer DEF Callers
  <1>4. threadId \in Threads \cup {None}
    BY DEF IInv, TypeOK
  <1>5. /\ RequestsAreSound' /\ requests' \in [Callers -> Request]
        /\ RecordsAreSound' /\ ActionsStandOnce' /\ PendingIsKept'
    BY <1>2, <1>3, <1>4, PostIsSound
  <1>6. TypeOK'
    BY <1>5 DEF IInv, TypeOK, serverVars
  <1>7. /\ requests'[r].kind = "approve" /\ requests'[r].thread = threadId
        /\ \A q \in Callers \ {r} : requests'[q] = requests[q]
    BY <1>2, <1>3, <1>4, PostIsSound
  <1>8. PageShowsItsThread'
    BY DEF IInv, PageShowsItsThread
  <1>9. PageWaitsForItsThread'
    BY <1>7 DEF IInv, PageWaitsForItsThread
  <1> QED BY <1>5, <1>6, <1>8, <1>9 DEF IInv

-----------------------------------------------------------------------------
\* Answers

LEMMA TookKeeps ==
    ASSUME IInv, UNCHANGED serverVars, NEW r \in Callers, Took(r)
    PROVE  /\ RequestsAreSound' /\ requests' \in [Callers -> Request]
           /\ RecordsAreSound' /\ ActionsStandOnce' /\ PendingIsKept'
           /\ ~requests'[r].awaited
           /\ \A p \in Callers \ {r} : requests'[p] = requests[p]
           /\ OnlyOldRequests
  <1>1. copilot \in Nat /\ copilot' = copilot /\ copilot <= copilot'
    BY ConsoleBounds DEF IInv, TypeOK, serverVars
  <1>2. SoundRequest(r, Free, copilot') /\ ~Free.awaited /\ Free.stage = "free"
    BY <1>1, FreeIsSound
  <1>3. requests' = [requests EXCEPT ![r] = Free]
    BY DEF Took
  <1>4. RequestsAreSound' /\ requests' \in [Callers -> Request]
    BY <1>1, <1>2, <1>3, OneRequest DEF IInv
  <1>5. requests'[r] = Free /\ \A p \in Callers \ {r} : requests'[p] = requests[p]
    BY <1>3 DEF IInv, TypeOK
  <1>6. NothingNewToReport /\ OnlyOldRequests
    BY <1>2, <1>5 DEF NothingNewToReport, OnlyOldRequests
  <1> QED BY <1>2, <1>4, <1>5, <1>6, ServerIsKept

\* What is answered is waited for, so the page is open.
LEMMA AwaitedFacts ==
    ASSUME IInv, NEW r \in Callers, requests[r].stage \in {"sent", "answered"}
    PROVE  /\ requests[r] \in Request /\ requests[r].awaited /\ visiting
           /\ OwnPending(requests[r].list)
           /\ requests[r].action # None => requests[r].action.of = requests[r].thread
  BY DEF IInv, RequestsAreSound, SoundRequest, PageWaitsForItsThread

LEMMA OpenIncidentShows ==
    ASSUME IInv, visiting, visiting' = visiting, NEW i \in Incidents, NEW record \in Record,
           record.pending # None => record.pending.of = i,
           OpenIncident(i, record), OnlyOldRequests
    PROVE  /\ PageShowsItsThread' /\ PageWaitsForItsThread'
           /\ threadId' \in Threads \cup {None} /\ shownOf' \in SUBSET Threads
           /\ modal' \in Action \cup {None} /\ moved' \in BOOLEAN
  <1> USE DEF OpenIncident
  <1>1. PageShowsItsThread'
    BY DEF PageShowsItsThread
  <1>2. \A r \in Callers : requests[r].awaited =>
            requests[r].kind = "poll" \/ r \in Slots
    BY DEF IInv, RequestsAreSound, SoundRequest
  <1>3. ~moved' => \A r \in Callers : requests'[r].awaited => requests'[r].kind = "poll"
    BY <1>2 DEF OnlyOldRequests, Waits
  <1>4. PageWaitsForItsThread'
    BY <1>3 DEF IInv, PageWaitsForItsThread, OnlyOldRequests
  <1>5. /\ threadId' \in Threads \cup {None} /\ shownOf' \in SUBSET Threads
        /\ modal' \in Action \cup {None} /\ moved' \in BOOLEAN
    BY DEF Threads, Record, Waits
  <1> QED BY <1>1, <1>4, <1>5

LEMMA TakeSessionIInv ==
    ASSUME IInv, NEW r \in Callers, NEW outcome, TakeSession(r, outcome),
           requests[r].stage \in {"sent", "answered"},
           UNCHANGED <<signedIn, serverVars>>, events' \in 0..MaxEvents
    PROVE  IInv'
  <1> USE DEF TakeSession
  <1>1. /\ RequestsAreSound' /\ requests' \in [Callers -> Request]
        /\ RecordsAreSound' /\ ActionsStandOnce' /\ PendingIsKept' /\ OnlyOldRequests
        /\ ~requests'[r].awaited /\ \A p \in Callers \ {r} : requests'[p] = requests[p]
    BY TookKeeps
  <1>2. requests[r] \in Request /\ requests[r].awaited /\ visiting
    BY AwaitedFacts
  <1>3. threadId' \in Threads \cup {None}
    BY <1>2 DEF IInv, TypeOK, Request
  <1>4. TypeOK'
    BY <1>1, <1>3 DEF IInv, TypeOK, serverVars
  <1>5. ~moved => threadId = None
    BY <1>2 DEF IInv, PageWaitsForItsThread
  <1>6. ~moved => modal = None /\ shownOf = {}
    BY <1>5, NoneIsNothing DEF IInv, TypeOK, PageShowsItsThread, Action
  <1>7. PageShowsItsThread'
    BY <1>6 DEF PageShowsItsThread
  <1>8. PageWaitsForItsThread'
    BY <1>1, <1>2, <1>5 DEF IInv, PageWaitsForItsThread
  <1> QED BY <1>1, <1>4, <1>7, <1>8 DEF IInv

LEMMA TakePollIInv ==
    ASSUME IInv, NEW r \in Callers, NEW outcome, TakePoll(r, outcome),
           requests[r].stage \in {"sent", "answered"},
           UNCHANGED <<signedIn, serverVars>>, events' \in 0..MaxEvents
    PROVE  IInv'
  <1> USE DEF TakePoll
  <1>1. /\ RequestsAreSound' /\ requests' \in [Callers -> Request]
        /\ RecordsAreSound' /\ ActionsStandOnce' /\ PendingIsKept' /\ OnlyOldRequests
    BY TookKeeps
  <1>2. visiting /\ requests[r].list \in Registry /\ OwnPending(requests[r].list)
    BY AwaitedFacts DEF Request
  <1>3. CASE UNCHANGED <<threadId, shownOf, modal, lastShown, moved>>
    <2>1. PageShowsItsThread' /\ PageWaitsForItsThread'
      BY <1>1, <1>3, PageIsKept DEF pageVars
    <2>2. TypeOK'
      BY <1>1, <1>3 DEF IInv, TypeOK, serverVars
    <2> QED BY <1>1, <2>1, <2>2 DEF IInv
  <1>4. CASE \E i \in Incidents : lastShown' = i /\ OpenIncident(i, requests[r].list[i])
    <2>1. PICK i \in Incidents : lastShown' = i /\ OpenIncident(i, requests[r].list[i])
      BY <1>4
    <2> DEFINE record == requests[r].list[i]
    <2>2. record \in Record /\ (record.pending # None => record.pending.of = i)
      BY <1>2 DEF Registry, OwnPending
    <2>3. OpenIncident(i, record)
      BY <2>1
    <2> HIDE DEF record
    <2>4. /\ PageShowsItsThread' /\ PageWaitsForItsThread'
          /\ threadId' \in Threads \cup {None} /\ shownOf' \in SUBSET Threads
          /\ modal' \in Action \cup {None} /\ moved' \in BOOLEAN
      BY <1>1, <1>2, <2>2, <2>3, OpenIncidentShows
    <2>5. TypeOK'
      BY <1>1, <2>1, <2>4 DEF IInv, TypeOK, serverVars
    <2> QED BY <1>1, <2>4, <2>5 DEF IInv
  <1> QED BY <1>3, <1>4 DEF Newest, ComesUp, Surfacable

LEMMA TakeReplyIInv ==
    ASSUME IInv, NEW r \in Callers, NEW outcome, TakeReply(r, outcome),
           requests[r].stage \in {"sent", "answered"},
           UNCHANGED <<signedIn, serverVars>>, events' \in 0..MaxEvents
    PROVE  IInv'
  <1> USE DEF TakeReply
  <1>1. /\ RequestsAreSound' /\ requests' \in [Callers -> Request]
        /\ RecordsAreSound' /\ ActionsStandOnce' /\ PendingIsKept' /\ OnlyOldRequests
    BY TookKeeps
  <1>2. /\ requests[r] \in Request /\ requests[r].awaited /\ visiting
        /\ requests[r].action # None => requests[r].action.of = requests[r].thread
    BY AwaitedFacts
  <1>3. requests[r].thread \in Threads \cup {None} /\ requests[r].action \in Action \cup {None}
    BY <1>2 DEF Request
  <1>4. ~moved => requests[r].thread \in {None, threadId}
    BY <1>2 DEF IInv, PageWaitsForItsThread
  <1>5. TypeOK'
    BY <1>1, <1>3 DEF IInv, TypeOK, serverVars
  <1>6. ASSUME ~moved, requests[r].action # None PROVE requests[r].action.of = threadId
    BY <1>2, <1>3, <1>4, <1>6, NoneIsNothing DEF Action
  <1>7. PageShowsItsThread'
    BY <1>4, <1>6 DEF IInv, PageShowsItsThread
  <1>8. PageWaitsForItsThread'
    BY <1>1, <1>2 DEF IInv, PageWaitsForItsThread, OnlyOldRequests
  <1> QED BY <1>1, <1>5, <1>7, <1>8 DEF IInv

LEMMA TakeIInv ==
    ASSUME IInv, NEW r \in Callers, NEW outcome, Take(r, outcome),
           requests[r].stage \in {"sent", "answered"},
           UNCHANGED <<signedIn, serverVars>>, events' \in 0..MaxEvents
    PROVE  IInv'
  <1>1. CASE TakeToLogin(r, outcome)
    BY <1>1, GoToLoginIInv DEF TakeToLogin, IInv, TypeOK
  <1> QED BY <1>1, TakeSessionIInv, TakePollIInv, TakeReplyIInv DEF Take

LEMMA AnswerArrivesIInv ==
    ASSUME IInv, NEW r \in Callers, AnswerArrives(r)
    PROVE  IInv'
  <1>1. events' \in 0..MaxEvents
    BY DEF AnswerArrives, IInv, TypeOK
  <1> QED BY <1>1, TakeIInv DEF AnswerArrives

LEMMA RequestFailsIInv ==
    ASSUME IInv, NEW r \in Callers, RequestFails(r)
    PROVE  IInv'
  <1>1. events' \in 0..MaxEvents
    BY HappensBounded DEF RequestFails, IInv
  <1> QED BY <1>1, TakeIInv DEF RequestFails

LEMMA ClickIInv ==
    ASSUME IInv, NEW p \in Callers, NEW i \in Incidents, Click(p, i)
    PROVE  IInv'
  <1> USE DEF Click
  <1>1. /\ RequestsAreSound' /\ requests' \in [Callers -> Request]
        /\ RecordsAreSound' /\ ActionsStandOnce' /\ PendingIsKept' /\ OnlyOldRequests
    BY TookKeeps
  <1>2. visiting /\ requests[p].list \in Registry /\ OwnPending(requests[p].list)
    BY AwaitedFacts DEF Request
  <1> DEFINE record == requests[p].list[i]
  <1>3. record \in Record /\ (record.pending # None => record.pending.of = i)
    BY <1>2 DEF Registry, OwnPending
  <1>4. OpenIncident(i, record)
    OBVIOUS
  <1> HIDE DEF record
  <1>5. /\ PageShowsItsThread' /\ PageWaitsForItsThread'
        /\ threadId' \in Threads \cup {None} /\ shownOf' \in SUBSET Threads
        /\ modal' \in Action \cup {None} /\ moved' \in BOOLEAN
    BY <1>1, <1>2, <1>3, <1>4, OpenIncidentShows
  <1>6. TypeOK'
    BY <1>1, <1>5, HappensBounded DEF IInv, TypeOK, serverVars
  <1> QED BY <1>1, <1>5, <1>6 DEF IInv

-----------------------------------------------------------------------------
\* The server's steps

\* A request goes on, and the page's view of it stays.
Continues(r, q) ==
    q.awaited => /\ requests[r].awaited
                 /\ q.kind = requests[r].kind
                 /\ requests[r].kind # "init" => q.thread = requests[r].thread

LEMMA RequestContinues ==
    ASSUME IInv, UNCHANGED pageVars, NEW r \in Callers, NEW q,
           copilot' \in Nat, copilot <= copilot',
           requests' = [requests EXCEPT ![r] = q], SoundRequest(r, q, copilot'), Continues(r, q)
    PROVE  /\ RequestsAreSound' /\ requests' \in [Callers -> Request]
           /\ PageShowsItsThread' /\ PageWaitsForItsThread'
           /\ requests'[r] = q /\ \A p \in Callers \ {r} : requests'[p] = requests[p]
  <1>1. RequestsAreSound' /\ requests' \in [Callers -> Request]
    BY OneRequest DEF IInv
  <1>2. requests'[r] = q /\ \A p \in Callers \ {r} : requests'[p] = requests[p]
    BY DEF IInv, TypeOK
  <1>3. OnlyOldRequests
    BY <1>2 DEF OnlyOldRequests, Continues
  <1> QED BY <1>1, <1>2, <1>3, PageIsKept

LEMMA AnsweredFields ==
    ASSUME NEW q \in Request
    PROVE  /\ Answered(q).stage # "reporting"
           /\ Answered(q).awaited => q.awaited /\ Answered(q).kind = q.kind
                                               /\ Answered(q).thread = q.thread
  BY DEF Answered, Free, Request

\* What a step does that touches only requests that are not to be reported
LEMMA RequestAlone ==
    ASSUME IInv, UNCHANGED <<signedIn, pageVars, copilot, conv, proposed, decided, before>>,
           handed' \in SUBSET Sessions, events' \in 0..MaxEvents,
           records' = records, NEW r \in Callers, NEW q,
           requests' = [requests EXCEPT ![r] = q], SoundRequest(r, q, copilot),
           Continues(r, q), q.stage # "reporting"
    PROVE  IInv'
  <1>1. copilot' \in Nat /\ copilot <= copilot' /\ SoundRequest(r, q, copilot')
    BY ConsoleBounds DEF IInv, TypeOK
  <1>2. /\ RequestsAreSound' /\ requests' \in [Callers -> Request]
        /\ PageShowsItsThread' /\ PageWaitsForItsThread'
    BY <1>1, RequestContinues
  <1>3. NothingNewToReport
    BY NothingToReport DEF IInv
  <1>4. RecordsAreSound' /\ ActionsStandOnce' /\ PendingIsKept'
    BY <1>3, ConversationsAreKept, PendingStays DEF IInv, RecordsAreSound
  <1>5. TypeOK'
    BY <1>2 DEF IInv, TypeOK, pageVars
  <1> QED BY <1>2, <1>4, <1>5 DEF IInv

LEMMA SoundOf ==
    ASSUME IInv, NEW r \in Callers
    PROVE  /\ SoundRequest(r, requests[r], copilot) /\ requests[r] \in Request
           /\ copilot \in Nat /\ copilot \in 0..MaxCopilots
  BY ConsoleBounds DEF IInv, TypeOK, RequestsAreSound, SoundRequest

LEMMA AnswerIInv ==
    ASSUME IInv, NEW r \in Callers, NEW outcome \in {"error", "401"}, Answer(r, outcome),
           UNCHANGED <<signedIn, pageVars, serverVars>>, events' \in 0..MaxEvents
    PROVE  IInv'
  <1> DEFINE q == [requests[r] EXCEPT !.outcome = outcome]
  <1>1. /\ q \in Request /\ q.action = requests[r].action /\ q.thread = requests[r].thread
        /\ q.kind = requests[r].kind /\ q.awaited = requests[r].awaited
        /\ q.list = requests[r].list
    BY SoundOf DEF Request
  <1>2. requests' = [requests EXCEPT ![r] = Answered(q)]
    BY DEF Answer, IInv, TypeOK
  <1> HIDE DEF q
  <1>3. SoundRequest(r, Answered(q), copilot)
    BY <1>1, SoundOf, AnsweredIsSound DEF SoundRequest
  <1>4. Continues(r, Answered(q)) /\ Answered(q).stage # "reporting"
    BY <1>1, AnsweredFields DEF Continues
  <1>5. handed' \in SUBSET Sessions
    BY DEF IInv, TypeOK, serverVars
  <1> QED BY <1>2, <1>3, <1>4, <1>5, RequestAlone DEF serverVars

LEMMA NewSessionIInv == ASSUME IInv, NEW r \in Callers, NewSession(r) PROVE IInv'
  <1> USE DEF NewSession, Admitted
  <1>1. PICK t \in Sessions \ handed :
            /\ handed' = handed \cup {t}
            /\ requests' = [requests EXCEPT ![r].stage = "answered", ![r].thread = t]
    OBVIOUS
  <1> DEFINE q == [requests[r] EXCEPT !.stage = "answered", !.thread = t]
  <1>2. q \in Request
    BY SoundOf, ZenonT(60) DEF Request, Threads
  <1>3. /\ q.stage = "answered" /\ q.thread = t /\ q.kind = "init"
        /\ q.awaited = requests[r].awaited /\ q.copilot = requests[r].copilot
        /\ q.action = requests[r].action /\ q.list = requests[r].list
    BY SoundOf DEF Request
  <1>4. requests' = [requests EXCEPT ![r] = q]
    BY <1>1 DEF IInv, TypeOK
  <1> HIDE DEF q
  <1>5. SoundRequest(r, q, copilot) /\ Continues(r, q) /\ q.stage # "reporting"
    BY <1>2, <1>3, SoundOf DEF SoundRequest, Continues
  <1>6. handed' \in SUBSET Sessions /\ events' \in 0..MaxEvents
    BY <1>1 DEF IInv, TypeOK
  <1> QED BY <1>4, <1>5, <1>6, RequestAlone

LEMMA ListIncidentsIInv == ASSUME IInv, NEW r \in Callers, ListIncidents(r) PROVE IInv'
  <1> USE DEF ListIncidents, Admitted
  <1> DEFINE q == [requests[r] EXCEPT !.stage = "answered", !.list = records]
  <1>1. q \in Request
    BY SoundOf, ZenonT(60) DEF Request, IInv, TypeOK
  <1>2. /\ q.stage = "answered" /\ q.thread = requests[r].thread /\ q.kind = requests[r].kind
        /\ q.awaited = requests[r].awaited /\ q.copilot = requests[r].copilot
        /\ q.action = requests[r].action /\ q.list = records
    BY SoundOf DEF Request
  <1>3. requests' = [requests EXCEPT ![r] = q]
    BY DEF IInv, TypeOK
  <1> HIDE DEF q
  <1>4. OwnPending(q.list)
    BY <1>2 DEF IInv, RecordsAreSound
  <1>5. SoundRequest(r, q, copilot) /\ Continues(r, q) /\ q.stage # "reporting"
    BY <1>1, <1>2, <1>4, SoundOf DEF SoundRequest, Continues
  <1>6. handed' \in SUBSET Sessions /\ events' \in 0..MaxEvents
    BY DEF IInv, TypeOK, serverVars
  <1> QED BY <1>3, <1>5, <1>6, RequestAlone DEF serverVars

\* Whoever has the copilot asks it; a record it opens has nothing pending yet.
LEMMA ObtainsIInv ==
    ASSUME IInv, NEW r \in Callers, NEW q, SoundRequest(r, q, copilot), copilot # 0,
           q.thread # None, q.action = None, Continues(r, q), Obtains(r, q),
           UNCHANGED <<signedIn, pageVars, handed, copilot, conv, proposed, decided, before,
                       events>>
    PROVE  IInv'
  <1> DEFINE a == [q EXCEPT !.stage = "asking", !.copilot = copilot]
  <1>1. a \in Request
    BY SoundOf DEF Request, SoundRequest
  <1>2. /\ a.stage = "asking" /\ a.thread = q.thread /\ a.kind = q.kind
        /\ a.awaited = q.awaited /\ a.copilot = copilot
        /\ a.action = q.action /\ a.list = q.list
    BY DEF Request, SoundRequest
  <1>3. requests' = [requests EXCEPT ![r] = a]
    BY DEF Obtains
  <1> HIDE DEF a
  <1>4. SoundRequest(r, a, copilot)
    BY <1>1, <1>2, SoundOf DEF SoundRequest
  <1>5. Continues(r, a)
    BY <1>2 DEF Continues
  <1>6. copilot' \in Nat /\ copilot <= copilot' /\ SoundRequest(r, a, copilot')
    BY <1>4, SoundOf
  <1>7. /\ RequestsAreSound' /\ requests' \in [Callers -> Request]
        /\ PageShowsItsThread' /\ PageWaitsForItsThread'
        /\ \A p \in Callers \ {r} : requests'[p] = requests[p]
        /\ requests'[r].stage # "reporting"
    BY <1>2, <1>3, <1>5, <1>6, RequestContinues
  <1>8. /\ records' \in Registry
        /\ \A i \in Incidents : records'[i].pending = records[i].pending
    BY ZenonT(60) DEF Obtains, IInv, TypeOK, Registry, Record, Statuses
  <1>9. TypeOK'
    BY <1>7, <1>8 DEF IInv, TypeOK, pageVars
  <1>10. RecordsAreSound'
    BY <1>8 DEF IInv, RecordsAreSound, OwnPending
  <1>11. PendingIsKept'
    BY <1>7, <1>8 DEF IInv, PendingIsKept
  <1>12. ActionsStandOnce'
    BY ConversationsAreKept
  <1> QED BY <1>7, <1>9, <1>10, <1>11, <1>12 DEF IInv

LEMMA GetsCopilotIInv ==
    ASSUME IInv, NEW r \in Callers, NEW q, SoundRequest(r, q, copilot),
           q.thread # None, q.action = None, q.stage \in {"free", "sent"},
           Continues(r, q), GetsCopilot(r, q),
           UNCHANGED <<signedIn, pageVars, handed, copilot, conv, proposed, decided, before,
                       events>>
    PROVE  IInv'
  <1>1. CASE copilot # 0 /\ Obtains(r, q)
    BY <1>1, ObtainsIInv DEF SoundRequest
  <1>2. CASE /\ requests' = [requests EXCEPT ![r] = [q EXCEPT !.stage = "building"]]
             /\ UNCHANGED records
    <2> DEFINE b == [q EXCEPT !.stage = "building"]
    <2>1. b \in Request
      BY DEF Request, SoundRequest
    <2>2. /\ b.stage = "building" /\ b.thread = q.thread /\ b.kind = q.kind
          /\ b.awaited = q.awaited /\ b.copilot = q.copilot
          /\ b.action = q.action /\ b.list = q.list
      BY DEF Request, SoundRequest
    <2>3. requests' = [requests EXCEPT ![r] = b]
      BY <1>2
    <2> HIDE DEF b
    <2>4. SoundRequest(r, b, copilot) /\ Continues(r, b) /\ b.stage # "reporting"
      BY <2>1, <2>2 DEF SoundRequest, Continues
    <2>5. handed' \in SUBSET Sessions /\ events' \in 0..MaxEvents
      BY DEF IInv, TypeOK
    <2> QED BY <1>2, <2>3, <2>4, <2>5, RequestAlone
  <1> QED BY <1>1, <1>2 DEF GetsCopilot

LEMMA TurnAskedIInv == ASSUME IInv, NEW r \in Callers, TurnAsked(r) PROVE IInv'
  <1>1. /\ SoundRequest(r, requests[r], copilot) /\ requests[r].thread # None
        /\ requests[r].stage = "sent" /\ requests[r].action = None
    BY SoundOf DEF TurnAsked, Admitted, SoundRequest
  <1>2. Continues(r, requests[r])
    BY DEF Continues
  <1> QED BY <1>1, <1>2, GetsCopilotIInv DEF TurnAsked

LEMMA AlertFiresIInv == ASSUME IInv, NEW i \in Incidents, AlertFires(i) PROVE IInv'
  <1>1. i \in Callers
    BY DEF Callers
  <1> DEFINE q == [Free EXCEPT !.kind = "alert", !.thread = i]
  <1>2. SoundRequest(i, Free, copilot) /\ Free \in Request /\ ~Free.awaited
    BY <1>1, SoundOf, FreeIsSound DEF SoundRequest
  <1>3. q \in Request
    BY <1>2 DEF Request, Threads
  <1>4. /\ q.stage = "free" /\ q.thread = i /\ q.kind = "alert" /\ ~q.awaited
        /\ q.copilot = 0 /\ q.action = None /\ q.list = Free.list
    BY DEF Free
  <1>5. GetsCopilot(i, q)
    BY DEF AlertFires
  <1> HIDE DEF q
  <1>6. SoundRequest(i, q, copilot) /\ Continues(i, q)
    BY <1>1, <1>2, <1>3, <1>4, SoundOf DEF SoundRequest, Continues
  <1>7. i # None
    BY NoneIsNothing DEF Threads
  <1> QED BY <1>1, <1>4, <1>5, <1>6, <1>7, GetsCopilotIInv DEF AlertFires

LEMMA ObtainCopilotIInv == ASSUME IInv, NEW r \in Callers, ObtainCopilot(r) PROVE IInv'
  <1>1. /\ SoundRequest(r, requests[r], copilot) /\ requests[r].thread # None
        /\ requests[r].stage = "returning" /\ requests[r].action = None /\ copilot # 0
    BY SoundOf DEF ObtainCopilot, SoundRequest
  <1>2. Continues(r, requests[r])
    BY DEF Continues
  <1> QED BY <1>1, <1>2, ObtainsIInv DEF ObtainCopilot

\* What stands with a copilot stands when another is built.
LEMMA BuildCopilotIInv == ASSUME IInv, NEW r \in Callers, BuildCopilot(r) PROVE IInv'
  <1> USE DEF BuildCopilot
  <1> DEFINE b == [requests[r] EXCEPT !.stage = "returning"]
  <1>1. b \in Request
    BY SoundOf DEF Request
  <1>2. /\ b.stage = "returning" /\ b.thread = requests[r].thread /\ b.kind = requests[r].kind
        /\ b.awaited = requests[r].awaited /\ b.copilot = requests[r].copilot
        /\ b.action = requests[r].action /\ b.list = requests[r].list
    BY SoundOf DEF Request
  <1>3. requests' = [requests EXCEPT ![r] = b]
    BY DEF IInv, TypeOK
  <1> HIDE DEF b
  <1>4. copilot' \in 1..MaxCopilots /\ copilot' \in Nat /\ copilot <= copilot'
    BY SoundOf, ConsoleBounds
  <1>5. requests[r].copilot \in Nat
    BY SoundOf DEF Request
  <1>6. SoundRequest(r, b, copilot') /\ Continues(r, b)
    BY <1>1, <1>2, <1>4, <1>5, SoundOf DEF SoundRequest, Continues
  <1>7. /\ RequestsAreSound' /\ requests' \in [Callers -> Request]
        /\ PageShowsItsThread' /\ PageWaitsForItsThread'
        /\ requests'[r] = b /\ \A p \in Callers \ {r} : requests'[p] = requests[p]
    BY <1>3, <1>4, <1>6, RequestContinues
  <1>8. TypeOK'
    BY <1>4, <1>7, ConsoleBounds DEF IInv, TypeOK, pageVars
  <1>9. RecordsAreSound'
    BY DEF IInv, RecordsAreSound
  <1>10. PendingIsKept'
    <2>1. \A a, i : Kept(a, i, decided, before, copilot, conv) =>
                         Kept(a, i, decided', before', copilot', conv')
      BY <1>4, SoundOf DEF Kept
    <2> QED BY <1>2, <1>7, <2>1 DEF IInv, PendingIsKept
  <1>11. ActionsStandOnce'
    BY ConversationsAreKept
  <1> QED BY <1>7, <1>8, <1>9, <1>10, <1>11 DEF IInv

LEMMA BuildFailsIInv == ASSUME IInv, NEW r \in Callers, BuildFails(r) PROVE IInv'
  <1> USE DEF BuildFails
  <1>1. events' \in 0..MaxEvents
    BY HappensBounded DEF IInv
  <1>2. UNCHANGED serverVars
    BY DEF serverVars
  <1> QED BY <1>1, <1>2, AnswerIInv

-----------------------------------------------------------------------------
\* Turns

\* The conversation a turn is about
LEMMA AskingFacts ==
    ASSUME IInv, NEW r \in Callers, requests[r].stage = "asking"
    PROVE  /\ requests[r].copilot \in 1..MaxCopilots /\ requests[r].copilot <= copilot
           /\ requests[r].thread \in Threads
           /\ copilot # 0 /\ Stands(r) \in Standing
  <1>1. SoundRequest(r, requests[r], copilot) /\ requests[r] \in Request /\ copilot \in Nat
    BY SoundOf
  <1>2. /\ requests[r].copilot \in 1..MaxCopilots /\ requests[r].copilot <= copilot
        /\ requests[r].thread \in Threads /\ copilot # 0
    BY <1>1, ConsoleBounds DEF SoundRequest, Request
  <1> QED BY <1>2 DEF Stands, IInv, TypeOK

\* What a turn does to its request, when it proposes an action or None
TurnsRequest(r, action) ==
    /\ RequestsAreSound' /\ requests' \in [Callers -> Request]
    /\ PageShowsItsThread' /\ PageWaitsForItsThread'
    /\ \A p \in Callers \ {r} : requests'[p] = requests[p]
    /\ requests'[r].stage = "reporting" =>
          requests'[r].thread = requests[r].thread /\ requests'[r].action = action

LEMMA EndsFacts ==
    ASSUME IInv, NEW r \in Callers, requests[r].stage = "asking",
           NEW standing \in Standing, NEW outcome \in {"ok", "error"},
           NEW action \in Action \cup {None},
           action # None => action.of = requests[r].thread,
           Ends(r, standing, outcome, action), UNCHANGED <<pageVars, copilot>>
    PROVE  TurnsRequest(r, action)
  <1> DEFINE e == [requests[r] EXCEPT !.outcome = outcome, !.action = action]
             g == [e EXCEPT !.stage = "reporting", !.copilot = 0]
             q == IF \/ e.kind = "alert"
                     \/ e.kind = "approve" /\ outcome = "ok" /\ e.thread \in Incidents
                  THEN g ELSE Answered(e)
  <1>1. e \in Request
    BY SoundOf, ZenonT(60) DEF Request
  <1>2. /\ e.action = action /\ e.thread = requests[r].thread /\ e.kind = requests[r].kind
        /\ e.awaited = requests[r].awaited /\ e.list = requests[r].list
    BY SoundOf DEF Request
  <1>3. requests' = [requests EXCEPT ![r] = q]
    BY DEF Ends
  <1>4. g \in Request
    <2>1. 0 \in 0..MaxCopilots
      BY ConsoleBounds
    <2> QED BY <1>1, <2>1 DEF Request
  <1>5. /\ g.stage = "reporting" /\ g.copilot = 0 /\ g.action = e.action
        /\ g.thread = e.thread /\ g.kind = e.kind /\ g.awaited = e.awaited /\ g.list = e.list
    BY <1>1 DEF Request
  <1> HIDE DEF e, g
  <1>6. SoundRequest(r, Answered(e), copilot)
    BY <1>1, <1>2, SoundOf, AnsweredIsSound DEF SoundRequest
  <1>7. ASSUME e.kind = "alert" \/ e.thread \in Incidents
        PROVE  SoundRequest(r, g, copilot)
    BY <1>2, <1>4, <1>5, <1>7, SoundOf, AskingFacts DEF SoundRequest
  <1>8. SoundRequest(r, q, copilot)
    BY <1>6, <1>7
  <1>9. Continues(r, q)
    BY <1>1, <1>2, <1>5, AnsweredFields DEF Continues
  <1>10. q.stage = "reporting" => q.thread = requests[r].thread /\ q.action = action
    BY <1>1, <1>2, <1>5, AnsweredFields
  <1> HIDE DEF q
  <1>11. copilot' \in Nat /\ copilot <= copilot' /\ SoundRequest(r, q, copilot')
    BY <1>8, SoundOf
  <1> QED BY <1>3, <1>9, <1>10, <1>11, RequestContinues DEF TurnsRequest

LEMMA HangsFacts ==
    ASSUME IInv, NEW r \in Callers, requests[r].stage = "asking", NEW standing,
           Hangs(r, standing), UNCHANGED <<pageVars, copilot>>
    PROVE  TurnsRequest(r, None) /\ events' \in 0..MaxEvents
  <1> DEFINE h == [requests[r] EXCEPT !.stage = "hung", !.copilot = 0]
  <1>1. requests' = [requests EXCEPT ![r] = h]
    BY DEF Hangs, IInv, TypeOK
  <1>2. h \in Request
    <2>1. 0 \in 0..MaxCopilots
      BY ConsoleBounds
    <2> QED BY <2>1, SoundOf, ZenonT(60) DEF Request
  <1>3. /\ h.stage = "hung" /\ h.copilot = 0 /\ h.action = requests[r].action
        /\ h.thread = requests[r].thread /\ h.kind = requests[r].kind
        /\ h.awaited = requests[r].awaited /\ h.list = requests[r].list
    BY SoundOf DEF Request
  <1> HIDE DEF h
  <1>4. SoundRequest(r, h, copilot) /\ Continues(r, h) /\ h.stage # "reporting"
    BY <1>2, <1>3, SoundOf DEF SoundRequest, Continues
  <1>5. copilot' \in Nat /\ copilot <= copilot' /\ SoundRequest(r, h, copilot')
    BY <1>4, SoundOf
  <1>6. TurnsRequest(r, None)
    BY <1>1, <1>4, <1>5, RequestContinues DEF TurnsRequest
  <1> QED BY <1>6, HappensBounded DEF Hangs, IInv

\* A turn leaves its own conversation standing otherwise, and no other.
Turns(r, standing) ==
    conv' = [conv EXCEPT ![requests[r].copilot][requests[r].thread] = standing]

LEMMA TurnsConversation ==
    ASSUME IInv, NEW r \in Callers, requests[r].stage = "asking",
           NEW standing \in Standing, Turns(r, standing)
    PROVE  /\ conv' \in [1..MaxCopilots -> [Threads -> Standing]]
           /\ \A c \in 1..MaxCopilots, t \in Threads :
                 conv'[c][t] = IF c = requests[r].copilot /\ t = requests[r].thread
                               THEN standing ELSE conv[c][t]
  BY AskingFacts DEF Turns, IInv, TypeOK

LEMMA TurnIInv ==
    ASSUME IInv, NEW r \in Callers, requests[r].stage = "asking",
           NEW standing \in Standing, NEW action \in Action \cup {None},
           Turns(r, standing), TurnsRequest(r, action), events' \in 0..MaxEvents,
           UNCHANGED <<signedIn, pageVars, copilot, handed, records, before>>,
           action # None => action.of = requests[r].thread /\ standing = PausedFor(action),
           standing.at = "paused" => standing.for # None,
           standing.for # None =>
              \/ standing.for = Stands(r).for
              \/ standing.for.nth = proposed' /\ proposed < proposed',
           proposed' \in 0..MaxProposals, proposed <= proposed',
           decided \subseteq decided', decided' \in SUBSET Action,
           \A a \in Action : Stands(r) \in {PausedFor(a), BrokenBy(a)} =>
              a \in decided' \/ standing \in {PausedFor(a), BrokenBy(a)}
    PROVE  IInv'
  <1> DEFINE c == requests[r].copilot
             t == requests[r].thread
  <1>1. /\ c \in 1..MaxCopilots /\ c <= copilot /\ t \in Threads /\ copilot # 0
        /\ copilot \in Nat
    BY AskingFacts, SoundOf
  <1>2. /\ RequestsAreSound' /\ requests' \in [Callers -> Request]
        /\ PageShowsItsThread' /\ PageWaitsForItsThread'
        /\ \A p \in Callers \ {r} : requests'[p] = requests[p]
        /\ requests'[r].stage = "reporting" =>
              requests'[r].thread = t /\ requests'[r].action = action
    BY DEF TurnsRequest
  <1>3. /\ conv' \in [1..MaxCopilots -> [Threads -> Standing]]
        /\ \A d \in 1..MaxCopilots, u \in Threads :
              conv'[d][u] = IF d = c /\ u = t THEN standing ELSE conv[d][u]
    BY TurnsConversation
  <1>4. Stands(r) = conv[c][t]
    BY DEF Stands
  <1>5. TypeOK'
    BY <1>2, <1>3 DEF IInv, TypeOK, pageVars
  <1>6. RecordsAreSound'
    BY DEF IInv, RecordsAreSound
  <1> HIDE DEF c, t
  <1>7. \A d \in 1..MaxCopilots, u \in Threads :
            conv[d][u].for # None => conv[d][u].for.nth \in Nat /\ conv[d][u].for.nth <= proposed
    <2> SUFFICES ASSUME NEW d \in 1..MaxCopilots, NEW u \in Threads, conv[d][u].for # None
                 PROVE  conv[d][u].for.nth \in Nat /\ conv[d][u].for.nth <= proposed
      OBVIOUS
    <2>1. conv[d][u] \in Standing
      BY DEF IInv, TypeOK
    <2>2. conv[d][u].for \in Action
      BY <2>1 DEF Standing
    <2> QED BY <2>2, ConsoleBounds DEF Action, IInv, ActionsStandOnce
  <1>8. proposed \in Nat /\ proposed' \in Nat
    BY ConsoleBounds DEF IInv, TypeOK
  <1>13. \A x, d \in 1..MaxCopilots, y, u \in Threads :
            conv[x][y].for # None /\ conv[x][y].for = conv[d][u].for => x = d /\ y = u
    BY DEF IInv, ActionsStandOnce
  <1>9. ActionsStandOnce'
    <2>1. ASSUME NEW d \in 1..MaxCopilots, NEW u \in Threads
          PROVE  /\ conv'[d][u].at = "paused" => conv'[d][u].for # None
                 /\ conv'[d][u].for # None => conv'[d][u].for.nth <= proposed'
      BY <1>1, <1>3, <1>4, <1>7, <1>8 DEF IInv, ActionsStandOnce
    <2>2. ASSUME NEW d \in 1..MaxCopilots, NEW u \in Threads,
                 NEW x \in 1..MaxCopilots, NEW y \in Threads,
                 conv'[d][u].for # None, conv'[d][u].for = conv'[x][y].for
          PROVE  d = x /\ u = y
      <3>1. CASE (d = c /\ u = t) <=> (x = c /\ y = t)
        BY <1>3, <2>2, <3>1 DEF IInv, ActionsStandOnce
      <3>2. CASE (d = c /\ u = t) /\ ~(x = c /\ y = t)
        <4>1. standing.for # None /\ standing.for = conv[x][y].for
          BY <1>1, <1>3, <2>2, <3>2
        <4>2. standing.for = conv[c][t].for
          BY <1>4, <1>7, <1>8, <4>1
        <4>3. conv[c][t].for # None /\ conv[c][t].for = conv[x][y].for
          BY <4>1, <4>2
        <4>4. c = x /\ t = y
          BY <1>1, <1>13, <4>3
        <4> QED BY <3>2, <4>4
      <3>3. CASE ~(d = c /\ u = t) /\ (x = c /\ y = t)
        <4>1. standing.for # None /\ standing.for = conv[d][u].for
          BY <1>1, <1>3, <2>2, <3>3
        <4>2. standing.for = conv[c][t].for
          BY <1>4, <1>7, <1>8, <4>1
        <4>3. conv[c][t].for # None /\ conv[c][t].for = conv[d][u].for
          BY <4>1, <4>2
        <4>4. c = d /\ t = u
          BY <1>1, <1>13, <4>3
        <4> QED BY <3>3, <4>4
      <3> QED BY <3>1, <3>2, <3>3
    <2>3. before' <= proposed'
      BY <1>8 DEF IInv, TypeOK, ActionsStandOnce
    <2> QED BY <2>1, <2>2, <2>3 DEF ActionsStandOnce
  <1>11. ASSUME NEW a \in Action, NEW u \in Threads,
                Kept(a, u, decided, before, copilot, conv)
         PROVE  Kept(a, u, decided', before', copilot', conv')
    <2>1. CASE a \in decided \/ a.nth <= before
      BY <2>1 DEF Kept
    <2>2. CASE \E d \in 1..copilot : conv[d][u] \in {PausedFor(a), BrokenBy(a)}
      <3>1. PICK d \in 1..copilot : conv[d][u] \in {PausedFor(a), BrokenBy(a)}
        BY <2>2
      <3>2. d \in 1..MaxCopilots
        BY <3>1, SoundOf, ConsoleBounds
      <3>3. a \in decided' \/ conv'[d][u] \in {PausedFor(a), BrokenBy(a)}
        BY <1>3, <1>4, <3>1, <3>2
      <3> QED BY <3>1, <3>3 DEF Kept
    <2> QED BY <1>11, <2>1, <2>2 DEF Kept
  <1>12. PendingIsKept'
    <2>1. ASSUME NEW i \in Incidents, records[i].pending # None
          PROVE  Kept(records[i].pending, i, decided', before', copilot', conv')
      <3>1. records[i].pending \in Action /\ i \in Threads
        BY <2>1 DEF IInv, TypeOK, Registry, Record, Threads
      <3>2. Kept(records[i].pending, i, decided, before, copilot, conv)
        BY <2>1 DEF IInv, PendingIsKept
      <3> QED BY <1>11, <3>1, <3>2
    <2>2. ASSUME NEW p \in Callers \ {r}, requests'[p].stage = "reporting",
                 requests'[p].action # None
          PROVE  Kept(requests'[p].action, requests'[p].thread, decided', before', copilot',
                      conv')
      <3>1. requests'[p] = requests[p]
        BY <1>2
      <3>2. requests[p].action \in Action /\ requests[p].thread \in Threads
        BY <2>2, <3>1, SoundOf DEF SoundRequest, Request, Threads
      <3>3. Kept(requests[p].action, requests[p].thread, decided, before, copilot, conv)
        BY <2>2, <3>1 DEF IInv, PendingIsKept
      <3> QED BY <1>11, <3>1, <3>2, <3>3
    <2>3. ASSUME requests'[r].stage = "reporting", requests'[r].action # None
          PROVE  Kept(requests'[r].action, requests'[r].thread, decided', before', copilot',
                      conv')
      <3>1. requests'[r].thread = t /\ requests'[r].action = action /\ action # None
        BY <1>2, <2>3
      <3>2. conv'[c][t] = PausedFor(action)
        BY <1>1, <1>3, <3>1
      <3>3. c \in 1..copilot'
        BY <1>1
      <3> QED BY <3>1, <3>2, <3>3 DEF Kept
    <2> QED BY <2>1, <2>2, <2>3 DEF PendingIsKept
  <1> QED BY <1>2, <1>5, <1>6, <1>9, <1>12 DEF IInv

LEMMA AtFields ==
    ASSUME NEW place \in {"empty", "idle", "left"}
    PROVE  At(place) \in Standing /\ At(place).for = None /\ At(place).at = place
  BY DEF At, Standing

LEMMA StandingFields ==
    ASSUME NEW a
    PROVE  /\ PausedFor(a).for = a /\ PausedFor(a).at = "paused"
           /\ BrokenBy(a).for = a /\ BrokenBy(a).at = "broken"
           /\ a \in Action \cup {None} => PausedFor(a) \in Standing /\ BrokenBy(a) \in Standing
  BY DEF PausedFor, BrokenBy, Standing

\* A turn ends, or hangs.
LEMMA EndsIInv ==
    ASSUME IInv, NEW r \in Callers, requests[r].stage = "asking",
           NEW standing \in Standing, NEW action \in Action \cup {None},
           NEW outcome \in {"ok", "error"},
           Ends(r, standing, outcome, action) \/ (Hangs(r, standing) /\ action = None),
           UNCHANGED <<signedIn, pageVars, copilot, handed, records, before>>,
           action # None => action.of = requests[r].thread /\ standing = PausedFor(action),
           standing.at = "paused" => standing.for # None,
           standing.for # None =>
              \/ standing.for = Stands(r).for
              \/ standing.for.nth = proposed' /\ proposed < proposed',
           proposed' \in 0..MaxProposals, proposed <= proposed',
           decided \subseteq decided', decided' \in SUBSET Action,
           \A a \in Action : Stands(r) \in {PausedFor(a), BrokenBy(a)} =>
              a \in decided' \/ standing \in {PausedFor(a), BrokenBy(a)}
    PROVE  IInv'
  <1>1. TurnsRequest(r, action) /\ Turns(r, standing) /\ events' \in 0..MaxEvents
    <2>1. CASE Ends(r, standing, outcome, action)
      BY <2>1, EndsFacts DEF Ends, Turns, IInv, TypeOK
    <2>2. CASE Hangs(r, standing) /\ action = None
      BY <2>2, HangsFacts DEF Hangs, Turns
    <2> QED BY <2>1, <2>2
  <1> QED BY <1>1, TurnIInv

\* The model runs only where no action waits for a decision it has not had.
LEMMA ModelRunsIInv ==
    ASSUME IInv, NEW r \in Callers, requests[r].stage = "asking", ModelRuns(r),
           UNCHANGED <<signedIn, pageVars, copilot, handed, records, before>>,
           decided \subseteq decided', decided' \in SUBSET Action,
           \A a \in Action : Stands(r) \in {PausedFor(a), BrokenBy(a)} => a \in decided'
    PROVE  IInv'
  <1> DEFINE a == [of |-> requests[r].thread, nth |-> proposed + 1]
  <1>1. proposed \in 0..MaxProposals /\ proposed \in Nat
    BY ConsoleBounds DEF IInv, TypeOK
  <1>2. CASE Ends(r, At("idle"), "ok", None) /\ UNCHANGED proposed
    BY <1>1, <1>2, AtFields, EndsIInv
  <1>3. CASE /\ Ends(r, At("left"), "error", None) \/ Hangs(r, At("left"))
             /\ UNCHANGED proposed
    BY <1>1, <1>3, AtFields, EndsIInv
  <1>4. CASE /\ proposed < MaxProposals
             /\ proposed' = proposed + 1
             /\ Ends(r, PausedFor(a), "ok", a)
    <2>1. a \in Action /\ a.of = requests[r].thread /\ a.nth = proposed'
      BY <1>1, <1>4, AskingFacts, ConsoleBounds DEF Action
    <2>2. proposed' \in 0..MaxProposals /\ proposed <= proposed' /\ proposed < proposed'
      BY <1>1, <1>4, ConsoleBounds
    <2>3. Ends(r, PausedFor(a), "ok", a)
      BY <1>4
    <2> HIDE DEF a
    <2>4. PausedFor(a) \in Standing /\ PausedFor(a).for = a /\ a # None
      BY <2>1, StandingFields, NoneIsNothing, ConsoleBounds DEF Action
    <2> QED BY <2>1, <2>2, <2>3, <2>4, EndsIInv
  <1> QED BY <1>2, <1>3, <1>4 DEF ModelRuns

\* What a turn that raises leaves of a conversation with an action in it
LEMMA UnchangedFor ==
    ASSUME IInv, NEW r \in Callers, requests[r].stage = "asking",
           NEW standing \in Standing, standing \in {Stands(r), BrokenBy(Stands(r).for)},
           NEW outcome \in {"ok", "error"},
           Ends(r, standing, outcome, None) \/ Hangs(r, standing),
           UNCHANGED <<signedIn, pageVars, copilot, handed, records, proposed, before>>,
           decided \subseteq decided', decided' \in SUBSET Action
    PROVE  IInv'
  <1>1. /\ requests[r].copilot \in 1..MaxCopilots /\ requests[r].thread \in Threads
        /\ Stands(r) \in Standing
    BY AskingFacts
  <1>2. Stands(r).at = "paused" => Stands(r).for # None
    BY <1>1 DEF IInv, ActionsStandOnce, Stands
  <1>3. standing.for = Stands(r).for /\ (standing.at = "paused" => standing.for # None)
    BY <1>2, StandingFields
  <1>4. \A a \in Action : Stands(r) \in {PausedFor(a), BrokenBy(a)} =>
            standing \in {PausedFor(a), BrokenBy(a)}
    BY StandingFields
  <1>5. proposed' \in 0..MaxProposals /\ proposed <= proposed'
    BY ConsoleBounds DEF IInv, TypeOK
  <1> QED BY <1>3, <1>4, <1>5, EndsIInv

LEMMA AskIInv == ASSUME IInv, NEW r \in Callers, Ask(r) PROVE IInv'
  <1> USE DEF Ask, Asking
  <1>1. decided' = decided /\ decided' \in SUBSET Action
    BY DEF IInv, TypeOK
  <1>2. CASE Stands(r).at \in {"empty", "idle", "left"} /\ ModelRuns(r)
    <2>1. \A a \in Action : Stands(r) \notin {PausedFor(a), BrokenBy(a)}
      BY <1>2, StandingFields
    <2> QED BY <1>1, <1>2, <2>1, ModelRunsIInv
  <1>3. CASE Ends(r, BrokenBy(Stands(r).for), "error", None) /\ UNCHANGED proposed
    <2>1. BrokenBy(Stands(r).for) \in Standing
      BY AskingFacts, StandingFields DEF Standing
    <2> QED BY <1>1, <1>3, <2>1, UnchangedFor
  <1> QED BY <1>2, <1>3

LEMMA DecideIInv == ASSUME IInv, NEW r \in Callers, Decide(r) PROVE IInv'
  <1> USE DEF Decide, Asking
  <1>1. /\ Stands(r) \in Standing
        /\ requests[r].copilot \in 1..MaxCopilots /\ requests[r].thread \in Threads
    BY AskingFacts
  <1>2. Stands(r).for # None
    BY <1>1 DEF IInv, ActionsStandOnce, Stands
  <1>3. decided \subseteq decided' /\ decided' \in SUBSET Action /\ Stands(r).for \in decided'
    BY <1>1, <1>2 DEF IInv, TypeOK, Standing
  <1>4. CASE ModelRuns(r)
    <2>1. \A a \in Action : Stands(r) \in {PausedFor(a), BrokenBy(a)} => a \in decided'
      BY <1>3, StandingFields
    <2> QED BY <1>3, <1>4, <2>1, ModelRunsIInv
  <1>5. CASE /\ Ends(r, Stands(r), "error", None) \/ Hangs(r, Stands(r))
             /\ UNCHANGED proposed
    BY <1>1, <1>3, <1>5, UnchangedFor
  <1> QED BY <1>4, <1>5

LEMMA ResumeUnpausedIInv == ASSUME IInv, NEW r \in Callers, ResumeUnpaused(r) PROVE IInv'
  <1> USE DEF ResumeUnpaused, Asking
  <1>1. decided' = decided /\ decided' \in SUBSET Action /\ Stands(r) \in Standing
    BY AskingFacts DEF IInv, TypeOK
  <1>2. CASE Ends(r, Stands(r), "error", None) /\ UNCHANGED proposed
    BY <1>1, <1>2, UnchangedFor
  <1>3. CASE Ends(r, Stands(r), "ok", None) /\ UNCHANGED proposed
    BY <1>1, <1>3, UnchangedFor
  <1>4. CASE Stands(r).at = "left" /\ ModelRuns(r)
    <2>1. \A a \in Action : Stands(r) \notin {PausedFor(a), BrokenBy(a)}
      BY <1>4, StandingFields
    <2> QED BY <1>1, <1>4, <2>1, ModelRunsIInv
  <1> QED BY <1>2, <1>3, <1>4

LEMMA ReportIInv == ASSUME IInv, NEW r \in Callers, Report(r) PROVE IInv'
  <1> USE DEF Report
  <1> DEFINE t == requests[r].thread
             q == Answered(requests[r])
  <1>1. /\ SoundRequest(r, requests[r], copilot) /\ requests[r] \in Request /\ copilot \in Nat
        /\ t \in Incidents /\ copilot # 0
        /\ requests[r].action \in Action \cup {None}
        /\ requests[r].action # None => requests[r].action.of = t
    BY SoundOf DEF SoundRequest, Request
  <1>2. SoundRequest(r, q, copilot)
    BY <1>1, AnsweredIsSound DEF SoundRequest
  <1>3. Continues(r, q) /\ q.stage # "reporting"
    BY <1>1, AnsweredFields DEF Continues
  <1>4. requests' = [requests EXCEPT ![r] = q]
    BY DEF IInv, TypeOK
  <1> HIDE DEF q
  <1>5. copilot' \in Nat /\ copilot <= copilot' /\ SoundRequest(r, q, copilot')
    BY <1>1, <1>2
  <1>6. /\ RequestsAreSound' /\ requests' \in [Callers -> Request]
        /\ PageShowsItsThread' /\ PageWaitsForItsThread'
        /\ requests'[r] = q /\ \A p \in Callers \ {r} : requests'[p] = requests[p]
    BY <1>3, <1>4, <1>5, RequestContinues
  <1>7. records' \in Registry
    BY <1>1 DEF IInv, TypeOK, Registry, Record, Statuses
  <1>8. \A i \in Incidents : records'[i].pending \in {records[i].pending}
            \cup (IF i = t THEN {requests[r].action} ELSE {})
    BY <1>1 DEF IInv, TypeOK, Registry, Record
  <1>9. TypeOK'
    BY <1>6, <1>7 DEF IInv, TypeOK, pageVars
  <1>10. RecordsAreSound'
    BY <1>1, <1>8 DEF IInv, RecordsAreSound, OwnPending
  <1>11. ActionsStandOnce'
    BY ConversationsAreKept
  <1>12. PendingIsKept'
    BY <1>3, <1>6, <1>8 DEF IInv, PendingIsKept
  <1> QED BY <1>6, <1>9, <1>10, <1>11, <1>12 DEF IInv

-----------------------------------------------------------------------------
\* What was pending is from before a restart, which leaves nothing to be reported.
LEMMA RestartIInv == ASSUME IInv, Restart PROVE IInv'
  <1> USE DEF Restart
  <1>1. events' \in 0..MaxEvents /\ copilot' \in Nat /\ copilot' \in 0..MaxCopilots
    BY HappensBounded, ConsoleBounds DEF IInv
  <1>2. ASSUME NEW r \in Callers
        PROVE  /\ SoundRequest(r, requests'[r], 0) /\ requests'[r].stage # "reporting"
               /\ requests'[r].awaited =>
                     /\ requests[r].awaited /\ requests'[r].kind = requests[r].kind
                     /\ requests'[r].thread = requests[r].thread
    <2> DEFINE q == requests[r]
               e == [q EXCEPT !.outcome = "error", !.action = None]
    <2>1. requests'[r] = Cut(q)
      OBVIOUS
    <2>2. SoundRequest(r, q, copilot) /\ q \in Request
      BY SoundOf
    <2>3. e \in Request
      BY <2>2 DEF Request
    <2>4. /\ e.kind = q.kind /\ e.thread = q.thread /\ e.awaited = q.awaited
          /\ e.action = None /\ e.list = q.list
      BY <2>2 DEF Request
    <2> HIDE DEF e
    <2>5. SoundRequest(r, Answered(e), 0)
      BY <2>2, <2>3, <2>4, AnsweredIsSound DEF SoundRequest
    <2>6. CASE q.stage \in {"free", "sent", "answered"}
      <3>1. requests'[r] = q /\ q.copilot = 0
        BY <2>1, <2>2, <2>6 DEF Cut, SoundRequest
      <3> QED BY <2>2, <2>6, <3>1 DEF SoundRequest
    <2>7. CASE q.stage \notin {"free", "sent", "answered"}
      <3>1. requests'[r] = Answered(e)
        BY <2>1, <2>7 DEF Cut, e
      <3> QED BY <2>3, <2>4, <2>5, <3>1, AnsweredFields
    <2> QED BY <2>6, <2>7
  <1>3. requests' \in [Callers -> Request] /\ RequestsAreSound'
    BY <1>2 DEF RequestsAreSound, SoundRequest
  <1>4. PageShowsItsThread' /\ PageWaitsForItsThread'
    BY <1>2, PageIsKept DEF OnlyOldRequests
  <1>5. RecordsAreSound'
    BY DEF IInv, RecordsAreSound
  <1>6. At("empty") \in Standing /\ At("empty").for = None /\ At("empty").at = "empty"
    BY AtFields
  <1>7. TypeOK'
    BY <1>1, <1>3, <1>6 DEF IInv, TypeOK, pageVars
  <1>8. ActionsStandOnce'
    BY <1>6, ConsoleBounds DEF IInv, TypeOK, ActionsStandOnce
  <1>9. PendingIsKept'
    <2>1. ASSUME NEW a \in Action, NEW i \in Threads,
                 Kept(a, i, decided, before, copilot, conv)
          PROVE  Kept(a, i, decided', before', copilot', conv')
      <3>1. a # None /\ a.nth \in Nat
        BY NoneIsNothing, ConsoleBounds DEF Action
      <3>2. CASE a \in decided
        BY <3>2 DEF Kept
      <3>3. CASE a.nth <= before
        BY <3>1, <3>3, ConsoleBounds DEF Kept, IInv, TypeOK, ActionsStandOnce
      <3>4. CASE \E c \in 1..copilot : conv[c][i] \in {PausedFor(a), BrokenBy(a)}
        <4>1. PICK c \in 1..copilot : conv[c][i] \in {PausedFor(a), BrokenBy(a)}
          BY <3>4
        <4>2. c \in 1..MaxCopilots /\ conv[c][i].for = a
          BY <4>1, SoundOf, ConsoleBounds, StandingFields DEF IInv, TypeOK
        <4> QED BY <3>1, <4>2 DEF Kept, IInv, ActionsStandOnce
      <3> QED BY <2>1, <3>2, <3>3, <3>4 DEF Kept
    <2>2. ASSUME NEW i \in Incidents, records[i].pending # None
          PROVE  Kept(records[i].pending, i, decided', before', copilot', conv')
      <3>1. records[i].pending \in Action /\ i \in Threads
        BY <2>2 DEF IInv, TypeOK, Registry, Record, Threads
      <3>2. Kept(records[i].pending, i, decided, before, copilot, conv)
        BY <2>2 DEF IInv, PendingIsKept
      <3> QED BY <2>1, <3>1, <3>2
    <2> QED BY <1>2, <2>2 DEF PendingIsKept
  <1> QED BY <1>3, <1>4, <1>5, <1>7, <1>8, <1>9 DEF IInv

-----------------------------------------------------------------------------
LEMMA InitIInv == Init => IInv
  <1> SUFFICES ASSUME Init PROVE IInv
    OBVIOUS
  <1>1. NoRecords \in Registry /\ \A i \in Incidents : NoRecords[i].pending = None
    BY DEF NoRecords, Registry, Record, Statuses
  <1>2. \A r \in Callers : SoundRequest(r, Free, 0) /\ ~Free.awaited /\ Free.stage = "free"
    BY FreeIsSound
  <1>3. At("empty") \in Standing /\ At("empty").for = None /\ At("empty").at = "empty"
    BY AtFields
  <1>4. TypeOK
    <2>1. requests \in [Callers -> Request]
      BY <1>2 DEF Init, SoundRequest
    <2>2. conv \in [1..MaxCopilots -> [Threads -> Standing]]
      BY <1>3 DEF Init
    <2>3. /\ copilot \in 0..MaxCopilots /\ proposed \in 0..MaxProposals
          /\ before \in 0..MaxProposals /\ events \in 0..MaxEvents
      BY ConsoleBounds DEF Init
    <2> QED BY <1>1, <2>1, <2>2, <2>3 DEF Init, TypeOK
  <1>5. RequestsAreSound
    BY <1>2 DEF Init, RequestsAreSound
  <1>6. RecordsAreSound
    BY <1>1 DEF Init, RecordsAreSound, OwnPending
  <1>7. PageShowsItsThread /\ PageWaitsForItsThread
    BY <1>2 DEF Init, PageShowsItsThread, PageWaitsForItsThread
  <1>8. ActionsStandOnce
    BY <1>3 DEF Init, ActionsStandOnce
  <1>9. PendingIsKept
    BY <1>1, <1>2 DEF Init, PendingIsKept
  <1> QED BY <1>4, <1>5, <1>6, <1>7, <1>8, <1>9 DEF IInv

LEMMA ServerStepIInv == ASSUME IInv, NEW r \in Callers, ServerStep(r) PROVE IInv'
  <1>1. CASE Refuse(r)
    BY <1>1, AnswerIInv DEF Refuse, IInv, TypeOK
  <1>2. CASE Unprocessable(r)
    BY <1>2, AnswerIInv DEF Unprocessable, IInv, TypeOK
  <1>3. CASE NewSession(r) \/ ListIncidents(r)
    BY <1>3, NewSessionIInv, ListIncidentsIInv
  <1>4. CASE TurnAsked(r) \/ BuildCopilot(r) \/ BuildFails(r) \/ ObtainCopilot(r)
    BY <1>4, TurnAskedIInv, BuildCopilotIInv, BuildFailsIInv, ObtainCopilotIInv
  <1>5. CASE Ask(r) \/ Decide(r) \/ ResumeUnpaused(r)
    BY <1>5, AskIInv, DecideIInv, ResumeUnpausedIInv
  <1>6. CASE Report(r)
    BY <1>6, ReportIInv
  <1> QED BY <1>1, <1>2, <1>3, <1>4, <1>5, <1>6 DEF ServerStep

\* Every step preserves the invariant.
LEMMA StepIInv == IInv /\ [Next]_vars => IInv'
  <1> SUFFICES ASSUME IInv, [Next]_vars PROVE IInv'
    OBVIOUS
  <1>0. Slots \cup Polls \subseteq Callers
    BY DEF Callers
  <1>1. CASE Visit \/ SessionEnds \/ SendMessage \/ RespondToApproval \/ Restart
    BY <1>1, VisitIInv, SessionEndsIInv, SendMessageIInv, RespondToApprovalIInv, RestartIInv
  <1>2. CASE \E p \in Polls : Poll(p) \/ \E i \in Incidents : Click(p, i)
    BY <1>0, <1>2, PollIInv, ClickIInv
  <1>3. CASE \E i \in Incidents : AlertFires(i)
    BY <1>3, AlertFiresIInv
  <1>4. CASE \E r \in Slots \cup Polls : AnswerArrives(r) \/ RequestFails(r)
    BY <1>0, <1>4, AnswerArrivesIInv, RequestFailsIInv
  <1>5. CASE \E r \in Callers : ServerStep(r)
    BY <1>5, ServerStepIInv
  <1>6. CASE UNCHANGED vars
    BY <1>6 DEF vars, pageVars, serverVars, IInv, TypeOK, RequestsAreSound, RecordsAreSound,
                PageShowsItsThread, PageWaitsForItsThread, ActionsStandOnce, PendingIsKept
  <1> QED BY <1>1, <1>2, <1>3, <1>4, <1>5, <1>6 DEF Next

LEMMA InvariantHolds == Spec => []IInv
  BY InitIInv, StepIInv, PTL DEF Spec

-----------------------------------------------------------------------------
\* Type correctness, for any number of requests, polls, incidents and proposals.
THEOREM TypeCorrect == Spec => []TypeOK
  <1>1. IInv => TypeOK BY DEF IInv
  <1> QED BY <1>1, InvariantHolds, PTL

\* However many requests are under way and however late they are answered, the modal
\* and the messages are those of the open thread while the page does not open another
\* incident over an answer still to come (openIncident, handleReply).
THEOREM PageIsOnItsThread == Spec => []PageShowsItsThread
  <1>1. IInv => PageShowsItsThread BY DEF IInv
  <1> QED BY <1>1, InvariantHolds, PTL

\* However many copilots are built, turns hang and the process restarts, a pending action
\* of an incident's record is decided, is from before the restart, or still stands in its
\* conversation with one of them (InMemorySaver, record_approval_outcome).
THEOREM PendingCanBeDecided == Spec => []PendingIsStillPaused
  <1>1. IInv => PendingIsStillPaused
    <2> SUFFICES ASSUME IInv, NEW i \in Incidents, records[i].pending # None
                 PROVE  /\ records[i].pending.of = i
                        /\ \/ records[i].pending \in decided
                           \/ records[i].pending.nth <= before
                           \/ \E c \in 1..copilot : conv[c][i] \in
                                 {PausedFor(records[i].pending), BrokenBy(records[i].pending)}
      BY DEF PendingIsStillPaused
    <2> QED BY DEF IInv, RecordsAreSound, OwnPending, PendingIsKept, Kept
  <1> QED BY <1>1, InvariantHolds, PTL

\* An action that a message abandoned takes no decision, however many copilots and
\* conversations there are: nothing else ever stands for it (ask, respond_to_approval).
THEOREM AbandonedStaysUndecided == Spec => AbandonedIsNeverDecided
  <1>1. IInv /\ [Next]_vars =>
            [\A a \in Action : Abandoned(a) /\ a \in decided' => a \in decided]_vars
    <2> SUFFICES ASSUME IInv, [Next]_vars, NEW a \in Action, Abandoned(a), a \in decided'
                 PROVE  a \in decided
      OBVIOUS
    <2>1. ASSUME NEW r \in Callers, Decide(r)
          PROVE  a \in decided
      <3>1. /\ Stands(r) = conv[requests[r].copilot][requests[r].thread]
            /\ requests[r].copilot \in 1..MaxCopilots /\ requests[r].thread \in Threads
            /\ Stands(r).at = "paused"
        BY <2>1, AskingFacts DEF Stands, Decide, Asking
      <3>2. PICK c \in 1..MaxCopilots, t \in Threads : conv[c][t] = BrokenBy(a)
        BY DEF Abandoned
      <3>3. conv[c][t].for = a /\ conv[c][t].at = "broken"
        BY <3>2, StandingFields
      <3>4. a # None
        BY NoneIsNothing, ConsoleBounds DEF Action
      <3>5. Stands(r).for # a
        BY <3>1, <3>3, <3>4 DEF IInv, ActionsStandOnce
      <3> QED BY <2>1, <3>5 DEF Decide
    <2>2. ASSUME NEW r \in Callers, ServerStep(r)
          PROVE  a \in decided
      BY <2>1, <2>2 DEF ServerStep, Refuse, NewSession, ListIncidents, Unprocessable, TurnAsked,
                        BuildCopilot, BuildFails, ObtainCopilot, Ask, ResumeUnpaused, Report, serverVars
    <2>3. CASE \E r \in Callers : ServerStep(r)
      BY <2>2, <2>3
    <2>4. CASE ~(\E r \in Callers : ServerStep(r))
      BY <2>4 DEF Next, Visit, SessionEnds, Poll, Click, SendMessage, RespondToApproval,
                  AlertFires, AnswerArrives, RequestFails, Restart, vars, serverVars
    <2> QED BY <2>3, <2>4
  <1> QED BY <1>1, InvariantHolds, PTL DEF Spec, AbandonedIsNeverDecided
=============================================================================
