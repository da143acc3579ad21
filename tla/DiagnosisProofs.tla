--------------------------- MODULE DiagnosisProofs ----------------------------
(***************************************************************************)
(* The copilot runs the investigation graph as it is specified, whatever   *)
(* its other tools do, so what holds of every investigation holds here.    *)
(***************************************************************************)
EXTENDS Diagnosis, InvestigationGraphProofs, AnalysisProofs

\* An investigation's call is a step of the graph,
LEMMA InvestigationIsAStep ==
    ASSUME NEW what \in {"report", "runbook"}, Investigate(what)
    PROVE  Next
  BY DEF Investigate, Next

\* and any other tool's is none.
LEMMA ToolsLeaveTheGraph == ASSUME ToolCall PROVE UNCHANGED graphVars
  BY DEF ToolCall, RequestRaises, Returns, GetServiceMetrics, GetTopCpuConsumers,
         GetLatencyByRoute, DetectServiceAnomalies, GetSlowTraces, GetTraceCriticalPath,
         GetPodHealth, GetDeploymentHealth, GetRecentK8sEvents, GetPodLogs, GetActiveAlerts,
         GetCriticalAlerts, GetIncidentSummary, GetCorrelatedIncidents, GetIncidentHistory,
         SearchSimilarIncidents, SearchKnowledgeBase, OperationsHubPage, AlertsPage

\* Every step of the copilot is one of the graph's or leaves the graph alone.
LEMMA CopilotStepMaps == [CopilotNext]_vars => [Next]_graphVars
  <1> SUFFICES ASSUME [CopilotNext]_vars PROVE [Next]_graphVars
    OBVIOUS
  <1>1. CASE ToolCall
    BY <1>1, ToolsLeaveTheGraph
  <1>2. CASE Investigate("report") \/ Investigate("runbook")
    BY <1>2, InvestigationIsAStep
  <1>3. CASE Investigation
    BY <1>3 DEF Investigation, Next
  <1>4. CASE InvestigationReturns
    BY <1>4 DEF InvestigationReturns, Next
  <1>5. CASE NextCall
    BY <1>5 DEF NextCall, Next
  <1>6. CASE UNCHANGED vars
    BY <1>6 DEF vars
  <1> QED BY <1>1, <1>2, <1>3, <1>4, <1>5, <1>6 DEF CopilotNext

-----------------------------------------------------------------------------
\* The copilot implements the investigation graph: between two of its investigations
\* the graph is idle again, and no tool disturbs one under way (investigate_service,
\* generate_runbook in copilot_tools.py).
THEOREM CopilotRunsTheGraph == CopilotSpec => Spec
  <1>1. CopilotInit => Init
    BY DEF CopilotInit
  <1> QED BY <1>1, CopilotStepMaps, PTL DEF CopilotSpec, Spec

\* Among any tool calls, what the model is shown lists exactly the gaps there are, and
\* of a failed agent nothing but the metrics agent's error.
THEOREM GapsAccountedAmongTools == CopilotSpec => []GapsAreAccounted
  BY CopilotRunsTheGraph, GapsAccounted, PTL

\* Among any tool calls, an investigation asks the model neither too often nor gives
\* up too early.
THEOREM AskedEnoughAmongTools == CopilotSpec => []AskedOftenEnough
  BY CopilotRunsTheGraph, AskedEnough, PTL

-----------------------------------------------------------------------------
\* What a tool has answered stays what it answered: only an investigation's result
\* comes later than its call.
CallIsOne ==
    /\ call = [tool |-> call.tool, in |-> call.in, out |-> call.out]
    /\ call.tool \in {"report", "runbook"} \/ stage = "idle"

LEMMA CallAfterInit == CopilotInit => CallIsOne
  BY DEF CopilotInit, Init, CallIsOne, NoCall

LEMMA GraphStaysIdle == ASSUME GraphStep PROVE stage # "idle"
  BY DEF GraphStep, AgentReturns, CorrelateFindings, ModelAnswers, ModelAnswersNothing,
         ModelRaises

\* Which action an answer is from
AnsweredBy ==
    \/ call'.tool = "get_active_alerts" /\ GetActiveAlerts
    \/ call'.tool = "get_incident_summary" /\ GetIncidentSummary
    \/ call'.tool = "get_correlated_incidents" /\ GetCorrelatedIncidents
    \/ call'.tool = "get_trace_critical_path" /\ GetTraceCriticalPath
    \/ call'.tool = "get_recent_k8s_events" /\ GetRecentK8sEvents
    \/ call'.tool = "detect_service_anomalies" /\ DetectServiceAnomalies
    \/ call'.tool = "search_similar_incidents" /\ SearchSimilarIncidents
    \/ call'.tool = "search_knowledge_base" /\ SearchKnowledgeBase
    \/ call'.tool = "operations_hub" /\ OperationsHubPage
    \/ call'.tool \in {"get_service_metrics", "get_top_cpu_consumers", "get_latency_by_route",
                      "get_slow_traces", "get_pod_health", "get_deployment_health",
                      "get_pod_logs", "get_critical_alerts", "get_incident_history",
                      "alerts"}
    \/ call'.in = Error /\ call'.out = Error

LEMMA Returned ==
    ASSUME NEW tool, NEW in, NEW out, Returns(tool, in, out)
    PROVE  call' = [tool |-> call'.tool, in |-> call'.in, out |-> call'.out] /\ call'.tool = tool
  BY DEF Returns

\* A tool's answer is from the tool's own action.
LEMMA ToolIsOne ==
    ASSUME ToolCall
    PROVE  AnsweredBy /\ call' = [tool |-> call'.tool, in |-> call'.in, out |-> call'.out]
  <1>1. CASE GetServiceMetrics
    BY <1>1 DEF GetServiceMetrics, Returns, Mapped, Kept, AnsweredBy
  <1>2. CASE GetTopCpuConsumers
    BY <1>2 DEF GetTopCpuConsumers, Returns, Mapped, Kept, AnsweredBy
  <1>3. CASE GetLatencyByRoute
    BY <1>3 DEF GetLatencyByRoute, Returns, Mapped, Kept, AnsweredBy
  <1>4. CASE DetectServiceAnomalies
    BY <1>4 DEF DetectServiceAnomalies, Returns, Mapped, Kept, AnsweredBy
  <1>5. CASE GetSlowTraces
    BY <1>5 DEF GetSlowTraces, Returns, Mapped, Kept, AnsweredBy
  <1>6. CASE GetTraceCriticalPath
    <2>1. PICK spans, out : Returns("get_trace_critical_path", spans, out)
      BY <1>6 DEF GetTraceCriticalPath
    <2> QED BY <1>6, <2>1, Returned DEF AnsweredBy
  <1>7. CASE GetPodHealth
    BY <1>7 DEF GetPodHealth, Returns, Mapped, Kept, AnsweredBy
  <1>8. CASE GetDeploymentHealth
    BY <1>8 DEF GetDeploymentHealth, Returns, Mapped, Kept, AnsweredBy
  <1>9. CASE GetRecentK8sEvents
    BY <1>9 DEF GetRecentK8sEvents, Returns, Mapped, Kept, AnsweredBy
  <1>10. CASE GetPodLogs
    <2>1. PICK logs, out : Returns("get_pod_logs", logs, out)
      BY <1>10 DEF GetPodLogs
    <2> QED BY <2>1, Returned DEF AnsweredBy
  <1>11. CASE GetActiveAlerts
    BY <1>11 DEF GetActiveAlerts, Returns, Mapped, Kept, AnsweredBy
  <1>12. CASE GetCriticalAlerts
    BY <1>12 DEF GetCriticalAlerts, Returns, Mapped, Kept, AnsweredBy
  <1>13. CASE GetIncidentSummary
    BY <1>13 DEF GetIncidentSummary, Returns, Mapped, Kept, AnsweredBy
  <1>14. CASE GetCorrelatedIncidents
    BY <1>14 DEF GetCorrelatedIncidents, Returns, Mapped, Kept, AnsweredBy
  <1>15. CASE GetIncidentHistory
    BY <1>15 DEF GetIncidentHistory, Returns, Mapped, Kept, AnsweredBy
  <1>16. CASE SearchSimilarIncidents
    BY <1>16 DEF SearchSimilarIncidents, Returns, Mapped, Kept, AnsweredBy
  <1>17. CASE SearchKnowledgeBase
    BY <1>17 DEF SearchKnowledgeBase, Returns, Mapped, Kept, AnsweredBy
  <1>18. CASE OperationsHubPage
    BY <1>18 DEF OperationsHubPage, Returns, Mapped, Kept, AnsweredBy
  <1>19. CASE AlertsPage
    BY <1>19 DEF AlertsPage, Returns, Mapped, Kept, AnsweredBy
  <1>20. CASE RequestRaises
    BY <1>20 DEF RequestRaises, Returns, AnsweredBy
  <1> QED BY <1>1, <1>2, <1>3, <1>4, <1>5, <1>6, <1>7, <1>8, <1>9, <1>10, <1>11, <1>12, <1>13, <1>14, <1>15, <1>16, <1>17, <1>18, <1>19, <1>20 DEF ToolCall

\* A step either has a tool answer, or leaves the call as it was, or its answer is
\* an investigation's or none.
Answers ==
    \/ ToolCall /\ AnsweredBy
    \/ UNCHANGED call
    \/ call'.tool \in {"none", "report", "runbook"}

\* A step keeps the call's shape, and computes no answer but a tool's own.
LEMMA CallSteps ==
    ASSUME CallIsOne, [CopilotNext]_vars
    PROVE  CallIsOne' /\ Answers
  <1>1. CASE ToolCall
    <2>1. call = NoCall /\ UNCHANGED stage
      BY <1>1, ToolsLeaveTheGraph DEF ToolCall, graphVars
    <2>2. stage = "idle"
      BY <2>1 DEF CallIsOne, NoCall
    <2> QED BY <1>1, <2>1, <2>2, ToolIsOne DEF CallIsOne, Answers
  <1>2. ASSUME NEW what \in {"report", "runbook"}, Investigate(what)
        PROVE  CallIsOne' /\ Answers
    BY <1>2 DEF Investigate, CallIsOne, Answers
  <1>3. CASE Investigation
    BY <1>3, GraphStaysIdle DEF Investigation, CallIsOne, Answers
  <1>4. CASE InvestigationReturns
    <2>1. call.tool \in {"report", "runbook"}
      BY <1>4 DEF InvestigationReturns, CallIsOne, Ended
    <2>2. call' = [tool |-> call.tool, in |-> call.in, out |-> call'.out]
      BY <1>4 DEF InvestigationReturns, CallIsOne
    <2> QED BY <2>1, <2>2 DEF CallIsOne, Answers
  <1>5. CASE NextCall
    BY <1>5 DEF NextCall, NoCall, Drop, graphVars, CallIsOne, Answers
  <1>6. CASE UNCHANGED vars
    BY <1>6 DEF vars, graphVars, CallIsOne, Answers
  <1> QED BY <1>1, <1>2, <1>3, <1>4, <1>5, <1>6 DEF CopilotNext

LEMMA CallAlwaysIsOne == CopilotSpec => []CallIsOne
  BY CallAfterInit, CallSteps, PTL DEF CopilotSpec

-----------------------------------------------------------------------------
\* An alert without a service label is attributed to the most specific service its
\* name refers to, and to none when it refers to none, whatever services are known
\* (match_service_name, resolve_service_from_alert).
THEOREM AlertsNamed == CopilotSpec => []AlertsAreRightlyNamed
  <1>1. CopilotInit => AlertsAreRightlyNamed
    BY DEF CopilotInit, NoCall, AlertsAreRightlyNamed, Answered
  <1>2. ASSUME AlertsAreRightlyNamed, CallIsOne, [CopilotNext]_vars
        PROVE  AlertsAreRightlyNamed'
    <2>1. CASE call'.tool = "get_active_alerts" /\ call'.out # Error /\ ToolCall
      <3> SUFFICES ASSUME NEW a,
                          {a.labels.service_name, a.labels.service, a.labels.job} = {None}
                   PROVE  RightlyNamed(a, ServiceOf(a))
        BY DEF AlertsAreRightlyNamed
      <3> QED BY UnlabelledIsNamed, MatchIsRight
    <2>2. CASE UNCHANGED call
      BY <1>2, <2>2 DEF AlertsAreRightlyNamed, Answered
    <2> QED BY <2>1, <2>2, <1>2, CallSteps DEF Answers, AlertsAreRightlyNamed, Answered
  <1> QED BY <1>1, <1>2, CallAlwaysIsOne, PTL DEF CopilotSpec

\* The urgent alerts are counted however they are spelled, and each is routed to people
\* unless a later alert has its name, for any list of alerts (get_incident_summary).
THEOREM UrgentPaged == CopilotSpec => []UrgentAlertsArePaged
  <1>1. CopilotInit => UrgentAlertsArePaged
    BY DEF CopilotInit, NoCall, UrgentAlertsArePaged, Answered
  <1>2. ASSUME UrgentAlertsArePaged, CallIsOne, [CopilotNext]_vars
        PROVE  UrgentAlertsArePaged'
    <2>1. CASE GetIncidentSummary
      <3>1. PICK answer \in AlertAnswers :
                call' = [tool |-> "get_incident_summary", in |-> answer,
                         out |-> IncidentSummary(answer)]
        BY <2>1 DEF GetIncidentSummary, Returns
      <3>2. answer \in Seq(ToSet(answer))
        BY AnswersAreLists
      <3>3. call'.in = answer /\ call'.out = IncidentSummary(answer)
        BY <3>1
      <3> QED BY <3>2, <3>3, SummaryPages DEF UrgentAlertsArePaged
    <2>2. CASE UNCHANGED call
      BY <1>2, <2>2 DEF UrgentAlertsArePaged, Answered
    <2> QED BY <2>1, <2>2, <1>2, CallSteps DEF Answers, AnsweredBy, UrgentAlertsArePaged, Answered
  <1> QED BY <1>1, <1>2, CallAlwaysIsOne, PTL DEF CopilotSpec

\* The warnings shown of a service are its newest, and as many as are asked for, unless
\* events or warnings were cut off before (get_recent_k8s_events).
THEOREM WarningsNotLost == CopilotSpec => []WarningsAreNotLost
  <1>1. CopilotInit => WarningsAreNotLost
    BY DEF CopilotInit, NoCall, WarningsAreNotLost, Answered
  <1>2. ASSUME WarningsAreNotLost, CallIsOne, [CopilotNext]_vars
        PROVE  WarningsAreNotLost'
    <2>1. CASE GetRecentK8sEvents
      <3>1. PICK events \in EventAnswers, filter \in Filters, limit \in Limits :
                call' = [tool |-> "get_recent_k8s_events",
                         in   |-> [events |-> events, service |-> filter, limit |-> limit],
                         out  |-> ServiceWarnings(events, filter, limit)]
        BY <2>1 DEF GetRecentK8sEvents, Returns
      <3>2. events \in Seq(ToSet(events)) /\ limit \in Nat /\ Dated(events)
        BY AnswersAreLists, LimitsAreNumbers, EventsAreDated DEF Dated
      <3>3. /\ call'.in.events = events /\ call'.in.service = filter
            /\ call'.in.limit = limit /\ call'.out = ServiceWarnings(events, filter, limit)
        BY <3>1
      <3>4. NewestWarnings(call'.out, events, filter, limit)
        BY <3>2, <3>3, NewestAreShown
      <3> QED BY <3>3, <3>4 DEF WarningsAreNotLost
    <2>2. CASE UNCHANGED call
      BY <1>2, <2>2 DEF WarningsAreNotLost, Answered
    <2> QED BY <2>1, <2>2, <1>2, CallSteps DEF Answers, AnsweredBy, WarningsAreNotLost, Answered
  <1> QED BY <1>1, <1>2, CallAlwaysIsOne, PTL DEF CopilotSpec

-----------------------------------------------------------------------------
\* Incidents and playbooks alike
LEMMA SearchedRightly ==
    ASSUME NEW s \in Registries \cup PlaybookFiles, NEW scoreOf \in Scores, NEW K,
           K \in SUBSET (1..Len(s)), NEW R, OneWay(R), NEW d, Reads(d, s, K, R),
           NEW limit \in Limits
    PROVE  BestMatches(Search(d, scoreOf, 1, limit, TRUE), d, scoreOf, 1, limit)
  <1>1. s \in Seq(ToSet(s)) /\ DistinctIds(s) /\ HasScores(s, scoreOf) /\ limit \in Nat
    <2>1. s \in Seq(ToSet(s))
      BY AnswersAreLists
    <2>2. DistinctIds(s)
      BY DocumentsHaveIds DEF DistinctIds
    <2>3. HasScores(s, scoreOf)
      BY DocumentsAreScored DEF HasScores
    <2> QED BY <2>1, <2>2, <2>3, LimitsAreNumbers
  <1>2. d \in Seq(ToSet(d)) /\ DistinctIds(d) /\ ToSet(d) \subseteq ToSet(s)
    BY <1>1, IdsStayDistinct
  <1>3. HasScores(d, scoreOf)
    BY <1>1, <1>2 DEF HasScores
  <1>4. \A floor \in Int :
            BestMatches(Search(d, scoreOf, floor, limit, TRUE), d, scoreOf, floor, limit)
    BY <1>1, <1>2, <1>3, BestFound
  <1>5. 1 \in Int
    OBVIOUS
  <1> QED BY <1>4, <1>5, Zenon

\* A search of incidents or playbooks shows the best matches, with their own scores,
\* whatever the documents and the scores (search_similar_incidents,
\* search_knowledge_base).
THEOREM BestShown == CopilotSpec => []SearchShowsTheBest
  <1>1. CopilotInit => SearchShowsTheBest
    BY DEF CopilotInit, NoCall, SearchShowsTheBest, Answered
  <1>2. ASSUME SearchShowsTheBest, CallIsOne, [CopilotNext]_vars
        PROVE  SearchShowsTheBest'
    <2>1. CASE SearchSimilarIncidents
      <3>1. PICK records \in Registries, scoreOf \in Scores, limit \in Limits,
                 usable \in BOOLEAN :
                Returns("search_similar_incidents",
                    [documents |-> Listed(records), scoreOf |-> scoreOf, limit |-> limit,
                     usable |-> usable],
                    Search(Listed(records), scoreOf, 1, limit, usable))
        BY <2>1 DEF SearchSimilarIncidents
      <3>2. records \in Seq(ToSet(records)) /\ HasTimes(records)
        BY AnswersAreLists, RecordsAreDated DEF HasTimes
      <3>3. usable => BestMatches(Search(Listed(records), scoreOf, 1, limit, TRUE),
                                  Listed(records), scoreOf, 1, limit)
        BY <3>2, ListedReads, SearchedRightly
      <3>4. usable = TRUE \/ usable = FALSE
        OBVIOUS
      <3> QED BY <3>1, <3>3, <3>4, UnusableFindsNothing DEF Returns, SearchShowsTheBest, Answered
    <2>2. CASE SearchKnowledgeBase
      <3>1. PICK files \in PlaybookFiles, scoreOf \in Scores, limit \in Limits,
                 usable \in BOOLEAN :
                Returns("search_knowledge_base",
                    [documents |-> Playbooks(files), scoreOf |-> scoreOf, limit |-> limit,
                     usable |-> usable],
                    Search(Playbooks(files), scoreOf, 1, limit, usable))
        BY <2>2 DEF SearchKnowledgeBase
      <3>2. files \in Seq(ToSet(files))
        BY AnswersAreLists
      <3>3. usable => BestMatches(Search(Playbooks(files), scoreOf, 1, limit, TRUE),
                                  Playbooks(files), scoreOf, 1, limit)
        BY <3>2, PlaybooksRead, BelowIsOneWay, SearchedRightly
      <3>4. usable = TRUE \/ usable = FALSE
        OBVIOUS
      <3> QED BY <3>1, <3>3, <3>4, UnusableFindsNothing DEF Returns, SearchShowsTheBest, Answered
    <2>3. CASE UNCHANGED call
      BY <1>2, <2>3 DEF SearchShowsTheBest, Answered
    <2> QED BY <2>1, <2>2, <2>3, <1>2, CallSteps
            DEF Answers, AnsweredBy, SearchShowsTheBest, Answered
  <1> QED BY <1>1, <1>2, CallAlwaysIsOne, PTL DEF CopilotSpec

\* The hub counts what the history holds and charts what it counts, whatever the
\* incidents and however long a day (operations_hub, query_history).
THEOREM HubCounts == CopilotSpec => []HubAgrees
  <1>1. CopilotInit => HubAgrees
    BY DEF CopilotInit, NoCall, HubAgrees, Answered
  <1>2. ASSUME HubAgrees, CallIsOne, [CopilotNext]_vars
        PROVE  HubAgrees'
    <2>1. CASE OperationsHubPage
      <3>1. PICK records \in Registries, days \in 0..3 :
                Returns("operations_hub", [records |-> records, days |-> days],
                        OperationsHub(records, Now, days))
        BY <2>1 DEF OperationsHubPage
      <3>2. records \in Seq(ToSet(records))
        BY AnswersAreLists
      <3>3. HasTimes(records) /\ NotAfter(records, Now)
        BY RecordsAreDated DEF HasTimes, NotAfter
      <3>4. Now \in Int /\ days \in Nat
        BY LimitsAreNumbers
      <3>5. FiguresAgree(OperationsHub(records, Now, days), records, Now, days)
        BY <3>2, <3>3, <3>4, FiguresOfWindow
      <3> QED BY <3>1, <3>5 DEF Returns, HubAgrees, Answered
    <2>2. CASE UNCHANGED call
      BY <1>2, <2>2 DEF HubAgrees, Answered
    <2> QED BY <2>1, <2>2, <1>2, CallSteps DEF Answers, AnsweredBy, HubAgrees, Answered
  <1> QED BY <1>1, <1>2, CallAlwaysIsOne, PTL DEF CopilotSpec

\* The critical path of a trace with a root is its critical path, and is found, however
\* the spans of the trace refer to each other (get_critical_path).
THEOREM PathsCritical == CopilotSpec => []PathIsCritical
  <1>1. CopilotInit => PathIsCritical
    BY DEF CopilotInit, NoCall, PathIsCritical
  <1>2. ASSUME PathIsCritical, CallIsOne, [CopilotNext]_vars
        PROVE  PathIsCritical'
    <2>1. CASE GetTraceCriticalPath
      <3>1. PICK plain \in SpanAnswers \cup {NotFound},
                 under_ui \in SpanAnswers \cup {NotFound} :
                LET spans == Served(plain, under_ui)
                IN  Returns("get_trace_critical_path", spans,
                            IF spans = NotFound THEN Error ELSE PathOf(spans))
        BY <2>1 DEF GetTraceCriticalPath
      <3> DEFINE spans == Served(plain, under_ui)
      <3>2. spans \in SpanAnswers \cup {NotFound}
        BY DEF Served
      <3>3. /\ call'.in = spans
            /\ call'.out = IF spans = NotFound THEN Error ELSE PathOf(spans)
        BY <3>1 DEF Returns
      <3> HIDE DEF spans
      <3> SUFFICES ASSUME spans # NotFound, HasRoot(spans) PROVE IsCriticalPath(PathOf(spans), spans)
        BY <3>3 DEF PathIsCritical, HasRoot
      <3> QED BY <3>2, SpansAreTraces, CriticalPathFound
    <2>2. CASE UNCHANGED call
      BY <1>2, <2>2 DEF PathIsCritical
    <2>3. CASE call'.out = Error /\ call'.in = Error
      BY <2>3 DEF PathIsCritical
    <2> QED BY <2>1, <2>2, <2>3, <1>2, CallSteps DEF Answers, AnsweredBy, PathIsCritical
  <1> QED BY <1>1, <1>2, CallAlwaysIsOne, PTL DEF CopilotSpec

\* What is flagged as anomalous is news, whatever the history: a value seen before is
\* not, as long as there are at most Threshold^2 points, and a history that never moved
\* is flagged exactly when it moves (detect_service_anomalies).
THEOREM OnlyNewsFlagged == CopilotSpec => []AnomaliesAreNews
  <1>1. CopilotInit => AnomaliesAreNews
    BY DEF CopilotInit, NoCall, AnomaliesAreNews, Answered
  <1>2. ASSUME AnomaliesAreNews, CallIsOne, [CopilotNext]_vars
        PROVE  AnomaliesAreNews'
    <2>1. CASE DetectServiceAnomalies
      <3>1. PICK answers \in RangeAnswers :
                Returns("detect_service_anomalies", answers, ScanService(answers))
        BY <2>1 DEF DetectServiceAnomalies
      <3>2. call'.in = answers /\ call'.out = ScanService(answers)
        BY <3>1 DEF Returns
      <3> DEFINE found == ScanService(answers)
      <3>3. \A check \in DOMAIN answers : found.checks[check] = DetectForQuery(answers[check])
        BY DEF ScanService
      <3>4. found.has_anomaly <=> \E check \in DOMAIN answers : found.checks[check].is_anomaly
        BY DEF ScanService
      <3>5. ASSUME NEW check \in DOMAIN answers
            PROVE  FlagsOnlyNews(answers[check], DetectForQuery(answers[check]))
        BY ReadingsAreNumbers, OnlyNewsIsFlagged
      <3>6. \A check \in DOMAIN answers : FlagsOnlyNews(answers[check], found.checks[check])
        <4> HIDE DEF found
        <4> QED BY <3>3, <3>5
      <3> QED BY <3>2, <3>4, <3>6 DEF AnomaliesAreNews
    <2>2. CASE UNCHANGED call
      BY <1>2, <2>2 DEF AnomaliesAreNews, Answered
    <2> QED BY <2>1, <2>2, <1>2, CallSteps DEF Answers, AnsweredBy, AnomaliesAreNews, Answered
  <1> QED BY <1>1, <1>2, CallAlwaysIsOne, PTL DEF CopilotSpec

\* The correlated incidents split the active alerts: none is lost or repeated, each
\* incident is one service's chain of alerts as severe as the most severe of them, and
\* two incidents of a service are more than a window apart, for any list of alerts and
\* any window (correlate_alerts).
THEOREM AlertsPartitioned == CopilotSpec => []IncidentsPartitionAlerts
  <1>1. CopilotInit => IncidentsPartitionAlerts
    BY DEF CopilotInit, NoCall, IncidentsPartitionAlerts, Answered
  <1>2. ASSUME IncidentsPartitionAlerts, CallIsOne, [CopilotNext]_vars
        PROVE  IncidentsPartitionAlerts'
    <2>1. CASE GetCorrelatedIncidents
      <3>1. PICK answer \in AlertAnswers :
                call' = [tool |-> "get_correlated_incidents", in |-> answer,
                         out |-> CorrelateAlerts(answer)]
        BY <2>1 DEF GetCorrelatedIncidents, Returns
      <3>2. /\ ActiveAlerts(answer) \in Seq(ToSet(ActiveAlerts(answer)))
            /\ StartsAreTimes(ActiveAlerts(answer))
        BY AnswersAreLists, AlertsAreDated, ActiveStay
      <3>3. Window \in Int
        BY AlertsAreDated
      <3>4. Partitions(CorrelateAlerts(answer), ActiveAlerts(answer))
        BY <3>2, <3>3, IncidentsPartition
      <3>5. call'.in = answer /\ call'.out = CorrelateAlerts(answer)
        BY <3>1
      <3> QED BY <3>4, <3>5 DEF IncidentsPartitionAlerts
    <2>2. CASE UNCHANGED call
      BY <1>2, <2>2 DEF IncidentsPartitionAlerts, Answered
    <2> QED BY <2>1, <2>2, <1>2, CallSteps DEF Answers, AnsweredBy, IncidentsPartitionAlerts,
                Answered
  <1> QED BY <1>1, <1>2, CallAlwaysIsOne, PTL DEF CopilotSpec

=============================================================================
