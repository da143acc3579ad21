------------------------------ MODULE Diagnosis ------------------------------
(***************************************************************************)
(* What the copilot's tools and the pages answer: each asks Prometheus,    *)
(* Jaeger, Kubernetes, the incident registry or the playbooks and makes    *)
(* something of the answers; investigate_service and generate_runbook run  *)
(* the investigation graph, whose agents ask the same three.               *)
(*                                                                         *)
(*   ai_platform/copilot/copilot_tools.py                                  *)
(*   ai_platform/tools/jaeger_client.py, prometheus_http_client.py         *)
(*   ai_platform/webui/server.py   operations_hub, alerts                  *)
(*                                                                         *)
(* The services behind may change between any two requests, so every       *)
(* request of one call is answered with a choice of its own, and any may   *)
(* raise.  Calls share no state: one call at a time is looked at.          *)
(***************************************************************************)
EXTENDS InvestigationGraph, AlertAnalysis, TraceAnalysis, ClusterHealth, ServiceMetrics,
        IncidentHistory

CONSTANTS                                       \* what may be answered
    AlertAnswers, RuleAnswers,                  \* /api/v1/alerts, /api/v1/rules
    MetricAnswers, SeriesAnswers, RangeAnswers, \* instant and range queries
    TraceAnswers, SpanAnswers, NotFound,        \* /api/traces; a 404
    PodAnswers, DeploymentAnswers, EventAnswers, LogAnswers,
    Registries, PlaybookFiles, Scores,          \* records, files, similarities
    InvestigatedMetrics, InvestigatedTraces,    \* smaller sets for the graph's agents
    InvestigatedPods, InvestigatedDeployments, InvestigatedEvents,
    Limits, Now, Error

\* What is answered with a list is one.
ASSUME AnswersAreLists ==
    \A answer \in AlertAnswers \cup EventAnswers \cup Registries \cup PlaybookFiles :
        answer \in Seq(ToSet(answer))

ASSUME LimitsAreNumbers == Limits \subseteq Nat /\ Now \in Nat

\* An alert has a time, or none that parses.
ASSUME AlertsAreDated ==
    /\ Window \in Int
    /\ \A answer \in AlertAnswers : \A a \in ToSet(answer) :
          /\ a = [name |-> a.name, severity |-> a.severity, labels |-> a.labels,
                  started |-> a.started]
          /\ a.started \in Int \cup {None}

\* Incidents are kept by id, playbooks by path; each has a similarity.
ASSUME DocumentsHaveIds ==
    \A documents \in Registries \cup PlaybookFiles :
        \A i, j \in 1..Len(documents) : documents[i].id = documents[j].id => i = j

ASSUME DocumentsAreScored ==
    \A documents \in Registries \cup PlaybookFiles, scoreOf \in Scores :
        \A d \in ToSet(documents) : scoreOf[d.id] \in Int

\* An incident's created_at is the time it was created at.
ASSUME RecordsAreDated ==
    \A records \in Registries : \A r \in ToSet(records) : r.created \in Int /\ r.created <= Now

ASSUME SpansAreTraces == \A spans \in SpanAnswers : IsTrace(spans)

\* A series is a list of numbers, or NaN where there is none.
ASSUME ReadingsAreNumbers ==
    /\ Threshold \in Nat
    /\ \A answers \in RangeAnswers : \A check \in DOMAIN answers :
          answers[check] \in Seq(Seq(Int \cup {NaN}))

ASSUME EventsAreDated ==
    \A events \in EventAnswers : \A e \in ToSet(events) : Stamp(e) \in Int

VARIABLE call   \* the tool, what it was given and answered, and what it returned

vars == <<call, graphVars>>

NoCall == [tool |-> "none", in |-> Error, out |-> Error]

Filters == Services \cup {Unset}

SlowAt == 100   \* min_duration_ms

Queries == {"rate", "total", "errors", "latency", "cpu", "memory"}

-----------------------------------------------------------------------------
\* A call from its first request to its result; _catch_errors makes an error a result.
Returns(tool, in, out) ==
    /\ call' = [tool |-> tool, in |-> in, out |-> out]
    /\ UNCHANGED graphVars

ReadOnlyTools ==
    {"get_service_metrics", "get_top_cpu_consumers", "get_latency_by_route",
     "get_slow_traces", "get_trace_critical_path", "get_pod_health",
     "get_deployment_health", "get_recent_k8s_events", "get_pod_logs",
     "get_active_alerts", "get_critical_alerts", "get_incident_summary",
     "get_correlated_incidents", "get_incident_history", "search_similar_incidents",
     "search_knowledge_base", "detect_service_anomalies"}

RequestRaises == \E tool \in ReadOnlyTools : Returns(tool, Error, Error)

\* Metrics
GetServiceMetrics ==
    \E answers \in [Queries -> MetricAnswers] :
        Returns("get_service_metrics", answers, ServiceSummary(answers))

GetTopCpuConsumers ==
    \E series \in SeriesAnswers :
        Returns("get_top_cpu_consumers", series,
                Mapped(series, LAMBDA s : [container |-> s.route, cpu |-> s.value]))

GetLatencyByRoute ==
    \E series \in SeriesAnswers :
        Returns("get_latency_by_route", series, LatencyByRoute(series))

\* Four range queries: cpu, memory, latency, request_rate
DetectServiceAnomalies ==
    \E answers \in RangeAnswers :
        Returns("detect_service_anomalies", answers, ScanService(answers))

\* Traces
GetSlowTraces ==
    \E traces \in TraceAnswers, limit \in Limits :
        Returns("get_slow_traces", [traces |-> traces, limit |-> limit],
                SlowSpans(traces, SlowAt, limit))

\* JaegerClient._get_data: the chart's base path is tried after a 404
Served(plain, under_jaeger_ui) == IF plain = NotFound THEN under_jaeger_ui ELSE plain

GetTraceCriticalPath ==
    \E plain \in SpanAnswers \cup {NotFound} :
        \E under_ui \in IF plain = NotFound THEN SpanAnswers \cup {NotFound} ELSE {NotFound} :
           LET spans == Served(plain, under_ui)
           IN  Returns("get_trace_critical_path", spans,
                       IF spans = NotFound THEN Error ELSE PathOf(spans))

\* Kubernetes
GetPodHealth ==
    \E pods \in PodAnswers, filter \in Filters :
        LET health == PodHealth(pods)
        IN  Returns("get_pod_health", [pods |-> pods, service |-> filter],
                    [list \in DOMAIN health |-> About(health[list], filter)])

GetDeploymentHealth ==
    \E deployments \in DeploymentAnswers, filter \in Filters :
        Returns("get_deployment_health", [deployments |-> deployments, service |-> filter],
                About(UnhealthyDeployments(deployments), filter))

GetRecentK8sEvents ==
    \E events \in EventAnswers, filter \in Filters, limit \in Limits :
        Returns("get_recent_k8s_events",
                [events |-> events, service |-> filter, limit |-> limit],
                ServiceWarnings(events, filter, limit))

GetPodLogs ==
    \E logs \in LogAnswers :
        Returns("get_pod_logs", logs, IF logs = "none" THEN "(no log output)" ELSE logs)

\* Alerts
GetActiveAlerts ==
    \E answer \in AlertAnswers : Returns("get_active_alerts", answer, ActiveAlerts(answer))

GetCriticalAlerts ==
    \E answer \in AlertAnswers : Returns("get_critical_alerts", answer, CriticalAlerts(answer))

GetIncidentSummary ==
    \E answer \in AlertAnswers : Returns("get_incident_summary", answer, IncidentSummary(answer))

GetCorrelatedIncidents ==
    \E answer \in AlertAnswers :
        Returns("get_correlated_incidents", answer, CorrelateAlerts(answer))

\* The registry and the playbooks
GetIncidentHistory ==
    \E records \in Registries, filter \in Services \cup {NoService}, window \in 0..Now,
       limit \in Limits :
        Returns("get_incident_history", records,
                QueryHistory(records, Now, filter, window, limit))

SearchSimilarIncidents ==
    \E records \in Registries, scoreOf \in Scores, limit \in Limits, usable \in BOOLEAN :
        LET documents == Listed(records)
        IN  Returns("search_similar_incidents",
                    [documents |-> documents, scoreOf |-> scoreOf, limit |-> limit,
                     usable |-> usable],
                    Search(documents, scoreOf, 1, limit, usable))

SearchKnowledgeBase ==
    \E files \in PlaybookFiles, scoreOf \in Scores, limit \in Limits, usable \in BOOLEAN :
        LET documents == Playbooks(files)
        IN  Returns("search_knowledge_base",
                    [documents |-> documents, scoreOf |-> scoreOf, limit |-> limit,
                     usable |-> usable],
                    Search(documents, scoreOf, 1, limit, usable))

\* Pages
OperationsHubPage ==
    \E records \in Registries, days \in 0..3 :
        Returns("operations_hub", [records |-> records, days |-> days],
                OperationsHub(records, Now, days))

\* Every alerting rule, firing or not, with the start of its first alert
AlertsPage ==
    \E rules \in RuleAnswers :
        LET alerting == Kept(rules, LAMBDA r : r.type = "alerting")
        IN  Returns("alerts", rules,
                    Mapped(alerting, LAMBDA r :
                        [state |-> r.state,
                         active_since |-> IF r.alerts = <<>> THEN None ELSE r.alerts[1]]))

-----------------------------------------------------------------------------
\* The evidence of the investigation's agents: the tools' own functions, for one
\* service by name, and for none of them when it is unknown.
OfService(objects, s) == IF s = Unknown THEN <<>> ELSE About(objects, s)

MetricEvidence == {ServiceSummary(answers) : answers \in InvestigatedMetrics}

\* Slow spans, then the trace of the slowest, fetched twice; by then it may be gone.
TraceEvidence ==
    UNION {LET slow    == SlowSpans(traces, SlowAt, 20)
               of(t)   == IF t.id = slow[1].trace_id THEN {t.spans} ELSE {}
               fetched == UNION {of(t) : t \in ToSet(traces)} \cup {<<>>}
               paths   == IF slow = <<>> THEN {<<>>}
                          ELSE {SummaryPath(first, second) : first \in fetched, second \in fetched}
           IN  {IF path = Endless THEN Stuck ELSE [slow_spans |-> slow, critical_path |-> path] :
                    path \in paths} :
           traces \in InvestigatedTraces}

KubernetesEvidence(s) ==
    {[unhealthy_pods        |-> OfService(PodHealth(pods).unhealthy_pods, s),
      high_restart_pods     |-> OfService(PodHealth(pods).high_restart_pods, s),
      unhealthy_deployments |-> OfService(UnhealthyDeployments(deployments), s),
      warning_events        |-> OfService(WarningEvents(events, 20), s)] :
        pods \in InvestigatedPods, deployments \in InvestigatedDeployments,
        events \in InvestigatedEvents}

AgentEvidence(agent, s) ==
    {Failed} \cup (IF agent = "metrics" THEN MetricEvidence
                   ELSE IF agent = "traces" THEN TraceEvidence
                   ELSE KubernetesEvidence(s))

\* _correlate_findings keeps five slow spans and five events.
JoinedEvidence(agent, found) ==
    IF agent = "traces" THEN [found EXCEPT !.slow_spans = Take(@, 5)]
    ELSE IF agent = "kubernetes" THEN [found EXCEPT !.warning_events = Take(@, 5)]
    ELSE found

\* extract_service_name()
ExtractServiceName(a) == IF ServiceOf(a) = None THEN Unknown ELSE ServiceOf(a)

\* investigate_service and generate_runbook are not wrapped: what the graph raises
\* leaves the tool.
Investigate(what) ==
    /\ call = NoCall
    /\ \E a \in Alerts : Begin(a, what) /\ call' = [tool |-> what, in |-> a, out |-> Waiting]

InvestigationReturns ==
    /\ call.out = Waiting
    /\ stage \in Ended
    /\ call' = [call EXCEPT !.out = IF stage # "done" THEN Error
                                    ELSE IF wanted \in results THEN wanted
                                    ELSE "no runbook"]
    /\ Drop

Investigation == GraphStep /\ UNCHANGED call

\* The next call; one that never returns is another thread's by then.
NextCall ==
    /\ call # NoCall
    /\ call' = NoCall
    /\ \/ call.out # Waiting /\ stage = "idle" /\ UNCHANGED graphVars
       \/ call.out = Waiting /\ Hung /\ Drop

CopilotInit == Init /\ call = NoCall

ToolCall ==
    /\ call = NoCall
    /\ \/ RequestRaises
       \/ GetServiceMetrics \/ GetTopCpuConsumers \/ GetLatencyByRoute
       \/ DetectServiceAnomalies
       \/ GetSlowTraces \/ GetTraceCriticalPath
       \/ GetPodHealth \/ GetDeploymentHealth \/ GetRecentK8sEvents \/ GetPodLogs
       \/ GetActiveAlerts \/ GetCriticalAlerts \/ GetIncidentSummary
       \/ GetCorrelatedIncidents
       \/ GetIncidentHistory \/ SearchSimilarIncidents \/ SearchKnowledgeBase
       \/ OperationsHubPage \/ AlertsPage

CopilotNext ==
    \/ ToolCall
    \/ Investigate("report")
    \/ Investigate("runbook")
    \/ Investigation
    \/ InvestigationReturns
    \/ NextCall

CopilotSpec == CopilotInit /\ [][CopilotNext]_vars

\* Requests and model calls have timeouts, so the graph's nodes keep running.
FairCopilotSpec == CopilotSpec /\ WF_vars(Investigation)

-----------------------------------------------------------------------------
\* What was asked of this tool and answered without an error
Answered(tool) == call.tool = tool /\ call.out # Error

\* An alert is attributed by its label, else to the most specific service its name
\* refers to, and to none when it names none: infrastructure alerts are not pinned
\* on a service (match_service_name, resolve_service_from_alert).
AlertsAreRightlyNamed ==
    Answered("get_active_alerts") =>
        \A a \in ToSet(call.out) :
            {a.labels.service_name, a.labels.service, a.labels.job} = {None} =>
                RightlyNamed(a, ServiceOf(a))

\* Every active alert belongs to one correlated incident, of its service, chained by
\* time, and no two incidents that touch are left apart (correlate_alerts).
IncidentsPartitionAlerts ==
    Answered("get_correlated_incidents") => Partitions(call.out, ActiveAlerts(call.in))

\* The urgent alerts are counted however their severity is spelled, and each is routed
\* to people unless a later alert has its name (get_incident_summary, route_alert).
UrgentAlertsArePaged ==
    Answered("get_incident_summary") =>
        LET alerts == ActiveAlerts(call.in)
            urgent == {i \in DOMAIN alerts : NeedsAction(alerts[i])}
        IN  /\ call.out.requires_immediate_action = Cardinality(urgent)
            /\ call.out.critical_count >= Len(CriticalAlerts(call.in))
            /\ \A i \in urgent :
                  \/ call.out.routes[alerts[i].name] \in {"pagerduty", "slack-incidents"}
                  \/ \E j \in DOMAIN alerts \ urgent : j > i /\ alerts[j].name = alerts[i].name

\* The critical path of a trace with a root is its critical path; only without a root
\* can the walk go round (get_critical_path).
PathIsCritical ==
    /\ call.tool = "get_trace_critical_path"
    /\ call.in \notin {Error, NotFound}
    /\ \E s \in ToSet(call.in) : ParentOf(s, call.in) = NoParent
    => IsCriticalPath(call.out, call.in)

\* The warnings shown of a service are its newest (get_recent_k8s_events).
WarningsAreNotLost ==
    Answered("get_recent_k8s_events") =>
        NewestWarnings(call.out, call.in.events, call.in.service, call.in.limit)

\* What is flagged as anomalous is news (detect_service_anomalies).
AnomaliesAreNews ==
    Answered("detect_service_anomalies") =>
        /\ \A check \in DOMAIN call.in : FlagsOnlyNews(call.in[check], call.out.checks[check])
        /\ call.out.has_anomaly <=> \E c \in DOMAIN call.in : call.out.checks[c].is_anomaly

\* A search shows its best matches (search_similar_incidents, search_knowledge_base).
SearchShowsTheBest ==
    Answered("search_similar_incidents") \/ Answered("search_knowledge_base") =>
        IF call.in.usable
        THEN BestMatches(call.out, call.in.documents, call.in.scoreOf, 1, call.in.limit)
        ELSE call.out = <<>>

\* The hub's figures agree with its chart and with the history (operations_hub).
HubAgrees ==
    Answered("operations_hub") =>
        FiguresAgree(call.out, call.in.records, Now, call.in.days)
=============================================================================
