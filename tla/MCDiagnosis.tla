----------------------------- MODULE MCDiagnosis -----------------------------
(***************************************************************************)
(* Small answers of Prometheus, Jaeger, Kubernetes and the registry.       *)
(***************************************************************************)
EXTENDS Diagnosis

Word(w) == <<w>>

MCKnownServices ==
    <<[name |-> "frontend", tokens |-> <<Word("frontend")>>, length |-> 8],
      [name |-> "frontend-proxy", tokens |-> <<Word("frontend"), Word("proxy")>>, length |-> 14],
      [name |-> "ad", tokens |-> <<Word("ad")>>, length |-> 2],
      [name |-> "load-generator", tokens |-> <<Word("load"), Word("generator")>>, length |-> 14]>>

MCCapitalsOf == [Critical |-> "critical", HIGH |-> "high"]

\* "ad" is a substring of "load-generator", "frontend" of "frontend-proxy".
MCMentions == [x \in {"ad-pod", "load-generator-pod", "frontend-proxy-pod"} |->
                  CASE x = "ad-pod" -> {"ad"}
                    [] x = "load-generator-pod" -> {"ad", "load-generator"}
                    [] x = "frontend-proxy-pod" -> {"frontend", "frontend-proxy"}]

MCParts == [s \in Services |-> IF s = "frontend-proxy" THEN {"frontend", "frontend-proxy"}
                               ELSE IF s = "load-generator" THEN {"ad", "load-generator"}
                               ELSE {s}]

-----------------------------------------------------------------------------
NoLabels == [service_name |-> None, service |-> None, job |-> None]

ProxyLatency == <<Word("frontend"), Word("proxy"), Word("high"), Word("latency")>>
LoadgeneratorDown == <<<<"load", "generator">>, Word("down")>>
NodeNotReady == <<Word("kube"), Word("node"), Word("not"), Word("ready")>>
AdFrontendSlow == <<Word("ad"), Word("frontend"), Word("slow")>>

AlertNamed(name, severity, started) ==
    [name |-> name, severity |-> severity, labels |-> NoLabels, started |-> started]

SomeAlerts ==
    {AlertNamed(ProxyLatency, "critical", 0),
     AlertNamed(ProxyLatency, "Critical", 2),
     AlertNamed(ProxyLatency, "warning", 5),
     AlertNamed(LoadgeneratorDown, None, 1),
     AlertNamed(NodeNotReady, "high", None),
     AlertNamed(AdFrontendSlow, "HIGH", 4),
     [AlertNamed(NodeNotReady, "low", 3) EXCEPT !.labels.job = "frontend-proxy"]}

MCAlertAnswers == BoundedSeq(SomeAlerts, 3)

MCRuleAnswers ==
    BoundedSeq([type : {"alerting", "recording"}, state : {"firing", "inactive"},
                alerts : {<<>>, <<0>>}], 2)

MCAlerts == {AlertNamed(ProxyLatency, "critical", 0), AlertNamed(LoadgeneratorDown, "high", 0),
             AlertNamed(NodeNotReady, "high", 0)}

-----------------------------------------------------------------------------
MCMetricAnswers == {NoData, NaN, 0, 2}

MCInvestigatedMetrics == {[q \in Queries |-> NoData], [q \in Queries |-> 2]}

MCSeriesAnswers == BoundedSeq([route : {"/", "/cart"}, value : {NaN, 1, 2}], 3)

Histories == {<<s>> : s \in BoundedSeq({0, 1, 5}, 6)} \cup {<<>>}
             \cup {<<s, t>> : s \in BoundedSeq({0, 1, NaN}, 2), t \in BoundedSeq({0, 1}, 2)}

MCRangeAnswers ==
    {[cpu |-> <<>>, memory |-> <<>>, latency |-> h, request_rate |-> <<<<1, 1>>>>] : h \in Histories}
        \cup {[cpu |-> <<>>, memory |-> h, latency |-> <<>>, request_rate |-> <<<<1, 1, 0>>>>] :
                 h \in Histories}

-----------------------------------------------------------------------------
Span(id, parents, end) == [id |-> id, parents |-> parents, start |-> 0, duration |-> end * 100]

\* Any references among three spans and one outside, and four spans below the first
MCSpanAnswers ==
    {<<>>, <<Span(1, <<1>>, 1)>>}
        \cup {[i \in 1..3 |-> Span(i, parents[i], ends[i])] :
                 parents \in [1..3 -> {<<>>, <<1>>, <<2>>, <<3>>, <<9, 1>>}], ends \in [1..3 -> 1..2]}
        \cup {[i \in 1..4 |-> Span(i, IF i = 1 THEN <<>> ELSE <<parent[i]>>, ends[i])] :
                 parent \in [2..4 -> 1..4], ends \in [1..4 -> 1..2]}

Trace(id, spans) == [id |-> id, spans |-> spans]

MCTraceAnswers ==
    BoundedSeq({Trace(t, <<Span(1, <<>>, d), Span(2, <<1>>, 1)>>) : t \in {"t1", "t2"}, d \in 0..2}, 2)

MCInvestigatedTraces ==
    {<<>>,
     <<Trace("t1", <<Span(1, <<>>, 2), Span(2, <<1>>, 1)>>)>>,
     <<Trace("t1", <<Span(1, <<2>>, 2), Span(2, <<1>>, 1)>>)>>}

-----------------------------------------------------------------------------
Pods == {[name |-> "ad-pod", phase |-> "Running", ready |-> "True", containers |-> <<1, 2>>],
         [name |-> "load-generator-pod", phase |-> "Pending", ready |-> Unset, containers |-> <<>>],
         [name |-> "frontend-proxy-pod", phase |-> "Running", ready |-> "False",
          containers |-> <<Unset, 4>>]}

MCPodAnswers == BoundedSeq(Pods, 2)

Deployments == [name : {"ad-pod", "load-generator-pod"}, desired : {Unset, 0, 2}, ready : {Unset, 2}]

MCDeploymentAnswers == BoundedSeq(Deployments, 2)

Events == {[name |-> "ad-pod", type |-> "Warning", last |-> 1, first |-> 0],
           [name |-> "load-generator-pod", type |-> "Warning", last |-> Unset, first |-> 3],
           [name |-> "frontend-proxy-pod", type |-> "Warning", last |-> 2, first |-> Unset],
           [name |-> "frontend-proxy-pod", type |-> "Normal", last |-> 4, first |-> 4],
           [name |-> "ad-pod", type |-> "Warning", last |-> Unset, first |-> Unset]}

MCEventAnswers == BoundedSeq(Events, 4)

MCInvestigatedPods == {<<>>, SetToSeq(Pods)}

MCInvestigatedDeployments == {<<[name |-> "load-generator-pod", desired |-> 2, ready |-> 0]>>}

MCInvestigatedEvents == {SetToSeq(Events)}

\* Tabulated once, not in every state
Tabulated == [a \in Agents |-> [s \in Services \cup {Unknown} |-> AgentEvidence(a, s)]]

MCEvidence(a, s) == Tabulated[a][s]

-----------------------------------------------------------------------------
Kinds == {[service |-> "frontend-proxy", status |-> "completed", created |-> 1, updated |-> 3, text |-> TRUE],
          [service |-> "frontend-proxy", status |-> "resolved", created |-> 4, updated |-> 4, text |-> FALSE],
          [service |-> "ad", status |-> "resolved", created |-> 2, updated |-> 1, text |-> TRUE],
          [service |-> "load-generator", status |-> "error", created |-> 3, updated |-> 4, text |-> TRUE],
          [service |-> NoService, status |-> "awaiting_approval", created |-> 0, updated |-> 5, text |-> TRUE],
          [service |-> "ad", status |-> "investigating", created |-> 6, updated |-> 6, text |-> FALSE]}

Numbered(s) == [i \in DOMAIN s |-> [id |-> i] @@ s[i]]

MCRegistries == {Numbered(s) : s \in BoundedSeq(Kinds, 3)}

MCPlaybookFiles == {Numbered(s) : s \in BoundedSeq([readme : BOOLEAN, text : BOOLEAN], 3)}

MCScores == {s \in [1..3 -> 0..2] : s[1] >= s[3]}
=============================================================================
