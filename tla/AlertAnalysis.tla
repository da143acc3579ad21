---------------------------- MODULE AlertAnalysis ----------------------------
(***************************************************************************)
(* What is made of the alerts Prometheus reports: which service each is    *)
(* about, how urgent it is, where it is routed, which belong together.     *)
(*                                                                         *)
(*   ai_platform/tools/service_matching.py                                 *)
(*   ai_platform/tools/alertmanager.py, alert_agent.py                     *)
(*   ai_platform/tools/alert_correlator.py                                 *)
(*                                                                         *)
(* A name is the sequence of its tokens, a token the sequence of the words *)
(* it runs together ("LoadgeneratorDown": <<load, generator>>, <<down>>).  *)
(***************************************************************************)
EXTENDS PythonLists

CONSTANTS
    None,
    KnownServices,  \* DEFAULT_KNOWN_SERVICES: [name, tokens, length] each
    CapitalsOf,     \* severities as rules may spell them -> lower case
    Window          \* correlation_window_seconds

ASSUME KnownServicesAreListed ==
    /\ KnownServices \in Seq(ToSet(KnownServices))
    /\ \A s \in ToSet(KnownServices) : Len(s.tokens) \in Nat /\ s.length \in Nat

-----------------------------------------------------------------------------
\* Which service: service_matching.py

\* "".join(tokens), as a token
Squashed(tokens) == FlattenSeq(tokens)

IsRun(needle, haystack) ==
    /\ needle # <<>>
    /\ \E i \in 0..(Len(haystack) - Len(needle)) :
          SubSeq(haystack, i + 1, i + Len(needle)) = needle

MoreSpecific(s, t) ==
    \/ Len(s.tokens) > Len(t.tokens)
    \/ Len(s.tokens) = Len(t.tokens) /\ s.length > t.length

Refers(name, service) ==
    /\ service.tokens # <<>>
    /\ \/ IsRun(service.tokens, name)
       \/ Contains(name, Squashed(service.tokens))

\* Mutant: the first known service, not the most specific one.
MatchFirstKnown(name) ==
    LET hits == Kept(KnownServices, LAMBDA s : Refers(name, s))
    IN  IF hits = <<>> THEN None ELSE hits[1].name

MatchServiceName(name) ==
    LET ranked == SortedBy(KnownServices, MoreSpecific)
        hits   == Kept(ranked, LAMBDA s : Refers(name, s))
    IN  IF hits = <<>> THEN None ELSE hits[1].name

\* An explicit label, or else the alert's name
ServiceOf(alert) ==
    LET labels == <<alert.labels.service_name, alert.labels.service, alert.labels.job>>
        given  == Kept(labels, LAMBDA v : v # None)
    IN  IF given # <<>> THEN given[1] ELSE MatchServiceName(alert.name)

-----------------------------------------------------------------------------
\* How urgent: alertmanager.py and alert_agent.py

ActiveAlerts(answer) ==
    Mapped(answer, LAMBDA a :
        [a EXCEPT !.severity = IF a.severity = None THEN "unknown" ELSE a.severity])

Lower(severity) == IF severity \in DOMAIN CapitalsOf THEN CapitalsOf[severity] ELSE severity

\* Compared as spelled, unlike everything else
CriticalAlerts(answer) ==
    Kept(ActiveAlerts(answer), LAMBDA a : a.severity = "critical")

IsCritical(alert) == Lower(alert.severity) = "critical"

NeedsAction(alert) == Lower(alert.severity) \in {"critical", "high"}

SEVERITY_ROUTES ==
    [critical |-> "pagerduty", high |-> "slack-incidents", medium |-> "slack-alerts",
     low |-> "log-only", unknown |-> "log-only"]

\* Mutant: the severity is looked up as it is spelled.
RouteAsSpelled(alert) ==
    IF alert.severity \in DOMAIN SEVERITY_ROUTES THEN SEVERITY_ROUTES[alert.severity]
    ELSE "log-only"

\* What is in lower case already stays as it is.
ASSUME LowerCaseStays == \A severity \in DOMAIN SEVERITY_ROUTES : Lower(severity) = severity

RouteOf(alert) ==
    LET severity == Lower(alert.severity)
    IN  IF severity \in DOMAIN SEVERITY_ROUTES THEN SEVERITY_ROUTES[severity] ELSE "log-only"

\* A dict: a later alert replaces the route of an earlier one with its name
Routes(alerts) ==
    [name \in {a.name : a \in ToSet(alerts)} |->
        RouteOf(Last(Kept(alerts, LAMBDA a : a.name = name)))]

IncidentSummary(answer) ==
    LET alerts == ActiveAlerts(answer)
    IN  [total_active              |-> Len(alerts),
         critical_count            |-> Len(Kept(alerts, IsCritical)),
         requires_immediate_action |-> Len(Kept(alerts, NeedsAction)),
         routes                    |-> Routes(alerts)]

-----------------------------------------------------------------------------
\* Which belong together: alert_correlator.py

SEVERITY_RANK == [critical |-> 3, high |-> 2, medium |-> 1, low |-> 0, unknown |-> -1]

Rank(severity) == IF severity \in DOMAIN SEVERITY_RANK THEN SEVERITY_RANK[severity] ELSE -1

\* A time that does not parse sorts first, as datetime.min
Earlier(a, b) ==
    /\ b.started # None
    /\ a.started = None \/ a.started < b.started

\* Mutant: a gap of exactly the window ends a cluster.
ChainWithin(acc, alert) ==
    IF /\ acc.clusters # <<>>
       /\ alert.started # None
       /\ acc.end # None
       /\ alert.started - acc.end < Window
    THEN [clusters |-> Append(Front(acc.clusters), Append(Last(acc.clusters), alert)),
          end      |-> alert.started]
    ELSE [clusters |-> Append(acc.clusters, <<alert>>), end |-> alert.started]

\* One round of the loop of _cluster_by_time
Chain(acc, alert) ==
    IF /\ acc.clusters # <<>>
       /\ alert.started # None
       /\ acc.end # None
       /\ alert.started - acc.end <= Window
    THEN [clusters |-> Append(Front(acc.clusters), Append(Last(acc.clusters), alert)),
          end      |-> IF alert.started > acc.end THEN alert.started ELSE acc.end]
    ELSE [clusters |-> Append(acc.clusters, <<alert>>), end |-> alert.started]

ClusterByTime(alerts) ==
    LET sorted == SortedBy(alerts, Earlier)
        chained[n \in 0..Len(sorted)] ==
            IF n = 0 THEN [clusters |-> <<>>, end |-> None] ELSE Chain(chained[n - 1], sorted[n])
    IN  chained[Len(sorted)].clusters

BuildIncident(service, alerts) ==
    [service_name |-> service,
     alerts       |-> alerts,
     max_severity |-> FirstMax(Mapped(alerts, LAMBDA a : Lower(a.severity)), Rank)]

Worse(i, j) ==
    \/ Rank(i.max_severity) > Rank(j.max_severity)
    \/ Rank(i.max_severity) = Rank(j.max_severity) /\ Len(i.alerts) > Len(j.alerts)

Group(alert) == IF ServiceOf(alert) = None THEN "unknown" ELSE ServiceOf(alert)

\* The keys of by_service, in insertion order
AddKey(keys, g) == IF Contains(keys, g) THEN keys ELSE Append(keys, g)

Groups(alerts) ==
    LET keys[n \in 0..Len(alerts)] ==
            IF n = 0 THEN <<>> ELSE AddKey(keys[n - 1], Group(alerts[n]))
    IN  keys[Len(alerts)]

AlertsOf(g, alerts) == Kept(alerts, LAMBDA a : Group(a) = g)

IncidentsOf(g, alerts) ==
    Mapped(ClusterByTime(AlertsOf(g, alerts)), LAMBDA c : BuildIncident(g, c))

CorrelateAlerts(answer) ==
    LET alerts == ActiveAlerts(answer)
    IN  SortedBy(FlattenSeq(Mapped(Groups(alerts), LAMBDA g : IncidentsOf(g, alerts))), Worse)

-----------------------------------------------------------------------------
\* What those promise.

\* The service an alert is attributed to is one its name refers to, and none it
\* refers to is more specific; none is invented (match_service_name).
RightlyNamed(alert, service) ==
    LET referred == {s \in ToSet(KnownServices) : Refers(alert.name, s)}
    IN  \/ service = None /\ referred = {}
        \/ \E s \in referred :
              s.name = service /\ ~\E t \in referred : MoreSpecific(t, s)

Timed(alerts) == \A a \in ToSet(alerts) : a.started # None

\* A chain in time, of steps of at most Window; an alert without a time is alone.
IsChain(alerts) ==
    IF Timed(alerts)
    THEN \A k \in 1..(Len(alerts) - 1) : alerts[k + 1].started - alerts[k].started \in 0..Window
    ELSE Len(alerts) = 1

\* No chain goes from one to the other.
Apart(alerts, others) ==
    Timed(alerts) /\ Timed(others) =>
        \A a \in ToSet(alerts), b \in ToSet(others) :
            a.started - b.started > Window \/ b.started - a.started > Window

Occurrences(a, alerts) == Len(Kept(alerts, LAMBDA b : b = a))

\* The incidents split the alerts: none is lost or repeated, each incident is one
\* service's chain of alerts at most Window apart, and two incidents of a service
\* that could have been chained are not left apart (correlate_alerts).
Partitions(incidents, alerts) ==
    LET members == FlattenSeq(Mapped(incidents, LAMBDA i : i.alerts))
    IN  /\ \A a \in ToSet(alerts) \cup ToSet(members) :
              Occurrences(a, members) = Occurrences(a, alerts)
        /\ \A n \in DOMAIN incidents :
              LET i == incidents[n]
              IN  /\ \A a \in ToSet(i.alerts) :
                        Group(a) = i.service_name /\ Rank(Lower(a.severity)) <= Rank(i.max_severity)
                  /\ IsChain(i.alerts)
                  /\ \A m \in DOMAIN incidents \ {n} :
                        i.service_name = incidents[m].service_name =>
                            Apart(i.alerts, incidents[m].alerts)
=============================================================================
