---------------------------- MODULE ServiceMetrics ---------------------------
(***************************************************************************)
(* What is made of Prometheus's numbers: the snapshot of a service and the *)
(* anomalies in its recent history.                                        *)
(*                                                                         *)
(*   ai_platform/tools/prometheus_http_client.py                           *)
(*   ai_platform/tools/metrics_agent.py, anomaly_detector.py               *)
(*                                                                         *)
(* Values are integers or NaN; an instant answer of no series is NoData.   *)
(***************************************************************************)
EXTENDS PythonLists

CONSTANTS
    NoData,
    NaN,
    Threshold       \* z_score_threshold

\* Rates of no series are 0; a container without series is unknown.
Rate(answer) == IF answer = NoData THEN 0 ELSE answer

Latency(answer) == IF answer \in {NoData, NaN} THEN 0 ELSE answer

\* errors / total, of two queries; NaN > 0 is false
ErrorRate(total, errors) ==
    IF Rate(total) # NaN /\ Rate(total) > 0
    THEN [errors |-> Rate(errors), of |-> Rate(total)]
    ELSE [errors |-> 0, of |-> 1]

\* get_service_summary(): six queries, one after another
ServiceSummary(answers) ==
    [request_rate |-> Rate(answers.rate),
     error_rate   |-> ErrorRate(answers.total, answers.errors),
     latency_p95  |-> Latency(answers.latency),
     cpu          |-> answers.cpu,
     memory       |-> answers.memory]

\* A dict by route: routes without a label share one key, and the last one wins.
LatencyByRoute(series) ==
    [route \in {s.route : s \in ToSet(series)} |->
        Latency(Last(Kept(series, LAMBDA s : s.route = route)).value)]

-----------------------------------------------------------------------------
\* All series one after another, as _detect_for_query reads them.
Points(answer) == Kept(FlattenSeq(answer), LAMBDA v : v # NaN)

Squares(s) == Mapped(s, LAMBDA v : v * v)

\* Mutant: no special case for a baseline that never moves.
DeviatesFromSpread(baseline, current) ==
    LET n == Len(baseline)
        S == Total(baseline)
        spread == n * Total(Squares(baseline)) - S * S
        gap    == n * current - S
    IN  gap * gap >= Threshold * Threshold * spread

\* |current - mean| >= Threshold * stddev over n points of sum S and squares Q,
\* times n: no division.  A flat baseline makes any deviation anomalous.
Deviates(baseline, current) ==
    LET n == Len(baseline)
        S == Total(baseline)
        spread == n * Total(Squares(baseline)) - S * S
        gap    == n * current - S
    IN  IF spread > 0 THEN gap * gap >= Threshold * Threshold * spread
        ELSE gap # 0

\* The last point against every earlier one
DetectForQuery(answer) ==
    LET points == Points(answer)
    IN  IF Len(points) < 2 THEN [is_anomaly |-> FALSE, sample_size |-> Len(points)]
        ELSE [is_anomaly  |-> Deviates(Front(points), Last(points)),
              sample_size |-> Len(points) - 1]

ScanService(answers) ==
    LET checks == [check \in DOMAIN answers |-> DetectForQuery(answers[check])]
    IN  [checks      |-> checks,
         has_anomaly |-> \E check \in DOMAIN checks : checks[check].is_anomaly]

-----------------------------------------------------------------------------
\* What deviates is new: a metric that never moved is not flagged until it moves, and
\* is as soon as it does; in a history of at most Threshold^2 points a value that was
\* seen before is not flagged (AnomalyDetector._detect_for_query; beyond that many
\* points a second spike as high as the first is).
FlagsOnlyNews(answer, verdict) ==
    LET points == Points(answer)
        before == ToSet(Front(points))
    IN  /\ Len(points) < 2 => ~verdict.is_anomaly
        /\ Len(points) >= 2 /\ Cardinality(before) = 1 =>
              (verdict.is_anomaly <=> Last(points) \notin before)
        /\ Len(points) - 1 \in 1..(Threshold * Threshold) /\ Last(points) \in before =>
              ~verdict.is_anomaly
=============================================================================
