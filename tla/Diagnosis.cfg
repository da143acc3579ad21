\* The copilot's tools over every combination of small answers, and investigations
\* over a few.
CONSTANTS
    Alerts <- MCAlerts
    Services = {"frontend", "frontend-proxy", "load-generator", "ad"}
    Unknown = Unknown
    Named <- ExtractServiceName
    Evidence <- MCEvidence
    Compact <- JoinedEvidence
    Waiting = Waiting
    Nothing = Nothing
    Failed = Failed
    Stuck = Stuck
    Attempts = 3
    None = None
    KnownServices <- MCKnownServices
    CapitalsOf <- MCCapitalsOf
    Window = 2
    NoParent = NoParent
    Endless = Endless
    Unset = Unset
    RestartLimit = 3
    Mentions <- MCMentions
    NoData = NoData
    NaN = NaN
    Threshold = 2
    NoService = NoService
    Parts <- MCParts
    DayLength = 2
    AlertAnswers <- MCAlertAnswers
    RuleAnswers <- MCRuleAnswers
    MetricAnswers <- MCMetricAnswers
    SeriesAnswers <- MCSeriesAnswers
    RangeAnswers <- MCRangeAnswers
    TraceAnswers <- MCTraceAnswers
    SpanAnswers <- MCSpanAnswers
    NotFound = NotFound
    PodAnswers <- MCPodAnswers
    DeploymentAnswers <- MCDeploymentAnswers
    EventAnswers <- MCEventAnswers
    LogAnswers = {"log", "none"}
    Registries <- MCRegistries
    PlaybookFiles <- MCPlaybookFiles
    Scores <- MCScores
    InvestigatedMetrics <- MCInvestigatedMetrics
    InvestigatedTraces <- MCInvestigatedTraces
    InvestigatedPods <- MCInvestigatedPods
    InvestigatedDeployments <- MCInvestigatedDeployments
    InvestigatedEvents <- MCInvestigatedEvents
    Limits = {1, 2}
    Now = 6
    Error = Error
SPECIFICATION FairCopilotSpec
INVARIANTS TypeOK GapsAreAccounted AskedOftenEnough AlertsAreRightlyNamed
    IncidentsPartitionAlerts UrgentAlertsArePaged PathIsCritical WarningsAreNotLost
    AnomaliesAreNews SearchShowsTheBest HubAgrees
 
