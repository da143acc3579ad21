\* One notification, one restart.
CONSTANTS
    Fingerprints = {f1}
    Requests = {r1}
    Operators = {o1}
    Threads = {t1}
    None = None
    MaxAlerts = 1
    MaxHandlers = 1
    MaxFaults = 0
    MaxHangs = 0
    MaxRestarts = 1
SPECIFICATION FairSpec
CHECK_DEADLOCK FALSE
PROPERTIES EveryIncidentIsInvestigated
