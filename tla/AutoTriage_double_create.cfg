\* Two copies of one notification, handled at the same time.
CONSTANTS
    Fingerprints = {f1}
    Requests = {r1, r2}
    Operators = {o1}
    Threads = {t1, t2}
    None = None
    MaxAlerts = 1
    MaxHandlers = 2
    MaxFaults = 0
    MaxHangs = 0
    MaxRestarts = 0
SPECIFICATION Spec
CHECK_DEADLOCK FALSE
PROPERTIES ResendKeepsIncident
