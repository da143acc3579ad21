\* Fires, resolves and fires again, handled one at a time.
CONSTANTS
    Fingerprints = {f1}
    Requests = {r1, r2, r3}
    Operators = {o1}
    Threads = {t1, t2, t3}
    None = None
    MaxAlerts = 1
    MaxHandlers = 1
    MaxFaults = 0
    MaxHangs = 0
    MaxRestarts = 0
SPECIFICATION Spec
CHECK_DEADLOCK FALSE
PROPERTIES RefireIsNewIncident
