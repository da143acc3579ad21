\* One operator, and three notifications of one alert each, two handled at a time:
\* enough for an alert to fire, resolve and fire again beside another, with a
\* restart, an error of SQLite and a call that hangs.
CONSTANTS
    Fingerprints = {f1, f2}
    Requests = {r1, r2, r3}
    Operators = {o1}
    Threads = {t1, t2, t3}
    None = None
    MaxAlerts = 1
    MaxHandlers = 2
    MaxFaults = 1
    MaxHangs = 1
    MaxRestarts = 1
SPECIFICATION Spec
SYMMETRY Symmetric
CHECK_DEADLOCK FALSE
INVARIANTS TypeOK StatusMatchesOutcome ThreadNamesOneIncident InvestigationIsOwed
