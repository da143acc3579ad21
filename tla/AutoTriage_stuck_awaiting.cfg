\* One notification and one operator, nothing concurrent.
CONSTANTS
    Fingerprints = {f1}
    Requests = {r1}
    Operators = {o1}
    Threads = {t1}
    None = None
    MaxAlerts = 1
    MaxHandlers = 1
    MaxFaults = 0
    MaxHangs = 0
    MaxRestarts = 0
SPECIFICATION Spec
CHECK_DEADLOCK FALSE
INVARIANTS AwaitingIsAnswerable
