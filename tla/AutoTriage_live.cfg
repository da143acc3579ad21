\* One operator, and two notifications of up to two alerts, handled one at a time
\* (their tasks still interleave, two of one POST waiting behind one another), with
\* a restart, an error of SQLite and a call that hangs.  Liveness, so no symmetry.
CONSTANTS
    Fingerprints = {f1, f2}
    Requests = {r1, r2}
    Operators = {o1}
    Threads = {t1, t2, t3, t4}
    None = None
    MaxAlerts = 2
    MaxHandlers = 1
    MaxFaults = 1
    MaxHangs = 1
    MaxRestarts = 1
SPECIFICATION FairSpec
CHECK_DEADLOCK FALSE
INVARIANTS InvestigationIsOwed
PROPERTIES ResendKeepsIncident EveryIncidentSettles
