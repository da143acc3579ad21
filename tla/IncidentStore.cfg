\* Two threads, two keys, four writes; SQLite raises and the process
\* restarts at any step, each up to twice.
CONSTANTS
    Fingerprints = {f1, f2}
    Threads = {t1, t2}
    Workers = {w1, w2}
    None = None
    MaxWrites = 4
    MaxFaults = 2
    MaxRestarts = 2
SPECIFICATION Spec
SYMMETRY Symmetric
CHECK_DEADLOCK FALSE
INVARIANTS TypeOK MemoryMatchesDisk RowsAreWhole
PROPERTIES ImplementsRegistry
