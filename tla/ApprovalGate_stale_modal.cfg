\* One browser, one call at a time.
CONSTANTS
    Browsers = {b1}
    Responder = responder
    Proposals = {p1, p2}
    None = None
    MaxAttempts = 1
    MaxConcurrent = 1
    MaxCalls = 5
    MaxRestarts = 0
SPECIFICATION Spec
CHECK_DEADLOCK FALSE
INVARIANTS WriteWasSeen
