\* Two browsers and the responder, two calls at a time, three calls in all, a
\* restart; liveness is checked, so no symmetry.
CONSTANTS
    Browsers = {b1, b2}
    Responder = responder
    Proposals = {p1, p2}
    None = None
    MaxAttempts = 2
    MaxConcurrent = 2
    MaxCalls = 3
    MaxRestarts = 1
SPECIFICATION FairSpec
CHECK_DEADLOCK FALSE
INVARIANTS TypeOK WriteNeedsApproval WritesAreBounded
PROPERTIES AppliedOnce EveryCallReturns
