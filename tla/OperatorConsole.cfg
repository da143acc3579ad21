\* One session and two alerts; the page may have a request and a poll under way, and
\* one of what MaxEvents bounds may happen.  Liveness, so no symmetry.
CONSTANTS
    Slots = {r1}
    Polls = {p1}
    Sessions = {session}
    None = None
    NumIncidents = 2
    MaxCopilots = 2
    MaxProposals = 2
    MaxEvents = 1
SPECIFICATION FairSpec
INVARIANTS TypeOK PageShowsItsThread PendingIsStillPaused
PROPERTIES AbandonedIsNeverDecided AwaitingComesUp
CHECK_DEADLOCK FALSE
