\* Two requests of the page at once, beside its poll: two messages, or a message and a
\* decision, answered in any order; and one incident.
CONSTANTS
    Slots = {r1, r2}
    Polls = {p1}
    Sessions = {session}
    None = None
    NumIncidents = 1
    MaxCopilots = 1
    MaxProposals = 2
    MaxEvents = 2
SPECIFICATION FairSpec
INVARIANTS PageShowsItsThread PendingIsStillPaused
PROPERTIES SendingEnds
CHECK_DEADLOCK FALSE
