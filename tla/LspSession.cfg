\* Three languages, the second without a server entry, so two servers run and the first one's
\* shutdown may go on behind the second's session. Two ticks make a grace period: a step can end at
\* once, late, or not at all.
SPECIFICATION Spec
CONSTANTS
    Languages = 3
    Configured = {1, 3}
    Grace = 2
INVARIANTS
    ServerAccountedFor
PROPERTY EveryServerStopped
CHECK_DEADLOCK FALSE
