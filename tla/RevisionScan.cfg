\* Two lines of log to each scan and a pluginOptions line both sides would say, on a machine that
\* may or may not scan in parallel, with up to two fatal signals at any point.
SPECIFICATION Spec
CONSTANTS
    BaseLines = 2
    HeadLines = 2
    Stray = TRUE
INVARIANTS
    NothingLeftBehind
PROPERTIES
    AsInTurn
    RunEnds
CHECK_DEADLOCK FALSE
