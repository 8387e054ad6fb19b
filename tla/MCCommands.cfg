SPECIFICATION MCSpec
CONSTANTS
    Pages = {p}
    Runs = 3
    Strangers = 1
INVARIANTS
    ReportIsOneRuns
    ExitIsEarned
PROPERTY ScanOutputIsOneScans
CHECK_DEADLOCK FALSE
