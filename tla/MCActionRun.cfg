SPECIFICATION Spec
CONSTANTS
    Commits <- MCCommits
    Parents <- MCParents
    Missing = "missing"
    Runs = {1, 2}
    FirstRun = 1
    Report <- MCReport
    SomeClones <- MCClones
    Starts <- MCStarts
    PER_PAGE = 2
    Theirs <- MCTheirs
    Meddlings = 2
INVARIANTS
    GreenHasSaidIt
    RefspecIsThePullRequest
PROPERTY OneOwnComment
CHECK_DEADLOCK FALSE
