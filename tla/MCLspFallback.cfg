SPECIFICATION QuietSpec
CONSTANTS
    JobKeys <- MCJobKeys
    Unread = {}
    Concurrency = 2
    RequestsToFile = 3
    FilesToLanguage = 5
    Targets = {"t1"}
    Reply <- MCReply
INVARIANT IdenticalFilesFallBackAlike
CHECK_DEADLOCK FALSE
