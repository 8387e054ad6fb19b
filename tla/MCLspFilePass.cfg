SPECIFICATION Spec
CONSTANTS
    JobKeys <- MCJobKeys
    Unread <- MCUnread
    Concurrency = 2
    RequestsToFile = 2
    FilesToLanguage = 2
    Targets = {"t1", "t2"}
    Reply <- MCReply
INVARIANTS
    RequestsAccounted
    HintsInJobOrder
PROPERTIES
    FallbacksCounted
    PassEnds
CHECK_DEADLOCK FALSE
