SPECIFICATION Spec
CONSTANTS
    CodeUnits <- MCCodeUnits
    Nfc <- MCNfc
    DriveLetters <- MCDriveLetters
    Lowercase <- MCLowercase
    Digits = {"2"}
    IdStart <- MCIdStart
    IdContinue <- MCIdStart
    Identifiers <- MCIdentifiers
    Bracket <- MCBracket
    MAX_RULE_LENGTH = 7
    Names <- MCNames
    Workspaces <- MCWorkspaces
    Vanishes = 1
INVARIANTS
    CensusAgrees
    RulesDecide
    OneFileNotTheRun
    IdsReadBack
    OriginsAgree
CHECK_DEADLOCK FALSE
