SPECIFICATION ScanSpec
CONSTANTS
    Entries <- MCEntries
    Hints <- MCHints
    Configs <- MCConfigs
    CoreEffects <- MCCoreEffects
    Overruns = 1
    Workspaces <- MCWorkspaces
    CodeUnits <- MCCodeUnits
    Nfc <- MCNfc
    DriveLetters <- MCDriveLetters
    Lowercase <- MCLowercase
    Digits <- MCDigits
    IdStart <- MCLowercase
    IdContinue <- MCLowercase
    LowerOf <- MCLowerOf
    Digest <- MCDigest
    Bracket <- MCBracket
    MAX_RULE_LENGTH = 7
INVARIANTS
    RootedAlike
    ClaimsAreHonoured
    LoadedIffCompatible
    WordsAccounted
    AnswersStand
    DetectedAsInTurn
    ComponentsStand
CHECK_DEADLOCK FALSE
