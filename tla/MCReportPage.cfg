SPECIFICATION ReportSpec
CONSTANTS
    Files <- MCFiles
    Names <- MCNames
    Kinds <- MCKinds
    Logics <- MCLogics
    Syntaxes <- MCSyntaxes
    Signatures <- MCSignatures
    BaseName <- MCBaseName
    LastSegment <- MCLastSegment
    NameScore <- MCNameScore
    MemberScore <- MCMemberScore
    IndexedUnder <- MCIndexedUnder
    Corresponding <- MCCorresponding
    SignatureScore <- MCSignatureScore
    Threshold <- MCThreshold
    Parts = 126
    Telling <- MCTelling
    NamesNothing <- MCNamesNothing
    Inputs <- MCInputs
    Folders <- MCFolders
    TestFiles <- MCTestFiles
    Reads <- MCReads
    PageSizes <- MCPageSizes
    MAX_DEPTH = 1
INVARIANTS
    EachSymbolOnce
    NothingPassedOver
    AbsenceIsEvidence
    DeltasAreTrue
    EdgesAccounted
    SlicesDrawnWhole
    CapHonoured
    ListedAndGated
PROPERTIES
    MatchesInStages
CHECK_DEADLOCK FALSE
