SPECIFICATION ReportSpec
CONSTANTS
    Files <- MCFiles
    Names <- MCNames
    Kinds <- MCKinds
    Logics <- MCLogics
    Syntaxes <- MCSyntaxes
    Signatures <- MCSignatures
    BaseName <- MCBaseName
    LastSegment <- MCLastSegment
    NameScore <- MCNameScore
    MemberScore <- MCMemberScore
    IndexedUnder <- MCIndexedUnder
    Corresponding <- MCCorresponding
    SignatureScore <- MCSignatureScore
    Threshold <- MCThreshold
    Parts = 126
    Telling <- MCTelling
    NamesNothing <- MCNamesNothing
    Inputs <- EdgeInputs
    Folders <- MCFolders
    TestFiles <- MCTestFiles
    Reads <- MCReads
    PageSizes <- MCPageSizes
    MAX_DEPTH = 1
INVARIANTS
    CallersAreChanges
CHECK_DEADLOCK FALSE
