SPECIFICATION Spec
CONSTANTS
    Symbols <- MCSymbols
    Imports <- MCImports
    Hints <- MCHints
    Sites <- MCSites
    Parameters <- MCParameters
    Dynamic <- MCDynamic
    Extensions <- MCExtensions
INVARIANTS
    ResolvedSoundly
CHECK_DEADLOCK FALSE
