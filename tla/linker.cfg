SPECIFICATION Spec
CONSTANTS
    Programs <- LinkedPrograms
    NoQuery = NoQuery
    NoName = NoName
    NoMarker = NoMarker
INVARIANTS
    TypeOK Lexical Accounted OrderKept CyclesReported StarsResolve CrashesExplained
PROPERTIES
    Implements Converts
CHECK_DEADLOCK FALSE
