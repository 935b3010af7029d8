SPECIFICATION Spec
CONSTANTS
    Programs <- UndiscoveredPrograms
    NoQuery = NoQuery
    NoName = NoName
    NoMarker = NoMarker
INVARIANT NeverCrashes
CHECK_DEADLOCK FALSE
