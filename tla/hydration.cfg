SPECIFICATION Spec
CONSTANTS
    Paths <- MCPaths
    SessionPath <- MCSessionPath
    Programs <- MCPrograms
    Catalogs <- MCCatalogs
    Entries <- MCEntries
    MaxChanges = 1
INVARIANTS TypeOK UnavailableReported AnsweredInScope BindTotal
PROPERTIES Implements Terminates
CHECK_DEADLOCK FALSE
