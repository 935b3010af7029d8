SPECIFICATION Spec
CONSTANTS
  Programs <- FullJoinPrograms
  MaxRows = 2
  MaxColumns = 2
INVARIANTS
  NullSourcesSound
