SPECIFICATION Spec
CONSTANTS
  Programs <- ByNamePrograms
  MaxRows = 2
  MaxColumns = 2
INVARIANTS
  CoverageSound
