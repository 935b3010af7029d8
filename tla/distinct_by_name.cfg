SPECIFICATION Spec
CONSTANTS
  Programs <- WiderByNamePrograms
  MaxRows = 2
  MaxColumns = 2
INVARIANTS
  ClosuresSound
