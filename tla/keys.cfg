SPECIFICATION Spec
CONSTANTS
  Programs <- KeyPrograms
  MaxRows = 2
  MaxColumns = 2
INVARIANTS
  ClosuresSound
  JoinFactsSound
  MinimalKeysSound
  CoverageSound
