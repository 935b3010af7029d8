SPECIFICATION Spec
CONSTANTS
  Programs <- NullPrograms
  MaxRows = 2
  MaxColumns = 2
INVARIANTS
  NullSourcesSound
  GroupsSound
  ClosuresSound
  DomainsSound
  ExhaustiveCasesSound
  SuggestionsPreserve
