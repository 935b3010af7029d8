SPECIFICATION Spec
CONSTANTS
  Relation <- MCRelation
  RowIdentity <- MCRowIdentity
  RowAttributes <- MCRowAttributes
  Dependencies <- MCDependencies
  Delegations <- MCDelegations
  AlwaysNonNull <- MCAlwaysNonNull
  InputClosure <- TableClosure
  Calls <- MCCalls
INVARIANTS
  TypeOK
  CountersExact
  WorklistInv
  ReturnsClosed
  NothingInvented
  AskingMoreGetsMore
PROPERTIES
  PoppedForGood
  Returns
  Implements
CHECK_DEADLOCK FALSE
