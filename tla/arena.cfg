SPECIFICATION Spec
CONSTANTS
  Key <- MCKey
  Callees <- MCCallees
  Subject <- MCSubject
  NoRelation = "no relation"
  StratumOf <- MCStratum
  Rule <- MCRule
  Acceptable <- MCAcceptable
  Height <- MCHeight
  Level <- MCLevel
INVARIANTS
  TypeOK
  NoInternalError
  CacheConsistent
