SPECIFICATION Spec
CONSTANTS
  Key <- MCKey
  Callees <- MCCallees
  Subject <- MCSubject
  NoRelation = "no relation"
  StratumOf <- MCStratum
  Rule <- MCRule
  Acceptable = {"high", "mutual"}
INVARIANTS
  StacksAgree
  OnlyAllowedRun
PROPERTY Terminates
