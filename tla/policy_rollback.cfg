CONSTANTS
  DraftName = {d1}
  Default = v0
  Person = {p1, p2}
  Override = co
  MaxPolicies = 3
SPECIFICATION PolicySpec
INVARIANT RulesWereVetted
CHECK_DEADLOCK FALSE
