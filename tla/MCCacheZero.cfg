SPECIFICATION Spec
CONSTANTS
  Columns = {c1, c2}
  Managers = {m1, m2}
  Stranger = stranger
  BuiltIn = 3
  Sizes = {0, 1}
  Overrides = {0, 2}
  Unspecified = unspecified
INVARIANT Precedence
CHECK_DEADLOCK FALSE
