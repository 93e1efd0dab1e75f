SPECIFICATION FactorySpec
CONSTANTS
  Columns = {c1, c2, c3}
  Managers = {m1, m2}
  Stranger = stranger
  BuiltIn = 3
  Sizes = {0, 1}
  Overrides = {1, 2}
  Unspecified = unspecified
  Names <- MCNames
  Requests <- MCRequests
  SizedRequests <- MCSized
  MaxRequests = 3
INVARIANTS LinksResolve AsDescribed NothingElseTouched Precedence
CHECK_DEADLOCK FALSE
