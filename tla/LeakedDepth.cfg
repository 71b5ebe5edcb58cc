SPECIFICATION Spec
CONSTANTS
  Unbounded = Unbounded
  Other = Other
  AnyValue = AnyValue
  MaxRecursionDepth = 1
  SampleStrings = {"", "a", "b", "ab"}
  MaxDigits = 2
  Schemas <- MCNamed
CHECK_DEADLOCK FALSE
PROPERTY LimitIsOnNesting
