SPECIFICATION Spec
CONSTANTS
  Unbounded = Unbounded
  Other = Other
  AnyValue = AnyValue
  MaxRecursionDepth = 1
  SampleStrings = {"", "a", "b", "ab"}
  MaxDigits = 2
  Schemas <- MCSchemas
INVARIANTS TypeOK NestingBounded DepthCountsOpenRefs PatternMeansSchema
PROPERTIES RefusedOnlyWhenNested Returns
CHECK_DEADLOCK FALSE
