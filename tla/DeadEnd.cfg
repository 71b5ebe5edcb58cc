CONSTANTS
  Builds <- MCBuilds
  MaxText = 5
SPECIFICATION Spec
INVARIANT NoneNeverHappens
