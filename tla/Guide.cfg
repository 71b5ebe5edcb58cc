CONSTANTS
  Builds <- MCBuilds
  MaxText = 5
SPECIFICATION Spec
INVARIANTS TypeOK FollowsText NeverStranded FinishedTextMatches
PROPERTIES ErrorKeepsPlace ImplementsRecognizer
