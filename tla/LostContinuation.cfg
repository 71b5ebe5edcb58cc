CONSTANTS
  Regexes <- MCRegexes
  Dfa <- MCDfa
  CompileError <- MCCompileError
  Vocabularies <- MCVocabularies
  NoState = NoState
SPECIFICATION Spec
INVARIANT NoContinuationLost
CHECK_DEADLOCK FALSE
