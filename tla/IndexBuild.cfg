CONSTANTS
  Regexes <- MCRegexes
  Dfa <- MCDfa
  CompileError <- MCCompileError
  Vocabularies <- MCVocabularies
  NoState = NoState
SPECIFICATION Spec
INVARIANTS TypeOK ExploredOnce OnlyReachable EntriesSound NothingForgotten OrderIndependent
PROPERTIES Returns ImplementsIndexSpec
CHECK_DEADLOCK FALSE
