CONSTANTS
  Threads = {t1, t2, t3}
  Nobody = Nobody
  Calls <- MCCalls
  Eos = 0
  Maps <- MCMaps
  MaxLen = 3
SPECIFICATION Spec
INVARIANTS TypeOK BorrowsAreCalls EosReserved
PROPERTIES BuildStopsNobody CallsReturn ImplementsAtomicVocabulary
