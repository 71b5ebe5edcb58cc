------------------------------ MODULE MCGuide ------------------------------
(* Values of the constants of Guide for TLC.                               *)
EXTENDS Guide, Examples

BuildOf(e, bytes, v) ==
  LET d == DfaOf(e, bytes)
  IN  [expression |-> e, dfa |-> d, vocabulary |-> v, index |-> IndexOf(d, v)]

AllBuilds ==
  { BuildOf(Number, MCBytes, AllBytes), BuildOf(OptionalTail, MCBytes, AllBytes),
    BuildOf(Prefixed, MCBytes, AllBytes), BuildOf(Loop, MCBytes, AllBytes),
    BuildOf(Number, MCBytes, TestVocabulary),
    BuildOf(OptionalTail, MCBytes, WithEmptyToken),
    BuildOf(Fenced, FencedBytes, FencedVocabulary),
    BuildOf(Multibyte, MultibyteBytes, MultibyteVocabulary) }

(* A LET, so that the coverage of TLC does not report on it at each use.   *)
MCBuilds == LET built == AllBuilds IN built

(* When the guide says it is finished, the text matches the expression, by *)
(* the meaning of the expression and not by the automaton.                 *)
FinishedTextMatches == is_finished(state) => FullMatch(build.expression, text)
=============================================================================
