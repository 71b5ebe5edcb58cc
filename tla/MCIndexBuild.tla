---------------------------- MODULE MCIndexBuild ----------------------------
(* Values of the constants of IndexBuild for TLC.                          *)
EXTENDS IndexBuild, Examples

(* TLC evaluates Tables once; a definition that a cfg puts in place of a   *)
(* constant it evaluates at every use, and its coverage reports on it at   *)
(* every use unless it is a LET.                                           *)
Tables ==
  ("number" :> DfaOf(Number, MCBytes)) @@ ("optional" :> DfaOf(OptionalTail, MCBytes))
    @@ ("prefixed" :> DfaOf(Prefixed, MCBytes)) @@ ("loop" :> DfaOf(Loop, MCBytes))

MCDfa == LET d == Tables IN d

(* "unparsable" stands for (, "anchored" for ^a                            *)
MCCompileError ==
  [r \in {"unparsable", "anchored"} |->
     IF r = "unparsable" THEN "IndexDfaError" ELSE "DfaHasNoStartState"]

MCRegexes == DOMAIN Tables \cup DOMAIN MCCompileError

MCVocabularies == {TestVocabulary, Letters, Odd}

(* The table that the test at src/src/index.rs:245 expects, its states 40, *)
(* 48, 56 and 24 named by the text that leads to them.                     *)
ASSUME TestTable ==
  LET d    == Tables["number"]
      i    == IndexOf(d, TestVocabulary)
      At(w) == After(d, d.start, w)
      s40 == d.start  s48 == At(<<zero>>)  s56 == At(<<one>>)  s24 == At(<<one, one>>)
  IN  /\ Cardinality({s40, s48, s56, s24}) = 4
      /\ i.final_states = {s24, s48, s56}
      /\ i.transitions =
           (<<s24, 3>> :> s24) @@ (<<s24, 4>> :> s24) @@ (<<s24, 2>> :> s24)
             @@ (<<s48, 4>> :> s48) @@ (<<s40, 3>> :> s48) @@ (<<s40, 2>> :> s56)
             @@ (<<s56, 3>> :> s24) @@ (<<s56, 4>> :> s56) @@ (<<s56, 2>> :> s24)

(* The table that the test at src/src/index.rs:305 expects, its states 80, *)
(* 128, 192 and 208 named by the text that leads to them.                  *)
ASSUME MultibyteTestTable ==
  LET d    == DfaOf(Multibyte, MultibyteBytes)
      i    == IndexOf(d, MultibyteVocabulary)
      At(w) == After(d, d.start, w)
      s80  == d.start
      s128 == At(<<240, 135>>)
      s192 == At(<<32, 240>>)
      s208 == At(<<32, 240, 141>>)
  IN  /\ Cardinality({s80, s128, s192, s208}) = 4
      /\ i.final_states = {s208, s128}
      /\ i.transitions =
           (<<s208, 3>> :> s208) @@ (<<s208, 8>> :> s208) @@ (<<s208, 4>> :> s208)
             @@ (<<s208, 2>> :> s208) @@ (<<s80, 2>> :> s128) @@ (<<s80, 7>> :> s192)
             @@ (<<s80, 5>> :> s208) @@ (<<s80, 6>> :> s208) @@ (<<s128, 8>> :> s128)
=============================================================================
