----------------------------- MODULE IndexSpec -----------------------------
(***************************************************************************)
(* What a caller of Index::new may rely on: the call returns once, with    *)
(* the error of an expression that has no usable automaton, or with an     *)
(* index of the automaton over the vocabulary.  Which one, when an id      *)
(* names two tokens, is left open.                                         *)
(***************************************************************************)
EXTENDS Index

CONSTANTS Regexes, Dfa, CompileError, Vocabularies

VARIABLES regex, vocabulary, result

vars == <<regex, vocabulary, result>>

IsResult(r) ==
  IF regex \in DOMAIN Dfa
  THEN r.tag = "ok" /\ IsIndex(Dfa[regex], vocabulary, r.index)
  ELSE r = [tag |-> "err", error |-> CompileError[regex]]

Init ==
  /\ regex \in Regexes
  /\ vocabulary \in Vocabularies
  /\ result = [tag |-> "pending"]

Return ==
  /\ result = [tag |-> "pending"]
  /\ IsResult(result')
  /\ UNCHANGED <<regex, vocabulary>>

Spec == Init /\ [][Return]_vars
=============================================================================
