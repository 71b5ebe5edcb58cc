----------------------------- MODULE Recognizer -----------------------------
(***************************************************************************)
(* What a Guide promises to the program that generates with it: whatever   *)
(* was generated since the last reset, the ids on offer and the finished   *)
(* flag are those that the text so far determines.  The state numbers and  *)
(* the table of the Guide are not seen.                                    *)
(***************************************************************************)
EXTENDS Index

CONSTANTS
  Builds,   \* the automata and vocabularies: records with dfa and vocabulary
  MaxText   \* bound on the length of the text

VARIABLES build, text, offered, finished

vars == <<build, text, offered, finished>>

(* The text t can be continued with the token w.                           *)
Continues(b, t, w) ==
  /\ Alive(b.dfa, b.dfa.start, t \o w)
  /\ Recorded(b.dfa, After(b.dfa, b.dfa.start, t \o w))

(* The automaton matches the whole of t.                                   *)
Matches(b, t) == After(b.dfa, b.dfa.start, t) \in b.dfa.eoi

Offered(b, t) ==
  {id \in AllIds(b.vocabulary) :
     \E w \in Usable(b.vocabulary) : id \in Ids(b.vocabulary, w) /\ Continues(b, t, w)}
    \cup (IF Matches(b, t) THEN {b.vocabulary.eos} ELSE {})

Shows(b, t) == offered' = Offered(b, t) /\ finished' = Matches(b, t)

Init ==
  /\ build \in Builds
  /\ text = <<>>
  /\ offered = Offered(build, <<>>)
  /\ finished = Matches(build, <<>>)

Extend ==
  \E w \in Usable(build.vocabulary) :
    /\ Continues(build, text, w)
    /\ Len(text \o w) <= MaxText
    /\ text' = text \o w
    /\ Shows(build, text')
    /\ UNCHANGED build

Restart == text' = <<>> /\ Shows(build, <<>>) /\ UNCHANGED build

Next == Extend \/ Restart

Spec == Init /\ [][Next]_vars
=============================================================================
