----------------------------- MODULE Automaton -----------------------------
(***************************************************************************)
(* The byte automaton that Index::new walks (src/src/index.rs): the dense  *)
(* DFA of the regex-automata crate, which is not in the repository.  It is *)
(* modelled from the six calls index.rs makes on it: universal_start_state,*)
(* next_state, next_eoi_state, is_dead_state, is_quit_state and            *)
(* is_match_state.  This module fixes what such a table is and what it     *)
(* means to run it over a word; module Determinize builds tables.          *)
(***************************************************************************)
EXTENDS Integers, Sequences

(* An automaton d is a record:                                             *)
(*   states, bytes  the state identifiers and the byte alphabet            *)
(*   start          universal_start_state(Anchored::Yes)                   *)
(*   next           next_state, total on states \X bytes                   *)
(*   stuck          the states that are dead or quit                       *)
(*   match          the states for which is_match_state holds              *)
(*   eoi            the states s with is_match_state(next_eoi_state(s))    *)
Stuck(d) == d.stuck

IsAutomaton(d) ==
  /\ d.start \in d.states
  /\ d.next \in [d.states \X d.bytes -> d.states]
  /\ d.stuck \subseteq d.states
  /\ d.match \subseteq d.states
  /\ d.eoi \subseteq d.states

(* The states visited from s over the word w, the k-th after k bytes.      *)
Run(d, s, w) ==
  LET r[k \in 0..Len(w)] == IF k = 0 THEN s ELSE d.next[<<r[k-1], w[k]>>]
  IN  r

(* The run meets no dead and no quit state: the byte loop of Index::new    *)
(* gets through the whole word.                                            *)
Alive(d, s, w) == \A k \in 1..Len(w) : Run(d, s, w)[k] \notin Stuck(d)

After(d, s, w) == Run(d, s, w)[Len(w)]
=============================================================================
