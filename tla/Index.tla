------------------------------- MODULE Index -------------------------------
(***************************************************************************)
(* What Index::new (src/src/index.rs) computes, stated without the loop    *)
(* that computes it: the table a vocabulary and an automaton determine.    *)
(*                                                                         *)
(* An index is a record with the fields of struct Index.  Its HashMap of   *)
(* HashMaps is one partial function on <<state, id>> pairs: the code       *)
(* creates a row only to put an entry into it, so no row is empty.         *)
(***************************************************************************)
EXTENDS Automaton, Vocabulary

----------------------------------------------------------------------------
(* The table *)

(* Mutant: only states that match at the end of the input.                 *)
RecordedFull(d, q) == q \in d.eoi

(* A token is entered in the table when the state it leads to reports no   *)
(* match (intermediate) or matches at the end of the input.                *)
Recorded(d, q) == q \notin d.match \/ q \in d.eoi

Walks(d, v, s) == {w \in Usable(v) : Alive(d, s, w)}

Successors(d, v, s) == {After(d, s, w) : w \in Walks(d, v, s)}

(* Every set of states that holds the start and the successors of each of  *)
(* its members.                                                            *)
ClosedSets(d, v) ==
  LET succ == {<<s, Successors(d, v, s)>> : s \in d.states}
  IN  {C \in SUBSET d.states :
         d.start \in C /\ \A p \in succ : p[1] \in C => p[2] \subseteq C}

Reachable(d, v) ==
  LET closed == ClosedSets(d, v)
  IN  {s \in d.states : \A C \in closed : s \in C}

(* The states that id may lead to from s: one for each token that has the  *)
(* id, survives its bytes and ends in a state that is recorded.            *)
Targets(d, v, s, id) ==
  {After(d, s, w) : w \in
     {u \in Walks(d, v, s) : id \in Ids(v, u) /\ Recorded(d, After(d, s, u))}}

Entries(d, v, reach) ==
  {p \in reach \X AllIds(v) : Targets(d, v, p[1], p[2]) # {}}
    \cup {<<s, v.eos>> : s \in reach \cap d.eoi}

IsIndex(d, v, i) ==
  LET reach == Reachable(d, v) IN
  /\ i.initial_state = d.start
  /\ i.final_states = reach \cap d.eoi
  /\ i.eos_token_id = v.eos
  /\ i.vocab_size = VocabLen(v)
  /\ i.transitions \in [Entries(d, v, reach) -> d.states]
  /\ \A p \in DOMAIN i.transitions :
        IF p[2] = v.eos THEN i.transitions[p] = p[1]
                        ELSE i.transitions[p] \in Targets(d, v, p[1], p[2])

(* The one index there is when no id names two tokens.                     *)
IndexOf(d, v) ==
  LET reach == Reachable(d, v) IN
  [ initial_state |-> d.start,
    final_states  |-> reach \cap d.eoi,
    eos_token_id  |-> v.eos,
    vocab_size    |-> VocabLen(v),
    transitions   |-> [p \in Entries(d, v, reach) |->
                         IF p[2] = v.eos THEN p[1]
                         ELSE CHOOSE q \in Targets(d, v, p[1], p[2]) : TRUE] ]

----------------------------------------------------------------------------
(* The methods of Index.  None is modelled by the empty set.               *)

(* Mutant: the EOS id is not listed.                                       *)
AllowedTokensNoEos(i, s) ==
  {p[2] : p \in {e \in DOMAIN i.transitions : e[1] = s /\ e[2] # i.eos_token_id}}

AllowedTokens(i, s) == {p[2] : p \in {e \in DOMAIN i.transitions : e[1] = s}}

IsFinalState(i, s) == s \in i.final_states

NextStates(i, s, id) ==
  IF id = i.eos_token_id \/ <<s, id>> \notin DOMAIN i.transitions
  THEN {} ELSE {i.transitions[<<s, id>>]}
=============================================================================
