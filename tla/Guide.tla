------------------------------- MODULE Guide -------------------------------
(***************************************************************************)
(* PyGuide (src/src/python_bindings/mod.rs): a state of an index that the  *)
(* generating program moves with the ids it samples.  The index is behind  *)
(* an Arc and never changes.  text is a history variable: the bytes of the *)
(* tokens accepted since the last reset.                                   *)
(***************************************************************************)
EXTENDS Index

CONSTANTS
  Builds,   \* records [dfa, vocabulary, index]: indexes Index::new returned
  MaxText   \* bound on the length of the text

(* Index::new built the index, and an id stands for one token only: without*)
(* that a sampled id has no one text.                                      *)
ASSUME BuildsAssumption ==
  \A b \in Builds :
    /\ IsAutomaton(b.dfa)
    /\ Tokens(b.vocabulary) \subseteq Seq(b.dfa.bytes)
    /\ UniqueIds(b.vocabulary)
    /\ IsIndex(b.dfa, b.vocabulary, b.index)

ASSUME MaxTextAssumption == MaxText \in Nat

VARIABLES
  build,   \* the index the guide was made with
  state,   \* PyGuide.state
  text,    \* history: what was generated
  reply    \* what the last call returned

vars == <<build, state, text, reply>>

index == build.index

Refused    == [tag |-> "ValueError"]
None       == [tag |-> "None"]
Listed(S)  == [tag |-> "tokens", tokens |-> S]

(* Mutant: the states a row leads to for the ids it holds.                 *)
get_tokens_values(s) ==
  Listed({index.transitions[p] : p \in {e \in DOMAIN index.transitions : e[1] = s}})

(* get_tokens: an error for a state without a row.                         *)
get_tokens(s) ==
  IF AllowedTokens(index, s) = {} THEN Refused ELSE Listed(AllowedTokens(index, s))

is_finished(s) == IsFinalState(index, s)

TokenOf(id) == CHOOSE w \in Tokens(build.vocabulary) : id \in Ids(build.vocabulary, w)

Init ==
  /\ build \in Builds
  /\ state = build.index.initial_state
  /\ text = <<>>
  /\ reply = None

(* advance(token_id, return_tokens) with an id that leads on.  The state   *)
(* moves before get_tokens is asked, and stays moved when it fails.        *)
AdvanceMoving(id, return_tokens, moves) ==
  /\ NextStates(index, state, id) # {}
  /\ Len(text \o TokenOf(id)) <= MaxText
  /\ IF moves THEN state' \in NextStates(index, state, id) ELSE state' = state
  /\ text' = text \o TokenOf(id)
  /\ reply' = IF return_tokens THEN get_tokens(state') ELSE None
  /\ UNCHANGED build

(* Mutant: the guide moves only when tokens are asked for.                 *)
AdvanceLazily(id, return_tokens) == AdvanceMoving(id, return_tokens, return_tokens)

Advance(id, return_tokens) == AdvanceMoving(id, return_tokens, TRUE)

(* advance with an id that leads nowhere, the EOS id among them.           *)
RefuseAt(id, s) ==
  /\ NextStates(index, state, id) = {}
  /\ state' = s
  /\ reply' = Refused
  /\ UNCHANGED <<build, text>>

(* Mutant: a refused id throws the guide back to the start.                *)
AdvanceRefusedAtStart(id) == RefuseAt(id, index.initial_state)

AdvanceRefused(id) == RefuseAt(id, state)

ResetTo(s) ==
  /\ state' = s
  /\ text' = <<>>
  /\ reply' = None
  /\ UNCHANGED build

(* Mutant: the state is not reset.                                         *)
ResetNothing == ResetTo(state)

Reset == ResetTo(index.initial_state)

Next ==
  \/ \E id \in AllIds(build.vocabulary) :
       \/ \E return_tokens \in BOOLEAN : Advance(id, return_tokens)
       \/ AdvanceRefused(id)
  \/ Reset

Spec == Init /\ [][Next]_vars

----------------------------------------------------------------------------
(* Properties *)

(* Type invariant.                                                         *)
TypeOK ==
  /\ build \in Builds
  /\ state \in build.dfa.states
  /\ text \in Seq(build.dfa.bytes) /\ Len(text) <= MaxText
  /\ \/ reply \in {Refused, None}
     \/ reply.tag = "tokens" /\ reply.tokens \subseteq AllIds(build.vocabulary)

(* The guide never loses its place: its state is the one the automaton     *)
(* reaches over the bytes generated since the last reset, through no dead  *)
(* state, whatever calls were refused in between.                          *)
FollowsText ==
  /\ Alive(build.dfa, build.dfa.start, text)
  /\ state = After(build.dfa, build.dfa.start, text)
  /\ state \in Reachable(build.dfa, build.vocabulary)

(* A call that raises ValueError leaves the guide where it was, except for *)
(* an advance into a state without tokens: that error comes after the      *)
(* move, and there every further id is refused until reset.                *)
ErrorKeepsPlace ==
  [][ reply' = Refused /\ state' # state
        => \A id \in AllIds(build.vocabulary) : NextStates(index, state', id) = {} ]_vars

(* Every byte is a token of its own.                                       *)
ByteComplete(b) ==
  \A x \in b.dfa.bytes : <<x>> \in Usable(b.vocabulary) /\ Ids(b.vocabulary, <<x>>) # {}

(* The guide can be taken from s to a final state: every set of states     *)
(* closed under the index's transitions that holds s holds a final one.    *)
CanFinish(s) ==
  \A C \in SUBSET build.dfa.states :
    s \in C /\ (\A p \in DOMAIN index.transitions : p[1] \in C => index.transitions[p] \in C)
      => C \cap index.final_states # {}

(* A match is reported with the byte behind it, as the crate's tables do   *)
(* but for assertions that look at that byte.                              *)
MatchesLate(d) ==
  /\ d.start \notin d.match
  /\ \A s \in d.states, x \in d.bytes : d.next[<<s, x>>] \in d.match => s \in d.eoi

(* Among states in which nothing has matched there is no trap, that is     *)
(* none of them that bytes do not lead out of again, unless the expression *)
(* has a part that matches nothing, as [a&&b].                             *)
NoTrap(d) ==
  /\ d.start \notin Stuck(d)
  /\ \A C \in SUBSET (d.states \ (Stuck(d) \cup d.match \cup d.eoi)) :
       C # {} => \E s \in C, x \in d.bytes : d.next[<<s, x>>] \notin Stuck(d) \cup C

(* With a vocabulary that has every byte, generation is never stranded     *)
(* where the expression is not: from every state a guide gets to, ids on   *)
(* offer lead to a final state.                                            *)
NeverStranded ==
  ByteComplete(build) /\ MatchesLate(build.dfa) /\ NoTrap(build.dfa) => CanFinish(state)

(* "Since Guide advances only through the states offered by the Index, it  *)
(* means None here shouldn't happen" (src/src/python_bindings/mod.rs:53):  *)
(* wherever a guide gets to, there are tokens to list.                     *)
NoneNeverHappens == AllowedTokens(index, state) # {}

(* The guide as its user sees it.                                          *)
Abstract == INSTANCE Recognizer WITH
  offered <- AllowedTokens(index, state), finished <- is_finished(state)

(* The guide implements Recognizer: the ids on offer and the finished flag *)
(* are functions of the text alone.                                        *)
ImplementsRecognizer == Abstract!Spec
=============================================================================
