----------------------------- MODULE IndexBuild -----------------------------
(***************************************************************************)
(* One call of Index::new (src/src/index.rs), step by step: compile the    *)
(* expression, then explore the states of its automaton from a work stack, *)
(* walking every token of the vocabulary byte by byte from each of them.   *)
(* The vocabulary is a HashMap: its tokens come in any order, and in an    *)
(* other order for each state.                                             *)
(***************************************************************************)
EXTENDS Index, SequencesExt

CONSTANTS
  Regexes,       \* the expressions a caller may pass
  Dfa,           \* the automaton of each of them that has one
  CompileError,  \* the error of each of the others
  Vocabularies,  \* the vocabularies a caller may pass
  NoState        \* the value of a local variable out of scope

Errors == {"IndexDfaError", "DfaHasNoStartState"}

ASSUME DfaAssumption ==
  /\ DOMAIN Dfa \subseteq Regexes
  /\ \A r \in DOMAIN Dfa : IsAutomaton(Dfa[r]) /\ NoState \notin Dfa[r].states
  /\ CompileError \in [Regexes \ DOMAIN Dfa -> Errors]

ASSUME VocabularyAssumption ==
  \A v \in Vocabularies :
    /\ \A r \in DOMAIN Dfa : Tokens(v) \subseteq Seq(Dfa[r].bytes)
    /\ \A w \in Tokens(v) : v.eos \notin Ids(v, w)

(* The states of a dense automaton are the rows of a table, the tokens of  *)
(* a vocabulary the keys of a HashMap.                                     *)
ASSUME FiniteAssumption ==
  /\ \A r \in DOMAIN Dfa : IsFiniteSet(Dfa[r].states)
  /\ \A v \in Vocabularies : IsFiniteSet(Tokens(v))

VARIABLES
  regex, vocabulary,      \* the arguments
  pc,                     \* "compile", "tokens", "bytes" or "done"
  seen, next_states,      \* states met so far, and those still to explore
  current_state, todo,    \* state being explored, tokens its loop has left
  token, pos, next_state, \* token being walked, bytes read, state reached
  transitions, final_states,
  result                  \* what the call returned

args  == <<regex, vocabulary>>
walk  == <<token, pos, next_state>>
table == <<transitions, final_states>>
vars  == <<args, pc, seen, next_states, current_state, todo, walk, table, result>>

dfa == Dfa[regex]

NoTransitions == [p \in {} |-> NoState]

Pending == [tag |-> "pending"]
Err(e)  == [tag |-> "err", error |-> e]
Ok(i)   == [tag |-> "ok", index |-> i]

Init ==
  /\ regex \in Regexes
  /\ vocabulary \in Vocabularies
  /\ pc = "compile"
  /\ seen = {} /\ next_states = <<>>
  /\ current_state = NoState /\ todo = {}
  /\ token = <<>> /\ pos = 0 /\ next_state = NoState
  /\ transitions = NoTransitions /\ final_states = {}
  /\ result = Pending

CompileFails ==
  /\ pc = "compile" /\ regex \notin DOMAIN Dfa
  /\ result' = Err(CompileError[regex])
  /\ pc' = "done"
  /\ UNCHANGED <<args, seen, next_states, current_state, todo, walk, table>>

Compile ==
  /\ pc = "compile" /\ regex \in DOMAIN Dfa
  /\ seen' = {dfa.start}
  /\ next_states' = <<dfa.start>>
  /\ pc' = "tokens"
  /\ UNCHANGED <<args, current_state, todo, walk, table, result>>

(* while let Some(current_state) = next_states.pop(): accepting holds the  *)
(* states to enter among the final ones.                                   *)
PopStateWith(accepting) ==
  /\ pc = "tokens" /\ todo = {} /\ next_states # <<>>
  /\ current_state' = Last(next_states)
  /\ next_states' = Front(next_states)
  /\ final_states' = final_states \cup ({Last(next_states)} \cap accepting)
  /\ todo' = Tokens(vocabulary)
  /\ UNCHANGED <<args, pc, seen, walk, transitions, result>>

(* Mutant: the match flag, which is one byte late, for the EOI test.       *)
PopStateFlagged == PopStateWith(dfa.match)

PopState == PopStateWith(dfa.eoi)

(* 'token_loop: a token whose ids hold the EOS id is skipped.              *)
TakeTokenWhen(advances) ==
  /\ pc = "tokens"
  /\ \E w \in todo :
       /\ todo' = IF advances THEN todo \ {w} ELSE todo
       /\ IF vocabulary.eos \in Ids(vocabulary, w)
          THEN UNCHANGED <<pc, walk>>
          ELSE /\ pc' = "bytes"
               /\ token' = w /\ pos' = 0 /\ next_state' = current_state
  /\ UNCHANGED <<args, seen, next_states, current_state, table, result>>

(* Mutant: the iterator does not advance.                                  *)
TakeTokenAgain == TakeTokenWhen(FALSE)

TakeToken == TakeTokenWhen(TRUE)

DropToken == pc' = "tokens" /\ token' = <<>> /\ pos' = 0 /\ next_state' = NoState

(* One byte; a state of the set stops ends the walk (continue 'token_loop).*)
ReadByteUntil(stops) ==
  /\ pc = "bytes" /\ pos < Len(token)
  /\ LET q == dfa.next[<<next_state, token[pos + 1]>>] IN
       IF q \in stops
       THEN DropToken
       ELSE next_state' = q /\ pos' = pos + 1 /\ UNCHANGED <<pc, token>>
  /\ UNCHANGED <<args, seen, next_states, current_state, todo, table, result>>

(* Mutant: no test for dead and quit states.                               *)
ReadByteUnchecked == ReadByteUntil({})

ReadByte == ReadByteUntil(Stuck(dfa))

(* HashMap::insert of one value under each of the keys P.                  *)
Insert(t, P, q) == [p \in DOMAIN t \cup P |-> IF p \in P THEN q ELSE t[p]]

(* The end of a token: an entry for each of its ids if records, and a push *)
(* if fresh.                                                               *)
RecordWhen(records, fresh) ==
  /\ pc = "bytes" /\ pos = Len(token)
  /\ transitions' =
       IF records
       THEN Insert(transitions, {current_state} \X Ids(vocabulary, token), next_state)
       ELSE transitions
  /\ seen' = seen \cup {next_state}
  /\ next_states' = IF fresh THEN Append(next_states, next_state) ELSE next_states
  /\ DropToken
  /\ UNCHANGED <<args, current_state, todo, final_states, result>>

(* Mutants: without the check of seen; with entries for tokens that        *)
(* overshoot a match; without the EOI test; with entries only for states   *)
(* not seen before.                                                        *)
RecordTokenAgain == RecordWhen(Recorded(dfa, next_state), TRUE)
RecordTokenAlways == RecordWhen(TRUE, next_state \notin seen)
RecordTokenIntermediate == RecordWhen(next_state \notin dfa.match, next_state \notin seen)
RecordTokenFresh ==
  RecordWhen(Recorded(dfa, next_state) /\ next_state \notin seen, next_state \notin seen)

RecordToken == RecordWhen(Recorded(dfa, next_state), next_state \notin seen)

(* Each final state gets an EOS transition to itself.                      *)
WithEos(t, F, eos) ==
  [p \in DOMAIN t \cup (F \X {eos}) |-> IF p \in F \X {eos} THEN p[1] ELSE t[p]]

Finish ==
  /\ pc = "tokens" /\ todo = {} /\ next_states = <<>>
  /\ result' = Ok([ initial_state |-> dfa.start,
                    final_states  |-> final_states,
                    transitions   |-> WithEos(transitions, final_states, vocabulary.eos),
                    eos_token_id  |-> vocabulary.eos,
                    vocab_size    |-> VocabLen(vocabulary) ])
  /\ pc' = "done"
  /\ seen' = {} /\ current_state' = NoState
  /\ transitions' = NoTransitions /\ final_states' = {}
  /\ UNCHANGED <<args, next_states, todo, walk>>

Next ==
  \/ CompileFails \/ Compile \/ PopState \/ TakeToken \/ ReadByte
  \/ RecordToken \/ Finish

(* The call runs on a thread of its own until it returns.                  *)
Spec == Init /\ [][Next]_vars /\ WF_vars(Next)

----------------------------------------------------------------------------
(* Properties *)

IndexType(i) ==
  /\ i.initial_state \in dfa.states
  /\ i.final_states \subseteq dfa.states
  /\ DOMAIN i.transitions \subseteq dfa.states \X AllIds(vocabulary)
  /\ \A p \in DOMAIN i.transitions : i.transitions[p] \in dfa.states

(* Type invariant: the variables hold states, tokens and bytes of this     *)
(* call's automaton and vocabulary.                                        *)
TypeOK ==
  /\ regex \in Regexes /\ vocabulary \in Vocabularies
  /\ pc \in {"compile", "tokens", "bytes", "done"}
  /\ todo \subseteq Tokens(vocabulary)
  /\ pc \in {"compile", "done"} =>
       /\ seen = {} /\ next_states = <<>>
       /\ current_state = NoState /\ todo = {}
       /\ transitions = NoTransitions /\ final_states = {}
  /\ pc # "done" => result = Pending
  /\ pc \in {"tokens", "bytes"} =>
       /\ regex \in DOMAIN Dfa
       /\ seen \subseteq dfa.states
       /\ next_states \in Seq(dfa.states)
       /\ current_state \in dfa.states \cup {NoState}
       /\ todo # {} => current_state # NoState
       /\ final_states \subseteq dfa.states
       /\ DOMAIN transitions \subseteq dfa.states \X AllIds(vocabulary)
       /\ \A p \in DOMAIN transitions : transitions[p] \in dfa.states
  /\ pc = "bytes" =>
       /\ current_state \in dfa.states
       /\ token \in Tokens(vocabulary) \ todo
       /\ pos \in 0..Len(token)
       /\ next_state \in dfa.states
  /\ pc = "done" =>
       IF regex \in DOMAIN Dfa
       THEN result.tag = "ok" /\ IndexType(result.index)
       ELSE result = Err(CompileError[regex])

(* The states whose token loop is over.                                    *)
Explored == seen \ (Range(next_states) \cup {current_state})

(* Every state met is explored exactly once: the work stack holds only     *)
(* states that were met, none of them twice and never the one being        *)
(* explored.  A second push would put the loop through a state again, or   *)
(* never let it end.                                                       *)
ExploredOnce ==
  pc \in {"tokens", "bytes"} =>
    /\ dfa.start \in seen
    /\ Range(next_states) \subseteq seen
    /\ \A j, k \in DOMAIN next_states : next_states[j] = next_states[k] => j = k
    /\ current_state # NoState => current_state \in seen \ Range(next_states)

(* A state is met only if the vocabulary leads to it: seen lies in every   *)
(* set that holds the start and the successors of its members.             *)
OnlyReachable ==
  pc \in {"tokens", "bytes"} => \A C \in ClosedSets(dfa, vocabulary) : seen \subseteq C

(* An entry of the table is a token's run: the id belongs to a token that  *)
(* survives from that state and ends, recorded, where the entry says.      *)
EntriesSound ==
  pc \in {"tokens", "bytes"} =>
    \A p \in DOMAIN transitions :
      /\ p[1] \in Explored \cup {current_state}
      /\ transitions[p] \in Targets(dfa, vocabulary, p[1], p[2])

(* Nothing is forgotten, whatever the order of the tokens: a state already *)
(* explored has all its successors among the states met, an entry for each *)
(* id that leads anywhere, and its place among the final states.           *)
NothingForgotten ==
  pc \in {"tokens", "bytes"} =>
    \A s \in Explored :
      /\ Successors(dfa, vocabulary, s) \subseteq seen
      /\ \A id \in AllIds(vocabulary) :
           Targets(dfa, vocabulary, s, id) # {} => <<s, id>> \in DOMAIN transitions
      /\ s \in final_states <=> s \in dfa.eoi

(* The token being walked has survived pos bytes.                          *)
Walked ==
  pc = "bytes" =>
    /\ next_state = Run(dfa, current_state, token)[pos]
    /\ \A k \in 1..pos : Run(dfa, current_state, token)[k] \notin Stuck(dfa)

(* The tokens whose walk from s is over.                                   *)
TokensDone(s) ==
  IF s = current_state
  THEN Tokens(vocabulary) \ (todo \cup IF pc = "bytes" THEN {token} ELSE {})
  ELSE IF s \in Explored THEN Tokens(vocabulary) ELSE {}

(* What a finished walk has left behind: the state it ended in among those *)
(* met, and entries for the token's ids.                                   *)
Complete ==
  pc \in {"tokens", "bytes"} =>
    \A s \in dfa.states : \A w \in TokensDone(s) : Alive(dfa, s, w) =>
      /\ After(dfa, s, w) \in seen
      /\ Recorded(dfa, After(dfa, s, w)) =>
           \A id \in Ids(vocabulary, w) : <<s, id>> \in DOMAIN transitions

FinalsExplored ==
  pc \in {"tokens", "bytes"} =>
    final_states = (Explored \cup {current_state}) \cap dfa.eoi

Returned ==
  pc = "done" /\ regex \in DOMAIN Dfa => IsIndex(dfa, vocabulary, result.index)

(* The inductive invariant of the loop.                                    *)
IInv ==
  /\ TypeOK /\ ExploredOnce /\ OnlyReachable /\ EntriesSound
  /\ Walked /\ Complete /\ FinalsExplored /\ Returned

(* Two calls with the same arguments build equal indexes (Index derives    *)
(* PartialEq and Python compares with it), in spite of the order of the    *)
(* HashMap.  Where they may differ is the state that an id leads to when   *)
(* it names tokens that lead to different states; the ids on offer and the *)
(* final states are the same then too.                                     *)
OrderIndependent ==
  pc = "done" /\ regex \in DOMAIN Dfa =>
    LET i == IndexOf(dfa, vocabulary)
        t == result.index.transitions
    IN  /\ result.index = [i EXCEPT !.transitions = t]
        /\ DOMAIN t = DOMAIN i.transitions
        /\ \A p \in DOMAIN t :
             t[p] # i.transitions[p] =>
               \E q, r \in Targets(dfa, vocabulary, p[1], p[2]) : q # r

(* The call returns: the exploration of a finite automaton is finite.      *)
Returns == <>(pc = "done")

(* The call as its caller sees it.                                         *)
Abstract == INSTANCE IndexSpec

(* Index::new implements IndexSpec: it returns once, and what it returns   *)
(* is the table the automaton and the vocabulary determine.                *)
ImplementsIndexSpec == Abstract!Spec

(* The vocabulary can take the automaton from q to a final state.          *)
CanFinish(q) ==
  \A C \in SUBSET dfa.states :
    q \in C /\ (\A s \in C : Successors(dfa, vocabulary, s) \subseteq C)
      => C \cap dfa.eoi # {}

(* "Make sure that the Guide can walk to the final state correctly"        *)
(* (src/tests/test_guide.py): a token that leads to a state from which a   *)
(* match can be completed is in the table.                                 *)
NoContinuationLost ==
  pc = "done" /\ regex \in DOMAIN Dfa =>
    \A s \in Reachable(dfa, vocabulary) :
      \A w \in Walks(dfa, vocabulary, s) :
        CanFinish(After(dfa, s, w)) =>
          \A id \in Ids(vocabulary, w) : <<s, id>> \in DOMAIN result.index.transitions
=============================================================================
