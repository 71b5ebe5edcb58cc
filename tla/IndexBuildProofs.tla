-------------------------- MODULE IndexBuildProofs --------------------------
(***************************************************************************)
(* Index::new returns the index that the automaton and the vocabulary      *)
(* determine, for all expressions, automata and vocabularies.              *)
(***************************************************************************)
EXTENDS IndexBuild, IndexTheorems

----------------------------------------------------------------------------
(* The work stack *)

Injective(s) == \A j, k \in DOMAIN s : s[j] = s[k] => j = k

LEMMA SingletonFacts ==
  ASSUME NEW S, NEW e \in S
  PROVE  <<e>> \in Seq(S) /\ Range(<<e>>) = {e} /\ Injective(<<e>>)
<1>1. <<e>> \in Seq(S) /\ DOMAIN <<e>> = {1} /\ <<e>>[1] = e
  OBVIOUS
<1> QED BY <1>1 DEF Range, Injective

(* pop takes the last element off.                                        *)
LEMMA PopType ==
  ASSUME NEW S, NEW s \in Seq(S), s # <<>>
  PROVE  /\ Last(s) \in S
         /\ Front(s) \in Seq(S)
         /\ Len(Front(s)) = Len(s) - 1
         /\ \A i \in 1..(Len(s) - 1) : Front(s)[i] = s[i]
<1> DEFINE n == Len(s)
           f == Front(s)
<1>1. n \in Nat /\ n # 0 /\ DOMAIN s = 1..n /\ n \in 1..n
  BY EmptySeq
<1>2. \A i \in 1..(n-1) : s[i] \in S
  BY <1>1
<1>3. /\ f \in Seq(S)
      /\ Len(f) = IF 1 <= n - 1 THEN (n - 1) - 1 + 1 ELSE 0
      /\ \A i \in 1..(n - 1) - 1 + 1 : f[i] = s[1 + i - 1]
  BY <1>1, <1>2, SubSeqProperties DEF Front
<1>4. Last(s) \in S
  BY <1>1 DEF Last
<1> HIDE DEF n, f
<1>5. (n - 1) - 1 + 1 = n - 1 /\ (~ (1 <= n - 1) => n - 1 = 0)
  BY <1>1
<1>6. \A i \in 1..(n-1) : 1 + i - 1 = i
  BY <1>1
<1> QED BY <1>3, <1>4, <1>5, <1>6 DEF n, f

(* Off a sequence without repetitions it takes one member.                 *)
LEMMA PopFacts ==
  ASSUME NEW S, NEW s \in Seq(S), s # <<>>, Injective(s)
  PROVE  /\ Last(s) \in Range(s)
         /\ Injective(Front(s))
         /\ Range(Front(s)) = Range(s) \ {Last(s)}
<1> DEFINE n == Len(s)
           f == Front(s)
<1>1. n \in Nat /\ n # 0 /\ DOMAIN s = 1..n /\ n \in 1..n
  BY EmptySeq
<1>3. f \in Seq(S) /\ Len(f) = n - 1 /\ \A i \in 1..(n - 1) : f[i] = s[i]
  BY PopType
<1>4. /\ DOMAIN f = 1..(n-1)
      /\ \A i \in 1..(n-1) : f[i] = s[i] /\ i \in 1..n /\ i # n
  <2> HIDE DEF n, f
  <2>1. DOMAIN f = 1..(n-1)
    BY <1>3
  <2>2. \A i \in 1..(n-1) : i \in 1..n /\ i # n
    BY <1>1
  <2> QED BY <1>3, <2>1, <2>2
<1>5. Last(s) = s[n]
  BY DEF Last
<1> HIDE DEF n, f
<1>6. Injective(f)
  BY <1>1, <1>4 DEF Injective
<1>7. Range(f) \subseteq Range(s) \ {Last(s)}
  <2> SUFFICES ASSUME NEW i \in 1..(n-1) PROVE f[i] \in Range(s) /\ f[i] # Last(s)
    BY <1>4 DEF Range
  <2> QED BY <1>1, <1>4, <1>5 DEF Range, Injective
<1>8. Range(s) \ {Last(s)} \subseteq Range(f)
  <2> SUFFICES ASSUME NEW i \in 1..n, s[i] # Last(s) PROVE s[i] \in Range(f)
    BY <1>1 DEF Range
  <2>1. i \in 1..(n-1)
    BY <1>1, <1>5
  <2> QED BY <1>4, <2>1 DEF Range
<1>9. Last(s) \in Range(s)
  BY <1>1, <1>5 DEF Range
<1> QED BY <1>6, <1>7, <1>8, <1>9 DEF f

(* push of an element that is not there.                                   *)
LEMMA PushFacts ==
  ASSUME NEW S, NEW s \in Seq(S), NEW e \in S
  PROVE  /\ Append(s, e) \in Seq(S)
         /\ Range(Append(s, e)) = Range(s) \cup {e}
         /\ Injective(s) /\ e \notin Range(s) => Injective(Append(s, e))
<1> DEFINE n == Len(s)
           t == Append(s, e)
<1>1. n \in Nat /\ DOMAIN s = 1..n
  OBVIOUS
<1>2. t \in Seq(S) /\ Len(t) = n + 1 /\ (\A i \in 1..n : t[i] = s[i]) /\ t[n + 1] = e
  BY AppendProperties
<1>3. DOMAIN t = 1..(n+1)
  BY <1>1, <1>2
<1> HIDE DEF n, t
<1>4. Range(t) = Range(s) \cup {e}
  <2>1. Range(t) \subseteq Range(s) \cup {e}
    <3> SUFFICES ASSUME NEW i \in 1..(n+1) PROVE t[i] \in Range(s) \cup {e}
      BY <1>3 DEF Range
    <3> QED BY <1>1, <1>2 DEF Range
  <2>2. ASSUME NEW i \in 1..n PROVE s[i] \in Range(t)
    <3>1. i \in 1..(n+1) /\ t[i] = s[i]
      BY <1>1, <1>2
    <3> QED BY <1>3, <3>1 DEF Range
  <2>3. e \in Range(t)
    <3>1. n + 1 \in 1..(n+1)
      BY <1>1
    <3> QED BY <1>2, <1>3, <3>1 DEF Range
  <2>4. Range(s) \subseteq Range(t)
    BY <1>1, <2>2 DEF Range
  <2> QED BY <2>1, <2>3, <2>4
<1>5. ASSUME Injective(s), e \notin Range(s) PROVE Injective(t)
  <2> SUFFICES ASSUME NEW i \in 1..(n+1), NEW j \in 1..(n+1), t[i] = t[j] PROVE i = j
    BY <1>3 DEF Injective
  <2>1. \A k \in 1..n : t[k] # e
    BY <1>1, <1>2, <1>5 DEF Range
  <2> QED BY <1>1, <1>2, <1>5, <2>1 DEF Injective
<1> QED BY <1>2, <1>4, <1>5 DEF t

----------------------------------------------------------------------------
(* What the assumptions say of the arguments of one call. *)

LEMMA Arguments ==
  ASSUME regex \in DOMAIN Dfa, vocabulary \in Vocabularies
  PROVE  /\ IsAutomaton(dfa)
         /\ dfa.start \in dfa.states
         /\ NoState \notin dfa.states
         /\ Tokens(vocabulary) \subseteq Seq(dfa.bytes)
         /\ Usable(vocabulary) = Tokens(vocabulary)
         /\ \A w \in Tokens(vocabulary) : vocabulary.eos \notin Ids(vocabulary, w)
BY DfaAssumption, VocabularyAssumption DEF dfa, IsAutomaton, Usable

LEMMA ArgumentsStay ==
  ASSUME Next
  PROVE  regex' = regex /\ vocabulary' = vocabulary /\ dfa' = dfa
BY DEF Next, CompileFails, Compile, PopState, PopStateWith, TakeToken, TakeTokenWhen,
       ReadByte, ReadByteUntil, RecordToken, RecordWhen, Finish, args, dfa

----------------------------------------------------------------------------
(* Type correctness *)

LEMMA TypeInit == ASSUME Init PROVE TypeOK
BY DEF Init, TypeOK

(* The result of insert.                                                   *)
LEMMA InsertType ==
  ASSUME NEW t, NEW P, NEW q
  PROVE  /\ DOMAIN Insert(t, P, q) = DOMAIN t \cup P
         /\ \A p \in DOMAIN t \cup P :
              Insert(t, P, q)[p] = IF p \in P THEN q ELSE t[p]
BY DEF Insert

LEMMA TypeStep == ASSUME TypeOK, [Next]_vars PROVE TypeOK'
<1>0. vocabulary \in Vocabularies
  BY DEF TypeOK
<1>1. CASE UNCHANGED vars
  BY <1>1 DEF vars, args, walk, table, dfa, IndexType, TypeOK
<1>2. CASE CompileFails
  BY <1>2 DEF CompileFails, args, walk, table, TypeOK
<1>3. CASE Compile
  <2>1. <<dfa.start>> \in Seq(dfa.states) /\ dfa.start \in dfa.states
    <3>1. dfa.start \in dfa.states
      BY <1>0, <1>3, Arguments DEF Compile
    <3> QED BY <3>1, SingletonFacts
  <2>2. dfa' = dfa
    BY <1>3, ArgumentsStay DEF Next, TypeOK
  <2>3. DOMAIN NoTransitions = {}
    BY DEF NoTransitions
  <2> QED BY <1>3, <2>1, <2>2, <2>3 DEF Compile, args, walk, table, TypeOK
<1>4. CASE PopState
  <2>1. regex \in DOMAIN Dfa /\ next_states \in Seq(dfa.states) /\ next_states # <<>>
    BY <1>4 DEF PopState, PopStateWith, TypeOK
  <2>2. /\ Last(next_states) \in dfa.states
        /\ Front(next_states) \in Seq(dfa.states)
        /\ NoState \notin dfa.states
    BY <1>0, <2>1, PopType, Arguments
  <2>3. dfa' = dfa
    BY <1>4, ArgumentsStay DEF Next, TypeOK
  <2> QED BY <1>4, <2>1, <2>2, <2>3 DEF PopState, PopStateWith, args, walk, table, TypeOK
<1>5. CASE TakeToken
  BY <1>5, Arguments DEF TakeToken, TakeTokenWhen, args, walk, table, dfa, TypeOK
<1>6. CASE ReadByte
  BY <1>6, Arguments, NextType DEF ReadByte, ReadByteUntil, DropToken, args, walk, table, dfa, TypeOK
<1>7. CASE RecordToken
  <2> DEFINE P == {current_state} \X Ids(vocabulary, token)
             D == dfa.states \X AllIds(vocabulary)
  <2>1. /\ regex \in DOMAIN Dfa /\ pc = "bytes"
        /\ current_state \in dfa.states /\ next_state \in dfa.states
        /\ next_states \in Seq(dfa.states) /\ P \subseteq D
    BY <1>7 DEF RecordToken, RecordWhen, AllIds, TypeOK
  <2>2. Append(next_states, next_state) \in Seq(dfa.states)
    BY <2>1, PushFacts
  <2>3. dfa' = dfa
    BY <1>7, ArgumentsStay DEF Next, TypeOK
  <2>4. DOMAIN transitions' \subseteq D /\ \A p \in DOMAIN transitions' : transitions'[p] \in dfa.states
    <3> HIDE DEF P, D, TypeOK
    <3>1. DOMAIN transitions \subseteq D /\ \A p \in DOMAIN transitions : transitions[p] \in dfa.states
      BY <2>1 DEF D, TypeOK
    <3>2. transitions' = Insert(transitions, P, next_state) \/ transitions' = transitions
      BY <1>7 DEF RecordToken, RecordWhen, P
    <3>3. CASE transitions' = transitions
      BY <3>1, <3>3
    <3>4. CASE transitions' = Insert(transitions, P, next_state)
      <4>1. /\ DOMAIN transitions' = DOMAIN transitions \cup P
            /\ \A p \in DOMAIN transitions \cup P :
                 transitions'[p] = IF p \in P THEN next_state ELSE transitions[p]
        BY <3>4, InsertType, Zenon
      <4> QED BY <2>1, <3>1, <4>1
    <3> QED BY <3>2, <3>3, <3>4
  <2> QED BY <1>7, <2>1, <2>2, <2>3, <2>4
       DEF RecordToken, RecordWhen, DropToken, args, walk, table, TypeOK
<1>8. CASE Finish
  <2> DEFINE W == WithEos(transitions, final_states, vocabulary.eos)
             E == final_states \X {vocabulary.eos}
             D == dfa.states \X AllIds(vocabulary)
  <2>1. /\ regex \in DOMAIN Dfa /\ pc = "tokens"
        /\ final_states \subseteq dfa.states
        /\ DOMAIN transitions \subseteq D
        /\ \A p \in DOMAIN transitions : transitions[p] \in dfa.states
    BY <1>8 DEF Finish, TypeOK
  <2>2. dfa' = dfa /\ dfa.start \in dfa.states
    BY <1>0, <1>8, <2>1, ArgumentsStay, Arguments DEF Next
  <2>3. E \subseteq D /\ \A p \in E : p[1] \in dfa.states
    <3>1. vocabulary.eos \in AllIds(vocabulary)
      BY DEF AllIds
    <3> QED BY <2>1, <3>1
  <2>4. /\ DOMAIN W = DOMAIN transitions \cup E
        /\ \A p \in DOMAIN transitions \cup E :
             W[p] = IF p \in E THEN p[1] ELSE transitions[p]
    <3>1. W = [p \in DOMAIN transitions \cup E |->
                 IF p \in E THEN p[1] ELSE transitions[p]]
      BY Zenon DEF WithEos
    <3> HIDE DEF E, W
    <3> QED BY <3>1
  <2>5. DOMAIN W \subseteq D /\ \A p \in DOMAIN W : W[p] \in dfa.states
    <3> HIDE DEF W, E, D
    <3> QED BY <2>1, <2>3, <2>4
  <2>6. /\ result'.tag = "ok" /\ result'.index.initial_state = dfa.start
        /\ result'.index.final_states = final_states
        /\ result'.index.transitions = W
    BY <1>8 DEF Finish, Ok
  <2> HIDE DEF W
  <2> QED BY <1>8, <2>1, <2>2, <2>5, <2>6 DEF Finish, args, walk, table, IndexType, TypeOK
<1> QED BY <1>1, <1>2, <1>3, <1>4, <1>5, <1>6, <1>7, <1>8 DEF Next

(* The variables hold states, tokens and bytes of the call's automaton and *)
(* vocabulary, and the call returns a table over them.                     *)
THEOREM TypeCorrect == Spec => []TypeOK
BY TypeInit, TypeStep, PTL DEF Spec

----------------------------------------------------------------------------
(* Every state is explored once *)

LEMMA ExploredInit == ASSUME Init PROVE ExploredOnce
BY DEF Init, ExploredOnce

LEMMA ExploredStep ==
  ASSUME TypeOK, ExploredOnce, [Next]_vars PROVE ExploredOnce'
<1>1. CASE UNCHANGED vars
  BY <1>1 DEF vars, args, walk, table, dfa, ExploredOnce
<1>2. CASE CompileFails
  BY <1>2 DEF CompileFails, ExploredOnce
<1>3. CASE Compile
  <2>1. Range(<<dfa.start>>) = {dfa.start} /\ Injective(<<dfa.start>>)
    BY SingletonFacts
  <2>2. dfa' = dfa /\ current_state' = NoState
    BY <1>3, ArgumentsStay DEF Next, Compile, TypeOK
  <2> QED BY <1>3, <2>1, <2>2 DEF Compile, ExploredOnce, Injective
<1>4. CASE PopState
  <2>1. next_states \in Seq(dfa.states) /\ next_states # <<>> /\ Injective(next_states)
    BY <1>4 DEF PopState, PopStateWith, TypeOK, ExploredOnce, Injective
  <2>2. /\ Last(next_states) \in Range(next_states)
        /\ Injective(Front(next_states))
        /\ Range(Front(next_states)) = Range(next_states) \ {Last(next_states)}
    BY <2>1, PopFacts
  <2>3. dfa' = dfa
    BY <1>4, ArgumentsStay DEF Next
  <2> QED BY <1>4, <2>1, <2>2, <2>3 DEF PopState, PopStateWith, ExploredOnce, Injective
<1>5. CASE TakeToken
  BY <1>5, ArgumentsStay DEF Next, TakeToken, TakeTokenWhen, walk, ExploredOnce
<1>6. CASE ReadByte
  BY <1>6, ArgumentsStay DEF Next, ReadByte, ReadByteUntil, DropToken, ExploredOnce
<1>7. CASE RecordToken
  <2> DEFINE S == Append(next_states, next_state)
  <2>1. /\ next_states \in Seq(dfa.states) /\ next_state \in dfa.states
        /\ Injective(next_states) /\ Range(next_states) \subseteq seen
    BY <1>7 DEF RecordToken, RecordWhen, TypeOK, ExploredOnce, Injective
  <2>2. /\ Range(S) = Range(next_states) \cup {next_state}
        /\ next_state \notin seen => Injective(S)
    BY <2>1, PushFacts
  <2>3. dfa' = dfa
    BY <1>7, ArgumentsStay DEF Next
  <2>4. /\ next_states' = IF next_state \notin seen THEN S ELSE next_states
        /\ seen' = seen \cup {next_state} /\ current_state' = current_state
    BY <1>7 DEF RecordToken, RecordWhen
  <2>5. pc \in {"tokens", "bytes"}
    BY <1>7 DEF RecordToken, RecordWhen
  <2> HIDE DEF S
  <2>6. Injective(next_states') /\ Range(next_states') \subseteq seen'
    BY <2>1, <2>2, <2>4
  <2>7. dfa.start \in seen'
    BY <2>4, <2>5 DEF ExploredOnce
  <2>8. ASSUME current_state # NoState PROVE current_state \in seen' \ Range(next_states')
    BY <2>2, <2>4, <2>5, <2>8 DEF ExploredOnce
  <2> QED BY <2>3, <2>4, <2>6, <2>7, <2>8 DEF ExploredOnce, Injective
<1>8. CASE Finish
  BY <1>8 DEF Finish, ExploredOnce
<1> QED BY <1>1, <1>2, <1>3, <1>4, <1>5, <1>6, <1>7, <1>8 DEF Next

(* No state is explored twice, and none that was met is left out.          *)
THEOREM ExploresOnce == Spec => []ExploredOnce
BY TypeInit, TypeStep, ExploredInit, ExploredStep, PTL DEF Spec

(* The states whose loop is over: pop adds the one that was explored.      *)
LEMMA ExploredGrows ==
  ASSUME TypeOK, ExploredOnce, Next, pc \in {"tokens", "bytes"}, pc' # "done"
  PROVE  Explored' = IF PopState THEN Explored \cup ({current_state} \ {NoState}) ELSE Explored
<1>1. CASE PopState
  <2>1. next_states \in Seq(dfa.states) /\ next_states # <<>> /\ Injective(next_states)
    BY <1>1 DEF PopState, PopStateWith, TypeOK, ExploredOnce, Injective
  <2>2. Range(next_states) = Range(next_states') \cup {current_state'} /\ seen' = seen
    BY <1>1, <2>1, PopFacts DEF PopState, PopStateWith
  <2>3. NoState \notin seen
    BY Arguments DEF TypeOK
  <2> QED BY <1>1, <2>2, <2>3 DEF Explored, ExploredOnce
<1>2. CASE TakeToken \/ ReadByte
  <2>1. ~ PopState /\ UNCHANGED <<seen, next_states, current_state>>
    BY <1>2 DEF PopState, PopStateWith, TakeToken, TakeTokenWhen, ReadByte, ReadByteUntil
  <2> QED BY <2>1 DEF Explored
<1>3. CASE RecordToken
  <2>1. /\ next_states \in Seq(dfa.states) /\ next_state \in dfa.states
        /\ next_states' = IF next_state \notin seen THEN Append(next_states, next_state)
                                                    ELSE next_states
        /\ seen' = seen \cup {next_state} /\ current_state' = current_state
        /\ pc = "bytes"
    BY <1>3 DEF RecordToken, RecordWhen, TypeOK
  <2>2. Range(Append(next_states, next_state)) = Range(next_states) \cup {next_state}
    BY <2>1, PushFacts
  <2>3. ~ PopState
    BY <2>1 DEF PopState, PopStateWith
  <2> QED BY <2>1, <2>2, <2>3 DEF Explored
<1> QED BY <1>1, <1>2, <1>3 DEF Next, CompileFails, Compile, Finish

----------------------------------------------------------------------------
(* The token being walked *)

LEMMA ByteRead ==
  ASSUME TypeOK, Walked, ReadByte
  PROVE  LET R == Run(dfa, current_state, token) IN
         /\ pos + 1 \in 1..Len(token)
         /\ \A k \in 1..(pos + 1) : k = pos + 1 \/ R[k] \notin Stuck(dfa)
         /\ IF R[pos + 1] \in Stuck(dfa)
            THEN pc' = "tokens"
            ELSE pc' = "bytes" /\ token' = token /\ pos' = pos + 1 /\ next_state' = R[pos + 1]
<1> DEFINE R == Run(dfa, current_state, token)
<1>1. /\ pc = "bytes" /\ pos \in 0..Len(token) /\ pos < Len(token)
      /\ token \in Tokens(vocabulary) /\ current_state \in dfa.states
      /\ regex \in DOMAIN Dfa /\ vocabulary \in Vocabularies
  BY DEF ReadByte, ReadByteUntil, TypeOK
<1>2. next_state = R[pos] /\ \A k \in 1..pos : R[k] \notin Stuck(dfa)
  BY <1>1 DEF Walked
<1>3. token \in Seq(dfa.bytes) /\ IsAutomaton(dfa)
  BY <1>1, Arguments
<1>4. Len(token) \in Nat
  BY <1>3
<1>5. /\ pos + 1 \in 1..Len(token) /\ (pos + 1) - 1 = pos
      /\ \A k \in 1..(pos + 1) : k \in 1..pos \/ k = pos + 1
  BY <1>1, <1>4
<1>6. R[pos + 1] = dfa.next[<<R[(pos + 1) - 1], token[pos + 1]>>]
  BY <1>1, <1>3, <1>5, RunProperties
<1> HIDE DEF R
<1>7. R[pos + 1] = dfa.next[<<next_state, token[pos + 1]>>]
  BY <1>2, <1>5, <1>6
<1>8. IF R[pos + 1] \in Stuck(dfa)
      THEN DropToken
      ELSE next_state' = R[pos + 1] /\ pos' = pos + 1 /\ UNCHANGED <<pc, token>>
  BY <1>7 DEF ReadByte, ReadByteUntil
<1>9. \A k \in 1..(pos + 1) : k = pos + 1 \/ R[k] \notin Stuck(dfa)
  BY <1>2, <1>5
<1> QED BY <1>1, <1>5, <1>8, <1>9 DEF DropToken, R

LEMMA WalkedStep == ASSUME TypeOK, Walked, [Next]_vars PROVE Walked'
<1>1. CASE UNCHANGED vars
  BY <1>1 DEF vars, args, walk, dfa, Walked
<1>2. CASE TakeToken
  <2>1. SUFFICES ASSUME pc' = "bytes"
                 PROVE  /\ next_state' = Run(dfa, current_state, token')[pos']
                        /\ pos' = 0
    BY <1>2, ArgumentsStay DEF Next, Walked, TakeToken, TakeTokenWhen
  <2>2. /\ regex \in DOMAIN Dfa /\ vocabulary \in Vocabularies
        /\ token' \in Tokens(vocabulary) /\ current_state \in dfa.states
        /\ next_state' = current_state /\ pos' = 0
    BY <1>2, <2>1 DEF TakeToken, TakeTokenWhen, TypeOK, walk
  <2>3. Run(dfa, current_state, token')[0] = current_state
    BY <2>2, Arguments, RunProperties
  <2> QED BY <2>2, <2>3
<1>3. CASE ReadByte
  <2>1. dfa' = dfa /\ current_state' = current_state
    BY <1>3, ArgumentsStay DEF Next, ReadByte, ReadByteUntil
  <2> QED BY <1>3, <2>1, ByteRead DEF Walked
<1>4. CASE CompileFails \/ Compile \/ PopState \/ RecordToken \/ Finish
  BY <1>4 DEF CompileFails, Compile, PopState, PopStateWith, RecordToken, RecordWhen,
              DropToken, Finish, Walked
<1> QED BY <1>1, <1>2, <1>3, <1>4 DEF Next

(* What the end of the byte loop has shown of the token.                   *)
LEMMA WalkEnds ==
  ASSUME TypeOK, Walked, RecordToken
  PROVE  /\ token \in Walks(dfa, vocabulary, current_state)
         /\ next_state = After(dfa, current_state, token)
<1>1. /\ pc = "bytes" /\ pos = Len(token) /\ token \in Tokens(vocabulary)
      /\ regex \in DOMAIN Dfa /\ vocabulary \in Vocabularies
  BY DEF RecordToken, RecordWhen, TypeOK
<1> QED BY <1>1, Arguments DEF Walked, Walks, Alive, After

----------------------------------------------------------------------------
(* Only reachable states are met *)

LEMMA ReachableStep ==
  ASSUME TypeOK, ExploredOnce, Walked, OnlyReachable, [Next]_vars
  PROVE  OnlyReachable'
<1>1. CASE UNCHANGED vars
  BY <1>1 DEF vars, args, dfa, OnlyReachable
<1>2. CASE Compile
  <2>1. dfa' = dfa /\ vocabulary' = vocabulary /\ seen' = {dfa.start}
    BY <1>2, ArgumentsStay DEF Next, Compile
  <2> QED BY <2>1, ClosedSetsDef DEF OnlyReachable
<1>3. CASE RecordToken
  <2>1. /\ dfa' = dfa /\ vocabulary' = vocabulary /\ pc = "bytes"
        /\ seen' = seen \cup {next_state} /\ current_state \in dfa.states
    BY <1>3, ArgumentsStay DEF Next, RecordToken, RecordWhen, TypeOK
  <2>2. regex \in DOMAIN Dfa /\ vocabulary \in Vocabularies
    BY <2>1 DEF TypeOK
  <2>3. current_state \in seen
    BY <2>1, <2>2, Arguments DEF ExploredOnce
  <2>4. next_state \in Successors(dfa, vocabulary, current_state)
    BY <1>3, WalkEnds DEF Successors
  <2>5. ASSUME NEW C \in ClosedSets(dfa, vocabulary) PROVE seen' \subseteq C
    <3>1. seen \subseteq C
      BY <2>1 DEF OnlyReachable
    <3>2. Successors(dfa, vocabulary, current_state) \subseteq C
      BY <2>3, <3>1, ClosedSetsDef
    <3> QED BY <2>1, <2>4, <3>1, <3>2
  <2> QED BY <2>1, <2>5 DEF OnlyReachable
<1>4. CASE PopState \/ TakeToken \/ ReadByte
  <2>1. /\ dfa' = dfa /\ vocabulary' = vocabulary /\ seen' = seen
        /\ pc \in {"tokens", "bytes"}
    BY <1>4, ArgumentsStay DEF Next, PopState, PopStateWith, TakeToken, TakeTokenWhen,
                               ReadByte, ReadByteUntil
  <2> QED BY <2>1 DEF OnlyReachable
<1>5. CASE CompileFails \/ Finish
  BY <1>5 DEF CompileFails, Finish, OnlyReachable
<1> QED BY <1>1, <1>2, <1>3, <1>4, <1>5 DEF Next

----------------------------------------------------------------------------
(* Every entry is a token's run *)

LEMMA EntriesStep ==
  ASSUME TypeOK, ExploredOnce, Walked, EntriesSound, [Next]_vars
  PROVE  EntriesSound'
<1>1. CASE UNCHANGED vars
  BY <1>1 DEF vars, args, table, dfa, EntriesSound, Explored
<1>2. CASE Compile
  <2>1. DOMAIN transitions' = {}
    BY <1>2 DEF Compile, TypeOK, table, NoTransitions
  <2> QED BY <2>1 DEF EntriesSound
<1>3. CASE PopState
  <2>1. /\ dfa' = dfa /\ vocabulary' = vocabulary /\ transitions' = transitions
        /\ pc = "tokens" /\ pc' = "tokens"
    BY <1>3, ArgumentsStay DEF Next, PopState, PopStateWith
  <2>2. Explored' = Explored \cup ({current_state} \ {NoState})
    BY <1>3, <2>1, ExploredGrows DEF Next
  <2>3. ASSUME NEW p \in DOMAIN transitions PROVE p[1] # NoState
    BY <2>1, Arguments DEF TypeOK
  <2> QED BY <2>1, <2>2, <2>3 DEF EntriesSound
<1>4. CASE TakeToken \/ ReadByte
  <2>1. /\ dfa' = dfa /\ vocabulary' = vocabulary /\ transitions' = transitions
        /\ current_state' = current_state /\ seen' = seen /\ next_states' = next_states
        /\ pc \in {"tokens", "bytes"}
    BY <1>4, ArgumentsStay DEF Next, TakeToken, TakeTokenWhen, ReadByte, ReadByteUntil, table
  <2> QED BY <2>1 DEF EntriesSound, Explored
<1>5. CASE RecordToken
  <2> DEFINE P == {current_state} \X Ids(vocabulary, token)
  <2>1. /\ dfa' = dfa /\ vocabulary' = vocabulary /\ current_state' = current_state
        /\ pc = "bytes" /\ pc' = "tokens"
        /\ transitions' = IF Recorded(dfa, next_state)
                          THEN Insert(transitions, P, next_state) ELSE transitions
    BY <1>5, ArgumentsStay DEF Next, RecordToken, RecordWhen, DropToken
  <2>2. Explored' = Explored
    <3>1. ~ PopState
      BY <2>1 DEF PopState, PopStateWith
    <3> QED BY <1>5, <2>1, <3>1, ExploredGrows DEF Next
  <2>3. ASSUME NEW p \in P, Recorded(dfa, next_state)
        PROVE  p[1] = current_state /\ next_state \in Targets(dfa, vocabulary, p[1], p[2])
    <3>1. p[1] = current_state /\ p[2] \in Ids(vocabulary, token)
      OBVIOUS
    <3> QED BY <1>5, <2>3, <3>1, WalkEnds DEF Targets
  <2>4. ASSUME NEW p \in DOMAIN transitions'
        PROVE  \/ p \in P /\ Recorded(dfa, next_state) /\ transitions'[p] = next_state
               \/ p \in DOMAIN transitions /\ transitions'[p] = transitions[p]
    <3> HIDE DEF P
    <3>1. CASE Recorded(dfa, next_state)
      <4>1. transitions' = Insert(transitions, P, next_state)
        BY <2>1, <3>1
      <4>2. /\ DOMAIN transitions' = DOMAIN transitions \cup P
            /\ \A x \in DOMAIN transitions \cup P :
                 transitions'[x] = IF x \in P THEN next_state ELSE transitions[x]
        BY <4>1, InsertType, Zenon
      <4> QED BY <3>1, <4>2
    <3>2. CASE ~ Recorded(dfa, next_state)
      BY <2>1, <3>2
    <3> QED BY <3>1, <3>2
  <2> HIDE DEF P
  <2>5. ASSUME NEW p \in DOMAIN transitions'
        PROVE  /\ p[1] \in Explored \cup {current_state}
               /\ transitions'[p] \in Targets(dfa, vocabulary, p[1], p[2])
    BY <2>1, <2>3, <2>4 DEF EntriesSound
  <2> QED BY <2>1, <2>2, <2>5 DEF EntriesSound
<1>6. CASE CompileFails \/ Finish
  BY <1>6 DEF CompileFails, Finish, EntriesSound
<1> QED BY <1>1, <1>2, <1>3, <1>4, <1>5, <1>6 DEF Next

----------------------------------------------------------------------------
(* Nothing is forgotten *)

LEMMA FinalsStep ==
  ASSUME TypeOK, ExploredOnce, FinalsExplored, [Next]_vars
  PROVE  FinalsExplored'
<1>1. CASE UNCHANGED vars
  BY <1>1 DEF vars, args, table, dfa, FinalsExplored, Explored
<1>2. CASE Compile
  <2>1. /\ final_states' = {} /\ seen' = {dfa.start} /\ next_states' = <<dfa.start>>
        /\ current_state' = NoState /\ dfa' = dfa
    BY <1>2, ArgumentsStay DEF Next, Compile, TypeOK, table
  <2>2. Range(<<dfa.start>>) = {dfa.start}
    BY SingletonFacts
  <2>3. NoState \notin dfa.eoi
    BY <1>2, Arguments DEF Compile, TypeOK, IsAutomaton
  <2> QED BY <2>1, <2>2, <2>3 DEF FinalsExplored, Explored
<1>3. CASE PopState
  <2>1. /\ dfa' = dfa /\ pc = "tokens" /\ pc' = "tokens"
        /\ final_states' = final_states \cup ({current_state'} \cap dfa.eoi)
    BY <1>3, ArgumentsStay DEF Next, PopState, PopStateWith
  <2>2. Explored' = Explored \cup ({current_state} \ {NoState})
    BY <1>3, <2>1, ExploredGrows DEF Next
  <2>3. NoState \notin dfa.eoi
    BY <2>1, Arguments DEF TypeOK, IsAutomaton
  <2> QED BY <2>1, <2>2, <2>3 DEF FinalsExplored
<1>4. CASE TakeToken \/ ReadByte
  <2>1. /\ dfa' = dfa /\ final_states' = final_states
        /\ current_state' = current_state /\ seen' = seen /\ next_states' = next_states
        /\ pc \in {"tokens", "bytes"}
    BY <1>4, ArgumentsStay DEF Next, TakeToken, TakeTokenWhen, ReadByte, ReadByteUntil, table
  <2> QED BY <2>1 DEF FinalsExplored, Explored
<1>5. CASE RecordToken
  <2>1. /\ dfa' = dfa /\ final_states' = final_states /\ current_state' = current_state
        /\ pc = "bytes" /\ pc' = "tokens" /\ ~ PopState
    BY <1>5, ArgumentsStay DEF Next, RecordToken, RecordWhen, DropToken, PopState, PopStateWith
  <2>2. Explored' = Explored
    BY <1>5, <2>1, ExploredGrows DEF Next
  <2> QED BY <2>1, <2>2 DEF FinalsExplored
<1>6. CASE CompileFails \/ Finish
  BY <1>6 DEF CompileFails, Finish, FinalsExplored
<1> QED BY <1>1, <1>2, <1>3, <1>4, <1>5, <1>6 DEF Next

(* What the loop has seen to when it is done with the token w at s.        *)
Left(s, w) ==
  Alive(dfa, s, w) =>
    /\ After(dfa, s, w) \in seen
    /\ Recorded(dfa, After(dfa, s, w)) =>
         \A id \in Ids(vocabulary, w) : <<s, id>> \in DOMAIN transitions

LEMMA CompleteStep ==
  ASSUME TypeOK, ExploredOnce, Walked, Complete, [Next]_vars
  PROVE  Complete'
<1>1. CASE UNCHANGED vars
  BY <1>1 DEF vars, args, table, walk, dfa, Complete, TokensDone, Explored
<1>2. CASE CompileFails \/ Finish
  BY <1>2 DEF CompileFails, Finish, Complete
<1>3. CASE Compile
  <2>1. /\ dfa' = dfa /\ seen' = {dfa.start} /\ next_states' = <<dfa.start>>
        /\ current_state' = NoState /\ regex \in DOMAIN Dfa
        /\ vocabulary \in Vocabularies
    BY <1>3, ArgumentsStay DEF Next, Compile, TypeOK
  <2>2. Explored' = {}
    BY <2>1, SingletonFacts DEF Explored
  <2>3. ASSUME NEW s \in dfa.states PROVE TokensDone(s)' = {}
    <3>1. s # current_state'
      BY <2>1, Arguments
    <3> QED BY <2>2, <3>1 DEF TokensDone
  <2> QED BY <2>1, <2>3 DEF Complete
<1>4. CASE PopState \/ TakeToken \/ ReadByte \/ RecordToken
  <2>1. /\ dfa' = dfa /\ vocabulary' = vocabulary /\ regex \in DOMAIN Dfa
        /\ vocabulary \in Vocabularies
        /\ pc \in {"tokens", "bytes"} /\ pc' # "done"
    <3>1. pc \in {"tokens", "bytes"} /\ pc' # "done"
      BY <1>4 DEF PopState, PopStateWith, TakeToken, TakeTokenWhen, ReadByte,
                  ReadByteUntil, RecordToken, RecordWhen, DropToken
    <3> QED BY <1>4, <3>1, ArgumentsStay DEF Next, TypeOK
  <2>2. seen \subseteq seen' /\ DOMAIN transitions \subseteq DOMAIN transitions'
    <3>1. CASE RecordToken
      <4> DEFINE P == {current_state} \X Ids(vocabulary, token)
      <4>1. /\ seen' = seen \cup {next_state}
            /\ \/ transitions' = Insert(transitions, P, next_state)
               \/ transitions' = transitions
        BY <3>1 DEF RecordToken, RecordWhen
      <4> HIDE DEF P
      <4>2. DOMAIN Insert(transitions, P, next_state) = DOMAIN transitions \cup P
        BY InsertType, Zenon
      <4> QED BY <4>1, <4>2
    <3>2. CASE ~ RecordToken
      BY <1>4, <3>2 DEF PopState, PopStateWith, TakeToken, TakeTokenWhen, ReadByte,
                        ReadByteUntil, table
    <3> QED BY <3>1, <3>2
  <2>3. ASSUME NEW s \in dfa.states, NEW w \in TokensDone(s) PROVE Left(s, w)'
    <3>1. Left(s, w)
      BY <2>1, <2>3 DEF Complete, Left
    <3> QED BY <2>1, <2>2, <3>1 DEF Left
  <2>4. SUFFICES ASSUME NEW s \in dfa.states, NEW w \in TokensDone(s)', w \notin TokensDone(s)
                 PROVE  Left(s, w)'
    BY <2>1, <2>3 DEF Complete, Left
  <2>5. CASE PopState
    <3>1. todo = {} /\ todo' = Tokens(vocabulary) /\ pc = "tokens" /\ pc' = "tokens"
      BY <2>5 DEF PopState, PopStateWith
    <3>2. Explored' = Explored \cup ({current_state} \ {NoState})
      BY <2>1, <2>5, ExploredGrows DEF Next
    <3>3. s # current_state' /\ s \in Explored'
      BY <2>1, <2>4, <3>1 DEF TokensDone
    <3>4. w \in TokensDone(s)
      BY <2>1, <2>4, <3>1, <3>2, <3>3 DEF TokensDone
    <3> QED BY <2>4, <3>4
  <2>6. CASE TakeToken
    <3>1. /\ Explored' = Explored /\ current_state' = current_state /\ pc = "tokens"
      BY <2>6 DEF TakeToken, TakeTokenWhen, Explored
    <3>2. PICK u \in todo : todo' = todo \ {u} /\ pc' = "bytes" /\ token' = u
      BY <2>1, <2>6, Arguments DEF TakeToken, TakeTokenWhen, TypeOK
    <3>3. w \in TokensDone(s)
      BY <2>1, <2>4, <3>1, <3>2 DEF TokensDone
    <3> QED BY <2>4, <3>3
  <2>7. CASE ReadByte
    <3>1. /\ Explored' = Explored /\ current_state' = current_state /\ pc = "bytes"
          /\ todo' = todo
      BY <2>7 DEF ReadByte, ReadByteUntil, Explored
    <3>2. s = current_state /\ w = token /\ pc' = "tokens"
      BY <2>1, <2>4, <2>7, <3>1 DEF TokensDone, ReadByte, ReadByteUntil, DropToken
    <3>3. ~ Alive(dfa, s, w)
      BY <2>7, <3>2, ByteRead DEF Alive
    <3> QED BY <2>1, <3>3 DEF Left
  <2>8. CASE RecordToken
    <3>1. /\ pc = "bytes" /\ pc' = "tokens" /\ todo' = todo
          /\ current_state' = current_state /\ seen' = seen \cup {next_state}
      BY <2>8 DEF RecordToken, RecordWhen, DropToken
    <3>2. Explored' = Explored
      BY <2>1, <2>8, <3>1, ExploredGrows DEF Next, PopState, PopStateWith
    <3>3. s = current_state /\ w = token
      BY <2>1, <2>4, <3>1, <3>2 DEF TokensDone
    <3>4. After(dfa, s, w) = next_state
      BY <2>8, <3>3, WalkEnds
    <3>5. ASSUME Recorded(dfa, next_state), NEW id \in Ids(vocabulary, token)
          PROVE  <<s, id>> \in DOMAIN transitions'
      <4> DEFINE P == {current_state} \X Ids(vocabulary, token)
      <4>1. transitions' = Insert(transitions, P, next_state)
        BY <2>8, <3>5 DEF RecordToken, RecordWhen
      <4>2. DOMAIN transitions' = DOMAIN transitions \cup P
        <5> HIDE DEF P
        <5> QED BY <4>1, InsertType, Zenon
      <4> QED BY <3>3, <3>5, <4>2
    <3> QED BY <2>1, <3>1, <3>3, <3>4, <3>5 DEF Left
  <2> QED BY <1>4, <2>5, <2>6, <2>7, <2>8
<1> QED BY <1>1, <1>2, <1>3, <1>4 DEF Next

(* What the walks leave behind is the successors, the entries and the      *)
(* final states that NothingForgotten asks for.                            *)
LEMMA CompleteFacts ==
  ASSUME TypeOK, Complete, pc \in {"tokens", "bytes"},
         NEW s \in dfa.states, TokensDone(s) = Tokens(vocabulary)
  PROVE  /\ Successors(dfa, vocabulary, s) \subseteq seen
         /\ \A id : Targets(dfa, vocabulary, s, id) # {} => <<s, id>> \in DOMAIN transitions
<1>1. ASSUME NEW w \in Walks(dfa, vocabulary, s)
      PROVE  /\ After(dfa, s, w) \in seen
             /\ Recorded(dfa, After(dfa, s, w)) =>
                  \A id \in Ids(vocabulary, w) : <<s, id>> \in DOMAIN transitions
  <2>1. w \in TokensDone(s) /\ Alive(dfa, s, w)
    BY DEF Walks, Usable
  <2> QED BY <2>1 DEF Complete
<1> QED BY <1>1 DEF Successors, Targets

LEMMA Remembers ==
  ASSUME TypeOK, Complete, FinalsExplored PROVE NothingForgotten
<1> SUFFICES ASSUME pc \in {"tokens", "bytes"}, NEW s \in Explored
             PROVE  /\ Successors(dfa, vocabulary, s) \subseteq seen
                    /\ \A id \in AllIds(vocabulary) :
                         Targets(dfa, vocabulary, s, id) # {} => <<s, id>> \in DOMAIN transitions
                    /\ s \in final_states <=> s \in dfa.eoi
  BY DEF NothingForgotten
<1>1. s \in dfa.states /\ s # current_state
  BY DEF Explored, TypeOK
<1>2. TokensDone(s) = Tokens(vocabulary)
  BY <1>1 DEF TokensDone
<1>3. s \in final_states <=> s \in dfa.eoi
  BY DEF FinalsExplored
<1> QED BY <1>1, <1>2, <1>3, CompleteFacts

----------------------------------------------------------------------------
(* The result *)

(* When the stack is empty, what was met is what can be reached.           *)
LEMMA StackEmpty ==
  ASSUME IInv, Finish
  PROVE  /\ \A s \in seen : s \in dfa.states /\ TokensDone(s) = Tokens(vocabulary)
         /\ seen = Reachable(dfa, vocabulary)
         /\ final_states = seen \cap dfa.eoi
<1>1. /\ pc = "tokens" /\ todo = {} /\ next_states = <<>> /\ regex \in DOMAIN Dfa
      /\ seen \subseteq dfa.states /\ dfa.start \in seen
      /\ vocabulary \in Vocabularies
      /\ current_state # NoState => current_state \in seen
  BY DEF IInv, Finish, TypeOK, ExploredOnce
<1>2. Range(next_states) = {}
  BY <1>1 DEF Range
<1>3. ASSUME NEW s \in seen
      PROVE  s \in dfa.states /\ TokensDone(s) = Tokens(vocabulary)
  BY <1>1, <1>2 DEF TokensDone, Explored
<1>4. seen \in ClosedSets(dfa, vocabulary)
  <2>1. ASSUME NEW s \in seen PROVE Successors(dfa, vocabulary, s) \subseteq seen
    BY <1>1, <1>3, CompleteFacts DEF IInv
  <2> QED BY <1>1, <2>1, ClosedSetsDef
<1>5. seen = Reachable(dfa, vocabulary)
  BY <1>1, <1>4, LeastClosedSet DEF IInv, OnlyReachable
<1>6. final_states = seen \cap dfa.eoi
  <2>1. NoState \notin dfa.eoi
    BY <1>1, Arguments DEF IsAutomaton
  <2> QED BY <1>1, <1>2, <2>1 DEF IInv, FinalsExplored, Explored
<1> QED BY <1>3, <1>5, <1>6

(* The table it returns.                                                   *)
LEMMA FinishReturns ==
  ASSUME IInv, Finish
  PROVE  result'.tag = "ok" /\ IsIndex(dfa, vocabulary, result'.index)
<1> DEFINE reach == Reachable(dfa, vocabulary)
           E == final_states \X {vocabulary.eos}
           W == WithEos(transitions, final_states, vocabulary.eos)
<1>1. /\ pc = "tokens" /\ regex \in DOMAIN Dfa /\ vocabulary \in Vocabularies
      /\ DOMAIN transitions \subseteq dfa.states \X AllIds(vocabulary)
      /\ \A p \in DOMAIN transitions : transitions[p] \in dfa.states
      /\ final_states \subseteq dfa.states
  BY DEF IInv, Finish, TypeOK
<1>2. /\ seen = reach /\ seen \subseteq dfa.states /\ final_states = reach \cap dfa.eoi
      /\ \A s \in seen : TokensDone(s) = Tokens(vocabulary)
  BY StackEmpty
<1>3. /\ result'.tag = "ok" /\ result'.index.initial_state = dfa.start
      /\ result'.index.final_states = final_states
      /\ result'.index.eos_token_id = vocabulary.eos
      /\ result'.index.vocab_size = VocabLen(vocabulary)
      /\ result'.index.transitions = W
  BY DEF Finish, Ok
<1>4. W = [p \in DOMAIN transitions \cup E |-> IF p \in E THEN p[1] ELSE transitions[p]]
  BY Zenon DEF WithEos
<1> HIDE DEF W
<1>5. ASSUME NEW p \in DOMAIN transitions
      PROVE  /\ p \in seen \X AllIds(vocabulary)
             /\ transitions[p] \in Targets(dfa, vocabulary, p[1], p[2])
             /\ p[2] # vocabulary.eos
  <2>1. /\ p[1] \in Explored \cup {current_state}
        /\ transitions[p] \in Targets(dfa, vocabulary, p[1], p[2])
    BY <1>1 DEF IInv, EntriesSound
  <2>2. p \in dfa.states \X AllIds(vocabulary) /\ NoState \notin dfa.states
    BY <1>1, Arguments
  <2>3. p[1] \in seen
    BY <1>1, <2>1, <2>2 DEF Explored, IInv, ExploredOnce
  <2>4. p[2] # vocabulary.eos
    BY <2>1 DEF Targets, Walks, Usable
  <2> QED BY <2>1, <2>2, <2>3, <2>4
<1>6. ASSUME NEW p \in seen \X AllIds(vocabulary),
             Targets(dfa, vocabulary, p[1], p[2]) # {}
      PROVE  p \in DOMAIN transitions
  <2>1. p = <<p[1], p[2]>> /\ p[1] \in dfa.states /\ TokensDone(p[1]) = Tokens(vocabulary)
    BY <1>2
  <2>2. <<p[1], p[2]>> \in DOMAIN transitions
    BY <1>1, <1>6, <2>1, CompleteFacts DEF IInv
  <2> QED BY <2>1, <2>2
<1>7. DOMAIN transitions = {p \in reach \X AllIds(vocabulary) :
                              Targets(dfa, vocabulary, p[1], p[2]) # {}}
  <2> HIDE DEF reach
  <2> QED BY <1>2, <1>5, <1>6
<1>8. E = {<<s, vocabulary.eos>> : s \in reach \cap dfa.eoi}
  <2> HIDE DEF reach
  <2> QED BY <1>2
<1>9. DOMAIN transitions \cup E = Entries(dfa, vocabulary, reach)
  BY <1>7, <1>8 DEF Entries
<1>10. W \in [Entries(dfa, vocabulary, reach) -> dfa.states]
  <2>1. \A p \in E : p[1] \in dfa.states
    BY <1>1
  <2> HIDE DEF E, reach
  <2>2. \A p \in DOMAIN transitions \cup E :
          (IF p \in E THEN p[1] ELSE transitions[p]) \in dfa.states
    BY <1>1, <2>1
  <2> QED BY <1>4, <1>9, <2>2
<1>11. ASSUME NEW p \in DOMAIN W
       PROVE  IF p[2] = vocabulary.eos THEN W[p] = p[1]
                                       ELSE W[p] \in Targets(dfa, vocabulary, p[1], p[2])
  <2>1. \A e \in E : e[2] = vocabulary.eos
    OBVIOUS
  <2> HIDE DEF E
  <2> QED BY <1>4, <1>5, <2>1
<1> QED BY <1>2, <1>3, <1>10, <1>11 DEF IsIndex

LEMMA ReturnedStep == ASSUME IInv, [Next]_vars PROVE Returned'
<1>1. CASE UNCHANGED vars
  BY <1>1 DEF vars, args, dfa, IInv, Returned
<1>2. CASE Finish
  <2>1. dfa' = dfa /\ vocabulary' = vocabulary
    BY <1>2, ArgumentsStay DEF Next
  <2> QED BY <1>2, <2>1, FinishReturns DEF Returned
<1>3. CASE CompileFails
  BY <1>3, ArgumentsStay DEF Next, CompileFails, Returned
<1>4. CASE Compile \/ PopState \/ TakeToken \/ ReadByte \/ RecordToken
  BY <1>4 DEF Compile, PopState, PopStateWith, TakeToken, TakeTokenWhen, ReadByte,
              ReadByteUntil, RecordToken, RecordWhen, DropToken, Returned
<1> QED BY <1>1, <1>2, <1>3, <1>4 DEF Next

----------------------------------------------------------------------------
(* The inductive invariant, and what it gives. *)

LEMMA InvariantInit == ASSUME Init PROVE IInv
BY TypeInit, ExploredInit
   DEF IInv, Init, OnlyReachable, EntriesSound, Walked, Complete, FinalsExplored, Returned

LEMMA InvariantStep == ASSUME IInv, [Next]_vars PROVE IInv'
BY TypeStep, ExploredStep, ReachableStep, EntriesStep, WalkedStep, CompleteStep,
   FinalsStep, ReturnedStep
   DEF IInv

THEOREM Invariant == Spec => []IInv
BY InvariantInit, InvariantStep, PTL DEF Spec

(* The loop meets only states that the vocabulary leads to.                *)
THEOREM MeetsReachable == Spec => []OnlyReachable
<1>1. IInv => OnlyReachable
  BY DEF IInv
<1> QED BY <1>1, Invariant, PTL

(* Each entry of the table is the run of a token with that id.             *)
THEOREM EntriesAreSound == Spec => []EntriesSound
<1>1. IInv => EntriesSound
  BY DEF IInv
<1> QED BY <1>1, Invariant, PTL

(* No state, entry or final state is lost to the order of the tokens.      *)
THEOREM ForgetsNothing == Spec => []NothingForgotten
<1>1. IInv => NothingForgotten
  BY Remembers DEF IInv
<1> QED BY <1>1, Invariant, PTL

(* The result is a record with the fields of Index and no others.          *)
IndexFields ==
  pc = "done" /\ regex \in DOMAIN Dfa =>
    result.index =
      [ initial_state |-> result.index.initial_state,
        final_states |-> result.index.final_states,
        transitions |-> result.index.transitions,
        eos_token_id |-> result.index.eos_token_id,
        vocab_size |-> result.index.vocab_size ]

LEMMA IndexFieldsStep == ASSUME TypeOK, IndexFields, [Next]_vars PROVE IndexFields'
<1>1. CASE UNCHANGED vars
  BY <1>1 DEF vars, args, IndexFields
<1>2. CASE Finish
  BY <1>2 DEF Finish, Ok, IndexFields
<1>3. CASE CompileFails
  BY <1>3, ArgumentsStay DEF Next, CompileFails, IndexFields
<1>4. CASE Compile \/ PopState \/ TakeToken \/ ReadByte \/ RecordToken
  BY <1>4 DEF Compile, PopState, PopStateWith, TakeToken, TakeTokenWhen, ReadByte,
              ReadByteUntil, RecordToken, RecordWhen, DropToken, IndexFields
<1> QED BY <1>1, <1>2, <1>3, <1>4 DEF Next

(* The order in which the HashMaps are iterated is not seen, but in the    *)
(* state that an id leads to when it names tokens with several targets.    *)
THEOREM DoesNotDependOnOrder == Spec => []OrderIndependent
<1>1. Init => IndexFields
  BY DEF Init, IndexFields
<1>2. TypeOK /\ IndexFields /\ [Next]_vars => IndexFields'
  BY IndexFieldsStep
<1>3. IInv /\ IndexFields => OrderIndependent
  BY OneIndex DEF IInv, Returned, IndexFields, OrderIndependent
<1>4. IInv => TypeOK
  BY DEF IInv
<1> QED BY <1>1, <1>2, <1>3, <1>4, Invariant, PTL DEF Spec

(* The operators of Index mean the same in IndexSpec.                      *)
LEMMA SameIndex ==
  ASSUME NEW d, NEW v, NEW i
  PROVE  Abstract!IsIndex(d, v, i) <=> IsIndex(d, v, i)
BY Zenon DEF IsIndex, Abstract!IsIndex, Reachable, Abstract!Reachable,
     ClosedSets, Abstract!ClosedSets, Entries, Abstract!Entries, Targets,
     Abstract!Targets, Successors, Abstract!Successors, Walks, Abstract!Walks,
     Recorded, Abstract!Recorded, Usable, Abstract!Usable, AllIds,
     Abstract!AllIds, Ids, Abstract!Ids, Range, Abstract!Range, Tokens,
     Abstract!Tokens, After, Abstract!After, Alive, Abstract!Alive, Run,
     Abstract!Run, Stuck, Abstract!Stuck, VocabLen, Abstract!VocabLen,
     Cardinality, Abstract!Cardinality

(* Index::new implements IndexSpec: whatever the expression, the automaton *)
(* and the vocabulary, and in whatever order its HashMaps are iterated, it *)
(* returns once, and what it returns is an index of them.                  *)
THEOREM Implements == Spec => ImplementsIndexSpec
<1>1. ASSUME Init PROVE Abstract!Init
  BY <1>1 DEF Init, Abstract!Init, Pending
<1>2. ASSUME IInv, [Next]_vars PROVE [Abstract!Return]_(Abstract!vars)
  <2>1. CASE UNCHANGED vars
    BY <2>1 DEF vars, args, Abstract!vars
  <2>2. CASE Finish
    <3>1. result = Pending /\ regex \in DOMAIN Dfa
      BY <1>2, <2>2 DEF Finish, IInv, TypeOK
    <3>2. regex' = regex /\ vocabulary' = vocabulary
      BY <2>2, ArgumentsStay DEF Next
    <3>3. result'.tag = "ok" /\ Abstract!IsIndex(Dfa[regex], vocabulary, result'.index)
      BY <1>2, <2>2, FinishReturns, SameIndex DEF dfa
    <3>4. Abstract!IsResult(result')
      BY <3>1, <3>3 DEF Abstract!IsResult
    <3> QED BY <3>1, <3>2, <3>4 DEF Abstract!Return, Pending
  <2>3. CASE CompileFails
    <3>1. /\ result = Pending /\ regex \notin DOMAIN Dfa
          /\ result' = Err(CompileError[regex])
      BY <1>2, <2>3 DEF CompileFails, IInv, TypeOK
    <3>2. regex' = regex /\ vocabulary' = vocabulary
      BY <2>3, ArgumentsStay DEF Next
    <3>3. Abstract!IsResult(result')
      BY <3>1 DEF Abstract!IsResult, Err
    <3> QED BY <3>1, <3>2, <3>3 DEF Abstract!Return, Pending
  <2>4. CASE Compile \/ PopState \/ TakeToken \/ ReadByte \/ RecordToken
    BY <2>4 DEF Compile, PopState, PopStateWith, TakeToken, TakeTokenWhen, ReadByte,
                ReadByteUntil, RecordToken, RecordWhen, args, Abstract!vars
  <2> QED BY <1>2, <2>1, <2>2, <2>3, <2>4 DEF Next
<1> QED BY <1>1, <1>2, Invariant, PTL DEF Spec, ImplementsIndexSpec, Abstract!Spec

----------------------------------------------------------------------------
(* The call comes to an end *)

Running == pc \in {"tokens", "bytes"}

(* The states whose token loop has not begun.                              *)
Unexplored == dfa.states \ (seen \ Range(next_states))

(* What is left to do: phases of the call, states, tokens, bytes.          *)
PhasesLeft == IF pc = "compile" THEN 2 ELSE IF Running THEN 1 ELSE 0
StatesLeft == IF Running THEN Cardinality(Unexplored) ELSE 0
TokensLeft == Cardinality(todo)
BytesLeft  == IF pc = "bytes" THEN Len(token) + 1 - pos ELSE 0

Rank == <<PhasesLeft, StatesLeft, TokensLeft, BytesLeft>>

LEMMA RankType ==
  ASSUME TypeOK
  PROVE  PhasesLeft \in Nat /\ StatesLeft \in Nat /\ TokensLeft \in Nat /\ BytesLeft \in Nat
<1>1. StatesLeft \in Nat
  <2> SUFFICES ASSUME Running PROVE Cardinality(Unexplored) \in Nat
    BY DEF StatesLeft
  <2>1. IsFiniteSet(dfa.states)
    BY FiniteAssumption DEF Running, TypeOK, dfa
  <2> QED BY <2>1, FS_Subset, FS_CardinalityType DEF Unexplored
<1>2. TokensLeft \in Nat
  <2>1. IsFiniteSet(Tokens(vocabulary)) /\ todo \subseteq Tokens(vocabulary)
    BY FiniteAssumption DEF TypeOK
  <2> QED BY <2>1, FS_Subset, FS_CardinalityType DEF TokensLeft
<1>3. BytesLeft \in Nat
  <2>1. ASSUME pc = "bytes" PROVE Len(token) \in Nat /\ pos \in 0..Len(token)
    BY <2>1, Arguments DEF TypeOK
  <2> QED BY <2>1 DEF BytesLeft
<1> QED BY <1>1, <1>2, <1>3 DEF PhasesLeft

(* Popping a state puts it among those explored; a push, of a state that   *)
(* was not met before, explores nothing.                                   *)
LEMMA PopCounts ==
  ASSUME TypeOK, ExploredOnce, PopState
  PROVE  StatesLeft' < StatesLeft /\ PhasesLeft' = PhasesLeft
<1> DEFINE x == Last(next_states)
<1>1. /\ pc = "tokens" /\ pc' = "tokens" /\ seen' = seen /\ dfa' = dfa
      /\ next_states # <<>> /\ next_states' = Front(next_states)
  BY ArgumentsStay DEF Next, PopState, PopStateWith
<1>2. /\ regex \in DOMAIN Dfa /\ seen \subseteq dfa.states /\ next_states \in Seq(dfa.states)
      /\ Injective(next_states) /\ Range(next_states) \subseteq seen
  BY <1>1 DEF TypeOK, ExploredOnce, Injective
<1>3. x \in Range(next_states) /\ Range(next_states') = Range(next_states) \ {x}
  BY <1>1, <1>2, PopFacts
<1>4. x \in Unexplored /\ Unexplored' = Unexplored \ {x}
  BY <1>1, <1>2, <1>3 DEF Unexplored
<1>5. IsFiniteSet(Unexplored)
  <2>1. IsFiniteSet(dfa.states)
    BY <1>2, FiniteAssumption DEF dfa
  <2> QED BY <2>1, FS_Subset DEF Unexplored
<1>6. Cardinality(Unexplored') < Cardinality(Unexplored)
  BY <1>4, <1>5, FewerMembers
<1> QED BY <1>1, <1>6 DEF StatesLeft, PhasesLeft, Running

LEMMA RecordCounts ==
  ASSUME TypeOK, ExploredOnce, RecordToken
  PROVE  /\ StatesLeft' = StatesLeft /\ PhasesLeft' = PhasesLeft
         /\ TokensLeft' = TokensLeft /\ BytesLeft' < BytesLeft
<1>1. /\ pc = "bytes" /\ pc' = "tokens" /\ dfa' = dfa /\ pos = Len(token) /\ todo' = todo
      /\ seen' = seen \cup {next_state}
      /\ next_states' = IF next_state \notin seen THEN Append(next_states, next_state) ELSE next_states
  BY ArgumentsStay DEF Next, RecordToken, RecordWhen, DropToken
<1>2. /\ next_states \in Seq(dfa.states) /\ next_state \in dfa.states
      /\ Range(next_states) \subseteq seen /\ regex \in DOMAIN Dfa /\ token \in Tokens(vocabulary)
      /\ vocabulary \in Vocabularies
  BY <1>1 DEF TypeOK, ExploredOnce
<1>3. next_state \notin seen => Range(next_states') = Range(next_states) \cup {next_state}
  BY <1>1, <1>2, PushFacts
<1>4. Unexplored' = Unexplored
  BY <1>1, <1>2, <1>3 DEF Unexplored
<1>5. BytesLeft' < BytesLeft
  <2>1. Len(token) \in Nat
    BY <1>2, Arguments
  <2> QED BY <1>1, <2>1 DEF BytesLeft
<1> QED BY <1>1, <1>4, <1>5 DEF StatesLeft, PhasesLeft, TokensLeft, Running

LEMMA TakeCounts ==
  ASSUME TypeOK, TakeToken
  PROVE  /\ StatesLeft' = StatesLeft /\ PhasesLeft' = PhasesLeft /\ TokensLeft' < TokensLeft
<1>1. /\ pc = "tokens" /\ pc' \in {"tokens", "bytes"} /\ dfa' = dfa
      /\ seen' = seen /\ next_states' = next_states
  BY ArgumentsStay DEF Next, TakeToken, TakeTokenWhen
<1>2. PICK w \in todo : todo' = todo \ {w}
  BY DEF TakeToken, TakeTokenWhen
<1>3. IsFiniteSet(todo)
  <2>1. IsFiniteSet(Tokens(vocabulary)) /\ todo \subseteq Tokens(vocabulary)
    BY FiniteAssumption DEF TypeOK
  <2> QED BY <2>1, FS_Subset
<1>4. Cardinality(todo') < Cardinality(todo)
  BY <1>2, <1>3, FewerMembers
<1> QED BY <1>1, <1>4 DEF StatesLeft, PhasesLeft, TokensLeft, Running, Unexplored

LEMMA ReadCounts ==
  ASSUME TypeOK, ReadByte
  PROVE  /\ StatesLeft' = StatesLeft /\ PhasesLeft' = PhasesLeft
         /\ TokensLeft' = TokensLeft /\ BytesLeft' < BytesLeft
<1>1. /\ pc = "bytes" /\ dfa' = dfa /\ seen' = seen /\ next_states' = next_states /\ todo' = todo
      /\ pos < Len(token)
      /\ pc' = "tokens" \/ (pc' = "bytes" /\ token' = token /\ pos' = pos + 1)
  BY ArgumentsStay DEF Next, ReadByte, ReadByteUntil, DropToken
<1>2. Len(token) \in Nat /\ pos \in 0..Len(token)
  BY <1>1, Arguments DEF TypeOK
<1> QED BY <1>1, <1>2 DEF StatesLeft, PhasesLeft, TokensLeft, BytesLeft, Running, Unexplored

(* Every step of Index::new leaves less to do: a state, a token or a byte  *)
(* less, or a phase.  As such a countdown ends (CountdownEnds), the        *)
(* exploration does, however the automaton loops and however many tokens   *)
(* lead back to states already met.                                        *)
THEOREM BuildCountsDown == Spec => [][(<<Rank', Rank>> \in Countdown(4))]_vars
<1>1. ASSUME IInv, IInv', Next PROVE <<Rank', Rank>> \in Countdown(4)
  <2>1. TypeOK /\ TypeOK' /\ ExploredOnce
    BY <1>1 DEF IInv
  <2>2. /\ PhasesLeft \in Nat /\ StatesLeft \in Nat /\ TokensLeft \in Nat /\ BytesLeft \in Nat
        /\ PhasesLeft' \in Nat /\ StatesLeft' \in Nat /\ TokensLeft' \in Nat /\ BytesLeft' \in Nat
    <3>1. /\ (TypeOK => PhasesLeft \in Nat /\ StatesLeft \in Nat /\ TokensLeft \in Nat /\ BytesLeft \in Nat)'
      BY RankType, PTL
    <3> QED BY <2>1, <3>1, RankType
  <2>3. \/ PhasesLeft' < PhasesLeft
        \/ PhasesLeft' = PhasesLeft /\ StatesLeft' < StatesLeft
        \/ PhasesLeft' = PhasesLeft /\ StatesLeft' = StatesLeft /\ TokensLeft' < TokensLeft
        \/ /\ PhasesLeft' = PhasesLeft /\ StatesLeft' = StatesLeft
           /\ TokensLeft' = TokensLeft /\ BytesLeft' < BytesLeft
    <3>1. CASE CompileFails \/ Compile \/ Finish
      BY <3>1 DEF CompileFails, Compile, Finish, PhasesLeft, Running
    <3>2. CASE PopState
      BY <2>1, <3>2, PopCounts
    <3>3. CASE TakeToken
      BY <2>1, <3>3, TakeCounts
    <3>4. CASE ReadByte
      BY <2>1, <3>4, ReadCounts
    <3>5. CASE RecordToken
      BY <2>1, <3>5, RecordCounts
    <3> QED BY <1>1, <3>1, <3>2, <3>3, <3>4, <3>5 DEF Next
  <2> QED BY <2>2, <2>3, CountsDownFour DEF Rank
<1> QED BY <1>1, Invariant, PTL DEF Spec
=============================================================================
