---------------------------- MODULE GuideProofs ----------------------------
(***************************************************************************)
(* A guide follows the text and offers what the text determines, for all   *)
(* indexes that Index::new returns and all texts.                          *)
(***************************************************************************)
EXTENDS Guide, IndexTheorems

----------------------------------------------------------------------------
(* The index and its automaton *)

LEMMA BuildFacts ==
  ASSUME NEW b \in Builds
  PROVE  /\ IsAutomaton(b.dfa)
         /\ Tokens(b.vocabulary) \subseteq Seq(b.dfa.bytes)
         /\ UniqueIds(b.vocabulary)
         /\ IsIndex(b.dfa, b.vocabulary, b.index)
         /\ b.dfa.start \in b.dfa.states
         /\ b.index.initial_state = b.dfa.start
BY BuildsAssumption DEF IsAutomaton, IsIndex

(* The empty text: the automaton is at its start.                          *)
LEMMA EmptyText ==
  ASSUME NEW d, IsAutomaton(d)
  PROVE  Alive(d, d.start, <<>>) /\ After(d, d.start, <<>>) = d.start
<1>1. PICK w \in Seq(d.bytes) : w = <<>>
  BY EmptySeq
<1>2. d.start \in d.states /\ Len(w) = 0
  BY <1>1 DEF IsAutomaton
<1>3. Run(d, d.start, w)[0] = d.start
  <2>1. \A u \in Seq(d.bytes) : Run(d, d.start, u)[0] = d.start
    BY <1>2, RunProperties
  <2> QED BY <2>1
<1>4. Alive(d, d.start, w) /\ After(d, d.start, w) = d.start
  BY <1>2, <1>3 DEF Alive, After
<1> QED BY <1>1, <1>4

(* advance with an id that leads on walks the token of that id.            *)
LEMMA AdvanceFacts ==
  ASSUME build \in Builds, NEW id, NEW q \in NextStates(index, state, id)
  PROVE  /\ TokenOf(id) \in Walks(build.dfa, build.vocabulary, state)
         /\ id \in Ids(build.vocabulary, TokenOf(id))
         /\ Recorded(build.dfa, q)
         /\ q = After(build.dfa, state, TokenOf(id))
<1> DEFINE v == build.vocabulary
<1>1. IsIndex(build.dfa, v, index) /\ UniqueIds(v)
  BY BuildFacts DEF index
<1>2. PICK w \in Walks(build.dfa, v, state) :
        id \in Ids(v, w) /\ Recorded(build.dfa, After(build.dfa, state, w))
                         /\ q = After(build.dfa, state, w)
  BY <1>1, NextStatesFacts
<1>3. w \in Tokens(v)
  BY DEF Walks, Usable
<1>4. TokenOf(id) \in Tokens(v) /\ id \in Ids(v, TokenOf(id))
  BY <1>2, <1>3 DEF TokenOf
<1>5. TokenOf(id) = w
  BY <1>1, <1>2, <1>3, <1>4 DEF UniqueIds
<1> QED BY <1>2, <1>5

----------------------------------------------------------------------------
(* The guide's place *)

(* What a guide keeps: its state is where the text leads.                  *)
Place ==
  /\ build \in Builds
  /\ text \in Seq(build.dfa.bytes)
  /\ FollowsText

LEMMA PlaceInit == ASSUME Init PROVE Place
<1>1. /\ build \in Builds /\ text = <<>> /\ state = build.dfa.start
      /\ IsAutomaton(build.dfa)
  BY BuildFacts DEF Init
<1> QED BY <1>1, EmptyText, ReachableIsClosed DEF Place, FollowsText

(* One token further.                                                      *)
LEMMA PlaceAdvance ==
  ASSUME Place, NEW id, NEW q \in NextStates(index, state, id)
  PROVE  LET w == TokenOf(id) IN
         /\ text \o w \in Seq(build.dfa.bytes)
         /\ Alive(build.dfa, build.dfa.start, text \o w)
         /\ q = After(build.dfa, build.dfa.start, text \o w)
         /\ q \in Reachable(build.dfa, build.vocabulary)
<1> DEFINE d == build.dfa
           v == build.vocabulary
           w == TokenOf(id)
<1>1. /\ IsAutomaton(d) /\ Tokens(v) \subseteq Seq(d.bytes) /\ d.start \in d.states
      /\ text \in Seq(d.bytes)
      /\ Alive(d, d.start, text) /\ state = After(d, d.start, text)
      /\ state \in Reachable(d, v)
  BY BuildFacts DEF Place, FollowsText
<1>2. w \in Walks(d, v, state) /\ q = After(d, state, w)
  BY AdvanceFacts DEF Place
<1>3. w \in Tokens(v) /\ w \in Seq(d.bytes) /\ Alive(d, state, w)
  BY <1>1, <1>2 DEF Walks, Usable
<1>4. state \in d.states
  BY <1>1, ReachableIsClosed
<1> HIDE DEF d, v, w
<1>5. /\ After(d, d.start, text \o w) = After(d, state, w)
      /\ Alive(d, d.start, text \o w)
  BY <1>1, <1>3, RunConcat
<1>6. q \in d.states /\ q \in Successors(d, v, state)
  BY <1>1, <1>2, <1>3, <1>4, RunProperties DEF Successors
<1>7. q \in Reachable(d, v)
  BY <1>1, <1>6, ReachableIsClosed
<1>8. text \o w \in Seq(d.bytes)
  BY <1>1, <1>3
<1> QED BY <1>2, <1>5, <1>7, <1>8 DEF d, v, w

LEMMA PlaceStep == ASSUME Place, [Next]_vars PROVE Place'
<1>1. CASE UNCHANGED vars
  BY <1>1 DEF vars, Place, FollowsText
<1>2. ASSUME NEW id \in AllIds(build.vocabulary), NEW return_tokens \in BOOLEAN,
             Advance(id, return_tokens)
      PROVE  Place'
  <2>1. /\ state' \in NextStates(index, state, id) /\ text' = text \o TokenOf(id)
        /\ build' = build
    BY <1>2 DEF Advance, AdvanceMoving
  <2>2. build \in Builds
    BY DEF Place
  <2> QED BY <2>1, <2>2, PlaceAdvance DEF Place, FollowsText
<1>3. ASSUME NEW id \in AllIds(build.vocabulary), AdvanceRefused(id) PROVE Place'
  BY <1>3 DEF AdvanceRefused, RefuseAt, Place, FollowsText
<1>4. CASE Reset
  <2>1. /\ build' = build /\ text' = <<>> /\ state' = build.dfa.start
        /\ build \in Builds /\ IsAutomaton(build.dfa)
    BY <1>4, BuildFacts DEF Reset, ResetTo, index, Place
  <2> QED BY <2>1, EmptyText, ReachableIsClosed DEF Place, FollowsText
<1> QED BY <1>1, <1>2, <1>3, <1>4 DEF Next

(* The guide's state is the one its text leads to.                         *)
THEOREM NeverLosesItsPlace == Spec => []FollowsText
<1>1. Place => FollowsText
  BY DEF Place
<1> QED BY <1>1, PlaceInit, PlaceStep, PTL DEF Spec

(* An error moves the guide only into a state where every id is refused.   *)
THEOREM ErrorsKeepPlace == Spec => ErrorKeepsPlace
<1>1. ASSUME [Next]_vars
      PROVE  [reply' = Refused /\ state' # state
                => \A id \in AllIds(build.vocabulary) : NextStates(index, state', id) = {}]_vars
  <2>1. SUFFICES ASSUME Next, reply' = Refused, state' # state,
                        NEW id \in AllIds(build.vocabulary)
                 PROVE  NextStates(index, state', id) = {}
    BY <1>1
  <2>2. PICK i \in AllIds(build.vocabulary), return_tokens \in BOOLEAN :
          Advance(i, return_tokens)
    BY <2>1 DEF Next, AdvanceRefused, RefuseAt, Reset, ResetTo, Refused, None
  <2>3. reply' = IF return_tokens THEN get_tokens(state') ELSE None
    BY <2>2 DEF Advance, AdvanceMoving
  <2>4. AllowedTokens(index, state') = {}
    BY <2>1, <2>3 DEF get_tokens, Refused, None, Listed
  <2>5. <<state', id>> \notin DOMAIN index.transitions
    BY <2>4 DEF AllowedTokens
  <2> QED BY <2>5 DEF NextStates
<1> QED BY <1>1, PTL DEF Spec, ErrorKeepsPlace

----------------------------------------------------------------------------
(* Type correctness *)

LEMMA AllowedType ==
  ASSUME build \in Builds, NEW s
  PROVE  AllowedTokens(index, s) \subseteq AllIds(build.vocabulary)
<1> DEFINE v == build.vocabulary
           reach == Reachable(build.dfa, v)
<1>1. DOMAIN index.transitions = Entries(build.dfa, v, reach)
  BY BuildFacts DEF IsIndex, index
<1>2. v.eos \in AllIds(v)
  BY DEF AllIds
<1>3. \A p \in Entries(build.dfa, v, reach) : p[2] \in AllIds(v)
  BY <1>2 DEF Entries
<1> QED BY <1>1, <1>3 DEF AllowedTokens

LEMMA TypeStep == ASSUME TypeOK, Place, [Next]_vars PROVE TypeOK'
<1>1. CASE UNCHANGED vars
  BY <1>1 DEF vars, TypeOK
<1>2. ASSUME Next PROVE build' = build
  BY <1>2 DEF Next, Advance, AdvanceMoving, AdvanceRefused, RefuseAt, Reset, ResetTo
<1>3. ASSUME Next
      PROVE  state' \in build.dfa.states /\ text' \in Seq(build.dfa.bytes)
  <2>1. Place' /\ build' = build
    BY <1>2, <1>3, PlaceStep
  <2> QED BY <2>1, BuildFacts, ReachableIsClosed DEF Place, FollowsText
<1>4. ASSUME Next PROVE Len(text') <= MaxText
  BY <1>4, MaxTextAssumption
     DEF Next, Advance, AdvanceMoving, AdvanceRefused, RefuseAt, Reset, ResetTo, TypeOK
<1>5. ASSUME Next
      PROVE  \/ reply' \in {Refused, None}
             \/ reply'.tag = "tokens" /\ reply'.tokens \subseteq AllIds(build.vocabulary)
  <2>1. \A s : \/ get_tokens(s) = Refused
             \/ /\ get_tokens(s).tag = "tokens"
                /\ get_tokens(s).tokens = AllowedTokens(index, s)
    BY DEF get_tokens, Listed
  <2>2. reply' \in {Refused, None} \/ reply' = get_tokens(state')
    BY <1>5 DEF Next, Advance, AdvanceMoving, AdvanceRefused, RefuseAt, Reset, ResetTo
  <2> QED BY <2>1, <2>2, AllowedType DEF TypeOK
<1> QED BY <1>1, <1>2, <1>3, <1>4, <1>5 DEF TypeOK

THEOREM TypeCorrect == Spec => []TypeOK
<1>1. ASSUME Init PROVE TypeOK
  <2>1. Place
    BY <1>1, PlaceInit
  <2>2. state \in build.dfa.states /\ text \in Seq(build.dfa.bytes)
    BY <2>1, BuildFacts, ReachableIsClosed DEF Place, FollowsText
  <2> QED BY <1>1, <2>2, MaxTextAssumption DEF Init, TypeOK
<1> QED BY <1>1, PlaceInit, PlaceStep, TypeStep, PTL DEF Spec

----------------------------------------------------------------------------
(* The guide implements Recognizer. *)

(* The operators of Index mean the same in Recognizer.                     *)
LEMMA SameOperators ==
  /\ \A d, s, w : Abstract!Alive(d, s, w) <=> Alive(d, s, w)
  /\ \A d, s, w : Abstract!After(d, s, w) = After(d, s, w)
  /\ \A d, q : Abstract!Recorded(d, q) <=> Recorded(d, q)
  /\ \A v : Abstract!AllIds(v) = AllIds(v) /\ Abstract!Usable(v) = Usable(v)
  /\ \A v, w : Abstract!Ids(v, w) = Ids(v, w)
BY Zenon DEF Alive, Abstract!Alive, After, Abstract!After, Run, Abstract!Run,
     Stuck, Abstract!Stuck, Recorded, Abstract!Recorded, AllIds, Abstract!AllIds,
     Usable, Abstract!Usable, Ids, Abstract!Ids, Tokens, Abstract!Tokens,
     Range, Abstract!Range

(* The state s of the index of b is where the text t leads.                *)
LeadsTo(b, t, s) ==
  /\ b \in Builds
  /\ t \in Seq(b.dfa.bytes)
  /\ Alive(b.dfa, b.dfa.start, t)
  /\ s = After(b.dfa, b.dfa.start, t)
  /\ s \in Reachable(b.dfa, b.vocabulary)

(* A text can be continued with a token when the token leads on from the   *)
(* state the text leads to.                                                *)
LEMMA ContinuesFacts ==
  ASSUME NEW b, NEW t, NEW s, LeadsTo(b, t, s), NEW w \in Usable(b.vocabulary)
  PROVE  Abstract!Continues(b, t, w) <=>
           Alive(b.dfa, s, w) /\ Recorded(b.dfa, After(b.dfa, s, w))
<1> DEFINE d == b.dfa
<1>1. /\ IsAutomaton(d) /\ d.start \in d.states /\ t \in Seq(d.bytes)
      /\ w \in Seq(d.bytes) /\ Alive(d, d.start, t)
      /\ s = After(d, d.start, t)
  BY BuildFacts DEF LeadsTo, Usable
<1> HIDE DEF d
<1>2. /\ After(d, d.start, t \o w) = After(d, s, w)
      /\ Alive(d, d.start, t \o w) <=> Alive(d, s, w)
  BY <1>1, RunConcat
<1> QED BY <1>2, SameOperators DEF Abstract!Continues, d

(* The ids listed at that state are those the text determines.             *)
LEMMA OffersText ==
  ASSUME NEW b, NEW t, NEW s, LeadsTo(b, t, s)
  PROVE  /\ AllowedTokens(b.index, s) = Abstract!Offered(b, t)
         /\ IsFinalState(b.index, s) = Abstract!Matches(b, t)
<1> DEFINE d == b.dfa
           v == b.vocabulary
<1>1. /\ IsIndex(d, v, b.index) /\ s \in Reachable(d, v)
      /\ s = After(d, d.start, t)
  BY BuildFacts DEF LeadsTo
<1>2. Abstract!Matches(b, t) = (s \in d.eoi)
  BY <1>1, SameOperators DEF Abstract!Matches
<1>3. IsFinalState(b.index, s) = (s \in d.eoi)
  BY <1>1 DEF IsFinalState, IsIndex
<1>4. ASSUME NEW id
      PROVE  Targets(d, v, s, id) # {} <=>
               \E w \in Usable(v) : id \in Ids(v, w) /\ Abstract!Continues(b, t, w)
  BY ContinuesFacts DEF Targets, Walks
<1>5. Abstract!Offered(b, t) =
        {id \in AllIds(v) : Targets(d, v, s, id) # {}}
          \cup (IF s \in d.eoi THEN {v.eos} ELSE {})
  BY <1>2, <1>4, SameOperators DEF Abstract!Offered
<1>6. AllowedTokens(b.index, s) =
        {id \in AllIds(v) : Targets(d, v, s, id) # {}}
          \cup (IF s \in d.eoi THEN {v.eos} ELSE {})
  BY <1>1, AllowedFacts
<1> QED BY <1>2, <1>3, <1>5, <1>6

(* The guide implements Recognizer: after every step the ids on offer and  *)
(* the finished flag are those the text so far determines.                 *)
THEOREM Implements == Spec => ImplementsRecognizer
<1>1. ASSUME Init PROVE Abstract!Init
  <2>1. text = <<>> /\ build \in Builds
    BY <1>1 DEF Init
  <2>2. LeadsTo(build, text, state)
    BY <1>1, PlaceInit DEF Place, FollowsText, LeadsTo
  <2>3. /\ AllowedTokens(index, state) = Abstract!Offered(build, text)
        /\ is_finished(state) = Abstract!Matches(build, text)
    BY <2>2, OffersText DEF index, is_finished
  <2> QED BY <2>1, <2>3 DEF Abstract!Init
<1>2. ASSUME Place, [Next]_vars PROVE [Abstract!Next]_(Abstract!vars)
  <2>1. Place'
    BY <1>2, PlaceStep
  <2>2. CASE UNCHANGED vars
    BY <2>2 DEF vars, index, Abstract!vars, is_finished
  <2>3. ASSUME Next PROVE Abstract!Shows(build, text') /\ build' = build
    <3>1. build' = build
      BY <2>3 DEF Next, Advance, AdvanceMoving, AdvanceRefused, RefuseAt, Reset, ResetTo
    <3>2. LeadsTo(build', text', state')
      BY <2>1 DEF Place, FollowsText, LeadsTo
    <3>3. /\ AllowedTokens(index', state') = Abstract!Offered(build', text')
          /\ is_finished(state)' = Abstract!Matches(build', text')
      BY <3>2, OffersText DEF index, is_finished
    <3> QED BY <3>1, <3>3 DEF Abstract!Shows
  <2>4. ASSUME NEW id \in AllIds(build.vocabulary), NEW return_tokens \in BOOLEAN,
               Advance(id, return_tokens)
        PROVE  Abstract!Extend
    <3> DEFINE w == TokenOf(id)
    <3>1. /\ state' \in NextStates(index, state, id) /\ text' = text \o w
          /\ Len(text \o w) <= MaxText /\ build \in Builds
      BY <1>2, <2>4 DEF Advance, AdvanceMoving, Place
    <3>2. w \in Walks(build.dfa, build.vocabulary, state)
          /\ Recorded(build.dfa, After(build.dfa, state, w))
      BY <3>1, AdvanceFacts
    <3> HIDE DEF w
    <3>3. w \in Usable(build.vocabulary) /\ Abstract!Continues(build, text, w)
      BY <1>2, <3>2, ContinuesFacts DEF Walks, Place, FollowsText, LeadsTo
    <3>4. Abstract!Shows(build, text') /\ build' = build
      BY <2>3, <2>4 DEF Next
    <3> QED BY <3>1, <3>3, <3>4, SameOperators DEF Abstract!Extend
  <2>5. ASSUME NEW id \in AllIds(build.vocabulary), AdvanceRefused(id)
        PROVE  UNCHANGED Abstract!vars
    BY <2>5 DEF AdvanceRefused, RefuseAt, index, Abstract!vars, is_finished
  <2>6. CASE Reset
    <3>1. Abstract!Shows(build, text') /\ build' = build
      BY <2>3, <2>6 DEF Next
    <3> QED BY <2>6, <3>1 DEF Reset, ResetTo, Abstract!Restart, Abstract!Next
  <2> QED BY <1>2, <2>2, <2>4, <2>5, <2>6 DEF Next, Abstract!Next
<1> QED BY <1>1, <1>2, PlaceInit, PlaceStep, PTL
        DEF Spec, ImplementsRecognizer, Abstract!Spec

----------------------------------------------------------------------------
(* Generation is never stranded *)

LEMMA OneElement ==
  ASSUME NEW S, NEW x \in S
  PROVE  <<x>> \in Seq(S) /\ Len(<<x>>) = 1 /\ <<x>>[1] = x
OBVIOUS

(* The walk of one byte is one step of the automaton.                      *)
LEMMA ByteWalk ==
  ASSUME NEW d, IsAutomaton(d), NEW s \in d.states, NEW x \in d.bytes
  PROVE  /\ <<x>> \in Seq(d.bytes)
         /\ After(d, s, <<x>>) = d.next[<<s, x>>]
         /\ Alive(d, s, <<x>>) <=> d.next[<<s, x>>] \notin Stuck(d)
<1> DEFINE w == <<x>>
<1>1. w \in Seq(d.bytes) /\ Len(w) = 1 /\ w[1] = x
  BY OneElement
<1> HIDE DEF w
<1>2. Run(d, s, w)[0] = s /\ Run(d, s, w)[1] = d.next[<<s, x>>]
  <2>1. /\ Run(d, s, w)[0] = s
        /\ \A k \in 1..Len(w) : Run(d, s, w)[k] = d.next[<<Run(d, s, w)[k-1], w[k]>>]
    BY <1>1, RunProperties
  <2>2. 1 \in 1..Len(w) /\ 1 - 1 = 0
    BY <1>1
  <2> QED BY <1>1, <2>1, <2>2
<1>3. 1..Len(w) = {1}
  BY <1>1
<1> QED BY <1>1, <1>2, <1>3 DEF After, Alive, w

(* A walk ends where it began or in a state that is not stuck.             *)
LEMMA WalkEnds ==
  ASSUME NEW d, IsAutomaton(d), NEW s \in d.states, NEW w \in Seq(d.bytes), Alive(d, s, w)
  PROVE  After(d, s, w) = s \/ After(d, s, w) \notin Stuck(d)
<1>1. CASE Len(w) = 0
  <2>1. Run(d, s, w)[0] = s
    BY RunProperties
  <2> QED BY <1>1, <2>1 DEF After
<1>2. CASE Len(w) # 0
  <2>1. Len(w) \in 1..Len(w)
    BY <1>2
  <2> QED BY <2>1 DEF Alive, After
<1> QED BY <1>1, <1>2

(* The states that a guide gets to: the start, and those that are recorded *)
(* in the table and not stuck.                                             *)
OnTrack ==
  \/ state = build.dfa.start
  \/ state \notin Stuck(build.dfa) /\ Recorded(build.dfa, state)

LEMMA OnTrackInit == ASSUME Init PROVE OnTrack
BY BuildFacts DEF Init, OnTrack

LEMMA OnTrackStep == ASSUME Place, OnTrack, [Next]_vars PROVE OnTrack'
<1> DEFINE d == build.dfa
<1>1. CASE UNCHANGED vars
  BY <1>1 DEF vars, OnTrack
<1>2. ASSUME NEW id \in AllIds(build.vocabulary), NEW return_tokens \in BOOLEAN,
             Advance(id, return_tokens)
      PROVE  OnTrack'
  <2> DEFINE w == TokenOf(id)
  <2>1. state' \in NextStates(index, state, id) /\ build' = build /\ build \in Builds
    BY <1>2 DEF Advance, AdvanceMoving, Place
  <2>2. /\ w \in Walks(d, build.vocabulary, state)
        /\ Recorded(d, state') /\ state' = After(d, state, w)
    BY <2>1, AdvanceFacts
  <2>3. IsAutomaton(d) /\ w \in Seq(d.bytes) /\ Alive(d, state, w) /\ state \in d.states
    BY <2>1, <2>2, BuildFacts, ReachableIsClosed DEF Walks, Usable, Place, FollowsText
  <2> HIDE DEF w
  <2>4. state' = state \/ state' \notin Stuck(d)
    BY <2>2, <2>3, WalkEnds
  <2> QED BY <2>1, <2>2, <2>4 DEF OnTrack
<1>3. ASSUME NEW id \in AllIds(build.vocabulary), AdvanceRefused(id) PROVE OnTrack'
  BY <1>3 DEF AdvanceRefused, RefuseAt, OnTrack
<1>4. CASE Reset
  BY <1>4, BuildFacts DEF Reset, ResetTo, OnTrack, Place, index
<1> QED BY <1>1, <1>2, <1>3, <1>4 DEF Next

(* A byte that the automaton goes on with, where nothing has matched yet,  *)
(* is a transition of the index.                                           *)
LEMMA ByteTransition ==
  ASSUME NEW b \in Builds, ByteComplete(b), MatchesLate(b.dfa),
         NEW s \in Reachable(b.dfa, b.vocabulary), s \notin b.dfa.eoi, NEW x \in b.dfa.bytes,
         b.dfa.next[<<s, x>>] \notin Stuck(b.dfa)
  PROVE  LET q == b.dfa.next[<<s, x>>] IN
         /\ q \in Reachable(b.dfa, b.vocabulary) /\ q \notin b.dfa.match
         /\ \E p \in DOMAIN b.index.transitions : p[1] = s /\ b.index.transitions[p] = q
<1> DEFINE d == b.dfa
           v == b.vocabulary
           w == <<x>>
           q == d.next[<<s, x>>]
<1>1. /\ IsAutomaton(d) /\ UniqueIds(v) /\ IsIndex(d, v, b.index) /\ s \in d.states
  BY BuildFacts, ReachableIsClosed
<1>2. w \in Usable(v) /\ \E id : id \in Ids(v, w)
  BY DEF ByteComplete
<1>3. w \in Walks(d, v, s) /\ After(d, s, w) = q
  BY <1>1, <1>2, ByteWalk DEF Walks
<1>4. q \in d.states
  BY <1>1 DEF IsAutomaton
<1>5. q \in Reachable(d, v)
  BY <1>1, <1>3, <1>4, ReachableIsClosed DEF Successors
<1>6. q \notin d.match
  BY <1>1 DEF MatchesLate
<1>7. PICK id : id \in Ids(v, w) /\ id # v.eos /\ id \in AllIds(v)
  BY <1>2 DEF Usable, AllIds
<1> HIDE DEF w, q, v, d
<1>8. q \in Targets(d, v, s, id)
  BY <1>3, <1>6, <1>7 DEF Targets, Recorded
<1>9. \A y \in Targets(d, v, s, id) : y = q
  BY <1>1, <1>3, <1>7 DEF Targets, UniqueIds, Walks, Usable
<1> DEFINE p == <<s, id>>
<1>10. p \in DOMAIN b.index.transitions /\ p[1] = s /\ p[2] = id
  BY <1>1, <1>7, <1>8 DEF IsIndex, Entries, d, v
<1>11. b.index.transitions[p] \in Targets(d, v, s, id)
  BY <1>1, <1>7, <1>10 DEF IsIndex
<1> QED BY <1>5, <1>6, <1>9, <1>10, <1>11 DEF q, d, v

(* With every byte in the vocabulary, no state that the guide gets to is a *)
(* trap: the filter on what is recorded takes no way to a match away.      *)
THEOREM GuideNeverStranded == Spec => []NeverStranded
<1>1. ASSUME Place, OnTrack PROVE NeverStranded
  <2> DEFINE d == build.dfa
             v == build.vocabulary
  <2>1. SUFFICES ASSUME ByteComplete(build), MatchesLate(d), NoTrap(d),
                        NEW C \in SUBSET d.states, state \in C,
                        \A p \in DOMAIN index.transitions :
                          p[1] \in C => index.transitions[p] \in C,
                        C \cap index.final_states = {}
                 PROVE  FALSE
    BY DEF NeverStranded, CanFinish
  <2>2. /\ build \in Builds /\ IsAutomaton(d) /\ IsIndex(d, v, index)
        /\ state \in Reachable(d, v)
    BY <1>1, BuildFacts DEF Place, FollowsText, index
  <2>3. \A s \in C \cap Reachable(d, v) : s \notin d.eoi
    BY <2>1, <2>2 DEF IsIndex
  <2> DEFINE D == {s \in C \cap Reachable(d, v) : s \notin Stuck(d) \cup d.match}
  <2>4. state \in D
    <3>1. state \notin d.eoi
      BY <2>1, <2>2, <2>3
    <3>2. d.start \notin Stuck(d) \cup d.match
      BY <2>1 DEF MatchesLate, NoTrap
    <3> QED BY <1>1, <2>1, <2>2, <3>1, <3>2 DEF OnTrack, Recorded
  <2>5. D \in SUBSET (d.states \ (Stuck(d) \cup d.match \cup d.eoi))
    BY <2>3
  <2>6. PICK s \in D, x \in d.bytes : d.next[<<s, x>>] \notin Stuck(d) \cup D
    <3> HIDE DEF D
    <3> QED BY <2>1, <2>4, <2>5 DEF NoTrap
  <2> DEFINE q == d.next[<<s, x>>]
  <2>7. /\ q \in Reachable(d, v) /\ q \notin d.match
        /\ \E p \in DOMAIN index.transitions : p[1] = s /\ index.transitions[p] = q
    BY <2>1, <2>2, <2>3, <2>6, ByteTransition DEF index
  <2>8. q \in C
    BY <2>1, <2>6, <2>7
  <2> QED BY <2>6, <2>7, <2>8
<1> QED BY <1>1, PlaceInit, PlaceStep, OnTrackInit, OnTrackStep, PTL DEF Spec
=============================================================================
