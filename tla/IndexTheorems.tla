--------------------------- MODULE IndexTheorems ---------------------------
(***************************************************************************)
(* Facts about the runs of an automaton, and about the table that it and a *)
(* vocabulary determine.                                                   *)
(***************************************************************************)
EXTENDS Index, Basics

----------------------------------------------------------------------------
(* Runs: the recursive function Run is what its equations say, there is    *)
(* one run of each word, and the run of a concatenation is the two runs    *)
(* end to end.                                                             *)

Follows(d, s, w, n, r) ==
  /\ r[0] = s
  /\ \A k \in 1..n : r[k] = d.next[<<r[k-1], w[k]>>]

(* r holds the first n steps of the run of d from s over w.                *)
RunUpto(d, s, w, n, r) == r \in [0..n -> d.states] /\ Follows(d, s, w, n, r)

IsRun(d, s, w, r) == RunUpto(d, s, w, Len(w), r)

(* One step of a run stays among the states.                               *)
LEMMA NextType ==
  ASSUME NEW d, IsAutomaton(d), NEW s \in d.states, NEW b \in d.bytes
  PROVE  d.next[<<s, b>>] \in d.states
BY DEF IsAutomaton

(* A run can be taken one byte further.                                    *)
LEMMA RunExtends ==
  ASSUME NEW d, IsAutomaton(d), NEW s \in d.states, NEW w \in Seq(d.bytes),
         NEW n \in 1..Len(w), NEW r, RunUpto(d, s, w, n - 1, r)
  PROVE  \E q : RunUpto(d, s, w, n, q)
<1> DEFINE q == [k \in 0..n |-> IF k = n THEN d.next[<<r[n-1], w[n]>>] ELSE r[k]]
<1>1. n - 1 \in Nat /\ Len(w) \in Nat /\ w[n] \in d.bytes
  OBVIOUS
<1>2. r[n-1] \in d.states
  BY <1>1 DEF RunUpto, Follows
<1>3. d.next[<<r[n-1], w[n]>>] \in d.states
  BY <1>1, <1>2, NextType
<1>4. q \in [0..n -> d.states]
  BY <1>1, <1>3 DEF RunUpto, Follows
<1>5. q[0] = s
  BY <1>1 DEF RunUpto, Follows
<1>6. ASSUME NEW k \in 1..n PROVE q[k] = d.next[<<q[k-1], w[k]>>]
  <2>1. CASE k = n
    <3>1. n \in 0..n /\ n - 1 \in 0..n /\ n - 1 # n
      BY <1>1
    <3>2. q[n] = d.next[<<r[n-1], w[n]>>] /\ q[n-1] = r[n-1]
      BY <3>1
    <3> QED BY <2>1, <3>2
  <2>2. CASE k # n
    <3>1. k \in 1..(n - 1) /\ k \in 0..n /\ k - 1 \in 0..n /\ k - 1 # n
      BY <1>1, <2>2
    <3>2. r[k] = d.next[<<r[k-1], w[k]>>]
      BY <3>1 DEF RunUpto, Follows
    <3> QED BY <2>2, <3>1, <3>2
  <2> QED BY <2>1, <2>2
<1>7. RunUpto(d, s, w, n, q)
  BY <1>4, <1>5, <1>6 DEF RunUpto, Follows
<1> QED BY <1>7

(* From every state there is a run over every word.                        *)
LEMMA RunExists ==
  ASSUME NEW d, IsAutomaton(d), NEW s \in d.states, NEW w \in Seq(d.bytes)
  PROVE  \E r : IsRun(d, s, w, r)
<1> DEFINE Bad == {n \in 0..Len(w) : \A r : ~ RunUpto(d, s, w, n, r)}
<1>1. Len(w) \in Nat /\ Bad \subseteq 0..Len(w)
  OBVIOUS
<1>2. SUFFICES Bad = {}
  BY <1>1 DEF IsRun
<1>3. SUFFICES ASSUME Bad # {} PROVE FALSE
  OBVIOUS
<1>4. PICK n \in Bad : \A m \in Bad : n <= m
  <2>1. Bad \in SUBSET Nat
    BY <1>1
  <2> HIDE DEF Bad
  <2> QED BY <1>3, <2>1, NatMinimum
<1>5. n # 0
  <2> DEFINE q == [k \in 0..0 |-> s]
  <2>1. RunUpto(d, s, w, 0, q)
    BY DEF RunUpto, Follows
  <2> QED BY <2>1
<1>6. n \in 1..Len(w) /\ n - 1 \in 0..Len(w) /\ ~ (n <= n - 1)
  BY <1>1, <1>5
<1>7. PICK r : RunUpto(d, s, w, n - 1, r)
  BY <1>4, <1>6
<1>8. \E q : RunUpto(d, s, w, n, q)
  BY <1>6, <1>7, RunExtends
<1> QED BY <1>8

(* Two runs over the first n bytes agree.                                  *)
LEMMA RunUnique ==
  ASSUME NEW d, NEW s, NEW w, NEW n \in Nat,
         NEW q, Follows(d, s, w, n, q), NEW r, Follows(d, s, w, n, r)
  PROVE  \A k \in 0..n : q[k] = r[k]
<1> DEFINE Bad == {k \in 0..n : q[k] # r[k]}
<1>1. SUFFICES ASSUME Bad # {} PROVE FALSE
  OBVIOUS
<1>2. PICK k \in Bad : \A m \in Bad : k <= m
  <2>1. Bad \in SUBSET Nat
    OBVIOUS
  <2> HIDE DEF Bad
  <2> QED BY <1>1, <2>1, NatMinimum
<1>3. k # 0
  BY DEF Follows
<1>4. k \in 1..n /\ k - 1 \in 0..n /\ ~ (k <= k - 1)
  BY <1>3
<1>5. q[k-1] = r[k-1]
  BY <1>2, <1>4
<1>6. q[k] = r[k]
  BY <1>4, <1>5 DEF Follows
<1> QED BY <1>6

(* A run is a fixed point of the definition of Run, and so Run is a run.   *)
THEOREM RunIsRun ==
  ASSUME NEW d, IsAutomaton(d), NEW s \in d.states, NEW w \in Seq(d.bytes)
  PROVE  IsRun(d, s, w, Run(d, s, w))
<1> DEFINE F(r) == [k \in 0..Len(w) |-> IF k = 0 THEN s ELSE d.next[<<r[k-1], w[k]>>]]
           R == Run(d, s, w)
<1>1. PICK r : IsRun(d, s, w, r)
  BY RunExists
<1>2. Len(w) \in Nat /\ \A k \in 1..Len(w) : w[k] \in d.bytes
  OBVIOUS
<1>3. r \in [0..Len(w) -> d.states] /\ Follows(d, s, w, Len(w), r)
  BY <1>1 DEF IsRun, RunUpto
<1>4. r = F(r)
  <2>1. ASSUME NEW k \in 0..Len(w) PROVE r[k] = F(r)[k]
    <3>1. CASE k = 0
      BY <1>3, <3>1 DEF Follows
    <3>2. CASE k # 0
      BY <1>2, <1>3, <3>2 DEF Follows
    <3> QED BY <3>1, <3>2
  <2> QED BY <1>3, <2>1
<1>5. R = F(R)
  <2>1. R = CHOOSE f : f = F(f)
    BY DEF Run
  <2> HIDE DEF F, R
  <2> QED BY <1>4, <2>1
<1>6. Follows(d, s, w, Len(w), R)
  <2> HIDE DEF R
  <2>1. R[0] = s
    BY <1>2, <1>5
  <2>2. ASSUME NEW k \in 1..Len(w) PROVE R[k] = d.next[<<R[k-1], w[k]>>]
    <3>1. k \in 0..Len(w) /\ k # 0
      BY <1>2
    <3> QED BY <1>5, <3>1
  <2> QED BY <2>1, <2>2 DEF Follows
<1>7. R = r
  <2>1. \A k \in 0..Len(w) : R[k] = r[k]
    BY <1>2, <1>3, <1>6, RunUnique
  <2> HIDE DEF R
  <2>2. F(R) = [k \in 0..Len(w) |-> F(R)[k]]
    OBVIOUS
  <2> HIDE DEF F
  <2> QED BY <1>3, <1>5, <2>1, <2>2
<1> QED BY <1>1, <1>7

(* What other proofs need of it: the states of a run, one by one.          *)
THEOREM RunProperties ==
  ASSUME NEW d, IsAutomaton(d), NEW s \in d.states, NEW w \in Seq(d.bytes)
  PROVE  /\ Run(d, s, w)[0] = s
         /\ \A k \in 0..Len(w) : Run(d, s, w)[k] \in d.states
         /\ \A k \in 1..Len(w) :
              Run(d, s, w)[k] = d.next[<<Run(d, s, w)[k-1], w[k]>>]
         /\ After(d, s, w) \in d.states
<1>1. Len(w) \in 0..Len(w)
  OBVIOUS
<1> QED BY <1>1, RunIsRun DEF IsRun, RunUpto, Follows, After

(* The run over u \o w is the run over u and then, from where it ends, the *)
(* run over w.                                                             *)
THEOREM RunConcat ==
  ASSUME NEW d, IsAutomaton(d), NEW s \in d.states,
         NEW u \in Seq(d.bytes), NEW w \in Seq(d.bytes)
  PROVE  /\ After(d, s, u \o w) = After(d, After(d, s, u), w)
         /\ Alive(d, s, u \o w) <=> Alive(d, s, u) /\ Alive(d, After(d, s, u), w)
<1> DEFINE L == Len(u)
           A == Run(d, s, u)
           B == Run(d, After(d, s, u), w)
           C == Run(d, s, u \o w)
           q == [k \in 0..(L + Len(w)) |-> IF k <= L THEN A[k] ELSE B[k - L]]
<1>1. /\ L \in Nat /\ Len(w) \in Nat
      /\ u \o w \in Seq(d.bytes) /\ Len(u \o w) = L + Len(w)
      /\ \A k \in 1..L + Len(w) : (u \o w)[k] = IF k <= L THEN u[k] ELSE w[k - L]
  BY ConcatProperties
<1>2. /\ A[0] = s /\ A[L] = After(d, s, u)
      /\ \A k \in 1..L : A[k] = d.next[<<A[k-1], u[k]>>]
  BY RunProperties DEF After
<1>3. /\ B[0] = A[L] /\ B[Len(w)] = After(d, After(d, s, u), w)
      /\ \A k \in 1..Len(w) : B[k] = d.next[<<B[k-1], w[k]>>]
  BY RunProperties DEF After
<1>4. Follows(d, s, u \o w, L + Len(w), C) /\ C[L + Len(w)] = After(d, s, u \o w)
  BY <1>1, RunIsRun DEF IsRun, RunUpto, After
<1> HIDE DEF L, A, B, C
<1>5. Follows(d, s, u \o w, L + Len(w), q)
  <2>1. q[0] = s
    BY <1>1, <1>2
  <2>2. ASSUME NEW k \in 1..L + Len(w)
        PROVE  q[k] = d.next[<<q[k-1], (u \o w)[k]>>]
    <3>1. CASE k <= L
      <4>1. k \in 1..L /\ k \in 0..(L + Len(w)) /\ k - 1 \in 0..(L + Len(w)) /\ k - 1 <= L
        BY <1>1, <3>1
      <4>2. q[k] = A[k] /\ q[k-1] = A[k-1] /\ (u \o w)[k] = u[k]
        BY <1>1, <3>1, <4>1
      <4> QED BY <1>2, <4>1, <4>2
    <3>2. CASE k = L + 1
      <4>1. /\ L \in 0..(L + Len(w)) /\ k \in 0..(L + Len(w)) /\ ~ (k <= L)
            /\ k - 1 = L /\ k - L = 1 /\ 1 \in 1..Len(w) /\ 1 - 1 = 0
        BY <1>1, <3>2
      <4>2. q[k] = B[1] /\ q[k-1] = A[L] /\ (u \o w)[k] = w[1]
        BY <1>1, <4>1
      <4>3. B[1] = d.next[<<B[0], w[1]>>]
        BY <1>3, <4>1
      <4> QED BY <1>3, <4>2, <4>3
    <3>3. CASE k > L + 1
      <4>1. /\ k \in 0..(L + Len(w)) /\ k - 1 \in 0..(L + Len(w))
            /\ ~ (k <= L) /\ ~ (k - 1 <= L)
            /\ k - L \in 1..Len(w) /\ (k - 1) - L = (k - L) - 1
        BY <1>1, <3>3
      <4>2. q[k] = B[k - L] /\ q[k-1] = B[(k - L) - 1] /\ (u \o w)[k] = w[k - L]
        BY <1>1, <4>1
      <4> QED BY <1>3, <4>1, <4>2
    <3>4. k <= L \/ k = L + 1 \/ k > L + 1
      BY <1>1
    <3> QED BY <3>1, <3>2, <3>3, <3>4
  <2> QED BY <2>1, <2>2 DEF Follows
<1>6. \A k \in 0..(L + Len(w)) : C[k] = q[k]
  BY <1>1, <1>4, <1>5, RunUnique
<1>7. \A k \in 0..L : C[k] = A[k]
  BY <1>1, <1>6
<1>8. \A k \in 0..Len(w) : C[L + k] = B[k]
  <2> SUFFICES ASSUME NEW k \in 0..Len(w) PROVE C[L + k] = B[k]
    OBVIOUS
  <2>1. CASE k = 0
    BY <1>1, <1>3, <1>7, <2>1
  <2>2. CASE k # 0
    <3>1. L + k \in 0..(L + Len(w)) /\ ~ (L + k <= L) /\ (L + k) - L = k
      BY <1>1, <2>2
    <3> QED BY <1>6, <3>1
  <2> QED BY <2>1, <2>2
<1>9. After(d, s, u \o w) = After(d, After(d, s, u), w)
  <2>1. C[L + Len(w)] = B[Len(w)]
    BY <1>1, <1>8
  <2> QED BY <1>3, <1>4, <2>1
<1>10. ASSUME Alive(d, s, u \o w)
       PROVE  Alive(d, s, u) /\ Alive(d, After(d, s, u), w)
  <2>1. \A k \in 1..L + Len(w) : C[k] \notin Stuck(d)
    BY <1>1, <1>10 DEF Alive, C
  <2>2. \A k \in 1..L : A[k] \notin Stuck(d)
    BY <1>1, <1>7, <2>1
  <2>3. ASSUME NEW k \in 1..Len(w) PROVE B[k] \notin Stuck(d)
    <3>1. L + k \in 1..L + Len(w) /\ k \in 0..Len(w)
      BY <1>1
    <3> QED BY <1>8, <2>1, <3>1
  <2> QED BY <2>2, <2>3 DEF Alive, A, B, L
<1>11. ASSUME Alive(d, s, u), Alive(d, After(d, s, u), w)
       PROVE  Alive(d, s, u \o w)
  <2>1. /\ \A k \in 1..L : A[k] \notin Stuck(d)
        /\ \A k \in 1..Len(w) : B[k] \notin Stuck(d)
    BY <1>11 DEF Alive, A, B, L
  <2>2. ASSUME NEW k \in 1..L + Len(w) PROVE C[k] \notin Stuck(d)
    <3>1. CASE k <= L
      BY <1>1, <1>7, <2>1, <3>1
    <3>2. CASE ~ (k <= L)
      <4>1. k - L \in 1..Len(w) /\ k - L \in 0..Len(w) /\ L + (k - L) = k
        BY <1>1, <3>2
      <4> QED BY <1>8, <2>1, <4>1
    <3> QED BY <3>1, <3>2
  <2> QED BY <1>1, <2>2 DEF Alive, C
<1> QED BY <1>9, <1>10, <1>11

----------------------------------------------------------------------------
(* Tables *)

(* Whatever a usable token leads to is a state, and so are targets.        *)
LEMMA TargetsType ==
  ASSUME NEW d, IsAutomaton(d), NEW v, Tokens(v) \subseteq Seq(d.bytes),
         NEW s \in d.states
  PROVE  /\ \A w \in Tokens(v) : After(d, s, w) \in d.states
         /\ Successors(d, v, s) \subseteq d.states
         /\ \A id : Targets(d, v, s, id) \subseteq d.states
<1>1. \A w \in Tokens(v) : After(d, s, w) \in d.states
  BY RunProperties
<1> QED BY <1>1 DEF Successors, Targets, Walks, Usable

(* The sets of ClosedSets, with the successors in place of the table that  *)
(* lists them.                                                             *)
LEMMA ClosedSetsDef ==
  ASSUME NEW d, NEW v, NEW C
  PROVE  C \in ClosedSets(d, v) <=>
           /\ C \subseteq d.states
           /\ d.start \in C
           /\ \A s \in C : Successors(d, v, s) \subseteq C
<1> DEFINE succ == {<<s, Successors(d, v, s)>> : s \in d.states}
<1>1. ASSUME C \subseteq d.states, \A p \in succ : p[1] \in C => p[2] \subseteq C,
             NEW s \in C
      PROVE  Successors(d, v, s) \subseteq C
  <2> DEFINE p == <<s, Successors(d, v, s)>>
  <2>1. p \in succ /\ p[1] = s /\ p[2] = Successors(d, v, s)
    BY <1>1
  <2> QED BY <1>1, <2>1
<1>2. ASSUME \A s \in C : Successors(d, v, s) \subseteq C,
             NEW p \in succ, p[1] \in C
      PROVE  p[2] \subseteq C
  <2>1. PICK s \in d.states : p = <<s, Successors(d, v, s)>>
    OBVIOUS
  <2>2. p[1] = s /\ p[2] = Successors(d, v, s)
    BY <2>1
  <2> QED BY <1>2, <2>2
<1> QED BY <1>1, <1>2 DEF ClosedSets

(* A closed set that lies in every closed set is what can be reached.      *)
LEMMA LeastClosedSet ==
  ASSUME NEW d, NEW v, NEW S \in ClosedSets(d, v),
         \A C \in ClosedSets(d, v) : S \subseteq C
  PROVE  Reachable(d, v) = S
BY ClosedSetsDef DEF Reachable

(* What can be reached are states, the start among them, and so are their  *)
(* successors.                                                             *)
LEMMA ReachableIsClosed ==
  ASSUME NEW d, IsAutomaton(d), NEW v
  PROVE  /\ Reachable(d, v) \subseteq d.states
         /\ d.start \in Reachable(d, v)
         /\ \A s \in Reachable(d, v) :
              Successors(d, v, s) \cap d.states \subseteq Reachable(d, v)
<1>1. d.start \in d.states
  BY DEF IsAutomaton
<1>2. \A C \in ClosedSets(d, v) :
        d.start \in C /\ \A s \in C : Successors(d, v, s) \subseteq C
  BY ClosedSetsDef
<1> QED BY <1>1, <1>2 DEF Reachable

(* An id leads from a state to the end of the run of a token that has it.  *)
LEMMA NextStatesFacts ==
  ASSUME NEW d, NEW v, NEW i, IsIndex(d, v, i),
         NEW s, NEW id, NEW q \in NextStates(i, s, id)
  PROVE  \E w \in Walks(d, v, s) :
           id \in Ids(v, w) /\ Recorded(d, After(d, s, w)) /\ q = After(d, s, w)
<1> DEFINE p == <<s, id>>
<1>1. p \in DOMAIN i.transitions /\ q = i.transitions[p] /\ p[2] # v.eos
  BY DEF NextStates, IsIndex
<1>2. i.transitions[p] \in Targets(d, v, p[1], p[2])
  BY <1>1 DEF IsIndex
<1> QED BY <1>1, <1>2 DEF Targets

(* The ids listed at a state that can be reached.                          *)
LEMMA AllowedFacts ==
  ASSUME NEW d, NEW v, NEW i, IsIndex(d, v, i), NEW s \in Reachable(d, v)
  PROVE  AllowedTokens(i, s) =
           {id \in AllIds(v) : Targets(d, v, s, id) # {}}
             \cup (IF s \in d.eoi THEN {v.eos} ELSE {})
<1> DEFINE reach == Reachable(d, v)
           A == {p \in reach \X AllIds(v) : Targets(d, v, p[1], p[2]) # {}}
           B == {<<x, v.eos>> : x \in reach \cap d.eoi}
<1>1. DOMAIN i.transitions = A \cup B
  BY DEF IsIndex, Entries
<1> HIDE DEF reach
<1>2. ASSUME NEW p \in A \cup B, p[1] = s
      PROVE  p[2] \in {id \in AllIds(v) : Targets(d, v, s, id) # {}}
                       \cup (IF s \in d.eoi THEN {v.eos} ELSE {})
  BY <1>2
<1>3. ASSUME NEW id \in AllIds(v), Targets(d, v, s, id) # {}
      PROVE  \E p \in A \cup B : p[1] = s /\ p[2] = id
  <2>1. <<s, id>> \in A
    BY <1>3 DEF reach
  <2> QED BY <2>1
<1>4. ASSUME s \in d.eoi
      PROVE  \E p \in A \cup B : p[1] = s /\ p[2] = v.eos
  <2> DEFINE p == <<s, v.eos>>
  <2>1. p \in B /\ p[1] = s /\ p[2] = v.eos
    BY <1>4 DEF reach
  <2> HIDE DEF p, B
  <2> QED BY <2>1
<1> HIDE DEF A, B
<1> QED BY <1>1, <1>2, <1>3, <1>4 DEF AllowedTokens

(* All indexes of an automaton over a vocabulary have the same entries,    *)
(* and the same state in each that has but one target.                     *)
LEMMA OneIndex ==
  ASSUME NEW d, NEW v, NEW i, IsIndex(d, v, i),
         i = [ initial_state |-> i.initial_state, final_states |-> i.final_states,
               transitions |-> i.transitions, eos_token_id |-> i.eos_token_id,
               vocab_size |-> i.vocab_size ]
  PROVE  /\ i = [IndexOf(d, v) EXCEPT !.transitions = i.transitions]
         /\ DOMAIN i.transitions = DOMAIN IndexOf(d, v).transitions
         /\ \A p \in DOMAIN i.transitions :
              i.transitions[p] # IndexOf(d, v).transitions[p] =>
                \E q, r \in Targets(d, v, p[1], p[2]) : q # r
<1> DEFINE reach == Reachable(d, v)
           D == Entries(d, v, reach)
           t == [p \in D |-> IF p[2] = v.eos THEN p[1]
                             ELSE CHOOSE q \in Targets(d, v, p[1], p[2]) : TRUE]
<1>1. /\ i.initial_state = d.start /\ i.final_states = reach \cap d.eoi
      /\ i.eos_token_id = v.eos /\ i.vocab_size = VocabLen(v)
      /\ i.transitions \in [D -> d.states]
      /\ \A p \in D : IF p[2] = v.eos THEN i.transitions[p] = p[1]
                       ELSE i.transitions[p] \in Targets(d, v, p[1], p[2])
  BY DEF IsIndex
<1>2. IndexOf(d, v) = [ initial_state |-> d.start, final_states |-> reach \cap d.eoi,
                        eos_token_id |-> v.eos, vocab_size |-> VocabLen(v),
                        transitions |-> t ]
  BY DEF IndexOf
<1> HIDE DEF D
<1>3. ASSUME NEW p \in D, i.transitions[p] # t[p]
      PROVE  \E q, r \in Targets(d, v, p[1], p[2]) : q # r
  <2>1. p[2] # v.eos /\ i.transitions[p] \in Targets(d, v, p[1], p[2])
    BY <1>1, <1>3
  <2>2. t[p] \in Targets(d, v, p[1], p[2])
    BY <2>1
  <2> QED BY <1>3, <2>1, <2>2
<1>4. DOMAIN t = D
  OBVIOUS
<1> HIDE DEF t
<1>5. IndexOf(d, v).transitions = t
  BY <1>2
<1>6. [IndexOf(d, v) EXCEPT !.transitions = i.transitions]
        = [ initial_state |-> d.start, final_states |-> reach \cap d.eoi,
            eos_token_id |-> v.eos, vocab_size |-> VocabLen(v),
            transitions |-> i.transitions ]
  <2>1. ASSUME NEW e, NEW F, NEW x, NEW n, NEW u, NEW w
        PROVE  [[ initial_state |-> e, final_states |-> F, eos_token_id |-> x,
                  vocab_size |-> n, transitions |-> u ] EXCEPT !.transitions = w]
                 = [ initial_state |-> e, final_states |-> F, eos_token_id |-> x,
                     vocab_size |-> n, transitions |-> w ]
    OBVIOUS
  <2> HIDE DEF reach, t
  <2>2. \A w : [[ initial_state |-> d.start, final_states |-> reach \cap d.eoi,
                  eos_token_id |-> v.eos, vocab_size |-> VocabLen(v),
                  transitions |-> t ] EXCEPT !.transitions = w]
                = [ initial_state |-> d.start, final_states |-> reach \cap d.eoi,
                    eos_token_id |-> v.eos, vocab_size |-> VocabLen(v), transitions |-> w ]
    BY <2>1
  <2> QED BY <1>2, <2>2
<1>7. i = [IndexOf(d, v) EXCEPT !.transitions = i.transitions]
  <2> HIDE DEF reach
  <2>1. i = [ initial_state |-> d.start, final_states |-> reach \cap d.eoi,
              eos_token_id |-> v.eos, vocab_size |-> VocabLen(v),
              transitions |-> i.transitions ]
    BY <1>1
  <2> QED BY <1>6, <2>1
<1>8. DOMAIN i.transitions = D
  BY <1>1
<1> QED BY <1>3, <1>4, <1>5, <1>7, <1>8
=============================================================================
