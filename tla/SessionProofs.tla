--------------------------- MODULE SessionProofs ---------------------------
(***************************************************************************)
(* Threads that share a vocabulary see each other's calls whole, for any   *)
(* number of threads, any calls and any vocabulary.                        *)
(***************************************************************************)
EXTENDS Session, TLAPS, SequenceTheorems

----------------------------------------------------------------------------
(* Vocabularies *)

Shape(v) ==
  /\ v = [eos |-> Eos, tokens |-> v.tokens]
  /\ \A w \in Tokens(v) : v.tokens[w] \in Seq(Nat)

(* try_insert keeps a vocabulary one, and the EOS id out of its tokens.    *)
LEMMA InsertedFacts ==
  ASSUME NEW v, Shape(v), EosReservedIn(v), NEW w, NEW id \in Nat, MayInsert(v, id)
  PROVE  Shape(Inserted(v, w, id)) /\ EosReservedIn(Inserted(v, w, id))
<1> DEFINE s == IF w \in Tokens(v) THEN v.tokens[w] ELSE <<>>
           n == Inserted(v, w, id)
<1>1. s \in Seq(Nat)
  BY DEF Shape
<1>2. v.eos \notin Range(s)
  BY DEF EosReservedIn, Accepted, Tokens, Range
<1>3. Append(s, id) \in Seq(Nat) /\ v.eos \notin Range(Append(s, id))
  BY <1>1, <1>2 DEF Range, MayInsert
<1> DEFINE f == [u \in Tokens(v) \cup {w} |-> IF u # w THEN v.tokens[u] ELSE Append(s, id)]
<1>4. v = [eos |-> Eos, tokens |-> v.tokens]
  BY DEF Shape
<1>5. n = [eos |-> Eos, tokens |-> f]
  BY <1>4 DEF Inserted
<1>6. /\ v.eos = Eos /\ n.eos = Eos /\ n = [eos |-> Eos, tokens |-> n.tokens]
      /\ DOMAIN n.tokens = Tokens(v) \cup {w}
      /\ \A u \in Tokens(v) \cup {w} : n.tokens[u] = IF u # w THEN v.tokens[u] ELSE Append(s, id)
  BY <1>4, <1>5
<1> HIDE DEF n, s, f
<1>7. Shape(n)
  BY <1>3, <1>6 DEF Shape, Tokens
<1>8. EosReservedIn(n)
  BY <1>3, <1>6 DEF EosReservedIn, Accepted, Tokens
<1> QED BY <1>7, <1>8 DEF n

LEMMA RemovedFacts ==
  ASSUME NEW v, Shape(v), EosReservedIn(v), NEW w
  PROVE  Shape(Removed(v, w)) /\ EosReservedIn(Removed(v, w))
<1> DEFINE n == Removed(v, w)
<1>1. /\ n.eos = v.eos /\ n = [eos |-> v.eos, tokens |-> n.tokens]
      /\ DOMAIN n.tokens = Tokens(v) \ {w}
      /\ \A u \in Tokens(v) \ {w} : n.tokens[u] = v.tokens[u]
  BY DEF Removed, Shape
<1> HIDE DEF n
<1>2. Shape(n)
  BY <1>1 DEF Shape, Tokens
<1>3. EosReservedIn(n)
  BY <1>1 DEF EosReservedIn, Accepted, Tokens
<1> QED BY <1>2, <1>3 DEF n

----------------------------------------------------------------------------
(* The invariant *)

LEMMA InvariantInit == ASSUME Init PROVE IInv
<1>1. TypeOK
  BY CallsAssumption DEF Init, TypeOK, NoCall, Tokens, Building
<1>2. BorrowsAreCalls
  BY CallsAssumption DEF Init, BorrowsAreCalls, NoCall
<1>3. EosReserved
  BY DEF Init, EosReserved, EosReservedIn
<1>4. ReadsHold
  BY DEF Init, ReadsHold
<1> QED BY <1>1, <1>2, <1>3, <1>4 DEF IInv

Ops == {"insert", "remove", "get", "len", "Index", "from_pretrained"}

(* The calls there are.                                                    *)
LEMMA CallFacts ==
  ASSUME TypeOK, NEW t \in Threads
  PROVE  /\ call[t] = NoCall \/ call[t] \in Calls
         /\ call[t] \in Calls => IsCall(call[t])
         /\ call[t] # NoCall => call[t].op \in Ops
         /\ NoCall.op = "none"
<1>1. call[t] = NoCall \/ call[t] \in Calls
  BY DEF TypeOK
<1>2. ASSUME NEW c \in Calls PROVE IsCall(c) /\ c.op \in Ops
  <2>1. IsCall(c)
    BY CallsAssumption
  <2> QED BY <2>1 DEF IsCall, Ops
<1>3. NoCall.op = "none"
  BY DEF NoCall
<1> QED BY <1>1, <1>2, <1>3

(* While a thread has the exclusive borrow no other is in a call, but one  *)
(* that downloads, and none builds an index.                               *)
LEMMA WriterAlone ==
  ASSUME IInv, NEW t \in Threads, call[t].op \in {"insert", "remove"}
  PROVE  \A u \in Threads \ {t} : call[u] = NoCall \/ call[u].op = "from_pretrained"
<1> SUFFICES ASSUME NEW u \in Threads \ {t}, call[u] # NoCall, call[u].op # "from_pretrained"
             PROVE  FALSE
  OBVIOUS
<1>1. call[u].op \in Ops
  BY CallFacts DEF IInv
<1>2. writer = t /\ readers = {}
  BY CallsAssumption DEF IInv, BorrowsAreCalls
<1> QED BY <1>1, <1>2 DEF IInv, BorrowsAreCalls, Ops

(* Steps that end a call.                                                  *)
LEMMA EndStep ==
  ASSUME IInv, NEW t \in Threads, gil = t, pc[t] # "python",
         call' = [call EXCEPT ![t] = NoCall], pc' = [pc EXCEPT ![t] = "python"],
         Release(t), gil' = gil, DOMAIN size' = Threads, DOMAIN read' = Threads,
         Shape(vocabulary')
  PROVE  TypeOK' /\ BorrowsAreCalls'
<1>1. TypeOK'
  BY CallsAssumption DEF IInv, TypeOK, Release, NoCall, Shape, Building, Tokens
<1>2. BorrowsAreCalls'
  <2>1. readers' = {u \in Threads : call'[u].op \in {"get", "len", "Index"}}
    BY DEF IInv, TypeOK, BorrowsAreCalls, Release, NoCall
  <2>2. \A u \in Threads : writer' = u <=> call'[u].op \in {"insert", "remove"}
    BY CallsAssumption DEF IInv, TypeOK, BorrowsAreCalls, Release, NoCall
  <2>3. writer' # Nobody => readers' = {}
    BY DEF IInv, BorrowsAreCalls, Release
  <2> QED BY <2>1, <2>2, <2>3 DEF BorrowsAreCalls
<1> QED BY <1>1, <1>2

(* Steps that begin one.                                                   *)
LEMMA BeginStep ==
  ASSUME IInv, NEW t \in Threads, NEW c \in Calls, MayBorrow(c), pc[t] = "python",
         call' = [call EXCEPT ![t] = c], Borrow(t, c)
  PROVE  BorrowsAreCalls'
<1>1. IsCall(c) /\ call[t] = NoCall /\ call \in [Threads -> Calls \cup {NoCall}]
  BY CallsAssumption DEF IInv, TypeOK
<1>2. CASE Exclusive(c)
  <2>1. writer' = t /\ readers' = {} /\ writer = Nobody /\ readers = {}
    BY <1>2 DEF Borrow, MayBorrow, Exclusive, Shared
  <2>2. \A u \in Threads : call[u].op \notin {"insert", "remove", "get", "len", "Index"}
    BY <2>1, CallsAssumption DEF IInv, BorrowsAreCalls
  <2> QED BY <1>1, <1>2, <2>1, <2>2 DEF BorrowsAreCalls, Exclusive
<1>3. CASE Shared(c)
  <2>1. readers' = readers \cup {t} /\ writer' = Nobody /\ writer = Nobody
    BY <1>3 DEF Borrow, MayBorrow, Exclusive, Shared
  <2>2. c.op \in {"get", "len", "Index"}
    BY <1>3 DEF Shared
  <2> QED BY <1>1, <2>1, <2>2, CallsAssumption DEF IInv, BorrowsAreCalls
<1>4. CASE ~Exclusive(c) /\ ~Shared(c)
  BY <1>1, <1>4 DEF Borrow, Exclusive, Shared, IInv, BorrowsAreCalls, NoCall
<1> QED BY <1>2, <1>3, <1>4

(* The vocabulary a step leaves: the one it found, or with one token more  *)
(* or less.                                                                *)
LEMMA VocabularyStep ==
  ASSUME IInv, [Next]_vars
  PROVE  /\ Shape(vocabulary') /\ EosReserved'
         /\ \/ vocabulary' = vocabulary
            \/ \E t \in Threads : call[t].op \in {"insert", "remove"}
<1>1. Shape(vocabulary) /\ EosReservedIn(vocabulary)
  BY DEF IInv, TypeOK, Shape, EosReserved
<1>2. CASE vocabulary' = vocabulary
  BY <1>1, <1>2 DEF EosReserved
<1>3. ASSUME NEW t \in Threads, Insert(t)
      PROVE  Shape(vocabulary') /\ EosReserved' /\ call[t].op \in {"insert", "remove"}
  <2>1. call[t].op = "insert" /\ call[t].id \in Nat
    BY <1>3, CallFacts, CallsAssumption DEF Insert, Body, IInv
  <2> QED BY <1>1, <1>3, <2>1, InsertedFacts DEF Insert, EosReserved
<1>4. ASSUME NEW t \in Threads, Remove(t)
      PROVE  Shape(vocabulary') /\ EosReserved' /\ call[t].op \in {"insert", "remove"}
  BY <1>1, <1>4, RemovedFacts DEF Remove, Body, EosReserved
<1>5. vocabulary' = vocabulary \/ \E t \in Threads : Insert(t) \/ Remove(t)
  BY DEF Next, vars, TakeGil, DropGil, Refuse, Begin, BeginIndex, BeginIndexKeeping, Step,
         Measure, Explore, Extract, ExtractFails, InsertRefused, Get, Length, EndIndex,
         BeginDownload, EndDownload
<1> QED BY <1>2, <1>3, <1>4, <1>5

LEMMA CallStep ==
  ASSUME IInv, [Next]_vars
  PROVE  TypeOK' /\ BorrowsAreCalls'
<1>1. Shape(vocabulary')
  BY VocabularyStep
<1>2. TypeOK /\ BorrowsAreCalls
  BY DEF IInv
<1>3. CASE UNCHANGED vars
  BY <1>2, <1>3 DEF vars, build, borrows, TypeOK, BorrowsAreCalls, Building, Tokens
<1>4. ASSUME NEW t \in Threads, TakeGil(t) \/ DropGil(t)
      PROVE  TypeOK' /\ BorrowsAreCalls'
  BY <1>2, <1>4, CallsAssumption
     DEF TakeGil, DropGil, build, borrows, TypeOK, BorrowsAreCalls, Building, Tokens
<1>5. ASSUME NEW t \in Threads, NEW c \in Calls, Refuse(t, c)
      PROVE  TypeOK' /\ BorrowsAreCalls'
  BY <1>2, <1>5 DEF Refuse, build, borrows, TypeOK, BorrowsAreCalls, Building, Tokens
<1>6. ASSUME NEW t \in Threads, NEW c \in Calls, Begin(t, c)
      PROVE  TypeOK' /\ BorrowsAreCalls'
  <2>1. IsCall(c) /\ c # NoCall /\ readers' \subseteq Threads /\ writer' \in Threads \cup {Nobody}
    <3>1. IsCall(c) /\ c # NoCall
      BY CallsAssumption DEF IsCall, NoCall
    <3>2. Borrow(t, c)
      BY <1>6 DEF Begin
    <3> QED BY <1>2, <3>1, <3>2 DEF Borrow, TypeOK
  <2>2. TypeOK'
    BY <1>1, <1>2, <1>6, <2>1 DEF Begin, build, TypeOK, Building, Shape
  <2>3. BorrowsAreCalls'
    BY <1>6, BeginStep DEF Begin
  <2> QED BY <2>2, <2>3
<1>7. ASSUME NEW t \in Threads, NEW c \in Calls, BeginIndex(t, c)
      PROVE  TypeOK' /\ BorrowsAreCalls'
  <2>1. IsCall(c) /\ c # NoCall /\ readers' \subseteq Threads /\ writer' \in Threads \cup {Nobody}
    <3>1. IsCall(c) /\ c # NoCall
      BY CallsAssumption DEF IsCall, NoCall
    <3>2. Borrow(t, c)
      BY <1>7 DEF BeginIndex, BeginIndexKeeping
    <3> QED BY <1>2, <3>1, <3>2 DEF Borrow, TypeOK
  <2>2. TypeOK'
    BY <1>1, <1>2, <1>7, <2>1 DEF BeginIndex, BeginIndexKeeping, build, TypeOK, Building, Shape
  <2>3. BorrowsAreCalls'
    BY <1>7, BeginStep DEF BeginIndex, BeginIndexKeeping
  <2> QED BY <2>2, <2>3
<1>8. ASSUME NEW t \in Threads, Extract(t) \/ Measure(t) \/ Explore(t)
      PROVE  TypeOK' /\ BorrowsAreCalls'
  <2>1. TypeOK'
    BY <1>1, <1>2, <1>8, CallFacts
       DEF Extract, Measure, Explore, build, borrows, TypeOK, Building, Shape
  <2>2. BorrowsAreCalls'
    BY <1>2, <1>8 DEF Extract, Measure, Explore, build, borrows, BorrowsAreCalls
  <2> QED BY <2>1, <2>2
<1>9. ASSUME NEW t \in Threads,
             ExtractFails(t) \/ Insert(t) \/ InsertRefused(t) \/ Remove(t) \/ Get(t) \/ Length(t)
               \/ EndIndex(t) \/ EndDownload(t)
      PROVE  TypeOK' /\ BorrowsAreCalls'
  <2>1. /\ gil = t /\ pc[t] # "python" /\ gil' = gil
        /\ call' = [call EXCEPT ![t] = NoCall] /\ pc' = [pc EXCEPT ![t] = "python"]
        /\ Release(t) /\ DOMAIN size' = Threads /\ DOMAIN read' = Threads
    BY <1>2, <1>9
       DEF ExtractFails, Insert, InsertRefused, Remove, Get, Length, EndIndex, EndDownload, Body,
           EndWith, build, TypeOK
  <2> QED BY <1>1, <2>1, EndStep
<1>10. ASSUME NEW t \in Threads, NEW c \in Calls, BeginDownload(t, c)
       PROVE  TypeOK' /\ BorrowsAreCalls'
  <2>1. call[t] = NoCall /\ c # NoCall /\ c.op = "from_pretrained"
    BY <1>2, <1>10 DEF BeginDownload, TypeOK, NoCall
  <2>2. TypeOK'
    BY <1>1, <1>2, <1>10, <2>1 DEF BeginDownload, build, borrows, TypeOK, Building, Shape
  <2>3. BorrowsAreCalls'
    BY <1>2, <1>10, <2>1 DEF BeginDownload, borrows, TypeOK, BorrowsAreCalls, NoCall
  <2> QED BY <2>2, <2>3
<1> QED BY <1>3, <1>4, <1>5, <1>6, <1>7, <1>8, <1>9, <1>10 DEF Next, Step

(* While somebody builds, nobody changes the vocabulary.                   *)
LEMMA ReadsStep ==
  ASSUME IInv, [Next]_vars
  PROVE  ReadsHold'
<1> SUFFICES ASSUME NEW t \in Threads
             PROVE  /\ pc'[t] \in {"explore", "built"} => size'[t] = VocabLen(vocabulary')
                    /\ pc'[t] = "built" /\ call'[t].arg = "regex" => read'[t] = vocabulary'.tokens
  BY DEF ReadsHold
<1>1. TypeOK /\ ReadsHold
  BY DEF IInv
<1>2. CASE \E u \in Threads : call[u].op \in {"insert", "remove"}
  <2>1. PICK u \in Threads : call[u].op \in {"insert", "remove"}
    BY <1>2
  <2>2. pc[t] \notin {"measure", "explore", "built"}
    BY <1>1, <2>1, WriterAlone DEF TypeOK, NoCall
  <2>3. pc'[t] \notin {"explore", "built"}
    BY <1>1, <2>2
       DEF Next, vars, Step, TakeGil, DropGil, Refuse, Begin, BeginIndex, BeginIndexKeeping,
           Extract, ExtractFails, Insert, InsertRefused, Remove, Get, Length, EndIndex, EndWith,
           Measure, Explore, BeginDownload, EndDownload, TypeOK
  <2> QED BY <2>3
<1>3. CASE ~\E u \in Threads : call[u].op \in {"insert", "remove"}
  <2>1. vocabulary' = vocabulary
    BY <1>3, VocabularyStep
  <2>2. CASE Measure(t) \/ Explore(t)
    BY <1>1, <2>1, <2>2 DEF Measure, Explore, TypeOK, ReadsHold
  <2>3. CASE ~(Measure(t) \/ Explore(t))
    <3>1. pc'[t] \in {"explore", "built"} =>
            pc[t] = pc'[t] /\ call'[t] = call[t] /\ size'[t] = size[t] /\ read'[t] = read[t]
      BY <1>1, <2>3
         DEF Next, vars, build, Step, TakeGil, DropGil, Refuse, Begin, BeginIndex, BeginIndexKeeping,
             Extract, ExtractFails, Insert, InsertRefused, Remove, Get, Length, EndIndex, EndWith,
             Measure, Explore, BeginDownload, EndDownload, TypeOK
    <3> QED BY <1>1, <2>1, <3>1 DEF ReadsHold
  <2> QED BY <2>2, <2>3
<1> QED BY <1>2, <1>3

LEMMA InvariantStep == ASSUME IInv, [Next]_vars PROVE IInv'
BY VocabularyStep, CallStep, ReadsStep DEF IInv

THEOREM Invariant == Spec => []IInv
BY InvariantInit, InvariantStep, PTL DEF Spec

(* The types of the variables: TypeOK.                                     *)
THEOREM TypeCorrect == Spec => []TypeOK
<1>1. IInv => TypeOK
  BY DEF IInv
<1> QED BY <1>1, Invariant, PTL

(* A borrow lasts as long as its call, whichever way the call ends.        *)
THEOREM NoBorrowOutlivesItsCall == Spec => []BorrowsAreCalls
<1>1. IInv => BorrowsAreCalls
  BY DEF IInv
<1> QED BY <1>1, Invariant, PTL

(* The EOS id never gets among the tokens.                                 *)
THEOREM EosStaysOut == Spec => []EosReserved
<1>1. IInv => EosReserved
  BY DEF IInv
<1> QED BY <1>1, Invariant, PTL

----------------------------------------------------------------------------
(* Refinement *)

(* The operators on vocabularies are the same on both sides.               *)
LEMMA SameOperators ==
  ASSUME NEW v, NEW w, NEW id
  PROVE  /\ Abstract!MayInsert(v, id) <=> MayInsert(v, id)
         /\ Abstract!Inserted(v, w, id) = Inserted(v, w, id)
         /\ Abstract!Removed(v, w) = Removed(v, w)
         /\ Abstract!TokenIds(v, w) = TokenIds(v, w)
         /\ Abstract!VocabLen(v) = VocabLen(v)
         /\ Abstract!Accepted(v, w) <=> Accepted(v, w)
BY Zenon DEF MayInsert, Abstract!MayInsert, Inserted, Abstract!Inserted, Removed, Abstract!Removed,
     TokenIds, Abstract!TokenIds, VocabLen, Abstract!VocabLen, Tokens, Abstract!Tokens,
     Cardinality, Abstract!Cardinality,
     Accepted, Abstract!Accepted, Range, Abstract!Range

LEMMA AbstractInit == ASSUME Init PROVE Abstract!Init
<1>1. PICK m \in Maps : Accepted(Eos, m) /\ vocabulary = [eos |-> Eos, tokens |-> m]
  BY DEF Init
<1>2. Abstract!Accepted(Eos, m)
  BY <1>1, SameOperators
<1> QED BY <1>1, <1>2 DEF Init, Abstract!Init, NoCall, NoReply, Abstract!NoCall, Abstract!NoReply

(* A call begins when no call it conflicts with is under way.              *)
LEMMA AskStep ==
  ASSUME IInv, NEW t \in Threads, NEW c \in Calls, MayBorrow(c), pc[t] = "python",
         call' = [call EXCEPT ![t] = c], returned' = NoReply, vocabulary' = vocabulary
  PROVE  Abstract!Next
<1>1. IsCall(c) /\ call[t] = NoCall
  BY CallsAssumption DEF IInv, TypeOK
<1>2. ASSUME NEW u \in Threads, Abstract!Conflict(call[u], c) PROVE call[u] = NoCall
  <2>1. call[u] = NoCall \/ call[u].op \in {"insert", "remove", "get", "len", "Index"}
    BY <1>2, CallFacts DEF IInv, Ops, Abstract!Conflict
  <2>2. Exclusive(c) \/ Shared(c)
    BY <1>1, <1>2 DEF IsCall, Exclusive, Shared, Abstract!Conflict
  <2>3. writer = Nobody /\ call[u].op \notin {"insert", "remove"}
    BY <2>2, CallsAssumption DEF MayBorrow, IInv, BorrowsAreCalls
  <2>4. c.op \in {"insert", "remove"} /\ readers = {}
    BY <1>2, <2>3 DEF Abstract!Conflict, MayBorrow, Exclusive
  <2> QED BY <2>1, <2>3, <2>4 DEF IInv, BorrowsAreCalls
<1>3. Abstract!Ask(t, c)
  BY <1>1, <1>2 DEF Abstract!Ask, Abstract!Running, Abstract!NoCall, Abstract!NoReply, NoCall, NoReply
<1> QED BY <1>3 DEF Abstract!Next

(* A call is refused for one it conflicts with.                            *)
LEMMA RefuseStep ==
  ASSUME IInv, NEW t \in Threads, NEW c \in Calls, Refuse(t, c)
  PROVE  Abstract!Next
<1>1. call[t] = NoCall
  BY DEF IInv, TypeOK, Refuse
<1>2. PICK u \in Threads : call[u].op \in {"insert", "remove", "get", "len", "Index"}
                             /\ Abstract!Conflict(call[u], c)
  BY CallsAssumption
     DEF Refuse, MayBorrow, Exclusive, Shared, IInv, TypeOK, BorrowsAreCalls, Abstract!Conflict
<1>3. call[u] # NoCall
  BY <1>2 DEF NoCall
<1>4. Abstract!Refuse(t, c)
  BY <1>1, <1>2, <1>3 DEF Refuse, Abstract!Refuse, Abstract!Running, Abstract!NoCall, NoCall
<1> QED BY <1>4 DEF Abstract!Next

(* A call that returns has the effect and the result of one moment.        *)
LEMMA ReturnStep ==
  ASSUME IInv, NEW t \in Threads, Step(t) \/ EndDownload(t), ~Extract(t)
  PROVE  Abstract!Next
<1>1. TypeOK /\ ReadsHold /\ NoCall.op = "none" /\ call' = [call EXCEPT ![t] = NoCall]
      /\ pc[t] # "python" /\ call[t] # NoCall
  BY DEF Step, ExtractFails, Insert, InsertRefused, Remove, Get, Length, EndIndex, EndDownload,
         EndWith, Body, NoCall, IInv, TypeOK
<1>2. IsCall(call[t])
  BY <1>1, CallFacts
<1>3. /\ vocabulary' = Abstract!Effect(call[t], vocabulary)
      /\ returned' = Abstract!Reply(call[t], vocabulary)
  <2>1. CASE ExtractFails(t)
    BY <1>1, <1>2, <2>1, SameOperators
       DEF ExtractFails, EndWith, IsCall, TokenArgs, Abstract!Effect, Abstract!Reply, ValueError
  <2>2. CASE Insert(t)
    <3>1. call[t].op = "insert" /\ call[t].arg \in {"str", "bytes"}
      BY <1>1, <1>2, <2>2 DEF Insert, Body, TypeOK, IsCall, TokenArgs
    <3>2. vocabulary' = Abstract!Effect(call[t], vocabulary)
      BY <2>2, <3>1, SameOperators DEF Insert, Abstract!Effect
    <3>3. returned' = Abstract!Reply(call[t], vocabulary)
      BY <1>1, <2>2, <3>1, SameOperators DEF Insert, EndWith, Abstract!Reply
    <3> QED BY <3>2, <3>3
  <2>3. CASE InsertRefused(t)
    BY <1>1, <1>2, <2>3, SameOperators
       DEF InsertRefused, Body, TypeOK, EndWith, IsCall, TokenArgs, Abstract!Effect, Abstract!Reply, ValueError
  <2>4. CASE Remove(t)
    <3>1. call[t].op = "remove" /\ call[t].arg \in {"str", "bytes"}
      BY <1>1, <1>2, <2>4 DEF Remove, Body, TypeOK, IsCall, TokenArgs
    <3>2. vocabulary' = Abstract!Effect(call[t], vocabulary)
      BY <2>4, <3>1, SameOperators DEF Remove, Abstract!Effect
    <3>3. returned' = Abstract!Reply(call[t], vocabulary)
      BY <2>4, <3>1, SameOperators DEF Remove, EndWith, Abstract!Reply
    <3> QED BY <3>2, <3>3
  <2>5. CASE Get(t)
    <3>1. call[t].op = "get" /\ call[t].arg \in {"str", "bytes"}
      BY <1>1, <1>2, <2>5 DEF Get, Body, TypeOK, IsCall, TokenArgs
    <3>2. vocabulary' = Abstract!Effect(call[t], vocabulary)
      BY <2>5, <3>1, SameOperators DEF Get, Abstract!Effect
    <3>3. returned' = Abstract!Reply(call[t], vocabulary)
      BY <1>1, <2>5, <3>1, SameOperators DEF Get, EndWith, Abstract!Reply
    <3> QED BY <3>2, <3>3
  <2>6. CASE Length(t)
    BY <1>1, <1>2, <2>6, SameOperators
       DEF Length, Body, TypeOK, EndWith, IsCall, TokenArgs, Abstract!Effect, Abstract!Reply, ValueError
  <2>7. CASE EndIndex(t)
    <3>1. call[t].op = "Index" /\ call[t].arg \in {"regex", "invalid regex"}
      BY <1>1, <1>2, <2>7 DEF EndIndex, TypeOK, ReadsHold, IsCall, TokenArgs
    <3>2. vocabulary' = Abstract!Effect(call[t], vocabulary)
      BY <2>7, <3>1, SameOperators DEF EndIndex, Abstract!Effect
    <3>3. returned' = Abstract!Reply(call[t], vocabulary)
      BY <1>1, <2>7, <3>1, SameOperators DEF EndIndex, EndWith, Abstract!Reply, ReadsHold, ValueError
    <3> QED BY <3>2, <3>3
  <2>8. CASE EndDownload(t)
    BY <1>1, <1>2, <2>8
       DEF EndDownload, EndWith, TypeOK, IsCall, TokenArgs, Abstract!Effect, Abstract!Reply, ValueError
  <2> QED BY <2>1, <2>2, <2>3, <2>4, <2>5, <2>6, <2>7, <2>8 DEF Step
<1>4. Abstract!Return(t)
  BY <1>1, <1>3 DEF Abstract!Return, Abstract!Running, Abstract!NoCall, NoCall
<1> QED BY <1>4 DEF Abstract!Next

(* Threads that share a vocabulary see each other's calls whole.           *)
THEOREM Implements == Spec => ImplementsAtomicVocabulary
<1>1. Init => Abstract!Init
  BY AbstractInit
<1>2. ASSUME IInv, [Next]_vars PROVE [Abstract!Next]_(Abstract!vars)
  <2>1. CASE UNCHANGED vars
    BY <2>1 DEF vars, Abstract!vars
  <2>2. ASSUME NEW t \in Threads,
               TakeGil(t) \/ DropGil(t) \/ Extract(t) \/ Measure(t) \/ Explore(t)
        PROVE  Abstract!Next
    BY <2>2 DEF TakeGil, DropGil, Extract, Measure, Explore, Silent, NoReply,
                Abstract!Next, Abstract!Wait, Abstract!NoReply
  <2>3. ASSUME NEW t \in Threads, NEW c \in Calls, Begin(t, c) \/ BeginIndex(t, c)
        PROVE  Abstract!Next
    BY <1>2, <2>3, AskStep DEF Begin, BeginIndex, BeginIndexKeeping, Silent
  <2>4. ASSUME NEW t \in Threads, NEW c \in Calls, Refuse(t, c)
        PROVE  Abstract!Next
    BY <1>2, <2>4, RefuseStep
  <2>5. ASSUME NEW t \in Threads, Step(t) \/ EndDownload(t) PROVE Abstract!Next
    BY <1>2, <2>2, <2>5, ReturnStep
  <2>6. ASSUME NEW t \in Threads, NEW c \in Calls, BeginDownload(t, c)
        PROVE  Abstract!Next
    BY <1>2, <2>6, AskStep DEF BeginDownload, MayBorrow, Exclusive, Shared, Silent
  <2> QED BY <1>2, <2>1, <2>2, <2>3, <2>4, <2>5, <2>6 DEF Next
<1> QED BY <1>1, <1>2, Invariant, PTL DEF Spec, ImplementsAtomicVocabulary, Abstract!Spec
=============================================================================
