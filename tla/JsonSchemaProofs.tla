-------------------------- MODULE JsonSchemaProofs --------------------------
(***************************************************************************)
(* The counter of references is right for every schema, however its parts  *)
(* refer to each other, and every limit; and every pattern goes to the     *)
(* schema it is of.                                                        *)
(***************************************************************************)
EXTENDS JsonSchema, Basics

IsRef(frame)    == Method(frame.schema) = "ref"
Frames(S, T, D) == [schema : S, todo : T, done : D]

LEMMA OpensFinite ==
  ASSUME NEW F, NEW s \in Seq(F)
  PROVE  IsFiniteSet(RefsIn(s)) /\ Cardinality(RefsIn(s)) \in Nat /\ RefsIn(s) \subseteq 1..Len(s)
<1>1. RefsIn(s) \subseteq 1..Len(s)
  BY DEF RefsIn, IsRef
<1>2. IsFiniteSet(1..Len(s))
  BY FS_Interval
<1> QED BY <1>1, <1>2, FS_Subset, FS_CardinalityType

(* A call that is made adds itself if it is one of parse_ref.              *)
Pushed(s, f, a) ==
  /\ Cardinality(RefsIn(a)) = Cardinality(RefsIn(s)) + (IF IsRef(f) THEN 1 ELSE 0)
  /\ \A i \in RefsIn(a) : i \in RefsIn(s) \/ (a[i] = f /\ IsRef(f))
  /\ \A i \in RefsIn(s) : a[i] = s[i]

LEMMA OpensOfPush ==
  ASSUME NEW F, NEW s \in Seq(F), NEW f, NEW a, a = Append(s, f)
  PROVE  a \in Seq(F \cup {f}) /\ Pushed(s, f, a)
<1> DEFINE n == Len(s) + 1
<1>1. s \in Seq(F \cup {f})
  BY SeqDef
<1>2. a \in Seq(F \cup {f}) /\ DOMAIN a = 1..n /\ a[n] = f /\ \A i \in 1..Len(s) : a[i] = s[i]
  BY <1>1
<1>3. DOMAIN s = 1..Len(s) /\ Len(s) \in Nat
  OBVIOUS
<1>4. RefsIn(a) = IF IsRef(f) THEN RefsIn(s) \cup {n} ELSE RefsIn(s)
  BY <1>2, <1>3 DEF RefsIn, IsRef
<1>5. n \notin RefsIn(s)
  BY <1>3 DEF RefsIn, IsRef
<1>6. Cardinality(RefsIn(a)) = Cardinality(RefsIn(s)) + (IF IsRef(f) THEN 1 ELSE 0)
  <2>1. IsFiniteSet(RefsIn(s)) /\ Cardinality(RefsIn(s)) \in Nat
    BY OpensFinite
  <2>2. Cardinality(RefsIn(s) \cup {n}) = Cardinality(RefsIn(s)) + 1
    BY <2>1, <1>5, FS_AddElement
  <2> QED BY <2>1, <2>2, <1>4
<1>7. \A i \in RefsIn(a) : i \in RefsIn(s) \/ (a[i] = f /\ IsRef(f))
  BY <1>2, <1>4
<1>8. \A i \in RefsIn(s) : a[i] = s[i]
  BY <1>2, <1>3 DEF RefsIn, IsRef
<1> QED BY <1>2, <1>6, <1>7, <1>8 DEF Pushed

(* A call that returns takes itself away.                                  *)
LEMMA OpensOfPop ==
  ASSUME NEW F, NEW s \in Seq(F), s # <<>>
  PROVE  /\ Front(s) \in Seq(F)
         /\ Cardinality(RefsIn(Front(s))) =
              Cardinality(RefsIn(s)) - (IF IsRef(Last(s)) THEN 1 ELSE 0)
         /\ IsRef(Last(s)) => Len(s) \in RefsIn(s) /\ Cardinality(RefsIn(s)) >= 1
         /\ \A i \in RefsIn(Front(s)) : i \in RefsIn(s) /\ Front(s)[i] = s[i]
<1> DEFINE n == Len(s)
           r == Front(s)
<1>1. n \in Nat /\ n >= 1 /\ DOMAIN s = 1..n /\ Last(s) = s[n]
  BY EmptySeq DEF Last
<1>2. r \in Seq(F) /\ Len(r) = n - 1 /\ \A i \in 1..n - 1 : r[i] = s[i]
  BY <1>1 DEF Front
<1>3. DOMAIN r = 1..n - 1
  BY <1>2
<1> HIDE DEF r
<1>4. RefsIn(r) = RefsIn(s) \ {n}
  BY <1>1, <1>2, <1>3 DEF RefsIn, IsRef
<1>5. n \in RefsIn(s) <=> IsRef(Last(s))
  BY <1>1 DEF RefsIn, IsRef
<1>6. IsFiniteSet(RefsIn(s)) /\ Cardinality(RefsIn(s)) \in Nat
  BY OpensFinite
<1> DEFINE Fewer ==
             /\ Cardinality(RefsIn(r)) = Cardinality(RefsIn(s)) - (IF IsRef(Last(s)) THEN 1 ELSE 0)
             /\ IsRef(Last(s)) => Len(s) \in RefsIn(s) /\ Cardinality(RefsIn(s)) >= 1
<1>7. ASSUME IsRef(Last(s)) PROVE Fewer
  <2>1. Cardinality(RefsIn(r)) = Cardinality(RefsIn(s)) - 1
    BY <1>4, <1>5, <1>6, <1>7, FS_RemoveElement
  <2>2. RefsIn(s) # {}
    BY <1>5, <1>7
  <2>3. Cardinality(RefsIn(s)) >= 1
    BY <1>6, <2>2, FS_EmptySet
  <2> QED BY <1>5, <1>7, <2>1, <2>3
<1>8. ASSUME ~IsRef(Last(s)) PROVE Fewer
  <2>1. RefsIn(r) = RefsIn(s)
    BY <1>4, <1>5, <1>8
  <2> QED BY <1>6, <1>8, <2>1
<1>9. \A i \in RefsIn(r) : i \in RefsIn(s) /\ r[i] = s[i]
  BY <1>2, <1>3, <1>4 DEF RefsIn, IsRef
<1> QED BY <1>2, <1>7, <1>8, <1>9 DEF r

(* What the caller does with its own lists changes nothing: its frame f    *)
(* becomes one with the same schema.                                       *)
LEMMA OpensOfChange ==
  ASSUME NEW F, NEW s \in Seq(F), s # <<>>, NEW f, f.schema = s[Len(s)].schema
  PROVE  /\ [s EXCEPT ![Len(s)] = f] \in Seq(F \cup {f})
         /\ RefsIn([s EXCEPT ![Len(s)] = f]) = RefsIn(s)
         /\ \A i \in DOMAIN s : [s EXCEPT ![Len(s)] = f][i].schema = s[i].schema
<1> DEFINE u == [s EXCEPT ![Len(s)] = f]
<1>1. Len(s) \in 1..Len(s) /\ DOMAIN s = 1..Len(s)
  BY EmptySeq
<1>2. s \in Seq(F \cup {f})
  BY SeqDef
<1>3. u \in Seq(F \cup {f}) /\ DOMAIN u = DOMAIN s
  BY <1>1, <1>2, ExceptSeq
<1>4. \A i \in DOMAIN s : u[i].schema = s[i].schema
  BY <1>1
<1> HIDE DEF u
<1>5. RefsIn(u) = RefsIn(s)
  BY <1>3, <1>4 DEF RefsIn, IsRef
<1> QED BY <1>3, <1>4, <1>5 DEF u

IsStack(s) == \E S, T, D : s \in Seq(Frames(S, T, D))

(* u has the calls of s.                                                   *)
SameCalls(s, u) ==
  /\ IsStack(u)
  /\ RefsIn(u) = RefsIn(s)
  /\ \A i \in DOMAIN s : u[i].schema = s[i].schema

LEMMA LargerSet ==
  ASSUME NEW F, NEW G, F \subseteq G, NEW s \in Seq(F)
  PROVE  s \in Seq(G)
BY SeqDef

LEMMA ListsChanged ==
  ASSUME NEW s, IsStack(s), s # <<>>, NEW t
  PROVE  SameCalls(s, [s EXCEPT ![Len(s)].todo = t]) /\ SameCalls(s, [s EXCEPT ![Len(s)].done = t])
<1>1. PICK S, T, D : s \in Seq(Frames(S, T, D))
  BY DEF IsStack
<1>2. Len(s) \in 1..Len(s)
  BY <1>1, EmptySeq
<1>3. s[Len(s)] \in Frames(S, T, D)
  BY <1>1, <1>2
<1> DEFINE f == [s[Len(s)] EXCEPT !.todo = t]
           g == [s[Len(s)] EXCEPT !.done = t]
           All == Frames(S, T \cup {t}, D \cup {t})
<1>4. f \in All /\ f.schema = s[Len(s)].schema /\ g \in All /\ g.schema = s[Len(s)].schema
  BY <1>3 DEF Frames
<1>5. /\ [s EXCEPT ![Len(s)].todo = t] = [s EXCEPT ![Len(s)] = f]
      /\ [s EXCEPT ![Len(s)].done = t] = [s EXCEPT ![Len(s)] = g]
  OBVIOUS
<1>6. s \in Seq(All)
  <2>1. Frames(S, T, D) \subseteq All
    BY DEF Frames
  <2> HIDE DEF All
  <2> QED BY <1>1, <2>1, LargerSet
<1> HIDE DEF f, g, All
<1>7. All \cup {f} = All /\ All \cup {g} = All
  BY <1>4
<1>8. SameCalls(s, [s EXCEPT ![Len(s)] = f])
  BY <1>4, <1>6, <1>7, OpensOfChange DEF SameCalls, IsStack, All
<1>9. SameCalls(s, [s EXCEPT ![Len(s)] = g])
  BY <1>4, <1>6, <1>7, OpensOfChange DEF SameCalls, IsStack, All
<1> QED BY <1>5, <1>8, <1>9

LEMMA CallersSame ==
  ASSUME IsStack(stack)
  PROVE  SameCalls(stack, Callers)
<1>1. CASE stack = <<>>
  BY <1>1 DEF Callers, SameCalls
<1>2. CASE stack # <<>>
  <2>1. Callers = [stack EXCEPT ![Len(stack)].todo = Tail(stack[Len(stack)].todo)]
    BY <1>2 DEF Callers
  <2> QED BY <1>2, <2>1, ListsChanged
<1> QED BY <1>1, <1>2

LEMMA GoesOnSame ==
  ASSUME IsStack(stack), stack # <<>>, NEW p
  PROVE  SameCalls(stack, GoesOn(p))
<1>1. \A d : SameCalls(stack, [stack EXCEPT ![Len(stack)].done = d])
  BY ListsChanged
<1>2. GoesOn(p) = [stack EXCEPT ![Len(stack)].done = Append(stack[Len(stack)].done, p)]
  BY DEF GoesOn
<1> QED BY <1>1, <1>2

----------------------------------------------------------------------------
(* The invariant *)

CountsAtLeast == Cardinality(RefsIn(stack)) <= recursion_depth

AllLocal == Nameless => \A i \in RefsIn(stack) : IsLocal(stack[i].schema.ref)

(* A call that returns lowers the counter only if it has raised it; that   *)
(* is so of local references alone, and without a name all are local.      *)
IInv ==
  /\ IsStack(stack)
  /\ recursion_depth \in 0..MaxRecursionDepth + 1
  /\ CountsAtLeast
  /\ AllLocal
  /\ DepthCountsOpenRefs

LEMMA Initially == Init => IInv
<1> SUFFICES ASSUME Init PROVE IInv
  OBVIOUS
<1>1. stack = <<>> /\ recursion_depth = 0 /\ error = "none"
  BY DEF Init
<1>2. \A S, T, D : stack \in Seq(Frames(S, T, D))
  BY <1>1
<1>3. RefsIn(stack) = {}
  BY <1>1 DEF RefsIn, IsRef
<1>4. Cardinality(RefsIn(stack)) = 0
  BY <1>3, FS_EmptySet
<1> QED
  BY <1>1, <1>2, <1>3, <1>4, DepthAssumption
  DEF IInv, IsStack, CountsAtLeast, AllLocal, DepthCountsOpenRefs, OpenRefs

LEMMA StackFacts ==
  ASSUME NEW s, IsStack(s)
  PROVE  Cardinality(RefsIn(s)) \in Nat /\ RefsIn(s) \subseteq DOMAIN s
<1>1. PICK S, T, D : s \in Seq(Frames(S, T, D))
  BY DEF IsStack
<1> QED BY <1>1, OpensFinite DEF RefsIn, IsRef

(* The calls stay and so does the counter; if there is an error of a       *)
(* reference it stays too.                                                 *)
LEMMA StaysCounted ==
  ASSUME IInv, SameCalls(stack, stack'), UNCHANGED <<root, recursion_depth>>,
         error \in {"none", LimitReached} \/ error' = error
  PROVE  IInv'
<1>1. RefsIn(stack') = RefsIn(stack) /\ IsStack(stack')
  BY DEF SameCalls
<1>2. \A i \in RefsIn(stack) : stack'[i].schema = stack[i].schema
  BY StackFacts DEF IInv, SameCalls
<1>3. AllLocal'
  BY <1>1, <1>2 DEF IInv, AllLocal, Nameless
<1>4. DepthCountsOpenRefs'
  BY <1>1 DEF IInv, DepthCountsOpenRefs, OpenRefs, Nameless, LimitReached
<1> QED BY <1>1, <1>3, <1>4 DEF IInv, CountsAtLeast

(* The call on top returns, as in Return and in Propagate.                 *)
LEMMA PopStaysCounted ==
  ASSUME IInv, stack # <<>>, stack' = Front(stack),
         recursion_depth' = DepthAfter(Last(stack)), UNCHANGED <<root, error>>
  PROVE  IInv'
<1>1. PICK S, T, D : stack \in Seq(Frames(S, T, D))
  BY DEF IInv, IsStack
<1> DEFINE top == Last(stack)
           count == Cardinality(RefsIn(stack))
<1>2. /\ stack' \in Seq(Frames(S, T, D))
      /\ Cardinality(RefsIn(stack')) = count - (IF IsRef(top) THEN 1 ELSE 0)
      /\ IsRef(top) => Len(stack) \in RefsIn(stack) /\ count >= 1
      /\ \A i \in RefsIn(stack') : i \in RefsIn(stack) /\ stack'[i] = stack[i]
  BY <1>1, OpensOfPop
<1>3. count \in Nat /\ count <= recursion_depth /\ recursion_depth \in 0..MaxRecursionDepth + 1
  BY <1>1, OpensFinite DEF IInv, CountsAtLeast
<1>4. recursion_depth' = recursion_depth - (IF IsRef(top) /\ IsLocal(top.schema.ref) THEN 1 ELSE 0)
  BY <1>3 DEF DepthAfter, IsRef
<1>5. Nameless /\ IsRef(top) => IsLocal(top.schema.ref)
  BY <1>2 DEF IInv, AllLocal, Last
<1> HIDE DEF top, count
<1>6. recursion_depth' \in 0..MaxRecursionDepth + 1 /\ CountsAtLeast'
  BY <1>2, <1>3, <1>4, DepthAssumption DEF CountsAtLeast
<1>7. AllLocal'
  BY <1>2 DEF IInv, AllLocal, Nameless
<1>8. DepthCountsOpenRefs'
  <2>1. ASSUME Nameless, error \notin {"RefMustBeAString", "InvalidRefecencePath"}
        PROVE  recursion_depth' = Cardinality(RefsIn(stack'))
    <3>1. recursion_depth = count
      BY <2>1 DEF IInv, DepthCountsOpenRefs, OpenRefs, count
    <3> QED BY <2>1, <3>1, <1>2, <1>4, <1>5
  <2> QED BY <2>1 DEF DepthCountsOpenRefs, OpenRefs, Nameless
<1>9. IsStack(stack')
  BY <1>2 DEF IsStack
<1> QED BY <1>6, <1>7, <1>8, <1>9 DEF IInv

(* A call is made: its frame goes on top of the calls that wait for it.    *)
EntersWith(json) ==
  /\ IsStack(stack')
  /\ Cardinality(RefsIn(stack')) =
       Cardinality(RefsIn(stack)) + (IF Method(json) = "ref" THEN 1 ELSE 0)
  /\ \A i \in RefsIn(stack') :
       \/ i \in RefsIn(stack) /\ stack'[i].schema = stack[i].schema
       \/ Method(json) = "ref" /\ stack'[i].schema = json

LEMMA PushFacts ==
  ASSUME IsStack(stack), NEW json, NEW todo, stack' = Append(Callers, Frame(json, todo))
  PROVE  EntersWith(json)
<1> DEFINE f == Frame(json, todo)
<1>1. SameCalls(stack, Callers)
  BY CallersSame
<1>2. PICK S, T, D : Callers \in Seq(Frames(S, T, D))
  BY <1>1 DEF SameCalls, IsStack
<1> DEFINE All == Frames(S \cup {json}, T \cup {todo}, D \cup {<<>>})
<1>3. f \in All /\ f.schema = json /\ Frames(S, T, D) \subseteq All
  BY DEF Frame, Frames
<1>4. (IsRef(f) <=> Method(json) = "ref") /\ f.schema = json
  BY <1>3 DEF IsRef
<1> HIDE DEF f, All
<1>5. Callers \in Seq(All) /\ All \cup {f} = All
  BY <1>2, <1>3, LargerSet
<1>6. stack' = Append(Callers, f)
  BY DEF f
<1>7. stack' \in Seq(All \cup {f}) /\ Pushed(Callers, f, stack')
  BY <1>5, <1>6, OpensOfPush, Zenon
<1>8. \A i \in RefsIn(Callers) : i \in RefsIn(stack) /\ Callers[i].schema = stack[i].schema
  BY <1>1, StackFacts DEF SameCalls
<1>9. RefsIn(Callers) = RefsIn(stack)
  BY <1>1 DEF SameCalls
<1>10. IsStack(stack')
  BY <1>5, <1>7 DEF IsStack, All
<1> QED BY <1>4, <1>7, <1>8, <1>9, <1>10 DEF Pushed, EntersWith

LEMMA Step == IInv /\ [Next]_vars => IInv'
<1> SUFFICES ASSUME IInv, [Next]_vars PROVE IInv'
  OBVIOUS
<1> USE DEF LimitReached
<1>1. ASSUME Calling
      PROVE  /\ error = "none"
             /\ SameCalls(stack, Callers)
             /\ IsStack(stack)
             /\ Cardinality(RefsIn(stack)) \in Nat
             /\ recursion_depth \in 0..MaxRecursionDepth + 1
             /\ Cardinality(RefsIn(stack)) <= recursion_depth
  BY <1>1, CallersSame, StackFacts DEF Calling, Running, IInv, CountsAtLeast
<1>2. CASE Refuse
  BY <1>1, <1>2, StaysCounted DEF Refuse
<1>3. CASE Enter
  <2>1. /\ IsStack(stack')
        /\ Cardinality(RefsIn(stack')) = Cardinality(RefsIn(stack))
        /\ \A i \in RefsIn(stack') : i \in RefsIn(stack) /\ stack'[i].schema = stack[i].schema
    <3>1. EntersWith(Argument)
      BY <1>1, <1>3, PushFacts, Zenon DEF Enter
    <3>2. Method(Argument) # "ref" /\ Cardinality(RefsIn(stack)) \in Nat
      BY <1>1, <1>3 DEF Enter
    <3> QED BY <3>1, <3>2 DEF EntersWith
  <2>2. AllLocal'
    BY <1>3, <2>1 DEF IInv, AllLocal, Nameless, Enter
  <2>3. DepthCountsOpenRefs'
    BY <1>3, <2>1 DEF IInv, DepthCountsOpenRefs, OpenRefs, Nameless, Enter
  <2> QED BY <1>3, <2>1, <2>2, <2>3 DEF IInv, CountsAtLeast, Enter
<1>4. CASE HitLimit
  BY <1>1, <1>4, StaysCounted DEF HitLimit
<1>5. CASE RefuseRef
  <2>1. RefsIn(stack') = RefsIn(stack) /\ IsStack(stack')
    BY <1>1, <1>5 DEF SameCalls, RefuseRef
  <2>2. /\ recursion_depth' \in 0..MaxRecursionDepth + 1
        /\ recursion_depth' >= recursion_depth
        /\ error' \notin {"RefMustBeAString", "InvalidRefecencePath"}
             => recursion_depth' = recursion_depth
    BY <1>1, <1>5, DepthAssumption DEF RefuseRef
  <2>3. AllLocal'
    <3>1. \A i \in RefsIn(stack) : stack'[i].schema = stack[i].schema
      BY <1>1, <1>5, StackFacts DEF SameCalls, RefuseRef
    <3> QED BY <1>5, <2>1, <3>1 DEF IInv, AllLocal, Nameless, RefuseRef
  <2>4. DepthCountsOpenRefs'
    BY <1>1, <1>5, <2>1, <2>2 DEF IInv, DepthCountsOpenRefs, OpenRefs, Nameless, RefuseRef
  <2>5. CountsAtLeast'
    BY <1>1, <1>5, <2>1, <2>2 DEF CountsAtLeast, RefuseRef
  <2> QED BY <2>1, <2>2, <2>3, <2>4, <2>5 DEF IInv
<1>6. CASE EnterRef
  <2>1. PICK target : stack' = Append(Callers, Frame(Argument, <<target>>))
    BY <1>6 DEF EnterRef
  <2>2. /\ IsStack(stack')
        /\ Cardinality(RefsIn(stack')) = Cardinality(RefsIn(stack)) + 1
        /\ \A i \in RefsIn(stack') :
             \/ i \in RefsIn(stack) /\ stack'[i].schema = stack[i].schema
             \/ stack'[i].schema = Argument
    <3>1. \E todo : stack' = Append(Callers, Frame(Argument, todo))
      BY <2>1
    <3>2. IsStack(stack)
      BY <1>1, <1>6 DEF EnterRef
    <3>3. EntersWith(Argument)
      BY <3>1, <3>2, PushFacts, Zenon
    <3> QED BY <1>1, <1>6, <3>3 DEF EnterRef, EntersWith
  <2>3. Nameless => IsLocal(Argument.ref)
    BY <1>6 DEF EnterRef, RefError, NamesRoot, Nameless
  <2>4. AllLocal'
    BY <1>6, <2>2, <2>3 DEF IInv, AllLocal, Nameless, EnterRef
  <2>5. recursion_depth' = recursion_depth + 1 /\ recursion_depth' \in 0..MaxRecursionDepth + 1
    BY <1>1, <1>6, DepthAssumption DEF EnterRef
  <2>6. DepthCountsOpenRefs'
    BY <1>6, <2>2, <2>5 DEF IInv, DepthCountsOpenRefs, OpenRefs, Nameless, EnterRef
  <2>7. CountsAtLeast'
    BY <1>1, <1>6, <2>2, <2>5 DEF CountsAtLeast, EnterRef
  <2> QED BY <2>2, <2>4, <2>5, <2>6, <2>7 DEF IInv
<1>7. CASE Return
  BY <1>7, PopStaysCounted DEF Return
<1>8. CASE Take
  <2>1. SameCalls(stack, stack')
    BY <1>8, GoesOnSame DEF Take, IInv
  <2> QED BY <1>8, <2>1, StaysCounted DEF Take
<1>9. CASE Skip
  <2>1. SameCalls(stack, stack')
    BY <1>9, GoesOnSame DEF Skip, IInv
  <2> QED BY <1>9, <2>1, StaysCounted DEF Skip, Skips
<1>10. CASE Propagate
  BY <1>10, PopStaysCounted DEF Propagate
<1>11. CASE UNCHANGED vars
  BY <1>11 DEF vars, IInv, CountsAtLeast, AllLocal, DepthCountsOpenRefs, OpenRefs, Nameless
<1> QED
  BY <1>2, <1>3, <1>4, <1>5, <1>6, <1>7, <1>8, <1>9, <1>10, <1>11 DEF Next

----------------------------------------------------------------------------
(* The theorems *)

THEOREM AlwaysIInv == Spec => []IInv
BY Initially, Step, PTL DEF Spec

(* The counter of references is a usize that is decremented without a      *)
(* check: it never goes below 0, and never above the limit but by one.     *)
THEOREM DepthInRange == Spec => [](recursion_depth \in 0..MaxRecursionDepth + 1)
<1>1. IInv => recursion_depth \in 0..MaxRecursionDepth + 1
  BY DEF IInv
<1> QED BY <1>1, AlwaysIInv, PTL

(* No schema makes the parser follow more references inside one another    *)
(* than the limit allows.                                                  *)
THEOREM SpecNestingBounded == Spec => []NestingBounded
<1>1. IInv => NestingBounded
  BY StackFacts, DepthAssumption DEF IInv, CountsAtLeast, NestingBounded, OpenRefs
<1> QED BY <1>1, AlwaysIInv, PTL

(* Whatever calls fail, are skipped or return, the counter of references   *)
(* is the number of those being followed, unless the schema has a name.    *)
THEOREM SpecDepthCountsOpenRefs == Spec => []DepthCountsOpenRefs
<1>1. IInv => DepthCountsOpenRefs
  BY DEF IInv
<1> QED BY <1>1, AlwaysIInv, PTL

(* The errors of other schemas are not the limit's.                        *)
LEMMA OtherErrors ==
  \A json : Refusal(json) # LimitReached /\ RefError(json) # LimitReached
BY DEF Refusal, RefError, LimitReached

(* In a schema without a name, a reference is refused for the number of    *)
(* references around it and nothing else.                                  *)
THEOREM SpecRefusedOnlyWhenNested == Spec => RefusedOnlyWhenNested
<1>1. IInv /\ [Next]_vars => [Nameless => HitsLimitNested]_vars
  <2> SUFFICES ASSUME IInv, [Next]_vars, Nameless, error = "none", error' = LimitReached
               PROVE  Cardinality(OpenRefs) > MaxRecursionDepth
    BY DEF HitsLimitNested
  <2>1. recursion_depth = Cardinality(OpenRefs)
    BY DEF IInv, DepthCountsOpenRefs
  <2>2. HitLimit
    BY OtherErrors
    DEF Next, Refuse, Enter, RefuseRef, EnterRef, Return, Take, Skip, Propagate, vars, LimitReached
  <2> QED BY <2>1, <2>2 DEF HitLimit
<1> QED BY <1>1, AlwaysIInv, PTL DEF Spec, RefusedOnlyWhenNested

----------------------------------------------------------------------------
(* Which schema a pattern is of *)

IsList(s) == s \in Seq(ToSet(s))

(* A call that waits for the result of one schema, or of none.             *)
InPlace(frame, waiting) ==
  LET all == Subschemas(frame.schema) IN
  /\ IsList(frame.done)
  /\ ~IsRef(frame) /\ IsList(all)
       => frame.todo = SubSeq(all, Len(frame.done) + waiting + 1, Len(all))

Waiting(i) == IF i < Len(stack) \/ ~Running THEN 1 ELSE 0

PlaceInv ==
  /\ root \in Schemas
  /\ returned # {} => error = "none"
  /\ \A i \in DOMAIN stack : InPlace(stack[i], Waiting(i))

LEMMA TailOfRest ==
  ASSUME NEW s, IsList(s), NEW k \in Nat \ {0}, SubSeq(s, k, Len(s)) # <<>>
  PROVE  Tail(SubSeq(s, k, Len(s))) = SubSeq(s, k + 1, Len(s))
<1>1. s \in Seq(ToSet(s)) /\ Len(s) \in Nat
  BY DEF IsList
<1>2. k <= Len(s)
  <2> SUFFICES ASSUME Len(s) < k PROVE FALSE
    BY <1>1
  <2> QED BY <1>1, SubSeqEmpty
<1>3. k \in 1..Len(s) /\ Len(s) \in k..Len(s)
  BY <1>1, <1>2
<1> QED BY <1>1, <1>3, HeadTailOfSubSeq

LEMMA ListAppend ==
  ASSUME NEW s, IsList(s), NEW x
  PROVE  IsList(Append(s, x)) /\ Len(Append(s, x)) = Len(s) + 1 /\ Len(s) \in Nat
<1> DEFINE a == Append(s, x)
<1>1. s \in Seq(ToSet(s) \cup {x})
  BY LargerSet DEF IsList
<1>2. a \in Seq(ToSet(s) \cup {x}) /\ Len(a) = Len(s) + 1 /\ Len(s) \in Nat
  BY <1>1, AppendProperties
<1> HIDE DEF a
<1>3. DOMAIN a = 1..Len(a) /\ \A i \in 1..Len(a) : a[i] \in ToSet(a)
  BY <1>2 DEF ToSet
<1>4. a \in Seq(ToSet(a))
  BY <1>2, <1>3, IsASeq
<1> QED BY <1>2, <1>4 DEF IsList, a

(* A new call has all its schemas before it.                               *)
LEMMA NewInPlace ==
  ASSUME NEW json, NEW todo, Method(json) = "ref" \/ todo = Subschemas(json)
  PROVE  InPlace(Frame(json, todo), 0)
<1> DEFINE f == Frame(json, todo)
           all == Subschemas(json)
<1>1. f.schema = json /\ f.todo = todo /\ f.done = <<>>
  BY DEF Frame
<1> HIDE DEF f
<1>2. IsList(<<>>) /\ Len(<<>>) = 0
  BY EmptySeq DEF IsList
<1>3. ASSUME IsList(all) PROVE all = SubSeq(all, 1, Len(all))
  BY <1>3, SubSeqFull DEF IsList
<1> HIDE DEF all
<1>4. ~IsRef(f) => todo = all
  BY <1>1 DEF IsRef, all
<1>5. Len(<<>>) + 0 + 1 = 1
  BY <1>2
<1>6. InPlace(f, 0)
  BY <1>1, <1>2, <1>3, <1>4, <1>5 DEF InPlace, all
<1> QED BY <1>6 DEF f

(* A call makes the next one: it waits now.                                *)
LEMMA CallInPlace ==
  ASSUME NEW frame, InPlace(frame, 0), NEW g, frame.todo # <<>>,
         g.schema = frame.schema, g.done = frame.done, g.todo = Tail(frame.todo)
  PROVE  InPlace(g, 1)
<1> DEFINE all == Subschemas(frame.schema)
           k == Len(frame.done) + 1
<1>1. Len(frame.done) \in Nat
  BY DEF InPlace, IsList
<1>2. ASSUME ~IsRef(frame), IsList(all) PROVE g.todo = SubSeq(all, k + 1, Len(all))
  <2>1. frame.todo = SubSeq(all, k, Len(all))
    <3>1. Len(frame.done) + 0 + 1 = k
      BY <1>1
    <3> QED BY <1>2, <3>1 DEF InPlace
  <2>2. k \in Nat \ {0}
    BY <1>1
  <2> HIDE DEF all, k
  <2> QED BY <1>2, <2>1, <2>2, TailOfRest
<1> QED BY <1>1, <1>2 DEF InPlace, IsRef

(* It gets the result: it waits no longer.                                 *)
LEMMA ResultInPlace ==
  ASSUME NEW frame, InPlace(frame, 1), NEW g, NEW p,
         g.schema = frame.schema, g.done = Append(frame.done, p), g.todo = frame.todo
  PROVE  InPlace(g, 0)
<1>1. IsList(g.done) /\ Len(g.done) = Len(frame.done) + 1 /\ Len(frame.done) \in Nat
  BY ListAppend DEF InPlace
<1>2. Len(g.done) + 0 + 1 = Len(frame.done) + 1 + 1
  BY <1>1
<1> QED BY <1>1, <1>2 DEF InPlace, IsRef

(* Only the call on top changes.                                           *)
LEMMA TopChanged ==
  ASSUME NEW s, IsStack(s), s # <<>>, NEW t
  PROVE  LET n == Len(s)
             u == [s EXCEPT ![n].todo = t]
             v == [s EXCEPT ![n].done = t]
         IN  /\ n \in DOMAIN s /\ DOMAIN u = DOMAIN s /\ DOMAIN v = DOMAIN s
             /\ DOMAIN s = 1..n /\ Len(u) = n /\ Len(v) = n
             /\ \A i \in DOMAIN s : i # n => u[i] = s[i] /\ v[i] = s[i]
             /\ u[n].schema = s[n].schema /\ u[n].done = s[n].done /\ u[n].todo = t
             /\ v[n].schema = s[n].schema /\ v[n].todo = s[n].todo /\ v[n].done = t
<1>1. PICK S, T, D : s \in Seq(Frames(S, T, D))
  BY DEF IsStack
<1> DEFINE n == Len(s)
           u == [s EXCEPT ![n].todo = t]
           v == [s EXCEPT ![n].done = t]
<1>2. n \in DOMAIN s /\ DOMAIN s = 1..n /\ n \in Nat
  BY <1>1, EmptySeq
<1>3. s[n] = [schema |-> s[n].schema, todo |-> s[n].todo, done |-> s[n].done]
  <2>1. s[n] \in Frames(S, T, D)
    BY <1>1, <1>2
  <2> QED BY <2>1 DEF Frames
<1>4. DOMAIN u = 1..n /\ DOMAIN v = 1..n
  BY <1>2
<1>5. Len(u) = n /\ Len(v) = n
  BY <1>2, <1>4
<1>6. u[n] = [s[n] EXCEPT !.todo = t] /\ v[n] = [s[n] EXCEPT !.done = t]
  BY <1>2
<1>7. /\ u[n].schema = s[n].schema /\ u[n].done = s[n].done /\ u[n].todo = t
      /\ v[n].schema = s[n].schema /\ v[n].todo = s[n].todo /\ v[n].done = t
  BY <1>3, <1>6
<1>8. \A i \in DOMAIN s : i # n => u[i] = s[i] /\ v[i] = s[i]
  BY <1>2
<1> QED BY <1>2, <1>4, <1>5, <1>7, <1>8

(* Every call, the one on top too, waits for a result.                     *)
AllWait(s) == \A i \in DOMAIN s : InPlace(s[i], 1)

LEMMA CallersWait ==
  ASSUME PlaceInv, IsStack(stack), Calling
  PROVE  AllWait(Callers) /\ Len(Callers) = Len(stack) /\ IsStack(Callers)
<1>1. CASE stack = <<>>
  BY <1>1 DEF Callers, AllWait
<1>2. CASE stack # <<>>
  <2> DEFINE n == Len(stack)
             t == Tail(stack[n].todo)
             u == [stack EXCEPT ![n].todo = t]
  <2>1. Callers = u
    BY <1>2 DEF Callers
  <2>2. /\ n \in DOMAIN stack /\ DOMAIN stack = 1..n /\ DOMAIN u = 1..n /\ Len(u) = n
        /\ \A i \in DOMAIN stack : i # n => u[i] = stack[i]
        /\ u[n].schema = stack[n].schema /\ u[n].done = stack[n].done /\ u[n].todo = t
    BY <1>2, TopChanged
  <2>3. InPlace(stack[n], 0) /\ stack[n].todo # <<>>
    BY <1>2, <2>2 DEF PlaceInv, Waiting, Calling, Last
  <2>4. InPlace(u[n], 1)
    <3> HIDE DEF u
    <3> QED BY <2>2, <2>3, CallInPlace
  <2>5. \A i \in DOMAIN stack : i # n => InPlace(stack[i], 1)
    <3>1. n \in Nat
      BY <2>2
    <3>2. \A i \in 1..n : i # n => i < n
      BY <3>1
    <3> QED BY <2>2, <3>2 DEF PlaceInv, Waiting
  <2> HIDE DEF u, n
  <2>6. AllWait(u)
    BY <2>2, <2>4, <2>5 DEF AllWait
  <2> QED BY <2>1, <2>2, <2>6, CallersSame DEF SameCalls, n
<1> QED BY <1>1, <1>2

(* An error leaves every call waiting, and so does a pattern.              *)
LEMMA WaitingStays ==
  ASSUME AllWait(stack'), ~Running', UNCHANGED root, root \in Schemas,
         returned' # {} => error' = "none"
  PROVE  PlaceInv'
BY DEF PlaceInv, Waiting, AllWait

LEMMA EnterInPlace ==
  ASSUME PlaceInv, IsStack(stack), Calling, UNCHANGED <<root, returned, error>>,
         NEW json, NEW todo, Method(json) = "ref" \/ todo = Subschemas(json),
         stack' = Append(Callers, Frame(json, todo))
  PROVE  PlaceInv'
<1> DEFINE n == Len(Callers)
           f == Frame(json, todo)
<1>1. AllWait(Callers) /\ IsStack(Callers)
  BY CallersWait
<1>2. PICK S, T, D : Callers \in Seq(Frames(S, T, D))
  BY <1>1 DEF IsStack
<1>3. InPlace(f, 0)
  BY NewInPlace
<1> HIDE DEF f
<1>4. Callers \in Seq(Frames(S, T, D) \cup {f})
  BY <1>2, LargerSet
<1>5. /\ n \in Nat /\ DOMAIN Callers = 1..n
      /\ DOMAIN stack' = 1..n + 1 /\ Len(stack') = n + 1 /\ stack'[n + 1] = f
      /\ \A i \in 1..n : stack'[i] = Callers[i]
  BY <1>4, AppendProperties DEF f
<1> HIDE DEF n
<1>6. Running' /\ Running
  BY DEF Running, Calling
<1>7. ASSUME NEW i \in DOMAIN stack' PROVE InPlace(stack'[i], Waiting(i)')
  <2>1. CASE i = n + 1
    <3>1. Waiting(i)' = 0
      BY <1>5, <1>6, <2>1 DEF Waiting
    <3> QED BY <1>3, <1>5, <2>1, <3>1
  <2>2. CASE i # n + 1
    <3>1. i \in 1..n /\ i < Len(stack')
      BY <1>5, <2>2
    <3>2. Waiting(i)' = 1
      BY <3>1 DEF Waiting
    <3> QED BY <1>1, <1>5, <3>1, <3>2 DEF AllWait
  <2> QED BY <2>1, <2>2
<1> QED BY <1>7 DEF PlaceInv

(* The call on top returns: those below wait for it.                       *)
LEMMA PopInPlace ==
  ASSUME PlaceInv, IsStack(stack), stack # <<>>, stack' = Front(stack), ~Running',
         UNCHANGED root, returned' # {} => error' = "none"
  PROVE  PlaceInv'
<1> DEFINE n == Len(stack)
<1>1. PICK S, T, D : stack \in Seq(Frames(S, T, D))
  BY DEF IsStack
<1>2. n \in Nat /\ n >= 1 /\ DOMAIN stack = 1..n
  BY <1>1, EmptySeq
<1>3. DOMAIN Front(stack) = 1..n - 1 /\ \A i \in 1..n - 1 : Front(stack)[i] = stack[i]
  BY <1>1, <1>2 DEF Front
<1>4. \A i \in 1..n - 1 : i \in DOMAIN stack /\ Waiting(i) = 1
  BY <1>2 DEF Waiting
<1> HIDE DEF n
<1>5. AllWait(stack')
  BY <1>3, <1>4 DEF AllWait, PlaceInv
<1> QED BY <1>5, WaitingStays DEF PlaceInv

(* The call on top gets a result, a pattern or Skipped.                    *)
LEMMA GoesOnInPlace ==
  ASSUME PlaceInv, IsStack(stack), stack # <<>>, ~Running, NEW p, stack' = GoesOn(p),
         UNCHANGED root, returned' = {}, Running'
  PROVE  PlaceInv'
<1> DEFINE n == Len(stack)
           d == Append(stack[n].done, p)
           v == [stack EXCEPT ![n].done = d]
<1>1. stack' = v
  BY DEF GoesOn
<1>2. /\ n \in DOMAIN stack /\ DOMAIN stack = 1..n /\ DOMAIN v = 1..n /\ Len(v) = n
      /\ \A i \in DOMAIN stack : i # n => v[i] = stack[i]
      /\ v[n].schema = stack[n].schema /\ v[n].todo = stack[n].todo /\ v[n].done = d
  BY TopChanged
<1>3. InPlace(stack[n], 1)
  BY <1>2 DEF PlaceInv, Waiting
<1>4. InPlace(v[n], 0)
  <2> HIDE DEF v
  <2> QED BY <1>2, <1>3, ResultInPlace
<1> HIDE DEF v, n
<1>5. ASSUME NEW i \in DOMAIN stack' PROVE InPlace(stack'[i], Waiting(i)')
  <2>1. CASE i = n
    <3>1. Waiting(i)' = 0
      BY <1>1, <1>2, <2>1 DEF Waiting
    <3> QED BY <1>1, <1>4, <2>1, <3>1
  <2>2. CASE i # n
    <3>1. i \in DOMAIN stack /\ i < Len(stack') /\ stack'[i] = stack[i]
      BY <1>1, <1>2, <2>2
    <3>2. Waiting(i)' = 1 /\ Waiting(i) = 1
      BY <3>1 DEF Waiting
    <3> QED BY <3>1, <3>2 DEF PlaceInv
  <2> QED BY <2>1, <2>2
<1> QED BY <1>5 DEF PlaceInv

LEMMA PlaceInit == ASSUME Init PROVE PlaceInv
BY DEF Init, PlaceInv

LEMMA PlaceStep == ASSUME IInv, PlaceInv, [Next]_vars PROVE PlaceInv'
<1>1. IsStack(stack) /\ root \in Schemas
  BY DEF IInv, PlaceInv
<1>2. ASSUME Calling, stack' = Callers, error' # "none", UNCHANGED <<root, returned>>
      PROVE  PlaceInv'
  <2>1. returned = {} /\ AllWait(stack')
    BY <1>1, <1>2, CallersWait DEF Calling, Running
  <2> QED BY <1>1, <1>2, <2>1, WaitingStays DEF Running
<1>3. CASE Refuse
  BY <1>2, <1>3 DEF Refuse
<1>4. CASE Enter
  BY <1>1, <1>4, EnterInPlace, Zenon DEF Enter
<1>5. CASE HitLimit
  BY <1>2, <1>5 DEF HitLimit, LimitReached
<1>6. CASE RefuseRef
  BY <1>2, <1>6 DEF RefuseRef
<1>7. CASE EnterRef
  <2>1. PICK target : stack' = Append(Callers, Frame(Argument, <<target>>))
    BY <1>7 DEF EnterRef
  <2>2. Calling /\ Method(Argument) = "ref" /\ UNCHANGED <<root, returned, error>>
    BY <1>7 DEF EnterRef
  <2> QED BY <1>1, <2>1, <2>2, EnterInPlace, Zenon
<1>8. CASE Return
  <2>1. returned' # {} /\ error' = "none" /\ stack # <<>> /\ stack' = Front(stack) /\ root' = root
    BY <1>8 DEF Return, Running
  <2> QED BY <1>1, <2>1, PopInPlace DEF Running
<1>9. CASE Take
  <2>1. PICK p \in returned : stack' = GoesOn(p)
    BY <1>9 DEF Take
  <2>2. returned' = {} /\ error' = "none" /\ stack # <<>> /\ root' = root /\ returned # {}
    BY <1>9, <2>1 DEF Take, PlaceInv
  <2> QED BY <1>1, <2>1, <2>2, GoesOnInPlace DEF Running
<1>10. CASE Skip
  <2>1. error # "none"
    BY <1>10 DEF Skip, Skips, LimitReached
  <2>2. returned' = {} /\ error' = "none" /\ stack # <<>> /\ root' = root
        /\ stack' = GoesOn(Skipped)
    BY <1>10, <2>1 DEF Skip, PlaceInv
  <2> QED BY <1>1, <2>1, <2>2, GoesOnInPlace DEF Running
<1>11. CASE Propagate
  <2>1. error' # "none" /\ stack # <<>> /\ stack' = Front(stack) /\ UNCHANGED <<root, returned, error>>
    BY <1>11 DEF Propagate
  <2> QED BY <1>1, <2>1, PopInPlace DEF Running, PlaceInv
<1>12. CASE UNCHANGED vars
  BY <1>12 DEF vars, PlaceInv, Waiting, Running
<1> QED BY <1>3, <1>4, <1>5, <1>6, <1>7, <1>8, <1>9, <1>10, <1>11, <1>12 DEF Next

(* Every call knows which of its schemas its results are of, so that       *)
(* parse_properties gives each property its own pattern, whatever schemas  *)
(* were skipped; and a pattern and an error never come together.           *)
THEOREM SpecTypeOK == Spec => []TypeOK
<1>1. IInv /\ PlaceInv => TypeOK
  <2> SUFFICES ASSUME IInv, PlaceInv PROVE TypeOK
    OBVIOUS
  <2>1. ASSUME NEW i \in DOMAIN stack PROVE InPlace(stack[i], Waiting(i))
    BY DEF PlaceInv
  <2>2. root \in Schemas /\ (returned # {} => error = "none")
    BY DEF PlaceInv
  <2>3. recursion_depth \in 0..MaxRecursionDepth + 1
    BY DEF IInv
  <2> QED BY <2>1, <2>2, <2>3, Zenon DEF TypeOK, InPlace, Waiting, IsRef, IsList
<1> QED BY <1>1, Initially, Step, PlaceInit, PlaceStep, PTL DEF Spec

----------------------------------------------------------------------------
(* How many calls there are at once *)

(* The schemas that the call for json may make calls for.                  *)
Below(height, json) ==
  {sub \in DOMAIN height : Method(json) # "ref" => height[sub] < height[json]}

Stacked(height, s) ==
  \A i \in DOMAIN s :
    /\ s[i].schema \in DOMAIN height
    /\ s[i].todo \in Seq(Below(height, s[i].schema))
    /\ i > 1 => s[i].schema \in Below(height, s[i-1].schema)

(* The argument of a call is below the call that makes it.                 *)
LEMMA ArgumentBelow ==
  ASSUME IsStack(stack), Calling, root \in Schemas,
         NEW height, IsHeight(height), Stacked(height, stack)
  PROVE  /\ Argument \in DOMAIN height
         /\ stack # <<>> => Argument \in Below(height, stack[Len(stack)].schema)
         /\ Stacked(height, Callers)
<1>1. CASE stack = <<>>
  BY <1>1 DEF Argument, Callers, IsHeight
<1>2. CASE stack # <<>>
  <2> DEFINE n == Len(stack)
             B == Below(height, stack[n].schema)
             t == Tail(stack[n].todo)
             u == [stack EXCEPT ![n].todo = t]
  <2>1. /\ n \in DOMAIN stack /\ DOMAIN stack = 1..n /\ DOMAIN u = 1..n /\ Len(u) = n
        /\ \A i \in DOMAIN stack : i # n => u[i] = stack[i]
        /\ u[n].schema = stack[n].schema /\ u[n].todo = t
    BY <1>2, TopChanged
  <2>2. stack[n].todo \in Seq(B) /\ stack[n].todo # <<>>
    BY <1>2, <2>1 DEF Stacked, Calling, Last
  <2>3. Head(stack[n].todo) \in B /\ t \in Seq(B)
    <3> DEFINE s == stack[n].todo
    <3> HIDE DEF s, B
    <3>1. s \in Seq(B) /\ s # <<>>
      BY <2>2 DEF s
    <3>2. Head(s) \in B /\ Tail(s) \in Seq(B)
      BY <3>1, HeadTailProperties
    <3> QED BY <3>2 DEF s
  <2>4. Argument \in B /\ Callers = u
    BY <1>2, <2>3 DEF Argument, Callers, Last
  <2>5. B \subseteq DOMAIN height
    BY DEF Below
  <2>6. \A i \in 1..n : u[i].schema = stack[i].schema
    BY <2>1
  <2>7. ASSUME NEW i \in 1..n
        PROVE  /\ u[i].schema \in DOMAIN height
               /\ u[i].todo \in Seq(Below(height, u[i].schema))
               /\ i > 1 => u[i].schema \in Below(height, u[i-1].schema)
    <3> HIDE DEF u, t
    <3>1. n \in Nat /\ (i > 1 => i - 1 \in 1..n)
      BY <2>1
    <3>2. stack[i].schema \in DOMAIN height
      BY <2>1 DEF Stacked
    <3>3. u[i].todo \in Seq(Below(height, stack[i].schema))
      BY <2>1, <2>3 DEF Stacked
    <3>4. i > 1 => stack[i].schema \in Below(height, stack[i-1].schema)
      BY <2>1 DEF Stacked
    <3> QED BY <2>6, <3>1, <3>2, <3>3, <3>4
  <2>8. Stacked(height, u)
    <3> HIDE DEF u
    <3> QED BY <2>1, <2>7 DEF Stacked
  <2> QED BY <1>2, <2>4, <2>5, <2>8
<1> QED BY <1>1, <1>2

LEMMA StackedPush ==
  ASSUME NEW s, IsStack(s), NEW height, Stacked(height, s), NEW json \in DOMAIN height,
         s # <<>> => json \in Below(height, s[Len(s)].schema),
         NEW todo \in Seq(Below(height, json))
  PROVE  Stacked(height, Append(s, Frame(json, todo)))
<1> DEFINE n == Len(s)
           f == Frame(json, todo)
           a == Append(s, f)
<1>1. PICK S, T, D : s \in Seq(Frames(S, T, D))
  BY DEF IsStack
<1>2. f.schema = json /\ f.todo = todo
  BY DEF Frame
<1> HIDE DEF f
<1>3. s \in Seq(Frames(S, T, D) \cup {f})
  BY <1>1, LargerSet
<1>4. /\ n \in Nat /\ DOMAIN s = 1..n /\ DOMAIN a = 1..n + 1 /\ a[n + 1] = f
      /\ \A i \in 1..n : a[i] = s[i]
  BY <1>3, AppendProperties
<1>5. n > 0 => s # <<>>
  BY <1>3
<1> HIDE DEF a, n
<1>6. ASSUME NEW i \in 1..n + 1
      PROVE  /\ a[i].schema \in DOMAIN height
             /\ a[i].todo \in Seq(Below(height, a[i].schema))
             /\ i > 1 => a[i].schema \in Below(height, a[i-1].schema)
  <2>1. CASE i = n + 1
    <3>1. i > 1 => i - 1 = n /\ n \in 1..n /\ n > 0
      BY <1>4, <2>1
    <3>2. i > 1 => json \in Below(height, a[i-1].schema)
      BY <1>4, <1>5, <3>1 DEF n
    <3> QED BY <1>2, <1>4, <2>1, <3>2
  <2>2. CASE i # n + 1
    <3>1. i \in 1..n /\ (i > 1 => i - 1 \in 1..n)
      BY <1>4, <2>2
    <3> QED BY <1>4, <3>1 DEF Stacked
  <2> QED BY <2>1, <2>2
<1>7. Stacked(height, a)
  BY <1>4, <1>6 DEF Stacked
<1> QED BY <1>7 DEF a, f

LEMMA StackedPop ==
  ASSUME NEW s, IsStack(s), s # <<>>, NEW height, Stacked(height, s)
  PROVE  Stacked(height, Front(s))
<1> DEFINE n == Len(s)
<1>1. PICK S, T, D : s \in Seq(Frames(S, T, D))
  BY DEF IsStack
<1>2. n \in Nat /\ n >= 1 /\ DOMAIN s = 1..n
  BY <1>1, EmptySeq
<1>3. DOMAIN Front(s) = 1..n - 1 /\ \A i \in 1..n - 1 : Front(s)[i] = s[i]
  BY <1>1, <1>2 DEF Front
<1>4. \A i \in 1..n - 1 : i \in 1..n /\ (i > 1 => i - 1 \in 1..n - 1)
  BY <1>2
<1> HIDE DEF n
<1> QED BY <1>2, <1>3, <1>4 DEF Stacked

LEMMA StackedGoesOn ==
  ASSUME IsStack(stack), stack # <<>>, NEW height, Stacked(height, stack), NEW p
  PROVE  Stacked(height, GoesOn(p))
<1> DEFINE n == Len(stack)
           d == Append(stack[n].done, p)
           v == [stack EXCEPT ![n].done = d]
<1>1. GoesOn(p) = v
  BY DEF GoesOn
<1>2. /\ n \in DOMAIN stack /\ DOMAIN stack = 1..n /\ DOMAIN v = 1..n
      /\ \A i \in DOMAIN stack : i # n => v[i] = stack[i]
      /\ v[n].schema = stack[n].schema /\ v[n].todo = stack[n].todo
  BY TopChanged
<1>3. \A i \in 1..n : v[i].schema = stack[i].schema /\ v[i].todo = stack[i].todo
  BY <1>2
<1>4. \A i \in 1..n : i > 1 => i - 1 \in 1..n
  BY <1>2
<1> HIDE DEF v, n
<1> QED BY <1>1, <1>2, <1>3, <1>4 DEF Stacked

LEMMA StackedStep ==
  ASSUME IInv, PlaceInv, [Next]_vars, NEW height, IsHeight(height), Stacked(height, stack)
  PROVE  Stacked(height, stack')
<1>1. IsStack(stack) /\ root \in Schemas
  BY DEF IInv, PlaceInv
<1>2. ASSUME Calling
      PROVE  /\ Argument \in DOMAIN height
             /\ stack # <<>> => Argument \in Below(height, stack[Len(stack)].schema)
             /\ Stacked(height, Callers) /\ IsStack(Callers) /\ Len(Callers) = Len(stack)
             /\ stack = <<>> => Callers = <<>>
             /\ Callers # <<>> => Callers[Len(Callers)].schema = stack[Len(stack)].schema
  <2>1. /\ Argument \in DOMAIN height
        /\ stack # <<>> => Argument \in Below(height, stack[Len(stack)].schema)
        /\ Stacked(height, Callers)
    BY <1>1, <1>2, ArgumentBelow
  <2>2. IsStack(Callers) /\ Len(Callers) = Len(stack)
    BY <1>1, <1>2, CallersWait
  <2>3. stack = <<>> => Callers = <<>>
    BY DEF Callers
  <2>4. Callers # <<>> => Callers[Len(Callers)].schema = stack[Len(stack)].schema
    <3>1. SameCalls(stack, Callers)
      BY <1>1, CallersSame
    <3>2. stack # <<>> => Len(stack) \in DOMAIN stack
      BY <1>1, TopChanged
    <3> QED BY <2>2, <2>3, <3>1, <3>2 DEF SameCalls
  <2> QED BY <2>1, <2>2, <2>3, <2>4
<1>3. CASE Refuse \/ HitLimit \/ RefuseRef
  BY <1>2, <1>3 DEF Refuse, HitLimit, RefuseRef
<1>4. ASSUME Calling, NEW todo \in Seq(Below(height, Argument)),
             stack' = Append(Callers, Frame(Argument, todo))
      PROVE  Stacked(height, stack')
  <2>1. Callers # <<>> => Argument \in Below(height, Callers[Len(Callers)].schema)
    BY <1>2, <1>4
  <2> DEFINE json == Argument
             s == Callers
  <2>2. /\ IsStack(s) /\ Stacked(height, s) /\ json \in DOMAIN height
        /\ s # <<>> => json \in Below(height, s[Len(s)].schema)
        /\ todo \in Seq(Below(height, json)) /\ stack' = Append(s, Frame(json, todo))
    BY <1>2, <1>4, <2>1
  <2> HIDE DEF json, s
  <2> QED BY <2>2, StackedPush
<1>5. CASE Enter
  <2>1. Subschemas(Argument) \in Seq(Below(height, Argument))
    <3>1. Method(Argument) # "ref" /\ Refusal(Argument) = "none" /\ Argument \in DOMAIN height
      BY <1>2, <1>5 DEF Enter
    <3>2. Subschemas(Argument)
            \in Seq({sub \in DOMAIN height : height[sub] < height[Argument]})
      BY <3>1, Zenon DEF IsHeight
    <3>3. Below(height, Argument) = {sub \in DOMAIN height : height[sub] < height[Argument]}
      BY <3>1 DEF Below
    <3> QED BY <3>2, <3>3
  <2> QED BY <1>4, <1>5, <2>1 DEF Enter
<1>6. CASE EnterRef
  <2>1. Calling /\ Method(Argument) = "ref" /\ RefError(Argument.ref) = "none"
    BY <1>6 DEF EnterRef
  <2>2. PICK target \in ResolveLocalRef(Last(Argument.ref)) :
          stack' = Append(Callers, Frame(Argument, <<target>>))
    BY <1>6 DEF EnterRef
  <2>3. Argument.ref # Other
    BY <2>1 DEF RefError
  <2>4. target \in DOMAIN height
    BY <1>1, <1>2, <2>1, <2>2, <2>3, Zenon DEF IsHeight, ResolveLocalRef
  <2>5. target \in Below(height, Argument)
    BY <2>1, <2>4 DEF Below
  <2>6. <<target>> \in Seq(Below(height, Argument))
    BY <2>5
  <2> QED BY <1>4, <2>1, <2>2, <2>6
<1>7. CASE Return \/ Propagate
  BY <1>1, <1>7, StackedPop DEF Return, Propagate
<1>8. CASE Take \/ Skip
  <2>1. stack # <<>> /\ \E p : stack' = GoesOn(p)
    BY <1>8 DEF Take, Skip
  <2> QED BY <1>1, <2>1, StackedGoesOn
<1>9. CASE UNCHANGED vars
  BY <1>9 DEF vars
<1> QED BY <1>3, <1>5, <1>6, <1>7, <1>8, <1>9 DEF Next

(* The references of the first i - 1 calls, and how deep these are at the  *)
(* most: between two references the heights go down.                       *)
RefsBefore(s, i) == {j \in RefsIn(s) : j < i}

LEMMA Product ==
  ASSUME NEW a \in Nat, NEW b \in Nat, NEW K \in Nat, a <= b
  PROVE  a * K \in Nat /\ a * K <= b * K /\ (a + 1) * K = a * K + K
<1>1. PICK d \in Nat : b = a + d
  <2>1. b - a \in Nat /\ b = a + (b - a)
    OBVIOUS
  <2> QED BY <2>1
<1>2. a * K \in Nat /\ d * K \in Nat /\ b * K = a * K + d * K
  BY <1>1
<1> QED BY <1>2

LEMMA RefsBeforeFinite ==
  ASSUME NEW s, IsStack(s), NEW i
  PROVE  /\ Cardinality(RefsBefore(s, i)) \in Nat
         /\ Cardinality(RefsBefore(s, i)) <= Cardinality(RefsIn(s))
<1>1. PICK S, T, D : s \in Seq(Frames(S, T, D))
  BY DEF IsStack
<1>2. IsFiniteSet(RefsIn(s))
  BY <1>1, OpensFinite
<1>3. RefsBefore(s, i) \subseteq RefsIn(s)
  BY DEF RefsBefore
<1> QED BY <1>2, <1>3, FS_Subset, FS_CardinalityType

LEMMA RefsBeforeNext ==
  ASSUME NEW s, IsStack(s), NEW i \in DOMAIN s, i > 1
  PROVE  /\ i - 1 \in DOMAIN s
         /\ Cardinality(RefsBefore(s, i)) =
              Cardinality(RefsBefore(s, i - 1)) + (IF IsRef(s[i-1]) THEN 1 ELSE 0)
<1>1. PICK S, T, D : s \in Seq(Frames(S, T, D))
  BY DEF IsStack
<1>2. DOMAIN s = 1..Len(s) /\ Len(s) \in Nat
  BY <1>1
<1>3. i - 1 \in DOMAIN s
  BY <1>2
<1>4. \A j \in DOMAIN s : j < i <=> j < i - 1 \/ j = i - 1
  BY <1>2
<1>5. RefsBefore(s, i) = IF IsRef(s[i-1]) THEN RefsBefore(s, i - 1) \cup {i - 1}
                                          ELSE RefsBefore(s, i - 1)
  BY <1>3, <1>4 DEF RefsBefore, RefsIn, IsRef
<1>6. i - 1 \notin RefsBefore(s, i - 1)
  BY <1>2 DEF RefsBefore
<1>7. IsFiniteSet(RefsIn(s)) /\ RefsBefore(s, i - 1) \subseteq RefsIn(s)
  BY <1>1, OpensFinite DEF RefsBefore
<1>8. IsFiniteSet(RefsBefore(s, i - 1)) /\ Cardinality(RefsBefore(s, i - 1)) \in Nat
  BY <1>7, FS_Subset, FS_CardinalityType
<1>9. Cardinality(RefsBefore(s, i - 1) \cup {i - 1}) = Cardinality(RefsBefore(s, i - 1)) + 1
  BY <1>6, <1>8, FS_AddElement
<1> QED BY <1>3, <1>5, <1>8, <1>9

LEMMA PlacesBounded ==
  ASSUME NEW s, IsStack(s), NEW H \in Nat, NEW height, \A json \in DOMAIN height : height[json] \in 0..H,
         Stacked(height, s)
  PROVE  \A i \in DOMAIN s : i + height[s[i].schema] <= (Cardinality(RefsBefore(s, i)) + 1) * (H + 1)
<1> DEFINE K == H + 1
           c(i) == Cardinality(RefsBefore(s, i))
           h(i) == height[s[i].schema]
           Bad  == {i \in DOMAIN s : ~ (i + h(i) <= (c(i) + 1) * K)}
<1>1. SUFFICES ASSUME Bad # {} PROVE FALSE
  OBVIOUS
<1>2. DOMAIN s \subseteq Nat \ {0}
  <2>1. PICK S, T, D : s \in Seq(Frames(S, T, D))
    BY DEF IsStack
  <2> QED BY <2>1
<1>3. PICK i \in Bad : \A m \in Bad : i <= m
  <2>1. Bad \in SUBSET Nat
    BY <1>2
  <2> HIDE DEF Bad
  <2> QED BY <1>1, <2>1, NatMinimum
<1>4. i \in DOMAIN s /\ i \in Nat /\ i >= 1 /\ ~ (i + h(i) <= (c(i) + 1) * K)
  BY <1>2, <1>3
<1>5. h(i) \in 0..H /\ K \in Nat
  BY <1>4 DEF Stacked
<1>6. c(i) \in Nat
  BY RefsBeforeFinite
<1>7. K <= (c(i) + 1) * K
  <2>1. c(i) * K \in Nat /\ (c(i) + 1) * K = c(i) * K + K
    BY <1>5, <1>6, Product
  <2> HIDE DEF c, K
  <2> QED BY <1>5, <2>1
<1>8. i > 1
  <2>1. i = 1 => i + h(i) <= K
    BY <1>5
  <2> HIDE DEF c, h, K
  <2>2. c(i) * K \in Nat /\ (c(i) + 1) * K = c(i) * K + K
    BY <1>5, <1>6, Product
  <2> QED BY <1>4, <1>5, <1>7, <2>1, <2>2
<1>9. /\ i - 1 \in DOMAIN s
      /\ c(i) = c(i - 1) + (IF IsRef(s[i-1]) THEN 1 ELSE 0)
      /\ c(i - 1) \in Nat
  BY <1>4, <1>8, RefsBeforeNext, RefsBeforeFinite
<1>10. h(i - 1) \in 0..H
  BY <1>9 DEF Stacked
<1>11. i - 1 + h(i - 1) <= (c(i - 1) + 1) * K
  <2>1. ~ (i <= i - 1)
    BY <1>4
  <2> QED BY <1>3, <1>9, <2>1
<1>12. ~IsRef(s[i-1]) => h(i) < h(i - 1)
  BY <1>4, <1>8 DEF Stacked, Below, IsRef
<1>13. /\ (c(i) + 1) * K = c(i) * K + K
       /\ (c(i - 1) + 1) * K = c(i - 1) * K + K
       /\ c(i) * K \in Nat /\ c(i - 1) * K \in Nat
  BY <1>5, <1>6, <1>9, Product
<1>14. K = H + 1
  OBVIOUS
<1> HIDE DEF c, h, K
<1>15. CASE ~IsRef(s[i-1])
  <2>1. c(i) = c(i - 1)
    BY <1>9, <1>15
  <2> QED BY <1>4, <1>5, <1>10, <1>11, <1>12, <1>13, <1>15, <2>1
<1>16. CASE IsRef(s[i-1])
  <2>1. c(i) = c(i - 1) + 1
    BY <1>9, <1>16
  <2>2. c(i) * K = c(i - 1) * K + K
    BY <1>13, <2>1
  <2> QED BY <1>4, <1>5, <1>10, <1>11, <1>13, <1>14, <2>2
<1> QED BY <1>15, <1>16

LEMMA HeightBounds ==
  ASSUME IInv, NEW H \in Nat, NEW height, \A json \in DOMAIN height : height[json] \in 0..H,
         Stacked(height, stack)
  PROVE  Len(stack) \in Nat /\ Len(stack) <= (MaxRecursionDepth + 2) * (H + 1)
<1> DEFINE n == Len(stack)
           K == H + 1
           c == Cardinality(RefsBefore(stack, n))
<1>1. IsStack(stack) /\ Cardinality(RefsIn(stack)) <= MaxRecursionDepth + 1
  BY StackFacts, DepthAssumption DEF IInv, CountsAtLeast
<1>2. n \in Nat /\ (n # 0 => n \in DOMAIN stack)
  <2>1. PICK S, T, D : stack \in Seq(Frames(S, T, D))
    BY <1>1 DEF IsStack
  <2> QED BY <2>1
<1>3. c \in Nat /\ c + 1 <= MaxRecursionDepth + 2
  <2>1. c \in Nat /\ c <= Cardinality(RefsIn(stack)) /\ Cardinality(RefsIn(stack)) \in Nat
    BY <1>1, RefsBeforeFinite, StackFacts
  <2> HIDE DEF c
  <2> QED BY <1>1, <2>1, DepthAssumption
<1>4. K \in Nat /\ (c + 1) \in Nat /\ MaxRecursionDepth + 2 \in Nat
  BY <1>3, DepthAssumption
<1>5. (c + 1) * K <= (MaxRecursionDepth + 2) * K /\ (c + 1) * K \in Nat
  <2> HIDE DEF c, K
  <2> QED BY <1>3, <1>4, Product
<1>6. (MaxRecursionDepth + 2) * K \in Nat
  <2> HIDE DEF K
  <2> QED BY <1>4, Product
<1>7. CASE n = 0
  BY <1>2, <1>6, <1>7
<1>8. CASE n # 0
  <2>1. n + height[stack[n].schema] <= (c + 1) * K
    BY <1>1, <1>2, <1>8, PlacesBounded
  <2>2. height[stack[n].schema] \in 0..H
    BY <1>2, <1>8 DEF Stacked
  <2> HIDE DEF n, c, K
  <2>3. n <= (MaxRecursionDepth + 2) * K
    BY <1>2, <1>5, <1>6, <2>1, <2>2
  <2> QED BY <1>2, <2>3 DEF n, K
<1> QED BY <1>7, <1>8

(* Schemas that refer to each other and to themselves make no more calls   *)
(* of to_regex at once than the limit allows: over every document of a     *)
(* height, and with the limit of any, the call stack is bounded.           *)
THEOREM CallsBounded ==
  ASSUME NEW H \in Nat, NEW height, IsHeight(height),
         \A json \in DOMAIN height : height[json] \in 0..H
  PROVE  Spec => [](Len(stack) <= (MaxRecursionDepth + 2) * (H + 1))
<1>1. Init => IInv /\ PlaceInv /\ Stacked(height, stack)
  BY Initially, PlaceInit DEF Stacked, Init
<1>2. IInv /\ PlaceInv /\ Stacked(height, stack) /\ [Next]_vars
        => (IInv /\ PlaceInv /\ Stacked(height, stack))'
  BY Step, PlaceStep, StackedStep
<1>3. IInv /\ Stacked(height, stack) => Len(stack) <= (MaxRecursionDepth + 2) * (H + 1)
  BY HeightBounds
<1> QED BY <1>1, <1>2, <1>3, PTL DEF Spec

----------------------------------------------------------------------------
(* How many steps there are *)

(* What is left to do for the i-th call, and for all of them: the call of  *)
(* Parser's user has still to be made; then the schemas that the calls     *)
(* have not parsed, those of the first call counting most; then the result *)
(* that a call waits for.                                                  *)
Left(s, i) == IF i \in DOMAIN s THEN 1 + Len(s[i].todo) ELSE 0

Rank(n) ==
  [i \in 1..n + 2 |->
     IF i = 1 THEN IF stack = <<>> /\ Running THEN 1 ELSE 0
     ELSE IF i = n + 2 THEN IF Running THEN 0 ELSE 1
     ELSE Left(stack, i - 1)]

LEMMA LeftType ==
  ASSUME NEW height, NEW s, Stacked(height, s), NEW i
  PROVE  Left(s, i) \in Nat /\ (i \in DOMAIN s => Left(s, i) > 0)
<1>1. CASE i \in DOMAIN s
  <2>1. s[i].todo \in Seq(Below(height, s[i].schema))
    BY <1>1 DEF Stacked
  <2>2. Len(s[i].todo) \in Nat
    <3> DEFINE t == s[i].todo
               B == Below(height, s[i].schema)
    <3>1. t \in Seq(B)
      BY <2>1
    <3> HIDE DEF t, B
    <3>2. Len(t) \in Nat
      BY <3>1
    <3> QED BY <3>2 DEF t
  <2> QED BY <1>1, <2>2 DEF Left
<1>2. CASE i \notin DOMAIN s
  BY <1>2 DEF Left
<1> QED BY <1>1, <1>2

LEMMA RankType ==
  ASSUME NEW height, Stacked(height, stack), NEW n \in Nat
  PROVE  Rank(n) \in [1..n + 2 -> Nat]
<1>1. \A i : Left(stack, i) \in Nat
  BY LeftType
<1> QED BY <1>1 DEF Rank

(* A call that is made is one less for the call that makes it.             *)
LEMMA LeftByCall ==
  ASSUME IsStack(stack), NEW height, Stacked(height, stack), Calling, stack # <<>>,
         \/ stack' = Callers
         \/ \E json, todo : stack' = Append(Callers, Frame(json, todo))
  PROVE  /\ Len(stack) \in DOMAIN stack /\ DOMAIN stack = 1..Len(stack) /\ stack' # <<>>
         /\ Left(stack', Len(stack)) < Left(stack, Len(stack))
         /\ \A i \in 1..Len(stack) - 1 : Left(stack', i) = Left(stack, i)
<1> DEFINE n == Len(stack)
           t == Tail(stack[n].todo)
           u == [stack EXCEPT ![n].todo = t]
<1>1. Callers = u
  BY DEF Callers
<1>2. /\ n \in DOMAIN stack /\ DOMAIN stack = 1..n /\ DOMAIN u = 1..n /\ Len(u) = n
      /\ \A i \in DOMAIN stack : i # n => u[i] = stack[i]
      /\ u[n].todo = t
  BY TopChanged
<1>3. Len(t) = Len(stack[n].todo) - 1 /\ Len(t) \in Nat
  <2> DEFINE x == stack[n].todo
             B == Below(height, stack[n].schema)
  <2>1. x \in Seq(B) /\ x # <<>>
    BY <1>2 DEF Stacked, Calling, Last
  <2> HIDE DEF x, B
  <2>2. Len(Tail(x)) = Len(x) - 1 /\ Len(Tail(x)) \in Nat
    BY <2>1, HeadTailProperties
  <2> QED BY <2>2 DEF x
<1>4. n \in Nat
  BY <1>2
<1>5. Left(u, n) < Left(stack, n) /\ \A i \in 1..n - 1 : Left(u, i) = Left(stack, i)
  <2> HIDE DEF u, t, n
  <2>1. Left(u, n) < Left(stack, n)
    BY <1>2, <1>3 DEF Left
  <2>2. ASSUME NEW i \in 1..n - 1 PROVE Left(u, i) = Left(stack, i)
    <3>1. i \in 1..n /\ i # n
      BY <1>4
    <3> QED BY <1>2, <3>1 DEF Left
  <2> QED BY <2>1, <2>2
<1>6. \A i \in 1..n : i \in DOMAIN stack' /\ stack'[i] = u[i]
  <2>1. CASE stack' = Callers
    BY <1>1, <1>2, <2>1
  <2>2. CASE \E json, todo : stack' = Append(Callers, Frame(json, todo))
    <3>1. PICK f : stack' = Append(u, f)
      BY <1>1, <2>2
    <3>2. IsStack(u)
      BY <1>1, CallersSame DEF SameCalls
    <3>3. PICK S, T, D : u \in Seq(Frames(S, T, D))
      BY <3>2 DEF IsStack
    <3> HIDE DEF u, n
    <3>4. u \in Seq(Frames(S, T, D) \cup {f})
      BY <3>3, LargerSet
    <3>5. DOMAIN stack' = 1..Len(u) + 1 /\ \A i \in 1..Len(u) : stack'[i] = u[i]
      BY <3>1, <3>4, AppendProperties
    <3> QED BY <1>2, <1>4, <3>5
  <2> QED BY <2>1, <2>2
<1> HIDE DEF u, n
<1>7. \A i \in 1..n : Left(stack', i) = Left(u, i)
  BY <1>2, <1>6 DEF Left
<1>8. n \in 1..n /\ \A i \in 1..n - 1 : i \in 1..n
  BY <1>2, <1>4
<1>9. stack' # <<>>
  BY <1>6, <1>8
<1> QED BY <1>2, <1>5, <1>7, <1>8, <1>9 DEF n

(* A call that returns leaves nothing.                                     *)
LEMMA LeftByReturn ==
  ASSUME IsStack(stack), NEW height, Stacked(height, stack), stack # <<>>, stack' = Front(stack)
  PROVE  /\ Len(stack) \in DOMAIN stack /\ DOMAIN stack = 1..Len(stack)
         /\ Left(stack', Len(stack)) < Left(stack, Len(stack))
         /\ \A i \in 1..Len(stack) - 1 : Left(stack', i) = Left(stack, i)
<1> DEFINE n == Len(stack)
<1>1. PICK S, T, D : stack \in Seq(Frames(S, T, D))
  BY DEF IsStack
<1>2. n \in Nat /\ n >= 1 /\ DOMAIN stack = 1..n
  BY <1>1, EmptySeq
<1>3. DOMAIN stack' = 1..n - 1 /\ \A i \in 1..n - 1 : stack'[i] = stack[i]
  BY <1>1, <1>2 DEF Front
<1>4. n \in DOMAIN stack /\ n \notin DOMAIN stack' /\ \A i \in 1..n - 1 : i \in DOMAIN stack
  BY <1>2, <1>3
<1> HIDE DEF n
<1>5. Left(stack', n) = 0 /\ \A i \in 1..n - 1 : Left(stack', i) = Left(stack, i)
  BY <1>3, <1>4 DEF Left
<1>6. Left(stack, n) > 0 /\ Left(stack, n) \in Nat
  BY <1>4, LeftType
<1> QED BY <1>2, <1>4, <1>5, <1>6 DEF n

LEMMA LeftByResult ==
  ASSUME IsStack(stack), stack # <<>>, NEW p, stack' = GoesOn(p)
  PROVE  stack' # <<>> /\ \A i : Left(stack', i) = Left(stack, i)
<1> DEFINE n == Len(stack)
           d == Append(stack[n].done, p)
           v == [stack EXCEPT ![n].done = d]
<1>1. stack' = v
  BY DEF GoesOn
<1>2. /\ n \in DOMAIN stack /\ DOMAIN v = DOMAIN stack
      /\ \A i \in DOMAIN stack : i # n => v[i] = stack[i]
      /\ v[n].todo = stack[n].todo
  BY TopChanged
<1> HIDE DEF v, n
<1>3. v # <<>>
  BY <1>2
<1> QED BY <1>1, <1>2, <1>3 DEF Left

LEMMA RankDown ==
  ASSUME NEW height, NEW n \in Nat, Stacked(height, stack), Stacked(height, stack)',
         NEW j \in 1..n + 2, Rank(n)'[j] < Rank(n)[j], \A i \in 1..j - 1 : Rank(n)'[i] = Rank(n)[i]
  PROVE  <<Rank(n)', Rank(n)>> \in Countdown(n + 2)
<1>1. Rank(n) \in [1..n + 2 -> Nat]
  BY RankType
<1>2. Rank(n)' \in [1..n + 2 -> Nat]
  <2>1. (\A i : Left(stack, i) \in Nat)'
    BY LeftType
  <2> QED BY <2>1 DEF Rank
<1> DEFINE r == Rank(n)'
           q == Rank(n)
<1>3. r \in [1..n + 2 -> Nat] /\ q \in [1..n + 2 -> Nat] /\ n + 2 \in Nat
      /\ r[j] < q[j] /\ \A i \in 1..j - 1 : r[i] = q[i]
  BY <1>1, <1>2
<1> HIDE DEF r, q
<1>4. <<r, q>> \in Countdown(n + 2)
  BY <1>3, CountsDown
<1> QED BY <1>4 DEF r, q

(* The call on top has less to do.                                         *)
LEMMA TopDown ==
  ASSUME NEW height, NEW n \in Nat, Stacked(height, stack), Stacked(height, stack)',
         stack # <<>>, ~(stack' = <<>> /\ Running'),
         Len(stack) \in 1..n, Left(stack', Len(stack)) < Left(stack, Len(stack)),
         \A i \in 1..Len(stack) - 1 : Left(stack', i) = Left(stack, i)
  PROVE  <<Rank(n)', Rank(n)>> \in Countdown(n + 2)
<1> DEFINE j == Len(stack) + 1
           k == Len(stack)
<1>1. j \in 1..n + 2 /\ j # 1 /\ j # n + 2 /\ j - 1 = k
  OBVIOUS
<1>2. Rank(n)'[j] = Left(stack', k) /\ Rank(n)[j] = Left(stack, k)
  <2> HIDE DEF j, k
  <2> QED BY <1>1 DEF Rank
<1>3. ASSUME NEW i \in 1..j - 1 PROVE Rank(n)'[i] = Rank(n)[i]
  <2>1. i \in 1..n + 2 /\ i # n + 2 /\ (i # 1 => i - 1 \in 1..k - 1)
    BY <1>3
  <2>2. CASE i = 1
    BY <2>1, <2>2 DEF Rank
  <2>3. CASE i # 1
    <3>1. Left(stack', i - 1) = Left(stack, i - 1)
      BY <2>1, <2>3
    <3> QED BY <2>1, <2>3, <3>1 DEF Rank
  <2> QED BY <2>2, <2>3
<1>4. Rank(n)'[j] < Rank(n)[j]
  BY <1>2
<1> HIDE DEF j
<1> QED BY <1>1, <1>3, <1>4, RankDown

LEMMA StepDown ==
  ASSUME IInv, PlaceInv, Next, NEW height, IsHeight(height),
         Stacked(height, stack), Stacked(height, stack)',
         NEW n \in Nat, Len(stack) \in Nat, Len(stack) <= n
  PROVE  <<Rank(n)', Rank(n)>> \in Countdown(n + 2)
<1>1. IsStack(stack)
  BY DEF IInv
<1>2. stack # <<>> => Len(stack) \in 1..n
  <2>1. PICK S, T, D : stack \in Seq(Frames(S, T, D))
    BY <1>1 DEF IsStack
  <2> QED BY <2>1, EmptySeq
<1>3. CASE Refuse \/ Enter \/ HitLimit \/ RefuseRef \/ EnterRef
  <2>1. Calling
    BY <1>3 DEF Refuse, Enter, HitLimit, RefuseRef, EnterRef
  <2>2. \/ stack' = Callers /\ ~Running'
        \/ \E json, todo : stack' = Append(Callers, Frame(json, todo))
    BY <1>3 DEF Refuse, Enter, HitLimit, RefuseRef, EnterRef, Running, LimitReached
  <2>3. CASE stack # <<>>
    BY <1>1, <1>2, <2>1, <2>2, <2>3, LeftByCall, TopDown
  <2>4. CASE stack = <<>>
    <3>1. ~(stack' = <<>> /\ Running')
      <4>1. CASE ~Running'
        BY <4>1
      <4>2. CASE \E json, todo : stack' = Append(Callers, Frame(json, todo))
        <5>1. PICK f : stack' = Append(<<>>, f)
          BY <2>4, <4>2 DEF Callers
        <5> QED BY <5>1
      <4> QED BY <2>2, <4>1, <4>2
    <3>2. Rank(n)'[1] = 0 /\ Rank(n)[1] = 1 /\ 1 \in 1..n + 2
      BY <2>1, <2>4, <3>1 DEF Rank, Calling
    <3>3. \A i \in 1..1 - 1 : Rank(n)'[i] = Rank(n)[i]
      OBVIOUS
    <3>4. Rank(n)'[1] < Rank(n)[1]
      BY <3>2
    <3> QED BY <3>2, <3>3, <3>4, RankDown
  <2> QED BY <2>3, <2>4
<1>4. CASE Return \/ Propagate
  <2>1. stack # <<>> /\ stack' = Front(stack) /\ ~Running'
    BY <1>4 DEF Return, Propagate, Running
  <2> QED BY <1>1, <1>2, <2>1, LeftByReturn, TopDown
<1>5. CASE Take \/ Skip
  <2>1. stack # <<>> /\ ~Running /\ Running' /\ \E p : stack' = GoesOn(p)
    BY <1>5 DEF Take, Skip, Skips, Running, PlaceInv, LimitReached
  <2>2. stack' # <<>> /\ \A i : Left(stack', i) = Left(stack, i)
    BY <1>1, <2>1, LeftByResult
  <2>3. n + 2 \in 1..n + 2 /\ n + 2 # 1
    OBVIOUS
  <2>4. Rank(n)'[n + 2] = 0 /\ Rank(n)[n + 2] = 1
    BY <2>1, <2>3 DEF Rank
  <2>5. ASSUME NEW i \in 1..(n + 2) - 1 PROVE Rank(n)'[i] = Rank(n)[i]
    <3>1. i \in 1..n + 2 /\ i # n + 2
      OBVIOUS
    <3>2. Left(stack', i - 1) = Left(stack, i - 1)
      BY <2>2
    <3> QED BY <2>1, <2>2, <3>1, <3>2 DEF Rank
  <2>6. Rank(n)'[n + 2] < Rank(n)[n + 2]
    BY <2>4
  <2> QED BY <2>3, <2>5, <2>6, RankDown
<1> QED BY <1>3, <1>4, <1>5 DEF Next

(* Every step of the parser brings it closer to its end, whatever schemas  *)
(* refer to, and by a measure that cannot go down forever (CountdownEnds): *)
(* over every document of a height it stops, with a pattern or an error.   *)
THEOREM ParseCountsDown ==
  ASSUME NEW H \in Nat, NEW height, IsHeight(height),
         \A json \in DOMAIN height : height[json] \in 0..H,
         NEW n, n = (MaxRecursionDepth + 2) * (H + 1)
  PROVE  Spec => [][(<<Rank(n)', Rank(n)>> \in Countdown(n + 2))]_vars
<1>1. Init => IInv /\ PlaceInv /\ Stacked(height, stack)
  BY Initially, PlaceInit DEF Stacked, Init
<1>2. IInv /\ PlaceInv /\ Stacked(height, stack) /\ [Next]_vars
        => (IInv /\ PlaceInv /\ Stacked(height, stack))'
  BY Step, PlaceStep, StackedStep
<1>3. n \in Nat
  <2>1. MaxRecursionDepth + 2 \in Nat /\ H + 1 \in Nat
    BY DepthAssumption
  <2> QED BY <2>1, Product
<1>4. IInv /\ PlaceInv /\ Stacked(height, stack) /\ Stacked(height, stack)' /\ [Next]_vars
        => [(<<Rank(n)', Rank(n)>> \in Countdown(n + 2))]_vars
  <2> SUFFICES ASSUME IInv, PlaceInv, Stacked(height, stack), Stacked(height, stack)', Next
               PROVE  <<Rank(n)', Rank(n)>> \in Countdown(n + 2)
    OBVIOUS
  <2>1. Len(stack) \in Nat /\ Len(stack) <= n
    BY HeightBounds
  <2> QED BY <1>3, <2>1, StepDown
<1> QED BY <1>1, <1>2, <1>4, PTL DEF Spec

----------------------------------------------------------------------------
(* Where the commas are *)

CommaItem == <<"text", <<"punct", ",">>>>

LEMMA CommaIsItem == Comma = <<CommaItem>>
BY DEF Comma, Punct, Text, Item, CommaItem

(* The places c of the k members that a text has, in their order.          *)
Places(k, n) ==
  {c \in [1..k -> 1..n] : \A j \in 1..k, h \in 1..k : j < h => c[j] < c[h]}

(* Of the members m, those at the places c, each with the comma it takes   *)
(* if the one at the place l has none.                                     *)
Punctuated(m, n, c, k, l) ==
  [i \in 1..n |-> IF \E j \in 1..k : c[j] = i THEN WithComma(m[i], i, l) ELSE <<>>]

(* Sequences in a row, for the provers an operator like any other.         *)
Cat(x, y) == x \o y

LEMMA CatAssociative ==
  ASSUME NEW T, NEW x \in Seq(T), NEW y \in Seq(T), NEW z \in Seq(T)
  PROVE  Cat(Cat(x, y), z) = Cat(x, Cat(y, z)) /\ Cat(x, y) \in Seq(T)
<1>1. (x \o y) \o z = x \o (y \o z)
  BY ConcatAssociative
<1>2. x \o y \in Seq(T)
  BY ConcatProperties
<1> QED BY <1>1, <1>2 DEF Cat

LEMMA CatRegroup ==
  ASSUME NEW T, NEW x \in Seq(T), NEW y \in Seq(T), NEW z \in Seq(T)
  PROVE  /\ Cat(Cat(x, z), Cat(y, z)) = Cat(Cat(x, Cat(z, y)), z)
         /\ Cat(Cat(x, z), y) = Cat(x, Cat(z, y))
<1>1. Cat(y, z) \in Seq(T) /\ Cat(z, y) \in Seq(T)
  BY CatAssociative
<1>2. Cat(Cat(x, z), Cat(y, z)) = Cat(x, Cat(z, Cat(y, z)))
  BY <1>1, CatAssociative
<1>3. Cat(z, Cat(y, z)) = Cat(Cat(z, y), z)
  BY CatAssociative
<1>4. Cat(x, Cat(Cat(z, y), z)) = Cat(Cat(x, Cat(z, y)), z)
  BY <1>1, CatAssociative
<1>5. Cat(Cat(x, z), y) = Cat(x, Cat(z, y))
  BY CatAssociative
<1> QED BY <1>2, <1>3, <1>4, <1>5

(* The first q places are those up to i.                                   *)
Passed(c, k, i, q) == \A j \in 1..k : c[j] <= i <=> j <= q

LEMMA PlacesPassed ==
  ASSUME NEW n \in Nat, NEW k \in Nat, NEW c \in Places(k, n),
         NEW i \in 1..n, NEW q \in 0..k, Passed(c, k, i - 1, q)
  PROVE  \/ (~ \E j \in 1..k : c[j] = i) /\ Passed(c, k, i, q)
         \/ q + 1 \in 1..k /\ c[q + 1] = i /\ Passed(c, k, i, q + 1)
<1>1. \A j \in 1..k : c[j] \in 1..n
  BY DEF Places
<1>2. \A j \in 1..k, h \in 1..k : j < h => c[j] < c[h]
  BY DEF Places
<1>3. CASE ~ \E j \in 1..k : c[j] = i
  <2>1. ASSUME NEW j \in 1..k PROVE c[j] <= i <=> j <= q
    <3>1. c[j] \in 1..n /\ c[j] # i
      BY <1>1, <1>3
    <3>2. c[j] <= i <=> c[j] <= i - 1
      BY <3>1
    <3> QED BY <3>2 DEF Passed
  <2> QED BY <1>3, <2>1 DEF Passed
<1>4. ASSUME NEW h \in 1..k, c[h] = i
      PROVE  q + 1 \in 1..k /\ c[q + 1] = i /\ Passed(c, k, i, q + 1)
  <2>1. ~ (h <= q)
    <3>1. ~ (c[h] <= i - 1)
      BY <1>4
    <3> QED BY <3>1 DEF Passed
  <2>2. q + 1 \in 1..k
    BY <2>1
  <2>3. ~ (c[q + 1] <= i - 1)
    BY <2>2 DEF Passed
  <2>4. c[q + 1] \in 1..n
    BY <1>1, <2>2
  <2>5. ~ (c[q + 1] < c[h])
    BY <1>4, <2>3, <2>4
  <2>6. ~ (q + 1 < h)
    BY <1>2, <2>2, <2>5
  <2>7. h = q + 1
    BY <2>1, <2>6
  <2>8. ASSUME NEW j \in 1..k PROVE c[j] <= i <=> j <= q + 1
    <3>1. c[j] \in 1..n
      BY <1>1
    <3>2. j < h => c[j] < c[h]
      BY <1>2
    <3>3. h < j => c[h] < c[j]
      BY <1>2
    <3> QED BY <1>4, <2>7, <3>1, <3>2, <3>3
  <2> QED BY <1>4, <2>2, <2>7, <2>8 DEF Passed
<1> QED BY <1>3, <1>4

LEMMA NonePassed ==
  ASSUME NEW n \in Nat, NEW k \in Nat, NEW c \in Places(k, n)
  PROVE  Passed(c, k, 0, 0)
<1>1. ASSUME NEW j \in 1..k PROVE c[j] <= 0 <=> j <= 0
  <2>1. c[j] \in 1..n
    BY DEF Places
  <2> QED BY <2>1
<1> QED BY <1>1 DEF Passed

(* b puts commas between the members.                                      *)
MembersOf(m, c, k, b) ==
  /\ b[1] = m[c[1]]
  /\ \A j \in 2..k : b[j] = b[j-1] \o (Comma \o m[c[j]])

(* Once q of the places are passed, the text is that of q members with     *)
(* commas between them, and one more behind if the one at l is to come.    *)
SoFar(c, k, l, b, i, q, text) ==
  /\ Passed(c, k, i, q)
  /\ text = IF q = 0 THEN <<>> ELSE IF i < l THEN b[q] \o Comma ELSE b[q]

LEMMA CommasNext ==
  ASSUME NEW T, CommaItem \in T, NEW n \in Nat \ {0}, NEW m \in [1..n -> Seq(T)],
         NEW k \in Nat \ {0}, NEW c \in Places(k, n), NEW l, NEW p \in 1..k, c[p] = l,
         NEW b \in [1..k -> Seq(T)], MembersOf(m, c, k, b),
         NEW i \in 1..n, NEW q \in 0..k, NEW before \in Seq(T),
         SoFar(c, k, l, b, i - 1, q, before)
  PROVE  \E r \in 0..k : SoFar(c, k, l, b, i, r, before \o Punctuated(m, n, c, k, l)[i])
<1> DEFINE f == Punctuated(m, n, c, k, l)[i]
<1>1. Passed(c, k, i - 1, q)
  BY DEF SoFar
<1>2. f = IF \E j \in 1..k : c[j] = i THEN WithComma(m[i], i, l) ELSE <<>>
  BY DEF Punctuated
<1>3. l \in 1..n
  BY DEF Places
<1> HIDE DEF f
<1>4. CASE (~ \E j \in 1..k : c[j] = i) /\ Passed(c, k, i, q)
  <2>1. before \o f = before
    BY <1>2, <1>4, ConcatEmptySeq
  <2>2. i # l
    BY <1>4
  <2>3. i < l <=> i - 1 < l
    BY <1>3, <2>2
  <2>4. SoFar(c, k, l, b, i, q, before \o f)
    BY <1>4, <2>1, <2>3 DEF SoFar
  <2> QED BY <2>4 DEF f
<1>5. CASE q + 1 \in 1..k /\ c[q + 1] = i /\ Passed(c, k, i, q + 1)
  <2> DEFINE r == q + 1
             M == m[i]
             B == b[q]
  <2>1. r \in 0..k /\ r \in 1..k /\ r # 0 /\ c[r] = i
    BY <1>5
  <2>2. f = WithComma(M, i, l)
    BY <1>2, <2>1
  <2>3. M \in Seq(T) /\ Comma \in Seq(T)
    BY CommaIsItem
  <2>4. q # 0 => B \in Seq(T)
    <3>1. q # 0 => q \in 1..k
      OBVIOUS
    <3> QED BY <3>1
  <2>5. b[r] = IF q = 0 THEN M ELSE B \o (Comma \o M)
    <3>1. CASE q = 0
      BY <1>5, <3>1 DEF MembersOf
    <3>2. CASE q # 0
      <4>1. r \in 2..k /\ r - 1 = q
        BY <2>1, <3>2
      <4>2. b[r] = b[r-1] \o (Comma \o m[c[r]])
        BY <4>1 DEF MembersOf
      <4> QED BY <2>1, <3>2, <4>1, <4>2
    <3> QED BY <3>1, <3>2
  <2>6. before = IF q = 0 THEN <<>> ELSE IF i - 1 < l THEN B \o Comma ELSE B
    BY DEF SoFar
  <2>7. l <= i - 1 => q # 0
    BY <1>1, <1>3 DEF Passed
  <2>8. <<>> \o (M \o Comma) = M \o Comma /\ <<>> \o M = M
    BY <2>3, ConcatEmptySeq, ConcatProperties
  <2> HIDE DEF M, B, r
  <2>9. ASSUME q # 0
        PROVE  /\ Cat(Cat(B, Comma), Cat(M, Comma)) = Cat(Cat(B, Cat(Comma, M)), Comma)
               /\ Cat(Cat(B, Comma), M) = Cat(B, Cat(Comma, M))
    BY <2>3, <2>4, <2>9, CatRegroup
  <2>10. before \o f = IF i < l THEN b[r] \o Comma ELSE b[r]
    <3>1. /\ b[r] = IF q = 0 THEN M ELSE Cat(B, Cat(Comma, M))
          /\ before = IF q = 0 THEN <<>> ELSE IF i - 1 < l THEN Cat(B, Comma) ELSE B
          /\ Cat(<<>>, Cat(M, Comma)) = Cat(M, Comma) /\ Cat(<<>>, M) = M
      BY <2>5, <2>6, <2>8 DEF Cat
    <3>2. Cat(before, f) = IF i < l THEN Cat(b[r], Comma) ELSE b[r]
      <4>1. CASE i < l
        <5>1. i - 1 < l /\ f = Cat(M, Comma)
          BY <1>3, <2>2, <4>1 DEF WithComma, Cat
        <5> QED BY <2>9, <3>1, <4>1, <5>1
      <4>2. CASE i = l
        <5>1. i - 1 < l /\ ~ (i < l) /\ f = M
          BY <1>3, <2>2, <4>2 DEF WithComma
        <5> QED BY <2>9, <3>1, <5>1
      <4>3. CASE l < i
        <5>1. l <= i - 1 /\ ~ (i - 1 < l) /\ ~ (i < l)
          BY <1>3, <4>3
        <5>2. f = Cat(Comma, M)
          BY <1>3, <2>2, <4>3 DEF WithComma, Cat
        <5> QED BY <2>7, <3>1, <5>1, <5>2
      <4>4. i < l \/ i = l \/ l < i
        BY <1>3
      <4> QED BY <4>1, <4>2, <4>3, <4>4
    <3> QED BY <3>2 DEF Cat
  <2>11. Passed(c, k, i, r)
    BY <1>5 DEF r
  <2>12. SoFar(c, k, l, b, i, r, before \o f)
    BY <2>1, <2>10, <2>11 DEF SoFar
  <2> QED BY <2>1, <2>12 DEF f
<1> QED BY <1>1, <1>4, <1>5, PlacesPassed

(* g adds up what the loop adds.                                           *)
AddsUp(m, n, c, k, l, g) ==
  /\ g[0] = <<>>
  /\ \A i \in 1..n : g[i] = g[i-1] \o Punctuated(m, n, c, k, l)[i]

LEMMA CommasSoFar ==
  ASSUME NEW T, CommaItem \in T, NEW n \in Nat \ {0}, NEW m \in [1..n -> Seq(T)],
         NEW k \in Nat \ {0}, NEW c \in Places(k, n), NEW p \in 1..k, NEW l, c[p] = l,
         NEW g \in [0..n -> Seq(T)], AddsUp(m, n, c, k, l, g),
         NEW b \in [1..k -> Seq(T)], MembersOf(m, c, k, b)
  PROVE  \A i \in 0..n : \E q \in 0..k : SoFar(c, k, l, b, i, q, g[i])
<1> DEFINE Bad == {i \in 0..n : \A q \in 0..k : ~SoFar(c, k, l, b, i, q, g[i])}
<1>1. SUFFICES ASSUME Bad # {} PROVE FALSE
  OBVIOUS
<1>2. PICK i \in Bad : \A h \in Bad : i <= h
  <2>1. Bad \in SUBSET Nat
    OBVIOUS
  <2> HIDE DEF Bad
  <2> QED BY <1>1, <2>1, NatMinimum
<1>3. SoFar(c, k, l, b, 0, 0, g[0])
  BY NonePassed DEF SoFar, AddsUp
<1>4. i \in 1..n /\ i - 1 \in 0..n /\ ~ (i <= i - 1)
  <2>1. i # 0
    BY <1>2, <1>3
  <2> QED BY <1>2, <2>1
<1>5. PICK q \in 0..k : SoFar(c, k, l, b, i - 1, q, g[i-1])
  BY <1>2, <1>4
<1>6. g[i-1] \in Seq(T)
  BY <1>4
<1>7. \E r \in 0..k : SoFar(c, k, l, b, i, r, g[i-1] \o Punctuated(m, n, c, k, l)[i])
  <2> HIDE DEF Bad
  <2> QED BY <1>4, <1>5, <1>6, CommasNext
<1>8. g[i] = g[i-1] \o Punctuated(m, n, c, k, l)[i]
  BY <1>4 DEF AddsUp
<1> QED BY <1>2, <1>4, <1>7, <1>8

(* e are the members at the places, one of which is l.                     *)
Selects(T, n, m, k, c, l, e) ==
  /\ n \in Nat \ {0} /\ k \in Nat \ {0} /\ CommaItem \in T
  /\ m \in [1..n -> Seq(T)] /\ e \in [1..k -> Seq(T)] /\ c \in Places(k, n)
  /\ \A j \in 1..k : e[j] = m[c[j]]
  /\ \E p \in 1..k : c[p] = l

LEMMA Commas ==
  ASSUME NEW T, NEW n, NEW m, NEW k, NEW c, NEW l, NEW e, Selects(T, n, m, k, c, l, e)
  PROVE  FlattenSeq(Punctuated(m, n, c, k, l)) = JoinBy(Comma, e)
<1> SUFFICES ASSUME NEW N \in Nat \ {0}, NEW K \in Nat \ {0}, CommaItem \in T,
                    NEW M \in [1..N -> Seq(T)], NEW E \in [1..K -> Seq(T)],
                    NEW C \in Places(K, N), \A j \in 1..K : E[j] = M[C[j]],
                    NEW p \in 1..K, C[p] = l
             PROVE  FlattenSeq(Punctuated(M, N, C, K, l)) = JoinBy(Comma, E)
  BY ZenonT(60) DEF Selects
<1> DEFINE f == Punctuated(M, N, C, K, l)
           d == [j \in 1..K |-> IF j = 1 THEN E[j] ELSE Comma \o E[j]]
<1>1. \A j \in 1..K : C[j] \in 1..N
  BY DEF Places
<1>2. Comma \in Seq(T)
  BY CommaIsItem
<1>3. f \in [1..N -> Seq(T)]
  <2>1. ASSUME NEW i \in 1..N PROVE WithComma(M[i], i, l) \in Seq(T)
    <3>1. M[i] \in Seq(T)
      OBVIOUS
    <3>2. M[i] \o Comma \in Seq(T) /\ Comma \o M[i] \in Seq(T)
      BY <1>2, <3>1, ConcatProperties
    <3> QED BY <3>1, <3>2 DEF WithComma
  <2> QED BY <2>1 DEF Punctuated
<1>5. d \in [1..K -> Seq(T)]
  <2>1. ASSUME NEW j \in 1..K PROVE E[j] \in Seq(T) /\ Comma \o E[j] \in Seq(T)
    BY <1>2, ConcatProperties
  <2> QED BY <2>1
<1>6. Len(E) = K
  <2>1. E \in Seq(Seq(T)) /\ DOMAIN E = 1..K
    BY SeqDef
  <2> QED BY <2>1, LenProperties
<1>7. JoinBy(Comma, E) = FlattenSeq(d)
  <2> QED BY <1>6 DEF JoinBy
<1>9. d[1] = E[1] /\ \A j \in 2..K : d[j] = Comma \o E[j]
  OBVIOUS
<1> HIDE DEF f, d
<1>10. PICK h \in [1..N -> Seq(T)] : Joins(f, N, h)
  BY <1>3, JoinsExists
<1>11. PICK b \in [1..K -> Seq(T)] : Joins(d, K, b)
  BY <1>5, JoinsExists
<1>12. FlattenSeq(f) = h[N] /\ FlattenSeq(d) = b[K]
  BY <1>3, <1>5, <1>10, <1>11, FlattenJoins
<1> DEFINE g == [i \in 0..N |-> IF i = 0 THEN <<>> ELSE h[i]]
<1>13. g \in [0..N -> Seq(T)] /\ g[0] = <<>> /\ g[N] = h[N]
  OBVIOUS
<1>14. \A i \in 1..N : g[i] = g[i-1] \o f[i]
  <2>1. ASSUME NEW i \in 1..N PROVE g[i] = g[i-1] \o f[i]
    <3>1. CASE i = 1
      <4>1. g[i] = f[1] /\ g[i-1] = <<>> /\ f[1] \in Seq(T)
        BY <1>3, <1>10, <3>1 DEF Joins
      <4> QED BY <3>1, <4>1, ConcatEmptySeq
    <3>2. CASE i # 1
      <4>1. i \in 2..N /\ i - 1 \in 0..N /\ i - 1 # 0 /\ i # 0
        BY <3>2
      <4>2. h[i] = h[i-1] \o f[i]
        BY <1>10, <4>1 DEF Joins
      <4>3. i \in 0..N /\ g[i] = h[i] /\ g[i-1] = h[i-1]
        BY <4>1
      <4> QED BY <4>2, <4>3
    <3> QED BY <3>1, <3>2
  <2> QED BY <2>1
<1> HIDE DEF g
<1>15. MembersOf(M, C, K, b)
  <2>1. b[1] = M[C[1]]
    BY <1>9, <1>11 DEF Joins
  <2>2. ASSUME NEW j \in 2..K PROVE b[j] = b[j-1] \o (Comma \o M[C[j]])
    <3>1. b[j] = b[j-1] \o d[j]
      BY <1>11 DEF Joins
    <3>2. d[j] = Comma \o E[j]
      BY <1>9
    <3>3. j \in 1..K
      OBVIOUS
    <3>4. E[j] = M[C[j]]
      BY <3>3
    <3> QED BY <3>1, <3>2, <3>4
  <2> QED BY <2>1, <2>2 DEF MembersOf
<1>16. PICK q \in 0..K : SoFar(C, K, l, b, N, q, g[N])
  <2>1. N \in 0..N /\ f = Punctuated(M, N, C, K, l)
    BY DEF f
  <2>2. AddsUp(M, N, C, K, l, g)
    BY <1>13, <1>14, <2>1 DEF AddsUp
  <2>3. \A i \in 0..N : \E q \in 0..K : SoFar(C, K, l, b, i, q, g[i])
    BY <1>13, <1>15, <2>1, <2>2, CommasSoFar
  <2> QED BY <2>1, <2>3
<1>17. q = K /\ q # 0 /\ ~ (N < C[p])
  <2>1. C[K] \in 1..N /\ C[p] \in 1..N /\ K \in 1..K
    BY <1>1
  <2>2. C[K] <= N => K <= q
    BY <1>16, <2>1 DEF SoFar, Passed
  <2> QED BY <2>1, <2>2
<1>18. FlattenSeq(f) = FlattenSeq(d)
  BY <1>12, <1>13, <1>16, <1>17 DEF SoFar
<1> QED BY <1>7, <1>18 DEF f

(* What the i-th fragment of the pattern stands for in an object that has  *)
(* the i-th property or not.                                               *)
InObject(obj, done, i, has) ==
  IF done[i] = Skipped \/ IsRequired(obj, i) THEN Fragment(obj, done, i)
  ELSE IF has THEN Fragment(obj, done, i)[1][2] ELSE <<>>

(* Of a schema that requires properties: whichever of the others an object *)
(* has, the pattern has a comma between each two of its members and none   *)
(* elsewhere, if the last property that is required has been parsed.  c    *)
(* holds the places of the members.                                        *)
THEOREM CommasOfRequired ==
  ASSUME NEW T, NEW n \in Nat \ {0}, NEW obj, NEW done \in [1..n -> Seq(T)],
         \E i \in 1..n : IsRequired(obj, i),
         NEW k \in Nat \ {0}, NEW c \in Places(k, n),
         \A j \in 1..k : done[c[j]] # Skipped,
         \A i \in 1..n : IsRequired(obj, i) /\ done[i] # Skipped => \E j \in 1..k : c[j] = i,
         NEW p \in 1..k, c[p] = LastRequired(obj, done)
  PROVE  /\ ParseProperties(obj, done) =
              Enclosed("{", FlattenSeq([i \in 1..n |-> Fragment(obj, done, i)]), "}")
         /\ FlattenSeq([i \in 1..n |-> InObject(obj, done, i, \E j \in 1..k : c[j] = i)]) =
              JoinBy(Comma, [j \in 1..k |-> Member(obj, done, c[j])])
<1>1. DOMAIN done = 1..n
  OBVIOUS
<1>2. ParseProperties(obj, done) =
        Enclosed("{", FlattenSeq([i \in 1..n |-> Fragment(obj, done, i)]), "}")
  BY <1>1 DEF ParseProperties
<1> DEFINE m == [i \in 1..n |-> Member(obj, done, i)]
           M(i) == Member(obj, done, i)
           l == LastRequired(obj, done)
           Key(i) == <<"text", <<"string", obj.order[i]>>>>
           U == T \cup {CommaItem, <<"text", <<"punct", ":">>>>} \cup {Key(i) : i \in 1..n}
<1>3. m \in [1..n -> Seq(U)]
  <2>1. ASSUME NEW i \in 1..n PROVE M(i) \in Seq(U)
    <3>1. M(i) = (<<Key(i)>> \o <<<<"text", <<"punct", ":">>>>>>) \o done[i]
      BY DEF Member, KeyValue, Text, Punct, Item
    <3>2. done[i] \in Seq(U)
      <4>1. done[i] \in Seq(T) /\ T \subseteq U
        OBVIOUS
      <4> HIDE DEF U
      <4> QED BY <4>1, LargerSet
    <3>3. Key(i) \in U /\ <<"text", <<"punct", ":">>>> \in U
      OBVIOUS
    <3> HIDE DEF U, Key, M
    <3>4. <<Key(i)>> \in Seq(U) /\ <<<<"text", <<"punct", ":">>>>>> \in Seq(U)
      BY <3>3
    <3>5. <<Key(i)>> \o <<<<"text", <<"punct", ":">>>>>> \in Seq(U)
      BY <3>4, ConcatProperties
    <3> QED BY <3>1, <3>2, <3>5, ConcatProperties
  <2> HIDE DEF U, M
  <2> QED BY <2>1 DEF M
<1>4. CommaItem \in U
  OBVIOUS
<1>5. ASSUME NEW i \in 1..n
      PROVE  InObject(obj, done, i, \E j \in 1..k : c[j] = i) = Punctuated(m, n, c, k, l)[i]
  <2>1. Punctuated(m, n, c, k, l)[i] =
          IF \E j \in 1..k : c[j] = i THEN WithComma(M(i), i, l) ELSE <<>>
    BY DEF Punctuated
  <2>2. Fragment(obj, done, i) =
          IF done[i] = Skipped THEN <<>>
          ELSE IF IsRequired(obj, i) THEN WithComma(M(i), i, l) ELSE Optional(WithComma(M(i), i, l))
    BY DEF Fragment
  <2>3. \A x : Optional(x)[1][2] = x
    BY DEF Optional, Repeat, Item
  <2> HIDE DEF M, l
  <2> QED BY <2>1, <2>2, <2>3 DEF InObject
<1>9. c[p] = l
  OBVIOUS
<1> HIDE DEF m, U
<1>6. [i \in 1..n |-> InObject(obj, done, i, \E j \in 1..k : c[j] = i)] = Punctuated(m, n, c, k, l)
  BY <1>5 DEF Punctuated
<1>7. FlattenSeq(Punctuated(m, n, c, k, l)) = JoinBy(Comma, [j \in 1..k |-> m[c[j]]])
  <2> DEFINE e == [j \in 1..k |-> m[c[j]]]
  <2>1. \A j \in 1..k : c[j] \in 1..n
    BY DEF Places
  <2>2. e \in [1..k -> Seq(U)] /\ \A j \in 1..k : e[j] = m[c[j]]
    BY <1>3, <2>1
  <2> HIDE DEF e, l
  <2>4. Selects(U, n, m, k, c, l, e)
    BY <1>3, <1>4, <1>9, <2>2 DEF Selects
  <2>3. FlattenSeq(Punctuated(m, n, c, k, l)) = JoinBy(Comma, e)
    BY <2>4, Commas
  <2> QED BY <2>3 DEF e
<1>8. [j \in 1..k |-> m[c[j]]] = [j \in 1..k |-> Member(obj, done, c[j])]
  BY DEF m, Places
<1> QED BY <1>2, <1>6, <1>7, <1>8

(* Of a schema that requires none: the pattern in which the n-th property  *)
(* is the last has commas between the members of every object whose last   *)
(* it is, and none elsewhere.                                              *)
THEOREM CommasOfOptional ==
  ASSUME NEW T, NEW n \in Nat \ {0}, NEW members \in [1..n -> Seq(T)],
         NEW k \in Nat \ {0}, NEW c \in Places(k, n), c[k] = n,
         NEW pieces, pieces = [i \in 1..n |-> IF i = n THEN members[n]
                                              ELSE Optional(members[i] \o Comma)]
  PROVE  /\ UpTo(members, n) = FlattenSeq(pieces)
         /\ FlattenSeq([i \in 1..n |-> IF i = n THEN pieces[i]
                                       ELSE IF \E j \in 1..k : c[j] = i THEN pieces[i][1][2]
                                       ELSE <<>>])
              = JoinBy(Comma, [j \in 1..k |-> members[c[j]]])
<1> DEFINE U == T \cup {CommaItem}
           f == [i \in 1..n |-> IF i = n THEN pieces[i]
                                ELSE IF \E j \in 1..k : c[j] = i THEN pieces[i][1][2]
                                ELSE <<>>]
<1>1. members \in [1..n -> Seq(U)]
  <2>1. T \subseteq U
    OBVIOUS
  <2> HIDE DEF U
  <2>2. \A i \in 1..n : members[i] \in Seq(U)
    BY <2>1, LargerSet
  <2> QED BY <2>2
<1>2. CommaItem \in U /\ k \in 1..k
  OBVIOUS
<1>3. ASSUME NEW i \in 1..n PROVE f[i] = Punctuated(members, n, c, k, n)[i]
  <2>1. Punctuated(members, n, c, k, n)[i] =
          IF \E j \in 1..k : c[j] = i THEN WithComma(members[i], i, n) ELSE <<>>
    BY DEF Punctuated
  <2>2. \A x : Optional(x)[1][2] = x
    BY DEF Optional, Repeat, Item
  <2>3. CASE i = n
    <3>1. f[i] = members[i] /\ WithComma(members[i], i, n) = members[i]
      BY <2>3 DEF WithComma
    <3> QED BY <1>2, <2>1, <2>3, <3>1
  <2>4. CASE i # n
    <3>1. i < n /\ WithComma(members[i], i, n) = members[i] \o Comma
      BY <2>4 DEF WithComma
    <3>2. pieces[i] = Optional(members[i] \o Comma)
      BY <2>4
    <3>3. pieces[i][1][2] = members[i] \o Comma
      BY <2>2, <3>2
    <3> QED BY <2>1, <2>4, <3>1, <3>3
  <2> QED BY <2>3, <2>4
<1> HIDE DEF U
<1>4. f = Punctuated(members, n, c, k, n)
  BY <1>3 DEF Punctuated
<1>5. FlattenSeq(Punctuated(members, n, c, k, n)) = JoinBy(Comma, [j \in 1..k |-> members[c[j]]])
  <2> DEFINE e == [j \in 1..k |-> members[c[j]]]
  <2>1. \A j \in 1..k : c[j] \in 1..n
    BY DEF Places
  <2>2. e \in [1..k -> Seq(U)] /\ \A j \in 1..k : e[j] = members[c[j]]
    BY <1>1, <2>1
  <2> HIDE DEF e
  <2>4. Selects(U, n, members, k, c, n, e)
    BY <1>1, <1>2, <2>2 DEF Selects
  <2>3. FlattenSeq(Punctuated(members, n, c, k, n)) = JoinBy(Comma, e)
    BY <2>4, Commas
  <2> QED BY <2>3 DEF e
<1>6. UpTo(members, n) = FlattenSeq(pieces)
  BY DEF UpTo
<1> QED BY <1>4, <1>5, <1>6

----------------------------------------------------------------------------
(* How many elements there are *)

(* The numbers that a quantifier lo, hi behind the first one allows, and a *)
(* quantifier a, 1 around them all                                         *)
Counted(a, lo, hi) ==
  {n \in Nat : \/ n = 0 /\ a = 0
               \/ n > 0 /\ lo <= n - 1 /\ (hi = Unbounded \/ n - 1 <= hi)}

(* The numbers of elements that a pattern of an array or an object allows: *)
(* none where there is nothing between the brackets or `?` behind it; else *)
(* one, and as many more as the quantifier behind the first one says.      *)
CountsOf(pattern) ==
  IF Len(pattern) = 2 THEN {0}
  ELSE LET whole == pattern[2]
           more  == Last(whole[2])
       IN  Counted(whole[3], more[3], more[4])

(* The numbers that the keywords allow                                     *)
Legal(obj, min, max) ==
  {n \in Nat : /\ AsU64(obj, min) # Other => AsU64(obj, min) <= n
               /\ AsU64(obj, max) # Other => n <= AsU64(obj, max)}

(* A schema that asks for one at least and for none at most                *)
Contradictory(obj, min, max) == AsU64(obj, max) = 0 /\ AsU64(obj, min) \notin {0, Other}

LEMMA AsU64Type ==
  ASSUME NEW obj, NEW key
  PROVE  AsU64(obj, key) \in Nat \/ AsU64(obj, key) = Other
BY DEF AsU64

(* The quantifier of the elements behind the first one                     *)
LEMMA ItemsCounted ==
  ASSUME NEW obj, NEW min, NEW max
  PROVE  LET least == AsU64(obj, min)
             most  == AsU64(obj, max)
             times == GetNumItems(obj, min, max)
         IN  /\ times = Other <=> most = 0
             /\ most # 0 =>
                  /\ times[1] = IF least \in {0, Other} THEN 0 ELSE least - 1
                  /\ times[2] = IF most = Other THEN Unbounded ELSE most - 1
<1> DEFINE least == AsU64(obj, min)
           most  == AsU64(obj, max)
           lo == IF least \in {0, Other} THEN 0 ELSE least - 1
           hi == IF most = Other THEN Unbounded ELSE most - 1
<1>1. least \in Nat \/ least = Other
  BY AsU64Type
<1>2. most \in Nat \/ most = Other
  BY AsU64Type
<1>3. Other \notin Nat
  BY OtherAssumption
<1>4. GetNumItems(obj, min, max) = IF most = 0 THEN Other ELSE <<lo, hi>>
  <2> HIDE DEF least, most
  <2> QED BY <1>1, <1>2, <1>3 DEF GetNumItems, OrElse, least, most
<1> HIDE DEF least, most
<1>5. most # 0 => lo \in Nat /\ hi \in Nat \cup {Unbounded}
  BY <1>1, <1>2, <1>3
<1> HIDE DEF lo, hi
<1>6. most # 0 => <<lo, hi>> # Other
  <2>1. most # 0 => <<lo, hi>> \in Nat \X (Nat \cup {Unbounded})
    BY <1>5
  <2> QED BY <2>1, OtherAssumption
<1>7. <<lo, hi>>[1] = lo /\ <<lo, hi>>[2] = hi
  OBVIOUS
<1> QED BY <1>4, <1>6, <1>7 DEF least, most, lo, hi

LEMMA EnclosedFacts ==
  ASSUME NEW T, NEW inside \in Seq(T), NEW open, NEW close
  PROVE  /\ Len(Enclosed(open, inside, close)) = Len(inside) + 2
         /\ Len(inside) > 0 => Enclosed(open, inside, close)[2] = inside[1]
<1> DEFINE a == <<"text", <<"punct", open>>>>
           b == <<"text", <<"punct", close>>>>
           U == T \cup {a, b}
<1>1. Enclosed(open, inside, close) = (<<a>> \o inside) \o <<b>>
  BY DEF Enclosed, Punct, Text, Item
<1>2. a \in U /\ b \in U /\ T \subseteq U
  OBVIOUS
<1> HIDE DEF a, b, U
<1>3. <<a>> \in Seq(U) /\ <<b>> \in Seq(U) /\ inside \in Seq(U) /\ Len(<<a>>) = 1 /\ Len(<<b>>) = 1
  BY <1>2, LargerSet
<1> DEFINE x == <<a>> \o inside
<1>4. /\ x \in Seq(U) /\ Len(x) = 1 + Len(inside) /\ Len(inside) \in Nat
      /\ Len(inside) > 0 => x[2] = inside[1]
  BY <1>3, ConcatProperties
<1> HIDE DEF x
<1>5. /\ Len(x \o <<b>>) = Len(x) + 1
      /\ Len(x) >= 2 => (x \o <<b>>)[2] = x[2]
  BY <1>3, <1>4, ConcatProperties
<1> QED BY <1>1, <1>4, <1>5 DEF x

LEMMA NoneCounted ==
  ASSUME NEW obj, NEW min, NEW max, ~Contradictory(obj, min, max), AsU64(obj, max) = 0,
         NEW open, NEW close
  PROVE  CountsOf(Enclosed(open, <<>>, close)) = Legal(obj, min, max)
<1>1. Len(Enclosed(open, <<>>, close)) = 2
  <2>1. <<>> \in Seq({}) /\ Len(<<>>) = 0
    OBVIOUS
  <2>2. Len(Enclosed(open, <<>>, close)) = Len(<<>>) + 2
    BY <2>1, EnclosedFacts, Zenon
  <2> QED BY <2>1, <2>2
<1>2. CountsOf(Enclosed(open, <<>>, close)) = {0}
  BY <1>1 DEF CountsOf
<1>3. AsU64(obj, min) = 0 \/ AsU64(obj, min) = Other
  BY DEF Contradictory
<1>4. 0 # Other
  BY OtherAssumption
<1>5. Legal(obj, min, max) = {0}
  BY <1>3, <1>4 DEF Legal
<1> QED BY <1>2, <1>5

LEMMA SomeCounted ==
  ASSUME NEW T, NEW first \in Seq(T), NEW more, NEW lo, NEW hi, NEW a, NEW open, NEW close
  PROVE  CountsOf(Enclosed(open, Repeat(first \o Repeat(more, lo, hi), a, 1), close))
           = Counted(a, lo, hi)
<1> DEFINE rest  == <<"repeat", more, lo, hi>>
           whole == <<"repeat", first \o <<rest>>, a, 1>>
           all   == Enclosed(open, <<whole>>, close)
<1>1. Repeat(first \o Repeat(more, lo, hi), a, 1) = <<whole>>
  BY DEF Item, Repeat
<1>2. Last(first \o <<rest>>) = rest
  <2> HIDE DEF rest
  <2>1. first \in Seq(T \cup {rest}) /\ <<rest>> \in Seq(T \cup {rest})
    BY LargerSet
  <2> DEFINE y == first \o <<rest>>
  <2>2. y \in Seq(T \cup {rest}) /\ Len(y) = Len(first) + 1 /\ y[Len(first) + 1] = rest
    BY <2>1
  <2> QED BY <2>2 DEF Last
<1>3. whole[2] = first \o <<rest>> /\ whole[3] = a /\ rest[3] = lo /\ rest[4] = hi
  OBVIOUS
<1> HIDE DEF whole, rest
<1>4. Len(all) = 3 /\ all[2] = whole
  <2>1. <<whole>> \in Seq({whole}) /\ Len(<<whole>>) = 1 /\ <<whole>>[1] = whole
    OBVIOUS
  <2>2. /\ Len(Enclosed(open, <<whole>>, close)) = Len(<<whole>>) + 2
        /\ Len(<<whole>>) > 0 => Enclosed(open, <<whole>>, close)[2] = <<whole>>[1]
    BY <2>1, EnclosedFacts, Zenon
  <2> QED BY <2>1, <2>2
<1> HIDE DEF all
<1>5. Len(all) # 2
  BY <1>4
<1>6. Last(all[2][2]) = rest
  BY <1>2, <1>3, <1>4, Zenon
<1>7. CountsOf(all) =
        Counted(a, lo, hi)
  BY <1>3, <1>4, <1>5, <1>6, Zenon DEF CountsOf
<1>8. Enclosed(open, Repeat(first \o Repeat(more, lo, hi), a, 1), close) = all
  BY <1>1, Zenon DEF all
<1> QED BY <1>7, <1>8, Zenon

(* The same where what is repeated is a property of any name               *)
LEMMA MembersCounted ==
  ASSUME NEW T, NEW value \in Seq(T), NEW lo, NEW hi, NEW a
  PROVE  LET member == KeyValue(AnyString, value) IN
         CountsOf(Enclosed("{", Repeat(member \o Repeat(Comma \o member, lo, hi), a, 1), "}"))
           = Counted(a, lo, hi)
<1> DEFINE member == KeyValue(AnyString, value)
           k1     == <<"strings", 0, Unbounded>>
           k2     == <<"text", <<"punct", ":">>>>
           U      == T \cup {k1, k2}
<1>1. member = (<<k1>> \o <<k2>>) \o value
  BY DEF KeyValue, AnyString, Punct, Text, Item
<1>2. k1 \in U /\ k2 \in U /\ T \subseteq U
  OBVIOUS
<1> HIDE DEF k1, k2, U
<1>3. value \in Seq(U)
  BY <1>2, LargerSet
<1>4. <<k1>> \in Seq(U) /\ <<k2>> \in Seq(U)
  BY <1>2
<1> HIDE DEF member
<1>5. member \in Seq(U)
  <2>1. <<k1>> \o <<k2>> \in Seq(U)
    BY <1>4, ConcatProperties
  <2> QED BY <1>1, <1>3, <2>1, ConcatProperties
<1> DEFINE more == Comma \o member
<1> HIDE DEF more
<1>6. CountsOf(Enclosed("{", Repeat(member \o Repeat(more, lo, hi), a, 1), "}"))
        = Counted(a, lo, hi)
  <2>1. ASSUME NEW V, NEW m \in Seq(V), NEW x, NEW o, NEW c
        PROVE  CountsOf(Enclosed(o, Repeat(m \o Repeat(x, lo, hi), a, 1), c)) = Counted(a, lo, hi)
    BY SomeCounted
  <2>2. ASSUME NEW V, NEW m \in Seq(V)
        PROVE  CountsOf(Enclosed("{", Repeat(m \o Repeat(more, lo, hi), a, 1), "}")) = Counted(a, lo, hi)
    BY <2>1
  <2> QED BY <2>2, <1>5
<1> QED BY <1>6 DEF member, more

(* What the quantifier and `?` allow is what the keywords do.              *)
LEMMA ItemsLegal ==
  ASSUME NEW obj, NEW min, NEW max, AsU64(obj, max) # 0, NEW times, times = GetNumItems(obj, min, max)
  PROVE  Counted(AllowEmpty(obj, min), times[1], times[2])
           = Legal(obj, min, max)
<1> DEFINE least == AsU64(obj, min)
           most  == AsU64(obj, max)
           a     == AllowEmpty(obj, min)
<1>1. /\ least \in Nat \/ least = Other
      /\ most \in Nat \/ most = Other
      /\ Other \notin Nat /\ Unbounded \notin Nat
  BY AsU64Type, OtherAssumption, UnboundedAssumption
<1>2. a = IF least \in {0, Other} THEN 0 ELSE 1
  <2> HIDE DEF least
  <2> QED BY <1>1 DEF AllowEmpty, OrElse, least
<1>3. /\ times[1] = IF least \in {0, Other} THEN 0 ELSE least - 1
      /\ times[2] = IF most = Other THEN Unbounded ELSE most - 1
  BY ItemsCounted
<1>4. most # 0
  OBVIOUS
<1> HIDE DEF least, most, a
<1>5. ASSUME NEW n \in Nat
      PROVE  (\/ n = 0 /\ a = 0
              \/ n > 0 /\ times[1] <= n - 1 /\ (times[2] = Unbounded \/ n - 1 <= times[2]))
               <=> (least # Other => least <= n) /\ (most # Other => n <= most)
  <2>1. n > 0 => (times[1] <= n - 1 <=> (least # Other => least <= n))
    BY <1>1, <1>3
  <2>2. n > 0 => (times[2] = Unbounded \/ n - 1 <= times[2] <=> (most # Other => n <= most))
    BY <1>1, <1>3, <1>4
  <2>3. n = 0 => (a = 0 <=> (least # Other => least <= n))
    BY <1>1, <1>2
  <2>4. n = 0 => (most # Other => n <= most)
    BY <1>1
  <2>5. n = 0 \/ n > 0
    OBVIOUS
  <2> QED BY <2>1, <2>2, <2>3, <2>4, <2>5
<1> QED BY <1>5 DEF Legal, Counted, least, most, a

(* An array has as many elements as minItems and maxItems allow, over all  *)
(* their values: get_num_items_pattern counts from the second one, which   *)
(* needs `?` behind it all for none.                                       *)
THEOREM ArrayCounts ==
  ASSUME NEW json, Method(json) = "array", ~Contradictory(json, "minItems", "maxItems"),
         NEW done, done = <<>> <=> Subschemas(json) = <<>>
  PROVE  CountsOf(Result(json, done)) = Legal(json, "minItems", "maxItems")
<1>1. Result(json, done) = ParseArrayType(json, done)
  BY DEF Result
<1> DEFINE times == GetNumItems(json, "minItems", "maxItems")
<1>2. Subschemas(json) = IF times # Other THEN ItemSchemas(json) ELSE <<>>
  BY DEF Subschemas
<1>3. ItemSchemas(json) # <<>>
  <2>1. CASE Has(json, "items")
    BY <2>1 DEF ItemSchemas
  <2>2. CASE ~Has(json, "items")
    <3> DEFINE five == << OfType("boolean"), OfType("null"), OfType("number"),
                          OfType("integer"), OfType("string") >>
               x == IF OrElse(AsU64(json, "depth"), 2) = 0 THEN <<>>
                    ELSE << [type |-> "object", depth |-> OrElse(AsU64(json, "depth"), 2) - 1],
                            [type |-> "array", depth |-> OrElse(AsU64(json, "depth"), 2) - 1] >>
    <3>1. ItemSchemas(json) = five \o Nested(json)
      BY <2>2 DEF ItemSchemas
    <3>2. Nested(json) = x
      BY DEF Nested
    <3>3. Len(five) = 5 /\ Len(x) \in {0, 2}
      OBVIOUS
    <3> DEFINE S == {five[i] : i \in 1..5} \cup {x[i] : i \in 1..Len(x)}
    <3>4. five \in Seq(S)
      OBVIOUS
    <3>6. x \in Seq(S)
      <4>1. CASE x = <<>>
        BY <4>1
      <4>2. CASE x # <<>>
        <5>1. x = <<x[1], x[2]>> /\ Len(x) = 2
          BY <4>2
        <5>2. x[1] \in S /\ x[2] \in S
          BY <5>1
        <5> HIDE DEF x, S
        <5>3. <<x[1], x[2]>> \in Seq(S)
          BY <5>2
        <5> QED BY <5>1, <5>3
      <4> QED BY <4>1, <4>2
    <3> HIDE DEF five, x, S
    <3>5. Len(five \o x) = Len(five) + Len(x)
      BY <3>4, <3>6, ConcatProperties
    <3> QED BY <3>1, <3>2, <3>3, <3>5
  <2> QED BY <2>1, <2>2
<1>4. done = <<>> <=> AsU64(json, "maxItems") = 0
  BY <1>2, <1>3, ItemsCounted
<1>5. CASE AsU64(json, "maxItems") = 0
  BY <1>1, <1>4, <1>5, NoneCounted DEF ParseArrayType
<1>6. CASE AsU64(json, "maxItems") # 0
  <2> DEFINE item == Group(JoinOr(done))
             more == Comma \o item
  <2>1. ParseArrayType(json, done) =
          Enclosed("[", Repeat(item \o Repeat(more, times[1], times[2]),
                               AllowEmpty(json, "minItems"), 1), "]")
    BY <1>4, <1>6 DEF ParseArrayType
  <2>2. item \in Seq({item[1]})
    BY DEF Group, Repeat, Item
  <2> HIDE DEF item, more, times
  <2>3. CountsOf(ParseArrayType(json, done)) =
          Counted(AllowEmpty(json, "minItems"), times[1], times[2])
    BY <2>1, <2>2, SomeCounted
  <2>4. times = GetNumItems(json, "minItems", "maxItems")
    BY DEF times
  <2> QED BY <1>1, <1>6, <2>3, <2>4, ItemsLegal
<1> QED BY <1>5, <1>6

(* Of an object, minProperties and maxProperties decide only whether it    *)
(* may be empty and whether it has to be: a pattern allows all numbers of  *)
(* properties that they allow, and with other bounds than these more.      *)
THEOREM ObjectCounts ==
  ASSUME NEW json, Method(json) = "object",
         ~Contradictory(json, "minProperties", "maxProperties"),
         NEW T, NEW done, done \in Seq(Seq(T)), done = <<>> <=> Subschemas(json) = <<>>
  PROVE  LET least   == AsU64(json, "minProperties")
             most    == AsU64(json, "maxProperties")
             allowed == CountsOf(Result(json, done))
             legal   == Legal(json, "minProperties", "maxProperties")
         IN  /\ legal \subseteq allowed
             /\ allowed = legal <=> most = 0 \/ (most = Other /\ least \in {0, 1, Other})
<1> DEFINE least   == AsU64(json, "minProperties")
           most    == AsU64(json, "maxProperties")
           allowed == CountsOf(Result(json, done))
           legal   == Legal(json, "minProperties", "maxProperties")
           times   == GetNumItems(json, "minProperties", "maxProperties")
<1>1. Result(json, done) = ParseObjectType(json, done)
  BY DEF Result
<1>2. Subschemas(json) = IF times # Other THEN <<ValueSchema(json)>> ELSE <<>>
  BY DEF Subschemas
<1>3. done = <<>> <=> most = 0
  BY <1>2, ItemsCounted
<1>4. ASSUME most = 0 PROVE allowed = legal
  BY <1>1, <1>3, <1>4, NoneCounted DEF ParseObjectType
<1>5. ASSUME most # 0
      PROVE  allowed = {n \in Nat : n > 0 \/ AllowEmpty(json, "minProperties") = 0}
  <2> DEFINE member == KeyValue(AnyString, done[1])
             a      == AllowEmpty(json, "minProperties")
             lo     == 0
             hi     == Unbounded
  <2>1. ParseObjectType(json, done) =
          Enclosed("{", Repeat(member \o Repeat(Comma \o member, lo, hi), a, 1), "}")
    BY <1>3, <1>5 DEF ParseObjectType
  <2>2. done[1] \in Seq(T)
    BY <1>3, <1>5
  <2> HIDE DEF member, a, lo, hi
  <2>3. CountsOf(ParseObjectType(json, done)) =
          Counted(a, lo, hi)
    <3>1. ASSUME NEW V, NEW v \in Seq(V)
          PROVE  LET property == KeyValue(AnyString, v) IN
                 CountsOf(Enclosed("{", Repeat(property \o Repeat(Comma \o property, lo, hi), a, 1), "}"))
                   = Counted(a, lo, hi)
      BY MembersCounted
    <3> QED BY <2>1, <2>2, <3>1 DEF member
  <2>4. ASSUME NEW n \in Nat
        PROVE  (\/ n = 0 /\ a = 0
                \/ n > 0 /\ lo <= n - 1 /\ (hi = Unbounded \/ n - 1 <= hi))
                 <=> n > 0 \/ a = 0
    BY DEF lo, hi
  <2> QED BY <1>1, <2>3, <2>4 DEF a, Counted
<1>6. /\ least \in Nat \/ least = Other
      /\ most \in Nat \/ most = Other
      /\ Other \notin Nat /\ Unbounded \notin Nat
  BY AsU64Type, OtherAssumption, UnboundedAssumption
<1>7. AllowEmpty(json, "minProperties") = IF least \in {0, Other} THEN 0 ELSE 1
  <2> HIDE DEF least
  <2> QED BY <1>6 DEF AllowEmpty, OrElse, least
<1>8. legal = {n \in Nat : (least # Other => least <= n) /\ (most # Other => n <= most)}
  BY DEF Legal
<1> HIDE DEF least, most, allowed, legal
<1>9. most = 0 => legal \subseteq allowed /\ allowed = legal
  BY <1>4
<1>10. ASSUME most # 0
       PROVE  legal \subseteq allowed
              /\ (allowed = legal <=> most = Other /\ least \in {0, 1, Other})
  <2>1. legal \subseteq allowed
    <3>1. ASSUME NEW n \in Nat, least # Other => least <= n
          PROVE  n > 0 \/ AllowEmpty(json, "minProperties") = 0
      BY <1>6, <1>7, <3>1
    <3> QED BY <1>5, <1>8, <1>10, <3>1
  <2>2. ASSUME most = Other, least \in {0, 1, Other} PROVE allowed \subseteq legal
    <3>1. ASSUME NEW n \in Nat, n > 0 \/ AllowEmpty(json, "minProperties") = 0
          PROVE  (least # Other => least <= n) /\ (most # Other => n <= most)
      BY <1>6, <1>7, <2>2, <3>1
    <3> QED BY <1>5, <1>8, <1>10, <3>1
  <2>3. ASSUME most # Other PROVE allowed # legal
    <3>1. most + 1 \in Nat /\ most + 1 > 0 /\ ~ (most + 1 <= most)
      BY <1>6, <2>3
    <3>2. most + 1 \in allowed
      BY <1>5, <1>10, <3>1
    <3>3. most + 1 \notin legal
      BY <1>8, <2>3, <3>1
    <3> QED BY <3>2, <3>3
  <2>4. ASSUME least \notin {0, 1, Other} PROVE allowed # legal
    <3>1. 1 \in allowed
      BY <1>5, <1>10
    <3>2. 1 \notin legal
      BY <1>6, <1>8, <2>4
    <3> QED BY <3>1, <3>2
  <2> QED BY <2>1, <2>2, <2>3, <2>4
<1> QED BY <1>9, <1>10 DEF least, most, allowed, legal

(* The numbers of digits that the pattern of an integer allows: those of a *)
(* zero and those of the numbers that begin with another digit.            *)
DigitsOf(pattern) ==
  {k \in Nat \ {0} :
     \E first \in {"0", "1"} : WholePartMatches(first, k - 1, pattern[1][2])}

(* The quantifier of the digits counts from the second one and is for the  *)
(* numbers that do not begin with a zero; validate_quantifiers takes a     *)
(* bound of none behind the first digit for no bound.                      *)
LEMMA DigitsQuantified ==
  ASSUME NEW json, Method(json) = "integer", NEW done
  PROVE  LET least == AsU64(json, "minDigits")
             most  == AsU64(json, "maxDigits")
         IN  Result(json, done)[1][2] =
               << IF least \in {0, 1, Other} THEN 0 ELSE least - 1,
                  IF most \in {0, 1, Other} THEN Unbounded ELSE most - 1 >>
<1> DEFINE least == AsU64(json, "minDigits")
           most  == AsU64(json, "maxDigits")
           lo == IF least \in {0, 1, Other} THEN 0 ELSE least - 1
           hi == IF most \in {0, 1, Other} THEN 0 ELSE most - 1
           q == Quantifier(json, "minDigits", "maxDigits", 1, 0, 0)
<1>1. /\ least \in Nat \/ least = Other
      /\ most \in Nat \/ most = Other
      /\ Other \notin Nat
  BY AsU64Type, OtherAssumption
<1>2. Result(json, done)[1][2] = q
  BY DEF Result, ParseIntegerType, Item
<1>3. Bound(json, "minDigits", 1) = lo
  <2> HIDE DEF least
  <2> QED BY <1>1 DEF Bound, OrElse, least
<1>4. Bound(json, "maxDigits", 1) = hi
  <2> HIDE DEF most
  <2> QED BY <1>1 DEF Bound, OrElse, most
<1> HIDE DEF least, most
<1>5. lo \in Nat /\ (hi = 0 <=> most \in {0, 1, Other})
  BY <1>1
<1>6. q = <<lo, IF most \in {0, 1, Other} THEN Unbounded ELSE most - 1>>
  <2>1. CASE most \in {0, 1, Other}
    BY <1>3, <1>4, <1>5, <2>1 DEF Quantifier
  <2>2. CASE most \notin {0, 1, Other}
    BY <1>3, <1>4, <1>5, <2>2 DEF Quantifier
  <2> QED BY <2>1, <2>2
<1> QED BY <1>2, <1>6 DEF least, most

(* The numbers of digits of what does not begin with a zero                *)
DigitsKept(obj) ==
  LET least == AsU64(obj, "minDigits")
      most  == AsU64(obj, "maxDigits")
  IN  {k \in Nat \ {0} : /\ least # Other => least <= k
                         /\ most \notin {0, 1, Other} => k <= most}

(* An integer has as many digits as minDigits and maxDigits allow, and its *)
(* pattern allows one digit always, since it allows zero, and any number   *)
(* of them where maxDigits is 0 or 1.  So the keywords are kept just when  *)
(* minDigits asks for no more than one digit and maxDigits, if it is       *)
(* there, allows two.                                                      *)
THEOREM DigitsCounted ==
  ASSUME NEW json, Method(json) = "integer", NEW done
  PROVE  LET least   == AsU64(json, "minDigits")
             most    == AsU64(json, "maxDigits")
             allowed == DigitsOf(Result(json, done))
             legal   == Legal(json, "minDigits", "maxDigits") \ {0}
         IN  /\ allowed = {1} \cup DigitsKept(json)
             /\ legal \subseteq allowed
             /\ allowed = legal <=> least \in {0, 1, Other} /\ most \notin {0, 1}
<1> DEFINE least   == AsU64(json, "minDigits")
           most    == AsU64(json, "maxDigits")
           allowed == DigitsOf(Result(json, done))
           legal   == Legal(json, "minDigits", "maxDigits") \ {0}
           lo == IF least \in {0, 1, Other} THEN 0 ELSE least - 1
           hi == IF most \in {0, 1, Other} THEN Unbounded ELSE most - 1
           q  == <<lo, hi>>
<1>1. /\ least \in Nat \/ least = Other
      /\ most \in Nat \/ most = Other
      /\ Other \notin Nat /\ Unbounded \notin Nat
  BY AsU64Type, OtherAssumption, UnboundedAssumption
<1>2. Result(json, done)[1][2] = q
  BY DigitsQuantified
<1>3. q[1] = lo /\ q[2] = hi
  OBVIOUS
<1>4. allowed = {k \in Nat \ {0} : k - 1 = 0 \/ Within(k - 1, q)}
  <2> HIDE DEF q
  <2>1. "1" # "0"
    OBVIOUS
  <2> QED BY <1>2, <2>1 DEF DigitsOf, WholePartMatches
<1>5. legal = {k \in Nat \ {0} : (least # Other => least <= k) /\ (most # Other => k <= most)}
  BY DEF Legal
<1> DEFINE kept == DigitsKept(json)
<1>6. \A k : k \in kept <=> /\ k \in Nat \ {0}
                            /\ least # Other => least <= k
                            /\ most \notin {0, 1, Other} => k <= most
  BY DEF DigitsKept
<1> HIDE DEF least, most, allowed, legal, q, kept
<1>7. ASSUME NEW k \in Nat \ {0}
      PROVE  Within(k - 1, q) <=> /\ least # Other => least <= k
                                  /\ most \notin {0, 1, Other} => k <= most
  <2>1. k - 1 >= lo <=> (least # Other => least <= k)
    BY <1>1
  <2>2. hi = Unbounded \/ k - 1 <= hi <=> (most \notin {0, 1, Other} => k <= most)
    BY <1>1
  <2> HIDE DEF lo, hi
  <2> QED BY <1>3, <2>1, <2>2 DEF Within
<1> HIDE DEF lo, hi
<1>8. allowed = {1} \cup kept
  <2>1. \A k \in Nat \ {0} : k - 1 = 0 <=> k = 1
    OBVIOUS
  <2>2. ASSUME NEW k \in Nat \ {0} PROVE k \in allowed <=> k = 1 \/ k \in kept
    BY <1>4, <1>6, <1>7, <2>1
  <2>3. allowed \subseteq Nat \ {0} /\ kept \subseteq Nat \ {0} /\ 1 \in Nat \ {0}
    BY <1>4, <1>6
  <2> QED BY <2>2, <2>3
<1>9. legal \subseteq allowed
  BY <1>5, <1>8, <1>6
<1>10. ASSUME least \in {0, 1, Other}, most \notin {0, 1} PROVE allowed = legal
  <2>1. 1 \in legal
    BY <1>1, <1>5, <1>10
  <2>2. ASSUME NEW k \in kept PROVE k \in legal
    <3>1. k \in Nat \ {0} /\ (least # Other => least <= k) /\ (most # Other => k <= most)
      BY <1>6, <1>10
    <3> QED BY <1>5, <3>1
  <2> QED BY <1>8, <1>9, <2>1, <2>2
<1>11. ASSUME least \notin {0, 1, Other} PROVE allowed # legal
  <2>1. 1 \in allowed /\ 1 \notin legal
    BY <1>1, <1>5, <1>8, <1>11
  <2> QED BY <2>1
<1>12. ASSUME least \in {0, 1, Other}, most \in {0, 1} PROVE allowed # legal
  <2>1. 2 \in allowed /\ 2 \notin legal
    BY <1>1, <1>5, <1>8, <1>12, <1>6
  <2> QED BY <2>1
<1>13. allowed = legal <=> least \in {0, 1, Other} /\ most \notin {0, 1}
  BY <1>10, <1>11, <1>12
<1> QED BY <1>8, <1>9, <1>13 DEF least, most, allowed, legal, kept
=============================================================================
