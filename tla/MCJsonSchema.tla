---------------------------- MODULE MCJsonSchema ----------------------------
(* Schemas for TLC, and the properties that compare patterns with them.    *)
EXTENDS JsonMeaning, TLC

Type(t)   == [type |-> t]
Null      == Type("null")
Boolean   == Type("boolean")
Integer   == Type("integer")
Empty     == <<>>
Ref(path) == [ref |-> <<"", path>>]
Self      == Ref(<<>>)

Properties(order, of, required) ==
  [type |-> "object", order |-> order, properties |-> of, required |-> required]

(* base with two keys, those whose value is Other left out                 *)
Bounded(base, min, max, p) ==
  LET With(key, value) == IF value = Other THEN <<>> ELSE key :> value
  IN  base @@ With(min, p[1]) @@ With(max, p[2])

(* Families of schemas: all bounds, and all sets of required properties.   *)
Bounds == {Other, 0, 1, 2, 3} \X {Other, 0, 1, 2, 3}

Array(p)    == Bounded([type |-> "array", items |-> Null], "minItems", "maxItems", p)
Map(p)      == Bounded([type |-> "object", additionalProperties |-> Null],
                       "minProperties", "maxProperties", p)
Str(p)      == Bounded(Type("string"), "minLength", "maxLength", p)
Digits(p)   == Bounded(Integer, "minDigits", "maxDigits", p)
Whole(p)    == Bounded(Type("number"), "minDigitsInteger", "maxDigitsInteger", p)
Fraction(p) == Bounded(Type("number"), "minDigitsFraction", "maxDigitsFraction", p)
Exponent(p) == Bounded(Type("number"), "minDigitsExponent", "maxDigitsExponent", p)

names == <<"a", "b", "ab">>

Flat(R)      == Properties(names, [x \in ToSet(names) |-> Null], R)
Linked(y, R) == Properties(names, [x \in ToSet(names) |-> IF x = y THEN Self ELSE Null], R)

(* Two references beside each other, and a reference on the way to another *)
Siblings == Properties(<<"a", "b">>, [a |-> Self, b |-> Self], {})

Node ==
  Properties(<<"node">>, [node |-> Ref(<<"definitions", "node">>)], {}) @@
  [definitions |->
     [node |-> Properties(<<"next", "value">>,
                          [next |-> Ref(<<"definitions", "node">>), value |-> Boolean],
                          {"value"})]]

List(required) ==
  Properties(<<"next">>, [next |-> [anyOf |-> <<Self, Null>>]], required)

(* The limit is reached with references to return from.                    *)
Lists ==
  Properties(<<"a", "b">>, [a |-> Ref(<<"definitions", "list">>),
                            b |-> Ref(<<"definitions", "id">>)], {}) @@
  [definitions |-> [list |-> [type |-> "array", items |-> Ref(<<"definitions", "list">>)],
                    id   |-> Null]]

Tree == Properties(<<"b">>, [b |-> [type |-> "array", items |-> Self, maxItems |-> 2]], {})

Baskets ==
  Properties(<<"a">>, [a |-> [type |-> "array",
                              items |-> Properties(<<"b">>, [b |-> Self], {})]], {})

(* A schema that refers to its definitions by its name                     *)
Customers(S) ==
  Properties(names, [x \in ToSet(names) |->
                       IF x \in S THEN [ref |-> <<"customer", <<"definitions", "id">> >>] ELSE Null],
             {}) @@ [id |-> "customer", definitions |-> [id |-> Integer]]

(* Texts of length n show that their patterns mean what they mean; values  *)
(* without constraints nest twice, or as often as depth says.              *)
LessThan(m, n) == m # Other /\ n # Other /\ m < n
None(m)        == m \in {Other, 0}

MeansWhatItSays ==
  {<<Flat(R), 13>> : R \in SUBSET ToSet(names)}
    \cup {<<Linked(y, R \ {y}), 15>> : y \in ToSet(names), R \in SUBSET ToSet(names)}
    \cup {<<Array(p), 9>> : p \in {p \in Bounds : None(p[1]) \/ p[2] # 0}}
    \cup {<<Map(p), 17>> : p \in {p \in Bounds : (p[1] \in {Other, 0, 1} /\ p[2] = Other)
                                                \/ (None(p[1]) /\ p[2] = 0)}}
    \cup {<<Str(p), 1>> : p \in {p \in Bounds : ~LessThan(p[2], p[1])}}
    \cup {<<Digits(p), 1>> : p \in {p \in Bounds : p[1] \in {Other, 0, 1} /\ p[2] \in {Other, 2, 3}}}
    \cup {<<Whole(p), 1>> : p \in {p \in Bounds : p[1] \in {Other, 0, 1} /\ p[2] = Other}}
    \cup {<<F, 1>> : F \in UNION {{Fraction(p), Exponent(p)} : p \in
            {p \in Bounds : ~LessThan(p[2], p[1]) /\ (None(p[1]) => p[2] = Other)}}}
    \cup {<<Siblings, 14>>, <<Node, 18>>, <<List({}), 14>>, <<Lists, 9>>, <<Tree, 20>>,
          <<Customers({"b"}), 13>>, <<Baskets, 32>>}
    \cup {<<Empty, 6>>, <<[anyOf |-> <<Empty, Null>>], 6>>,
          <<Type("object"), 8>>, <<[type |-> "object", depth |-> 0], 6>>,
          <<[type |-> "object", additionalProperties |-> AnyValue, depth |-> 1], 8>>,
          <<Type("array"), 6>>, <<[type |-> "array", maxItems |-> 1], 8>>,
          <<[type |-> "array", maxItems |-> 1, depth |-> 1], 6>>,
          <<[type |-> "array", items |-> Empty], 3>>,
          <<[types |-> <<"integer", "null", "array">>], 3>>,
          <<[prefixItems |-> <<Boolean, Integer, Null>>], 7>>}
    \cup {<<s, 3>> : s \in
            { Null, Boolean, Type("number"), [oneOf |-> <<Integer, Null>>],
              [allOf |-> <<Boolean>>], [prefixItems |-> <<>>],
              [enum |-> << <<"string", "a">>, <<"word", "null">> >>],
              [const |-> Number("1", 1, -1, -1)],
              [type |-> "string", format |-> "date"],
              [type |-> "string", pattern |-> << <<"begin">>, <<"raw", "ab">>, <<"end">> >>] }}

(* Schemas that do not mean what they say are read as if they said         *)
(* something else, and their patterns accept some texts besides:           *)
(* <<schema, what it is read as, the other texts, length>>.                *)
Nothing == [enum |-> <<>>]

Single(X)   == {<<x>> : x \in X}
ZeroFirst   == Single({x \in JsonNumbers : x[2] = "0"})
NoDigits(i) == Single({x \in Numbers : x[i] = 0 /\ \A j \in {4, 5} \ {i} : x[j] # 0})

(* Of the bounds of an object only whether none and any are legal counts.  *)
MapRead(p) ==
  Map(<<IF None(p[1]) \/ p[2] = 0 THEN Other ELSE 1, IF p[2] = 0 THEN 0 ELSE Other>>)

(* One digit, or none, is no upper bound, and no lower one holds for zero. *)
NoBound(S, max) == IF max \in S THEN Other ELSE max

DigitsRead(p) == Digits(<<p[1], NoBound({0, 1}, p[2])>>)
WholeRead(p) ==
  Whole(<<IF p[1] \in {Other, 0, 1} /\ p[2] \in {2, 3} THEN 2 ELSE p[1], NoBound({0, 1}, p[2])>>)

(* A part of a number that has an upper bound only may have no digits.     *)
PartRead(F(_), i, p) ==
  <<F(p), F(<<p[1], NoBound({0}, p[2])>>),
    IF None(p[1]) /\ p[2] \in {1, 2, 3} THEN NoDigits(i) ELSE {}, 1>>

StringWith(pattern) == [type |-> "string", pattern |-> pattern]
Format(name)        == [type |-> "string", format |-> name]

ReadAs ==
  {<<Array(<<m, 0>>), Array(<<Other, 0>>), {}, 9>> : m \in 1..3}
    \cup {<<Map(p), MapRead(p), {}, 17>> : p \in Bounds}
    \cup {<<Digits(p), DigitsRead(p),
            IF p[1] \in {2, 3} THEN Single({Number("0", 0, -1, -1)}) ELSE {}, 1>> : p \in Bounds}
    \cup {<<Whole(p), WholeRead(p), ZeroFirst, 1>> : p \in Bounds}
    \cup {PartRead(Fraction, 4, p) : p \in Bounds}
    \cup {PartRead(Exponent, 5, p) : p \in Bounds}
    \cup {<<Format("uri"), Nothing, {<< <<"bare", "uri">> >>, << <<"bare", "urn">> >>}, 3>>,
          <<Format("email"), Nothing, {<< <<"bare", "email">> >>}, 3>>,
          <<StringWith(<< <<"begin">>, <<"raw", "a">> >>), Nothing, {}, 3>>,
          <<StringWith(<< <<"raw", "a">>, <<"or">>, <<"raw", "b">> >>), Nothing,
            {<<P("quote"), <<"raw", "a">> >>, << <<"raw", "b">>, P("quote")>>}, 3>>,
          <<[allOf |-> <<Boolean, Null>>], Nothing,
            {<< <<"word", w>>, <<"word", "null">> >> : w \in {"true", "false"}}, 3>>,
          <<[oneOf |-> <<Integer, Type("number")>>],
            [anyOf |-> <<Integer, Type("number")>>], {}, 3>>}
    \cup {<<Properties(<<"a">>, [a |-> Format(name)], R),
            Properties(<<"a">>, [a |-> Nothing], R), {}, 5>> :
              name \in {"uri", "email"}, R \in SUBSET {"a"}}

(* Schemas that cannot be parsed, or lose a required property.             *)
Others ==
  UNION {{Str(p), Digits(p), Whole(p), Fraction(p), Exponent(p)} : p \in Bounds}
    \cup {Linked(y, R) : y \in ToSet(names), R \in SUBSET ToSet(names)}
    \cup {List({"next"}), Self, Other, Type("float"), Type(Other), [items |-> Null],
          [anyOf |-> Other], [properties |-> Other], [types |-> <<"null", Other>>],
          [enum |-> <<Other>>], [const |-> Other],
          [type |-> "string", minLength |-> 1, maxLength |-> Other], Format("ipv4")}
    \cup {Properties(<<"a", "b">>, [a |-> Self, b |-> [ref |-> ref]], {}) :
            ref \in {Other, <<"", <<"missing">>, <<>> >>, <<"elsewhere", <<>> >>,
                     << <<"missing">> >>, << <<"definitions">> >>}}
    \cup {Properties(<<"a", "b">>, [a |-> Self, b |-> bad], {"b"}) :
            bad \in {Type("float"), [items |-> Null], AnyValue}}

Readings ==
  LET readings == {<<pair[1], pair[1], {}, pair[2]>> : pair \in MeansWhatItSays}
                    \cup {reading \in ReadAs : Refusal(reading[1]) = "none"}
  IN  readings

(* Accepted texts are the valid ones: properties in the order of the       *)
(* schema, each at most once and the required ones always, with commas     *)
(* between them and nowhere else; elements, characters and digits within   *)
(* their bounds; a schema that refers to itself unfolded as often as the   *)
(* limit allows, and a property left out where it would need more.  Where  *)
(* the parser reads a bound, a format or a choice as something else, they  *)
(* are just those of ReadAs.                                               *)
PatternMeansSchema ==
  Finished => \A reading \in {r \in Readings : r[1] = root} :
    IF TooDeep(root, MaxRecursionDepth + 1) THEN error = LimitReached
    ELSE /\ error = "none"
         /\ \E p \in returned :
              Accepted(p, reading[4])
                = Means(reading[2], MaxRecursionDepth + 1, reading[4]) \cup reading[3]

MCSchemas == LET schemas == {reading[1] : reading \in Readings} \cup Others IN schemas

(* Schemas have heights, those that refer to themselves too.               *)
RECURSIVE Reached(_)
Reached(jsons) ==
  LET OneStep(json) ==
        IF Method(json) = "ref"
        THEN IF json.ref = Other THEN {} ELSE UNION {Find(d, Last(json.ref)) : d \in Schemas}
        ELSE IF Refusal(json) = "none" THEN ToSet(Subschemas(json)) ELSE {}
      more == UNION {OneStep(json) : json \in jsons} \ jsons
  IN  IF more = {} THEN jsons ELSE Reached(jsons \cup more)

RECURSIVE HeightOf(_)
HeightOf(json) ==
  LET below == IF Method(json) = "ref" \/ Refusal(json) # "none" THEN {}
               ELSE {HeightOf(sub) : sub \in ToSet(Subschemas(json))}
  IN  IF below = {} THEN 0 ELSE 1 + CHOOSE h \in below : \A k \in below : k <= h

ASSUME HeightAssumption == IsHeight([json \in Reached(Schemas) |-> HeightOf(json)])

(* What the schema that is parsed means, with no limit to references.      *)
Valid(n) == Means(root, n, n)

(* "`required` - Lists the properties that must be present"                *)
(* (src/src/json_schema/mod.rs:27): no text is accepted that lacks one.    *)
RequiredPresent == Finished => \A p \in returned : Accepted(p, 10) \subseteq Valid(10)

MCRequired == LET schemas == {List({"next"})} IN schemas

(* "An empty object means unconstrained, allowing any JSON type"           *)
(* (src/src/json_schema/mod.rs:100), as the schema of a property too.      *)
EmptyMeansAnything == Finished => \E p \in returned : Valid(5) \subseteq Accepted(p, 5)

MCEmpty ==
  LET schemas ==
        {Properties(<<"a", "b">>, [a |-> Empty, b |-> Null], R) : R \in SUBSET {"a", "b"}}
  IN  schemas

(* Three properties that all refer to one definition.                      *)
MCNamed == LET schemas == {Customers(ToSet(names))} IN schemas
=============================================================================
