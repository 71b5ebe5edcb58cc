---------------------------- MODULE JsonMeaning ----------------------------
(***************************************************************************)
(* What schemas mean, by the documentation at src/src/json_schema/mod.rs:9 *)
(* to :100, and what patterns mean; for the runs only.  A text is a        *)
(* sequence of tokens:                                                     *)
(*   <<"punct", c>>, <<"word", w>>, <<"string", x>>, <<"format", name>>    *)
(*   <<"number", first, i, f, e>>  first is its first digit, i the number  *)
(*       of digits behind it, f and e are the numbers of digits of the     *)
(*       fraction and the exponent, -1 where there is none                 *)
(***************************************************************************)
EXTENDS JsonSchema

CONSTANTS SampleStrings,  \* the strings that texts are made of
          MaxDigits       \* the most digits in each part of a number

(* Texts of at most n tokens: u then v, and W lo to hi times.              *)
Then(U, V, n) ==
  {pair[1] \o pair[2] : pair \in {p \in U \X V : Len(p[1]) + Len(p[2]) <= n}}

Less(k) == CASE k = Unbounded -> Unbounded [] k = 0 -> 0 [] OTHER -> k - 1

RECURSIVE Times(_, _, _, _)
Times(W, lo, hi, n) ==
  LET first == {w \in W : Len(w) <= n /\ (w # <<>> \/ lo > 0)}
      OfLength(k) == {w \in first : Len(w) = k}
  IN  (IF lo = 0 THEN {<<>>} ELSE {}) \cup
      (IF hi = 0 THEN {}
       ELSE UNION {Then(OfLength(k), Times(W, Less(lo), Less(hi), n - k), n) :
                     k \in {Len(w) : w \in first}})

Number(first, i, f, e) == <<"number", first, i, f, e>>

Numbers ==
  {Number("0", 0, f, e) : f, e \in -1..MaxDigits}
    \cup {Number("1", i, f, e) : i \in 0..MaxDigits, f, e \in -1..MaxDigits}

(* Those of JSON: "1." and "1e" are none.                                  *)
JsonNumbers == {x \in Numbers : x[4] # 0 /\ x[5] # 0}

WholeNumbers == {x \in Numbers : x[4] = -1 /\ x[5] = -1}

----------------------------------------------------------------------------
(* What a pattern matches                                                  *)
PartMatches(digits, quantifier) ==
  digits = -1 \/ (quantifier # <<>> /\ Within(digits, quantifier))

RECURSIVE Matches(_, _)

ItemMatches(item, n) ==
  CASE item[1] = "text"    -> {<<item[2]>>}
    [] item[1] = "strings" ->
         {<< <<"string", x>> >> : x \in {y \in SampleStrings : Within(Len(y), Tail(item))}}
    [] item[1] = "numbers" ->
         {<<x>> : x \in {y \in Numbers : /\ WholePartMatches(y[2], y[3], item[2])
                                         /\ PartMatches(y[4], item[3])
                                         /\ PartMatches(y[5], item[4])}}
    [] item[1] = "repeat"  ->
         Times(Matches(item[2], n), item[3], item[4], n)
    [] OTHER               -> {<<item>>}

(* The items between one "|" and the next                                  *)
Branches(pattern) ==
  LET IsOr(i) == i \in {0, Len(pattern) + 1} \/ pattern[i] = <<"or">>
      ends    == {i \in 0..Len(pattern) + 1 : IsOr(i)}
      NextEnd(i) == Min({j \in ends : j > i})
  IN  {SubSeq(pattern, i + 1, NextEnd(i) - 1) : i \in ends \ {Len(pattern) + 1}}

(* A branch leaves room for the tokens behind it.                          *)
MatchesBranch(branch, n) ==
  LET Shortest(W) == Min({Len(w) : w \in W})
      Behind(i)   == Len(SelectSeq(SubSeq(branch, i + 1, Len(branch)),
                                   LAMBDA item : item[1] # "repeat"))
      Add(W, i)   ==
        LET room == n - Behind(i)
        IN  IF W = {} THEN {} ELSE Then(W, ItemMatches(branch[i], room - Shortest(W)), room)
  IN  FoldLeft(Add, {<<>>}, [i \in DOMAIN branch |-> i])

Matches(pattern, n) == UNION {MatchesBranch(branch, n) : branch \in Branches(pattern)}

(* An anchor matches at its end of the text only, and a piece of a string  *)
(* between quotes is a string.                                             *)
Anchored(text) ==
  \A i \in DOMAIN text : /\ text[i] = <<"begin">> => i = 1
                         /\ text[i] = <<"end">> => i = Len(text)

Quoted(text) ==
  IF Len(text) = 3 /\ text[1] = <<"punct", "quote">> /\ text[3] = text[1] /\ text[2][1] = "raw"
  THEN << <<"string", text[2][2]>> >> ELSE text

Accepted(pattern, n) ==
  {Quoted(SelectSeq(w, LAMBDA t : t \notin {<<"begin">>, <<"end">>})) :
     w \in {v \in Matches(pattern, n) : Anchored(v)}}

----------------------------------------------------------------------------
(* What a schema means.                                                    *)
P(c) == <<"punct", c>>

Wrapped(open, W, close, n) ==
  {<<P(open)>> \o w \o <<P(close)>> : w \in {v \in W : Len(v) <= n - 2}}

(* lo to hi texts of W with commas between them                            *)
Series(W, lo, hi, n) ==
  (IF lo = 0 THEN {<<>>} ELSE {}) \cup
  (IF hi = 0 THEN {}
   ELSE Then(W, Times(Then({<<P(",")>>}, W, n), Less(lo), Less(hi), n), n))

Members(keys, W, n) == Then({<< <<"string", x>>, P(":") >> : x \in keys}, W, n)

Scalars ==
  {<<x>> : x \in JsonNumbers \cup {<<"string", x>> : x \in SampleStrings}
                         \cup {<<"word", w>> : w \in {"true", "false", "null"}}}

(* Values without constraints, with at most depth arrays and objects       *)
(* inside one another ("too deep, default unconstrained depth limit = 2",  *)
(* src/src/json_schema/mod.rs:1233).                                       *)
RECURSIVE Anything(_, _)
Anything(depth, n) ==
  IF n < 1 THEN {}
  ELSE Scalars \cup
       (IF depth = 0 THEN {}
        ELSE Wrapped("[", Series(Anything(depth - 1, n - 2), 0, Unbounded, n - 2), "]", n)
               \cup Wrapped("{", Series(Members(SampleStrings, Anything(depth - 1, n - 4), n - 2),
                                        0, Unbounded, n - 2), "}", n))

TargetOf(schema) == CHOOSE target \in ResolveLocalRef(Last(schema.ref)) : TRUE

(* Whether a schema cannot do with following refs references inside one    *)
(* another; an object can, without the properties that cannot.             *)
RECURSIVE TooDeep(_, _)
TooDeep(schema, refs) ==
  CASE Method(schema) = "ref"        -> refs = 0 \/ TooDeep(TargetOf(schema), refs - 1)
    [] Method(schema) = "properties" -> FALSE
    [] OTHER -> \E i \in DOMAIN Subschemas(schema) : TooDeep(Subschemas(schema)[i], refs)

NumberOf(obj, key, default) == OrElse(AsU64(obj, key), default)

RECURSIVE Means(_, _, _)

(* The objects that have the properties of the set S, in their order.      *)
ObjectsWith(obj, S, refs, n) ==
  LET names == SelectSeq(obj.order, LAMBDA x : x \in S)
      Named(k) == Members({names[k]}, Means(obj.properties[names[k]], refs, n), n)
  IN  Wrapped("{", FoldLeft(LAMBDA W, k :
                              Then(W, IF k = 1 THEN Named(k) ELSE Then({<<P(",")>>}, Named(k), n), n),
                            {<<>>}, [k \in 1..Len(names) |-> k]), "}", n)

DigitsMeant(obj, digits, min, max) ==
  digits = -1 \/ Within(digits, <<NumberOf(obj, min, 0), NumberOf(obj, max, Unbounded)>>)

Means(schema, refs, n) ==
  LET method == Method(schema)
      Count(min, max) == <<NumberOf(schema, min, 0), NumberOf(schema, max, Unbounded)>>
      Parts == [i \in DOMAIN schema[method] |-> Means(schema[method][i], refs, n)]
  IN
  CASE method = "empty"      -> Anything(3, n)
    [] method = "properties" ->
         UNION {ObjectsWith(schema, S, refs, n) :
                  S \in {S \in SUBSET DOMAIN schema.properties :
                           /\ Required(schema) \subseteq S
                           /\ \A x \in S : ~TooDeep(schema.properties[x], refs)}}
    [] method = "allOf"      ->
         {w \in UNION ToSet(Parts) : \A i \in DOMAIN Parts : w \in Parts[i]}
    [] method = "anyOf"      -> UNION ToSet(Parts)
    [] method = "oneOf"      ->
         {w \in UNION ToSet(Parts) : Cardinality({i \in DOMAIN Parts : w \in Parts[i]}) = 1}
    [] method = "prefixItems" ->
         Wrapped("[", FoldLeft(LAMBDA W, i :
                        Then(W, IF i = 1 THEN Parts[i] ELSE Then({<<P(",")>>}, Parts[i], n), n),
                        {<<>>}, [i \in DOMAIN Parts |-> i]), "]", n)
    [] method = "enum"       -> {<<x>> : x \in ToSet(schema.enum)}
    [] method = "const"      -> {<<schema.const>>}
    [] method = "ref"        -> Means(TargetOf(schema), refs - 1, n)
    [] method = "types"      ->
         UNION {Means(WithType(schema, x), refs, n) : x \in ToSet(schema.types)}
    [] method = "string"     ->
         IF UsesPattern(schema)
         THEN {<< <<"string", x>> >> : x \in {y \in SampleStrings :
                                 schema.pattern = << <<"begin">>, <<"raw", y>>, <<"end">> >>}}
         ELSE IF UsesFormat(schema) THEN {<< <<"format", schema.format>> >>}
         ELSE {<< <<"string", x>> >> : x \in {y \in SampleStrings :
                                 Within(Len(y), Count("minLength", "maxLength"))}}
    [] method = "number"     ->
         {<<x>> : x \in {y \in JsonNumbers :
            /\ DigitsMeant(schema, y[3] + 1, "minDigitsInteger", "maxDigitsInteger")
            /\ DigitsMeant(schema, y[4], "minDigitsFraction", "maxDigitsFraction")
            /\ DigitsMeant(schema, y[5], "minDigitsExponent", "maxDigitsExponent")}}
    [] method = "integer"    ->
         {<<x>> : x \in {y \in WholeNumbers : DigitsMeant(schema, y[3] + 1, "minDigits", "maxDigits")}}
    [] method = "object"     ->
         LET times  == Count("minProperties", "maxProperties")
             values == IF Has(schema, "additionalProperties")
                            /\ schema.additionalProperties # AnyValue
                       THEN Means(schema.additionalProperties, refs, n)
                       ELSE Anything(NumberOf(schema, "depth", 2), n - 4)
         IN  Wrapped("{", Series(Members(SampleStrings, values, n), times[1], times[2], n - 2),
                     "}", n)
    [] method = "array"      ->
         LET times == Count("minItems", "maxItems")
             items == IF Has(schema, "items") THEN Means(schema.items, refs, n)
                      ELSE Anything(NumberOf(schema, "depth", 2), n - 2)
         IN  Wrapped("[", Series(items, times[1], times[2], n - 2), "]", n)
    [] method = "boolean"    -> {<< <<"word", "true">> >>, << <<"word", "false">> >>}
    [] method = "null"       -> {<< <<"word", "null">> >>}
=============================================================================
