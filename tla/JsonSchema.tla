----------------------------- MODULE JsonSchema -----------------------------
(***************************************************************************)
(* json_schema::parsing::Parser: to_regex and the methods it calls, which  *)
(* call to_regex for the schemas inside of a schema.  The call stack is a  *)
(* variable, since one counter, recursion_depth, is shared by all calls.   *)
(*                                                                         *)
(* A JSON object is a record, an array a sequence, a text that is          *)
(* compared with other texts a string.  Keywords are field names; ref is   *)
(* "$ref", id is "$id" and types is "type" when its value is an array.     *)
(* The order of the keys of properties, which serde_json keeps, is the     *)
(* field order beside it.  Other is any value of a kind that the keyword   *)
(* does not take, AnyValue is `true`.                                      *)
(***************************************************************************)
EXTENDS Pattern, FiniteSets

CONSTANTS Schemas,            \* the schemas to parse, roots
          MaxRecursionDepth,  \* Parser::max_recursion_depth
          Other, AnyValue

ASSUME DepthAssumption == MaxRecursionDepth \in Nat

ASSUME OtherAssumption == Other \notin Nat /\ Other \notin Nat \X (Nat \cup {Unbounded})

VARIABLES root,               \* Parser::root
          recursion_depth,    \* Parser::recursion_depth
          stack,              \* the calls of to_regex that have not returned
          returned,           \* the pattern of the call that just returned, or {}
          error               \* its error

vars == <<root, recursion_depth, stack, returned, error>>

IsObject(json) == json \notin {Other, AnyValue}

Has(obj, key) == key \in DOMAIN obj

(* obj.get(key).and_then(Value::as_u64), None being Other                  *)
AsU64(obj, key) ==
  IF Has(obj, key) /\ obj[key] \in Nat THEN obj[key] ELSE Other

OrElse(option, default) == IF option = Other THEN default ELSE option

----------------------------------------------------------------------------
(* The keys that to_regex looks for, in this order.                        *)
Keywords == << "properties", "allOf", "anyOf", "oneOf", "prefixItems", "enum",
               "const", "ref", "types", "type" >>

Formats == {"date-time", "date", "time", "uuid", "uri", "email"}

TypeNames == {"string", "number", "integer", "array", "object", "boolean", "null"}

(* The method that to_regex, or parse_type_string for it, calls.           *)
Method(json) ==
  IF ~IsObject(json) THEN "unsupported"
  ELSE IF DOMAIN json = {} THEN "empty"
  ELSE LET i == SelectInSeq(Keywords, LAMBDA key : Has(json, key))
       IN  IF i = 0 THEN "unsupported"
           ELSE IF Keywords[i] # "type" THEN Keywords[i]
           ELSE IF json.type \in TypeNames THEN json.type ELSE "unsupportedType"

Required(obj) ==
  IF Has(obj, "required") /\ obj.required # Other THEN obj.required ELSE {}

(* get_num_items_pattern: the quantifier, or Other for None                *)
GetNumItems(obj, min, max) ==
  LET LessOne(n) == IF n = 0 THEN 0 ELSE n - 1
      most       == AsU64(obj, max)
  IN  IF most = 0 THEN Other
      ELSE << LessOne(OrElse(AsU64(obj, min), 0)),
              IF most = Other THEN Unbounded ELSE LessOne(most) >>

(* `?` behind the elements where none is a legal number of them            *)
AllowEmpty(obj, min) == IF OrElse(AsU64(obj, min), 0) = 0 THEN 0 ELSE 1

(* validate_quantifiers: a NonZeroU64 of the bound less the offset, None   *)
(* being 0.                                                                *)
Bound(obj, key, offset) ==
  LET n == OrElse(AsU64(obj, key), 0) IN IF n <= offset THEN 0 ELSE n - offset

InOrder(obj, min, max, offset) ==
  AsU64(obj, min) # Other /\ AsU64(obj, max) # Other
    => Bound(obj, min, offset) <= Bound(obj, max, offset)

(* The quantifier of one part of a number: what stands for a missing lower *)
(* bound depends on the part, and so does what stands for no bounds.       *)
Quantifier(obj, min, max, offset, least, default) ==
  LET lo == Bound(obj, min, offset)
      hi == Bound(obj, max, offset)
  IN  IF hi # 0 THEN <<IF lo # 0 THEN lo ELSE least, hi>>
      ELSE <<IF lo # 0 THEN lo ELSE default, Unbounded>>

(* parse_string_type: lengths come before a pattern, a pattern before a    *)
(* format.  as_f64 is None for what is no number, and None < Some(_).      *)
UsesLengths(obj) == Has(obj, "minLength") \/ Has(obj, "maxLength")
UsesPattern(obj) == ~UsesLengths(obj) /\ Has(obj, "pattern") /\ obj.pattern # Other
UsesFormat(obj) ==
  ~UsesLengths(obj) /\ ~UsesPattern(obj) /\ Has(obj, "format") /\ obj.format # Other

LengthsInOrder(obj) ==
  Has(obj, "minLength") /\ Has(obj, "maxLength") /\ obj.minLength \in Int
    => obj.maxLength \in Int /\ obj.minLength <= obj.maxLength

----------------------------------------------------------------------------
(* The schemas that a schema is parsed by, in the order of the calls.      *)
OfType(name) == [type |-> name]

Nested(obj) ==
  LET depth == OrElse(AsU64(obj, "depth"), 2) IN
  IF depth = 0 THEN <<>>
  ELSE << [type |-> "object", depth |-> depth - 1],
          [type |-> "array", depth |-> depth - 1] >>

ValueSchema(obj) ==
  IF Has(obj, "additionalProperties") /\ obj.additionalProperties # AnyValue
  THEN obj.additionalProperties
  ELSE [anyOf |-> << OfType("string"), OfType("number"), OfType("boolean"),
                     OfType("null") >> \o Nested(obj)]

ItemSchemas(obj) ==
  IF Has(obj, "items") THEN <<obj.items>>
  ELSE << OfType("boolean"), OfType("null"), OfType("number"),
          OfType("integer"), OfType("string") >> \o Nested(obj)

(* parse_type_array calls parse_type_string with the whole object.         *)
WithType(obj, name) ==
  [key \in (DOMAIN obj \ {"types"}) \cup {"type"} |->
     IF key = "type" THEN name ELSE obj[key]]

Subschemas(json) ==
  LET method == Method(json) IN
  CASE method = "empty"      -> << OfType("boolean"), OfType("null"), OfType("number"),
                                   OfType("integer"), OfType("string"),
                                   OfType("array"), OfType("object") >>
    [] method = "properties" ->
         [i \in 1..Len(json.order) |-> json.properties[json.order[i]]]
    [] method \in {"allOf", "anyOf", "oneOf", "prefixItems"} -> json[method]
    [] method = "types"      ->
         [i \in 1..Len(json.types) |-> WithType(json, json.types[i])]
    [] method = "object" /\ GetNumItems(json, "minProperties", "maxProperties") # Other
         -> <<ValueSchema(json)>>
    [] method = "array" /\ GetNumItems(json, "minItems", "maxItems") # Other
         -> ItemSchemas(json)
    [] OTHER -> <<>>

(* The error of a call, if it has one before it calls to_regex itself.     *)
Refusal(json) ==
  LET method == Method(json) IN
  CASE method = "unsupported" -> "UnsupportedJsonSchema"
    [] method = "unsupportedType" ->
         IF json.type = Other THEN "TypeMustBeAStringOrArray" ELSE "UnsupportedType"
    [] method = "properties" /\ json.properties = Other -> "PropertiesNotFound"
    [] method \in {"allOf", "anyOf", "oneOf", "prefixItems", "enum"}
         /\ json[method] = Other -> "MustBeAnArray"
    [] method = "enum" /\ json.enum # Other /\ Contains(json.enum, Other)
         -> "UnsupportedEnumDataType"
    [] method = "const" /\ json.const = Other -> "UnsupportedConstDataType"
    [] method = "string" /\ ~LengthsInOrder(json) -> "MaxBoundError"
    [] method = "string" /\ UsesFormat(json) /\ json.format \notin Formats
         -> "StringTypeUnsupportedFormat"
    [] method = "integer" /\ ~InOrder(json, "minDigits", "maxDigits", 1) -> "MaxBoundError"
    [] method = "number"
         /\ ~(/\ InOrder(json, "minDigitsInteger", "maxDigitsInteger", 1)
              /\ InOrder(json, "minDigitsFraction", "maxDigitsFraction", 0)
              /\ InOrder(json, "minDigitsExponent", "maxDigitsExponent", 0)) -> "MaxBoundError"
    [] OTHER -> "none"

----------------------------------------------------------------------------
(* The patterns that the methods return, done being those of the schemas   *)
(* they have parsed.                                                       *)
Punct(c) == Text(<<"punct", c>>)
Comma    == Punct(",")
AnyString == Item(<<"strings", 0, Unbounded>>)

Enclosed(open, inside, close) == Punct(open) \o inside \o Punct(close)
KeyValue(key, value)          == key \o Punct(":") \o value

(* The patterns of types.rs: `uri` is a choice without parentheses around  *)
(* it, and `uri` and `email` are anchored and have no quotes.              *)
FormatPattern(format) ==
  LET Anchored(name) == << <<"begin">>, <<"bare", name>>, <<"end">> >> IN
  CASE format = "uri"   -> JoinOr(<<Anchored("uri"), Anchored("urn")>>)
    [] format = "email" -> Anchored("email")
    [] OTHER            -> Item(<<"format", format>>)

(* A user's pattern loses the anchors around it only together.             *)
UserPattern(pattern) ==
  IF pattern[1] = <<"begin">> /\ Last(pattern) = <<"end">>
  THEN Tail(Front(pattern)) ELSE pattern

ParseStringType(obj) ==
  IF UsesLengths(obj)
  THEN Item(<<"strings", OrElse(AsU64(obj, "minLength"), 0),
                         OrElse(AsU64(obj, "maxLength"), Unbounded)>>)
  ELSE IF UsesPattern(obj)
  THEN Group(Enclosed("quote", UserPattern(obj.pattern), "quote"))
  ELSE IF UsesFormat(obj) THEN FormatPattern(obj.format) ELSE AnyString

ParseNumberType(obj) ==
  Item(<< "numbers", Quantifier(obj, "minDigitsInteger", "maxDigitsInteger", 1, 1, 0),
                     Quantifier(obj, "minDigitsFraction", "maxDigitsFraction", 0, 0, 1),
                     Quantifier(obj, "minDigitsExponent", "maxDigitsExponent", 0, 0, 1) >>)

ParseIntegerType(obj) ==
  Item(<<"numbers", Quantifier(obj, "minDigits", "maxDigits", 1, 0, 0), <<>>, <<>> >>)

ParseObjectType(obj, done) ==
  LET member  == KeyValue(AnyString, done[1])
      members == member \o Repeat(Comma \o member, 0, Unbounded)
  IN  IF done = <<>> THEN Enclosed("{", <<>>, "}")
      ELSE Enclosed("{", Repeat(members, AllowEmpty(obj, "minProperties"), 1), "}")

ParseArrayType(obj, done) ==
  LET item  == Group(JoinOr(done))
      times == GetNumItems(obj, "minItems", "maxItems")
      items == item \o Repeat(Comma \o item, times[1], times[2])
  IN  IF done = <<>> THEN Enclosed("[", <<>>, "]")
      ELSE Enclosed("[", Repeat(items, AllowEmpty(obj, "minItems"), 1), "]")

(* The place of a property whose schema hit the recursion limit.           *)
Skipped == <<>>

(* Mutant: a comma behind the last required property too.                  *)
WithCommaBehind(member, i, lastRequired) ==
  IF i <= lastRequired THEN member \o Comma ELSE Comma \o member

(* The i-th property takes the comma between it and the last required one. *)
WithComma(member, i, lastRequired) ==
  CASE i < lastRequired -> member \o Comma
    [] i > lastRequired -> Comma \o member
    [] OTHER            -> member

(* The properties that are parsed, by their places in the order.           *)
IsRequired(obj, i) == obj.order[i] \in Required(obj)

LastRequired(obj, done) ==
  CHOOSE i \in DOMAIN done : /\ IsRequired(obj, i)
                             /\ \A j \in i + 1..Len(done) : ~IsRequired(obj, j)

Member(obj, done, i) == KeyValue(Text(<<"string", obj.order[i]>>), done[i])

(* What the loop adds for the i-th property if some are required.          *)
Fragment(obj, done, i) ==
  LET punctuated == WithComma(Member(obj, done, i), i, LastRequired(obj, done)) IN
  IF done[i] = Skipped THEN <<>>
  ELSE IF IsRequired(obj, i) THEN punctuated ELSE Optional(punctuated)

(* The possible pattern in which the n-th of the members is the last.      *)
UpTo(members, n) ==
  FlattenSeq([i \in 1..n |-> IF i = n THEN members[n] ELSE Optional(members[i] \o Comma)])

ParseProperties(obj, done) ==
  LET kept    == SelectSeq([i \in DOMAIN done |-> i], LAMBDA i : done[i] # Skipped)
      members == [n \in DOMAIN kept |-> Member(obj, done, kept[n])]
  IN  Enclosed("{", IF \E i \in DOMAIN done : IsRequired(obj, i)
                    THEN FlattenSeq([i \in DOMAIN done |-> Fragment(obj, done, i)])
                    ELSE Optional(JoinOr([n \in DOMAIN members |-> UpTo(members, n)])), "}")

Grouped(ps) == [i \in 1..Len(ps) |-> Group(ps[i])]

(* What a call returns.                                                    *)
Result(json, done) ==
  LET method == Method(json) IN
  CASE method = "empty"               -> JoinOr(Grouped(done))
    [] method = "properties"          -> ParseProperties(json, done)
    [] method = "allOf"               -> Group(FlattenSeq(done))
    [] method = "anyOf"               -> Group(JoinOr(done))
    [] method \in {"oneOf", "types"}  -> Group(JoinOr(Grouped(done)))
    [] method = "prefixItems"         -> Enclosed("[", JoinBy(Comma, done), "]")
    [] method = "enum"                ->
         Group(JoinOr([i \in 1..Len(json.enum) |-> Text(json.enum[i])]))
    [] method = "const"               -> Text(json.const)
    [] method = "ref"                 -> done[1]
    [] method = "string"              -> ParseStringType(json)
    [] method = "number"              -> ParseNumberType(json)
    [] method = "integer"             -> ParseIntegerType(json)
    [] method = "array"               -> ParseArrayType(json, done)
    [] method = "object"              -> ParseObjectType(json, done)
    [] method = "boolean"             ->
         Group(JoinOr(<<Text(<<"word", "true">>), Text(<<"word", "false">>)>>))
    [] method = "null"                -> Text(<<"word", "null">>)

----------------------------------------------------------------------------
(* References.  A reference is the sequence of the parts between its "#";  *)
(* the last part is a path, the sequence of its keys.                      *)
IsLocal(parts) == Len(parts) = 1 \/ (Len(parts) = 2 /\ parts[1] = "")

NamesRoot(parts) ==
  IsObject(root) /\ Has(root, "id") /\ root.id # Other /\ parts[1] = root.id

(* The set of the value found in a document, or no value                   *)
Find(document, path) ==
  FoldLeft(LAMBDA found, key :
             {json[key] : json \in {j \in found : IsObject(j) /\ Has(j, key)}}, {document}, path)

ResolveLocalRef(path) == Find(root, path)

RefError(ref) ==
  CASE ref = Other                        -> "RefMustBeAString"
    [] Len(ref) > 2                       -> "InvalidReferenceFormat"
    [] ~IsLocal(ref) /\ ~NamesRoot(ref)   -> "ExternalReferencesNotSupported"
    [] ResolveLocalRef(Last(ref)) = {}    -> "InvalidRefecencePath"
    [] OTHER                              -> "none"

LimitReached == "RefRecursionLimitReached"

(* JSON is finite, and so are the schemas that the parser makes up: a      *)
(* schema is higher than those it is parsed by, though not than those it   *)
(* refers to.                                                              *)
IsHeight(height) ==
  /\ Schemas \subseteq DOMAIN height
  /\ \A json \in DOMAIN height :
       IF Method(json) = "ref"
       THEN json.ref # Other =>
              \A document \in Schemas : Find(document, Last(json.ref)) \subseteq DOMAIN height
       ELSE Refusal(json) = "none" =>
              Subschemas(json) \in Seq({sub \in DOMAIN height : height[sub] < height[json]})

----------------------------------------------------------------------------
(* A call of to_regex that has parsed the schemas done and has todo left.  *)
Frame(json, todo) == [schema |-> json, todo |-> todo, done |-> <<>>]

Running == returned = {} /\ error = "none"

(* A call is about to be made: by Parser's user, or by the call on top.    *)
Calling == Running /\ (stack # <<>> => Last(stack).todo # <<>>)

(* Its argument, and the calls that wait for it.                           *)
Argument == IF stack = <<>> THEN root ELSE Head(Last(stack).todo)

Callers ==
  IF stack = <<>> THEN <<>> ELSE [stack EXCEPT ![Len(stack)].todo = Tail(@)]

(* The call on top goes on with the pattern p in the place of a schema.    *)
GoesOn(p) == [stack EXCEPT ![Len(stack)].done = Append(@, p)]

(* Mutant: `?` behind the call that parses the schema referred to.         *)
DepthAfterSuccess(frame) ==
  IF Method(frame.schema) = "ref" /\ IsLocal(frame.schema.ref) /\ error = "none"
  THEN recursion_depth - 1 ELSE recursion_depth

(* recursion_depth when the call of the frame returns: parse_ref returns   *)
(* early from a reference that names the root.                             *)
DepthAfter(frame) ==
  IF Method(frame.schema) = "ref" /\ IsLocal(frame.schema.ref)
  THEN recursion_depth - 1 ELSE recursion_depth

(* to_regex returns an error at once.                                      *)
Refuse ==
  /\ Calling
  /\ Refusal(Argument) # "none"
  /\ error' = Refusal(Argument)
  /\ stack' = Callers
  /\ UNCHANGED <<root, recursion_depth, returned>>

(* to_regex calls the method of the schema.                                *)
Enter ==
  /\ Calling
  /\ Method(Argument) # "ref"
  /\ Refusal(Argument) = "none"
  /\ stack' = Append(Callers, Frame(Argument, Subschemas(Argument)))
  /\ UNCHANGED <<root, recursion_depth, returned, error>>

(* Mutant: the count is lowered on this way out too, though not yet raised. *)
HitLimitLowering ==
  /\ Calling
  /\ Method(Argument) = "ref"
  /\ recursion_depth > MaxRecursionDepth
  /\ error' = LimitReached
  /\ recursion_depth' = recursion_depth - 1
  /\ stack' = Callers
  /\ UNCHANGED <<root, returned>>

(* parse_ref: the limit comes first, and counts from here; an error that   *)
(* `?` returns leaves the count as it is.                                  *)
HitLimit ==
  /\ Calling
  /\ Method(Argument) = "ref"
  /\ recursion_depth > MaxRecursionDepth
  /\ error' = LimitReached
  /\ stack' = Callers
  /\ UNCHANGED <<root, recursion_depth, returned>>

RefuseRef ==
  /\ Calling
  /\ Method(Argument) = "ref"
  /\ recursion_depth <= MaxRecursionDepth
  /\ RefError(Argument.ref) # "none"
  /\ error' = RefError(Argument.ref)
  /\ recursion_depth' =
       IF error' \in {"RefMustBeAString", "InvalidRefecencePath"}
       THEN recursion_depth + 1 ELSE recursion_depth
  /\ stack' = Callers
  /\ UNCHANGED <<root, returned>>

EnterRef ==
  /\ Calling
  /\ Method(Argument) = "ref"
  /\ recursion_depth <= MaxRecursionDepth
  /\ RefError(Argument.ref) = "none"
  /\ recursion_depth' = recursion_depth + 1
  /\ \E target \in ResolveLocalRef(Last(Argument.ref)) :
       stack' = Append(Callers, Frame(Argument, <<target>>))
  /\ UNCHANGED <<root, returned, error>>

(* The call on top has parsed all its schemas and returns.                 *)
Return ==
  /\ Running
  /\ stack # <<>>
  /\ Last(stack).todo = <<>>
  /\ returned' = {Result(Last(stack).schema, Last(stack).done)}
  /\ recursion_depth' = DepthAfter(Last(stack))
  /\ stack' = Front(stack)
  /\ UNCHANGED <<root, error>>

(* The caller takes the pattern.                                           *)
Take ==
  /\ stack # <<>>
  /\ \E pattern \in returned : stack' = GoesOn(pattern)
  /\ returned' = {}
  /\ UNCHANGED <<root, recursion_depth, error>>

(* The recursion limit concerns one property only.                         *)
Skips(frame) == error = LimitReached /\ Method(frame.schema) = "properties"

(* Mutants: results fall behind the names; the same property once more.    *)
SkipWithoutResult ==
  /\ stack # <<>>
  /\ Skips(Last(stack))
  /\ error' = "none"
  /\ UNCHANGED <<root, recursion_depth, stack, returned>>

SkipRetrying ==
  /\ stack # <<>>
  /\ Skips(Last(stack))
  /\ LET all == Subschemas(Last(stack).schema)
     IN  stack' = [stack EXCEPT ![Len(stack)].todo =
                     SubSeq(all, Len(all) - Len(@), Len(all))]
  /\ error' = "none"
  /\ UNCHANGED <<root, recursion_depth, returned>>

(* parse_properties goes on without a property at the recursion limit...   *)
Skip ==
  /\ stack # <<>>
  /\ Skips(Last(stack))
  /\ stack' = GoesOn(Skipped)
  /\ error' = "none"
  /\ UNCHANGED <<root, recursion_depth, returned>>

(* ...and any other caller returns the error.                              *)
Propagate ==
  /\ error # "none"
  /\ stack # <<>>
  /\ ~Skips(Last(stack))
  /\ recursion_depth' = DepthAfter(Last(stack))
  /\ stack' = Front(stack)
  /\ UNCHANGED <<root, returned, error>>

Init ==
  /\ root \in Schemas
  /\ recursion_depth = 0
  /\ stack = <<>>
  /\ returned = {}
  /\ error = "none"

Next ==
  \/ Refuse \/ Enter \/ HitLimit \/ RefuseRef \/ EnterRef
  \/ Return \/ Take \/ Skip \/ Propagate

(* to_regex runs on its thread until it returns.                           *)
Spec == Init /\ [][Next]_vars /\ WF_vars(Next)

Finished == stack = <<>> /\ ~Running

----------------------------------------------------------------------------
(* The references that are being followed.                                 *)
RefsIn(calls) == {i \in DOMAIN calls : Method(calls[i].schema) = "ref"}

OpenRefs == RefsIn(stack)

(* The counter stays within its type and its limit; every call knows which *)
(* of its schemas it has a result for, is waiting for, and has still to    *)
(* parse.  parse_properties pairs results with names by position, so that  *)
(* a result too many or too few would give a property another's pattern.   *)
TypeOK ==
  /\ root \in Schemas
  /\ recursion_depth \in 0..MaxRecursionDepth + 1
  /\ returned # {} => error = "none"
  /\ \A i \in DOMAIN stack :
       LET frame   == stack[i]
           all     == Subschemas(frame.schema)
           waiting == IF i < Len(stack) \/ ~Running THEN 1 ELSE 0
       IN  Method(frame.schema) # "ref" /\ all \in Seq(ToSet(all)) =>
             frame.todo = SubSeq(all, Len(frame.done) + waiting + 1, Len(all))

(* "Currently maximum recursion depth is cautiously defined at the level   *)
(* 3" (src/src/json_schema/mod.rs:85): however schemas refer to each       *)
(* other, and whatever calls failed or were skipped before, the parser     *)
(* never follows more references inside one another than the limit allows, *)
(* which is one more than its number.                                      *)
NestingBounded == Cardinality(OpenRefs) <= MaxRecursionDepth + 1

(* The schema does not name itself, so that every reference is local.      *)
Nameless == ~(IsObject(root) /\ Has(root, "id"))

(* The counter is the number of references being followed, and is back at  *)
(* 0 at the end, over all the ways in which a call can return: with a      *)
(* pattern, with the limit's error caught further up, or with another      *)
(* error, but for those that a reference itself makes, which end           *)
(* everything.                                                             *)
DepthCountsOpenRefs ==
  Nameless /\ error \notin {"RefMustBeAString", "InvalidRefecencePath"}
    => recursion_depth = Cardinality(OpenRefs)

(* The limit is one of nesting: a reference is refused only inside of as   *)
(* many others as the limit allows, and never because of references that   *)
(* the schema has elsewhere.                                               *)
HitsLimitNested ==
  error = "none" /\ error' = LimitReached => Cardinality(OpenRefs) > MaxRecursionDepth

RefusedOnlyWhenNested == [][Nameless => HitsLimitNested]_vars

(* The same of all schemas, those with references to their own "$id" too.  *)
LimitIsOnNesting == [][HitsLimitNested]_vars

(* parse_ref and parse_properties cope with schemas that refer to          *)
(* themselves: the call always returns.                                    *)
Returns == <>Finished
=============================================================================
