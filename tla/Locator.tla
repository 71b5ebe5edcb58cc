------------------------------- MODULE Locator -------------------------------
(***************************************************************************)
(* Where the EOS id of a model is looked for                               *)
(* (src/src/vocabulary/locator.rs): a list of places in the configuration  *)
(* files of the model's repository, the first of which that gives an id    *)
(* decides.  An Option is a set: what it holds, or nothing.                *)
(***************************************************************************)
EXTENDS Integers, Sequences

CONSTANTS
  MaxTokenId,   \* u32::MAX
  Alphanumeric  \* the characters for which is_alphanumeric holds

COMMON_LOCATIONS ==
  << [file |-> "generation_config.json", location |-> "Id"],
     [file |-> "tokenizer_config.json",  location |-> "Value"],
     [file |-> "tokenizer_config.json",  location |-> "Object"] >>

(* A name may have the characters - _ . / besides.                         *)
validate(input) == \A i \in DOMAIN input : input[i] \in Alphanumeric \cup {45, 95, 46, 47}

(* Tokenizer::token_to_id, external: added tokens come first.              *)
token_to_id(tokenizer, content) ==
  LET added == {t \in tokenizer.added : t.content = content} IN
  IF added # {} THEN {t.id : t \in added}
  ELSE {tokenizer.vocab[w] : w \in {u \in DOMAIN tokenizer.vocab : u = content}}

(* What EosTokenLocation::lookup makes of the field of the file that has   *)
(* been read: eos_token_id of the one file, eos_token of the other.  A     *)
(* field of another kind, or none, is an error of serde_json.              *)
LookupOf(location, field, tokenizer, ids) ==
  CASE location = "Id" /\ field.kind = "number" -> {field.number} \cap ids
    [] location = "Value" /\ field.kind = "string" -> token_to_id(tokenizer, field.text)
    [] location = "Object" /\ field.kind = "object" -> token_to_id(tokenizer, field.content)
    [] OTHER -> {}

(* Mutant: the number is taken whatever its size.                          *)
LookupUnchecked(location, field, tokenizer) == LookupOf(location, field, tokenizer, Nat)

(* u32::try_from: a number of 64 bits may be too large.                    *)
Lookup(location, field, tokenizer) == LookupOf(location, field, tokenizer, 0..MaxTokenId)
=============================================================================
