----------------------------- MODULE Vocabulary -----------------------------
(***************************************************************************)
(* struct Vocabulary (src/src/vocabulary/mod.rs): the tokens of a language *)
(* model and their ids.  A vocabulary is a record [eos, tokens]; tokens    *)
(* maps each token, a sequence of bytes, to the sequence of ids inserted   *)
(* for it.  A partial function stands for the HashMap.                     *)
(***************************************************************************)
EXTENDS Integers, Sequences, FiniteSets, Functions, FiniteSetsExt

Tokens(v) == DOMAIN v.tokens

Ids(v, w) == Range(v.tokens[w])

AllIds(v) == {v.eos} \cup UNION {Ids(v, w) : w \in Tokens(v)}

(* token_ids: None is the empty set.                                       *)
TokenIds(v, w) == IF w \in Tokens(v) THEN {v.tokens[w]} ELSE {}

(* Vocabulary::len: every id of every token, and one for the EOS token.    *)
VocabLen(v) == 1 + Cardinality(UNION {{w} \X DOMAIN v.tokens[w] : w \in Tokens(v)})

(* TryFrom<(TokenId, HashMap<..>)> takes every map without the EOS id.     *)
Accepted(eos, tokens) == \A w \in DOMAIN tokens : eos \notin Range(tokens[w])

(* Mutant: anything may be inserted.                                       *)
MayInsertAny(v, id) == TRUE

(* try_insert refuses the EOS id with EOSTokenDisallowed.                  *)
MayInsert(v, id) == id # v.eos

(* self.tokens.entry(token).or_default().push(id)                          *)
Inserted(v, w, id) ==
  [v EXCEPT !.tokens =
     [u \in Tokens(v) \cup {w} |->
        IF u # w THEN v.tokens[u]
        ELSE Append(IF w \in Tokens(v) THEN v.tokens[w] ELSE <<>>, id)]]

(* remove: all the ids of the token go with it.                            *)
Removed(v, w) == [v EXCEPT !.tokens = [u \in Tokens(v) \ {w} |-> v.tokens[u]]]

(* No token has the id that is reserved for EOS.                           *)
EosReservedIn(v) == Accepted(v.eos, v.tokens)

(* The tokens the token loop of Index::new does not skip.                  *)
Usable(v) == {w \in Tokens(v) : v.eos \notin Ids(v, w)}

(* No id names two tokens.  Nothing in Vocabulary enforces it.             *)
UniqueIds(v) ==
  \A w1, w2 \in Tokens(v) : Ids(v, w1) \cap Ids(v, w2) # {} => w1 = w2
=============================================================================
