----------------------------- MODULE Pretrained -----------------------------
(***************************************************************************)
(* Vocabulary::from_pretrained (src/src/vocabulary/mod.rs): the vocabulary *)
(* of a model on the Hugging Face hub.  The tokenizer is downloaded first, *)
(* then, one after the other, configuration files in which the EOS id may  *)
(* be; each download may fail, and what a branch names may change between  *)
(* them.  Then the added tokens are inserted and the vocabulary of the     *)
(* tokenizer, each in the order of a HashMap.                              *)
(***************************************************************************)
EXTENDS Vocabulary, Locator, Processor

CONSTANTS
  Repos,    \* what the hub has of a model: from names of revisions to commits
  Requests  \* what callers ask for: records with model and revision

(* A tokenizer has finitely many tokens, written in characters, and ids    *)
(* that are u32; a Sequence of decoders is a list of them.                 *)
IsTokenizer(t) ==
  /\ IsFiniteSet(t.added) /\ IsFiniteSet(DOMAIN t.vocab)
  /\ \A added \in t.added : added.content \in Seq(Char) /\ added.id \in 0..MaxTokenId
  /\ \A w \in DOMAIN t.vocab : w \in Seq(Char) /\ t.vocab[w] \in 0..MaxTokenId
  /\ t.decoder.type = "Sequence" => t.decoder.decoders \in Seq(ToSet(t.decoder.decoders))

(* A name stands for one commit, or for several if it is a branch.  A      *)
(* commit has a tokenizer and the files that there are, each of them the   *)
(* one field that is looked at.                                            *)
ASSUME ReposAssumption ==
  \A repo \in Repos : \A r \in DOMAIN repo :
    /\ repo[r] # {} /\ IsFiniteSet(repo[r])
    /\ \A c \in repo[r] :
         /\ DOMAIN c.tokenizer = {"normalizer", "decoder", "added", "vocab"}
         /\ IsTokenizer(c.tokenizer)
         /\ \A f \in DOMAIN c.files : c.files[f].kind = "number" => c.files[f].number \in Nat

VARIABLES
  repo, request, \* what is asked for, of what there is
  pc,
  tokenizer,     \* downloaded, without its Prepend normalizers
  location,      \* the place that is looked at
  processor,
  todo,          \* the tokens still to be inserted, with their ids
  vocabulary,
  result,
  commit,        \* history: the commit the tokenizer is of
  unanswered     \* history: the places whose file was not to be had

input == <<repo, request>>
history == <<commit, unanswered>>
locals == <<tokenizer, location, processor, todo, vocabulary>>
vars == <<input, pc, locals, result, history>>

None     == [kind |-> "None"]
Ok       == [tag |-> "Ok"]
Err(e)   == [tag |-> "Err", error |-> e]

NoTokens == <<>>

main == <<109, 97, 105, 110>>

(* PyVocabulary::from_pretrained: no revision is the default one.          *)
Revision == IF request.revision = {} THEN main ELSE CHOOSE r \in request.revision : TRUE

(* What the hub may answer from.  download_config validates the names that *)
(* Tokenizer::from_pretrained, external, has validated in the same way.    *)
Commits ==
  IF validate(request.model) /\ validate(Revision) /\ Revision \in DOMAIN repo
  THEN repo[Revision] ELSE {}

Init ==
  /\ repo \in Repos /\ request \in Requests
  /\ pc = "load"
  /\ tokenizer = None /\ location = 0 /\ processor = None /\ todo = {}
  /\ vocabulary = None
  /\ result = None
  /\ commit = None /\ unanswered = {}

Fail(error) ==
  /\ pc' = "returned"
  /\ result' = Err(error)

----------------------------------------------------------------------------
(* The tokenizer *)

(* A Prepend is taken out of a Sequence, but not out of one inside of it.  *)
filter_prepend_normalizers(t) ==
  LET Keep(n) == n.type # "Prepend" IN
  CASE t.normalizer.type = "Sequence" ->
         [t EXCEPT !.normalizer.normalizers = SelectSeq(@, Keep)]
    [] t.normalizer.type = "Prepend" -> [t EXCEPT !.normalizer = [type |-> "none"]]
    [] OTHER -> t

LoadTokenizer ==
  /\ pc = "load"
  /\ \E c \in Commits :
       /\ tokenizer' = filter_prepend_normalizers(c.tokenizer)
       /\ commit' = c
  /\ pc' = "locate" /\ location' = 1
  /\ UNCHANGED <<input, processor, todo, vocabulary, result, unanswered>>

(* No network, no such model or revision, no permission, a name that is    *)
(* not valid.                                                              *)
LoadFails ==
  /\ pc = "load"
  /\ Fail("TokenizersError")
  /\ UNCHANGED <<input, locals, history>>

----------------------------------------------------------------------------
(* locate_eos_token_id: COMMON_LOCATIONS.iter().find_map(lookup) *)

Place == COMMON_LOCATIONS[location]

(* Mutant: the revision is not passed on.                                  *)
AnswersFromMain(file) ==
  {c.files[file] : c \in {d \in UNION {repo[r] : r \in {main} \cap DOMAIN repo} :
                            file \in DOMAIN d.files}}

(* download_config, and reading the file.                                  *)
Answers(file) == {c.files[file] : c \in {d \in Commits : file \in DOMAIN d.files}}

(* The first loop: the content as it is, of tokens that are not special.   *)
AddedTokens(t, eos) ==
  {<<Utf8(added.content), added.id>> : added \in {x \in t.added : ~x.special /\ x.id # eos}}

Locate ==
  /\ pc = "locate"
  /\ \E field \in Answers(Place.file) : \E id \in Lookup(Place.location, field, tokenizer) :
       /\ vocabulary' = [eos |-> id, tokens |-> NoTokens]
       /\ todo' = AddedTokens(tokenizer, id)
  /\ pc' = "added"
  /\ UNCHANGED <<input, tokenizer, location, processor, result, history>>

(* Nothing found: the next place, or none is left.                         *)
GoOn ==
  IF location < Len(COMMON_LOCATIONS)
  THEN location' = location + 1 /\ UNCHANGED <<pc, result>>
  ELSE Fail("EOS token id") /\ UNCHANGED location

LookElsewhere ==
  /\ pc = "locate"
  /\ \E field \in Answers(Place.file) : Lookup(Place.location, field, tokenizer) = {}
  /\ GoOn
  /\ UNCHANGED <<input, tokenizer, processor, todo, vocabulary, history>>

(* Mutant: a failing download ends the search.                             *)
GiveUp ==
  /\ pc = "locate"
  /\ unanswered' = unanswered \cup {location}
  /\ Fail("EOS token id")
  /\ UNCHANGED <<input, locals, commit>>

(* The network fails, the file is missing or cannot be read.               *)
Unanswered ==
  /\ pc = "locate"
  /\ unanswered' = unanswered \cup {location}
  /\ GoOn
  /\ UNCHANGED <<input, tokenizer, processor, todo, vocabulary, commit>>

----------------------------------------------------------------------------
(* The tokens *)

(* vocabulary.try_insert(token, id)?                                       *)
TryInsert(token, id, item) ==
  IF MayInsert(vocabulary, id)
  THEN /\ vocabulary' = Inserted(vocabulary, token, id)
       /\ todo' = todo \ {item}
       /\ UNCHANGED <<pc, result>>
  ELSE Fail("EOSTokenDisallowed") /\ UNCHANGED <<vocabulary, todo>>

InsertAdded ==
  /\ pc = "added"
  /\ \E item \in todo : TryInsert(item[1], item[2], item)
  /\ UNCHANGED <<input, tokenizer, location, processor, history>>

(* The second loop: get_vocab(false), the tokenizer's own vocabulary.      *)
VocabTokens(t, eos) == {<<w, t.vocab[w]>> : w \in {u \in DOMAIN t.vocab : t.vocab[u] # eos}}

MakeProcessor ==
  /\ pc = "added" /\ todo = {}
  /\ \E p \in NewProcessor(tokenizer.decoder) : processor' = p
  /\ todo' = VocabTokens(tokenizer, vocabulary.eos)
  /\ pc' = "tokens"
  /\ UNCHANGED <<input, tokenizer, location, vocabulary, result, history>>

NoProcessor ==
  /\ pc = "added" /\ todo = {}
  /\ NewProcessor(tokenizer.decoder) = {}
  /\ Fail("Token processor")
  /\ UNCHANGED <<input, locals, history>>

InsertToken ==
  /\ pc = "tokens"
  /\ \E item \in todo : \E token \in Process(processor, item[1]) :
       TryInsert(token, item[2], item)
  /\ UNCHANGED <<input, tokenizer, location, processor, history>>

(* Mutant: a token that cannot be processed is left out.                   *)
SkipToken ==
  /\ pc = "tokens"
  /\ \E item \in todo : Process(processor, item[1]) = {} /\ todo' = todo \ {item}
  /\ UNCHANGED <<input, pc, tokenizer, location, processor, vocabulary, result, history>>

(* Mutant: it is tried again.                                              *)
ProcessAgain ==
  /\ pc = "tokens"
  /\ \E item \in todo : Process(processor, item[1]) = {}
  /\ UNCHANGED vars

ProcessFails ==
  /\ pc = "tokens"
  /\ \E item \in todo : Process(processor, item[1]) = {}
  /\ Fail(ProcessError(processor))
  /\ UNCHANGED <<input, locals, history>>

Return ==
  /\ pc = "tokens" /\ todo = {}
  /\ pc' = "returned" /\ result' = Ok
  /\ UNCHANGED <<input, locals, history>>

Download == LoadTokenizer \/ LoadFails \/ Locate \/ LookElsewhere \/ Unanswered

Compute == InsertAdded \/ MakeProcessor \/ NoProcessor \/ InsertToken \/ ProcessFails \/ Return

Next == Download \/ Compute

(* The thread goes on with what it has; nothing is assumed of the hub.     *)
Spec == Init /\ [][Next]_vars /\ WF_vars(Compute)

----------------------------------------------------------------------------
(* Properties *)

(* Type invariant.                                                         *)
TypeOK ==
  /\ repo \in Repos /\ request \in Requests
  /\ pc \in {"load", "locate", "added", "tokens", "returned"}
  /\ pc \in {"locate", "added", "tokens"} => location \in DOMAIN COMMON_LOCATIONS
  /\ pc \in {"added", "tokens"} =>
       /\ vocabulary = [eos |-> vocabulary.eos, tokens |-> vocabulary.tokens]
       /\ vocabulary.eos \in 0..MaxTokenId
       /\ \A w \in Tokens(vocabulary) :
            w \in Seq(Byte) /\ vocabulary.tokens[w] \in Seq(0..MaxTokenId)
       /\ \A item \in todo : item[2] \in 0..MaxTokenId \ {vocabulary.eos}
  /\ pc = "tokens" => processor \in NewProcessor(tokenizer.decoder)
  /\ pc = "returned" <=> result # None
  /\ unanswered \subseteq DOMAIN COMMON_LOCATIONS

Loaded == result = Ok

Wanted(t, eos) ==
  ({added.id : added \in {x \in t.added : ~x.special}} \cup Range(t.vocab)) \ {eos}

(* The ids of a vocabulary are those of the tokenizer's own and of its     *)
(* added tokens that are not special, whatever failed on the way: none is  *)
(* lost, and the EOS id, which Index::new takes for the end of the text    *)
(* wherever it meets it, is the id of no token.                            *)
EveryIdLoaded ==
  Loaded => UNION {Ids(vocabulary, w) : w \in Tokens(vocabulary)}
              = Wanted(tokenizer, vocabulary.eos)

(* The table of src/src/vocabulary/processor.rs:29.                        *)
Documented(ch) ==
  CASE ch \in 256..288 -> ch - 256
    [] ch \in 289..322 -> 127 + (ch - 289)
    [] ch = 323 -> 173
    [] OTHER -> ch

Digit(d) == IF d < 10 THEN 48 + d ELSE 55 + d

ByteName(b) == <<60, 48, 120, Digit(b \div 16), Digit(b % 16), 62>>

Upper(ch) == IF ch \in 97..102 THEN ch - 32 ELSE ch

IsByteName(w, b) == Len(w) = 6 /\ [w EXCEPT ![4] = Upper(@), ![5] = Upper(@)] = ByteName(b)

(* What the tokenizer's own decoder, external, makes of a token: each      *)
(* Replace replaces its pattern, then ByteFallback makes <0x__> a byte.    *)
Decoded(decoder, w) ==
  IF decoder.type = "ByteLevel" THEN [i \in DOMAIN w |-> Documented(w[i])]
  ELSE IF \E b \in Byte : IsByteName(w, b) THEN <<CHOOSE b \in Byte : IsByteName(w, b)>>
  ELSE LET written == {d.pattern[1] : d \in {x \in ToSet(decoder.decoders) : x.type = "Replace"}}
       IN  Utf8([i \in DOMAIN w |-> IF w[i] \in written THEN space ELSE w[i]])

(* The tokens that the documentation gives a meaning: the characters of    *)
(* its table, and <0x__> with two digits.                                  *)
Readable(decoder, w) ==
  IF decoder.type = "ByteLevel"
  THEN ToSet(w) \subseteq (256..323) \cup {ch \in Byte : Documented(ch) \in Printable}
  ELSE IsByteToken(Utf8(w)) => \E b \in Byte : IsByteName(w, b)

(* The tokens, other than EOS, of which the documentation says nothing:    *)
(* those with a character that is no byte of the table, and <0x__> with    *)
(* anything but two digits, as a sign, which u8::from_str_radix reads.     *)
Unreadable(t, eos) ==
  {w \in DOMAIN t.vocab : t.vocab[w] # eos /\ ~Readable(t.decoder, w)}

(* The decoder is one of those the documentation speaks of: it replaces    *)
(* at most one character, by a space.                                      *)
IsPlain(decoder) ==
  decoder.type = "Sequence" =>
    LET R == {x \in ToSet(decoder.decoders) : x.type = "Replace"} IN
    Cardinality(R) <= 1 /\ \A x \in R : ReplacesBySpace(x)

Sources(t, eos) ==
  AddedTokens(t, eos)
    \cup {<<Decoded(t.decoder, w), t.vocab[w]>> : w \in {u \in DOMAIN t.vocab : t.vocab[u] # eos}}

(* A token has the bytes that the model means by it: those its own decoder *)
(* would write.  And it has each id once for each place it comes from, in  *)
(* whatever order the maps gave them out.                                  *)
TokensDecode ==
  Loaded =>
    /\ IsPlain(tokenizer.decoder) /\ Unreadable(tokenizer, vocabulary.eos) = {} =>
         UNION {{w} \X Ids(vocabulary, w) : w \in Tokens(vocabulary)}
           = Sources(tokenizer, vocabulary.eos)
    /\ VocabLen(vocabulary) = 1 + Cardinality(AddedTokens(tokenizer, vocabulary.eos))
                                + Cardinality(VocabTokens(tokenizer, vocabulary.eos))

EosAt(c, i) ==
  LET file == COMMON_LOCATIONS[i].file IN
  IF file \in DOMAIN c.files
  THEN Lookup(COMMON_LOCATIONS[i].location, c.files[file], c.tokenizer) ELSE {}

(* The places in which a commit has an EOS id.                             *)
PlacesOf(c) == {i \in DOMAIN COMMON_LOCATIONS : EosAt(c, i) # {}}

Pinned == Revision \in DOMAIN repo /\ Cardinality(repo[Revision]) = 1

Located == pc \in {"added", "tokens"} \/ Loaded

(* "List of common eos token locations appearing on hugging face hub,      *)
(* ordered by priority" (src/src/vocabulary/locator.rs:11): for a revision *)
(* that names one commit, the EOS id is the one of the tokenizer's own     *)
(* commit, from the first place that has one and was answered.             *)
FirstAnswerDecides ==
  Located /\ Pinned =>
    \E i \in PlacesOf(commit) \ unanswered :
      /\ vocabulary.eos \in EosAt(commit, i)
      /\ \A j \in PlacesOf(commit) \ unanswered : i <= j

(* A download that fails costs nothing as long as another place has the    *)
(* id: a load fails only if no place that was answered has it, or for a    *)
(* decoder or a token, other than EOS, of which the documentation does not *)
(* say what it means.                                                      *)
FailsForAReason ==
  result # None /\ ~Loaded /\ commit # None /\ Pinned =>
    \/ PlacesOf(commit) \subseteq unanswered
    \/ NewProcessor(tokenizer.decoder) = {}
    \/ vocabulary # None /\ Unreadable(tokenizer, vocabulary.eos) # {}

(* Once the EOS id is located nothing is waited for: the load returns.     *)
Returns == pc = "added" ~> pc = "returned"
=============================================================================
