---------------------------- MODULE MCPretrained ----------------------------
(* Values of the constants of Pretrained for TLC.                          *)
EXTENDS Pretrained, TLC

(* Letters are their ASCII codes; the names have letters and digits only.  *)
a == 97
b == 98
one == 49

gpt2 == <<a, b, one>>
pinned == <<b, one>>
invalid == <<a, 58>>

MCRequests ==
  { [model |-> gpt2, revision |-> {}], [model |-> gpt2, revision |-> {pinned}],
    [model |-> gpt2, revision |-> {invalid}], [model |-> <<a>>, revision |-> {<<one>>}] }

(* The mark that stands for a space in sentencepiece, and in GPT-2.        *)
lower_block == 9601
dotted_g == 288

eos_text == <<60, 47, 62>>  \* </>

Added(content, id, special) == [content |-> content, id |-> id, special |-> special]
Tokenizer(norm, decoder, added, vocab) ==
  [normalizer |-> norm, decoder |-> decoder, added |-> added, vocab |-> vocab]

NoNormalizer == [type |-> "none"]
Prepend == [type |-> "Prepend"]
Normalizers(ns) == [type |-> "Sequence", normalizers |-> ns]

ByteLevelDecoder == [type |-> "ByteLevel"]
Fallback == [type |-> "ByteFallback"]
Replace(kind, pattern, content) ==
  [type |-> "Replace", kind |-> kind, pattern |-> pattern, content |-> content]
Decoders(ds) == [type |-> "Sequence", decoders |-> ds]
Fuse == [type |-> "Fuse"]
Llama == Decoders(<<Replace("String", <<lower_block>>, <<space>>), Fallback, Fuse>>)

(* Every character of the byte level in one token, and the first one that  *)
(* is none.                                                                *)
AllChars ==
  [i \in 1..256 |-> CASE i <= 68 -> 255 + i
                       [] i \in 69..162 -> 33 + (i - 69)
                       [] i \in 163..174 -> 161 + (i - 163)
                       [] OTHER -> 174 + (i - 175)]

(* As GPT-2: the EOS token is special and in the vocabulary too.           *)
Gpt2 ==
  Tokenizer(NoNormalizer, ByteLevelDecoder,
    {Added(eos_text, 3, TRUE), Added(<<space, 233>>, 4, FALSE)},
    (eos_text :> 3) @@ (<<dotted_g, a>> :> 0) @@ (AllChars :> 1) @@ (<<a>> :> 2))

(* As Llama: <s> is special, in the vocabulary, and not the EOS token; two *)
(* tokens, a and <0x61>, have the same bytes.                              *)
LlamaTokenizer ==
  Tokenizer(Normalizers(<<Prepend, Replace("String", <<space>>, <<lower_block>>)>>), Llama,
    {Added(eos_text, 2, TRUE), Added(<<60, 115, 62>>, 1, TRUE), Added(<<b>>, 5, FALSE)},
    (eos_text :> 2) @@ (<<60, 115, 62>> :> 1) @@ (<<60, 48, 120, 54, 49, 62>> :> 3)
      @@ (<<a>> :> 4) @@ (<<lower_block, 233>> :> 0) @@ (<<b>> :> 5))

(* Lower-case digits, a sign, a character of four bytes.                   *)
Odd ==
  Tokenizer(Prepend, Decoders(<<Fallback>>), {},
    (eos_text :> 0) @@ (<<60, 48, 120, 102, 70, 62>> :> 1) @@ (<<128512>> :> 2)
      @@ (<<lower_block>> :> 3))

(* Two characters for a space, of which the last one counts.               *)
TwoMarks ==
  Tokenizer(Normalizers(<<Normalizers(<<Prepend>>)>>),
    Decoders(<<Replace("String", <<95>>, <<space>>), Replace("String", <<lower_block>>, <<space>>),
               Replace("String", <<a, b>>, <<space>>), Fallback>>), {},
    (eos_text :> 0) @@ (<<95, lower_block>> :> 1) @@ (<<60, 48, 120, 43, 97, 62>> :> 2))

(* Tokens that cannot be processed, next to one that can.                  *)
Broken ==
  { Tokenizer(NoNormalizer, ByteLevelDecoder, {}, (eos_text :> 0) @@ (<<space>> :> 1) @@ (<<a>> :> 2)),
    Tokenizer(NoNormalizer, Llama, {},
      (eos_text :> 0) @@ (<<60, 48, 120, 103, 49, 62>> :> 1) @@ (<<a>> :> 2)) }

(* Decoders that are not supported, the last one for its pattern.          *)
Unsupported ==
  {Tokenizer(NoNormalizer, d, {Added(<<b>>, 5, FALSE)}, (eos_text :> 0) @@ (<<a>> :> 1)) :
     d \in {[type |-> "none"], Fuse, Decoders(<<Fuse>>),
            Decoders(<<Replace("Regex", <<a>>, <<space>>), Fallback>>)}}

Number(n) == [kind |-> "number", number |-> n]
Text(t) == [kind |-> "string", text |-> t]
Object(t) == [kind |-> "object", content |-> t]
Other == [kind |-> "other"]

Files(generation, config) ==
  (IF generation = None THEN <<>> ELSE "generation_config.json" :> generation)
    @@ (IF config = None THEN <<>> ELSE "tokenizer_config.json" :> config)

Commit(t, generation, config) == [tokenizer |-> t, files |-> Files(generation, config)]

(* Every pair of contents of the two files: the id of the EOS token or of  *)
(* another, one above u32::MAX, a list of ids; the text of the EOS token,  *)
(* of another or of none.                                                  *)
Configs ==
  {Commit(LlamaTokenizer, g, c) :
     g \in {None, Number(2), Number(7), Number(99), Other},
     c \in {None, Text(eos_text), Object(eos_text), Text(<<a>>), Object(<<a, a>>), Other}}

(* A branch that names one commit, and one that moves.                     *)
Repo(commits, c) == (main :> commits) @@ (pinned :> {c})

AllRepos ==
  LET Plain(t) == Commit(t, None, Text(eos_text)) IN
  {Repo({c}, c) : c \in Configs}
    \cup {Repo({Plain(t)}, Plain(t)) : t \in {Gpt2, Odd, TwoMarks} \cup Broken \cup Unsupported}
    \cup {Repo({Commit(Gpt2, Number(3), None), Commit(Odd, Number(0), Object(eos_text))},
               Commit(Odd, Number(1), Object(eos_text)))}

(* LETs, so that the coverage of TLC does not report on them at each use.  *)
MCRepos == LET repos == AllRepos IN repos

MCAlphanumeric == (48..57) \cup (65..90) \cup (97..122)
=============================================================================
