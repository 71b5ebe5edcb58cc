# Verification of outlines-core

outlines-core constrains the text that a language model generates: a regular
expression (perhaps made from a JSON schema) and the tokens of the model become
an *index*, a table of the tokens that may come next; a *guide* walks the table
while the model generates, and writes the allowed ids as a bit mask over the
model's logits. The modules in this directory model that system in TLA+. TLC
checks them on small instances; TLAPS proves the main results for all instances.

## The system

| part | source | state | operations |
|---|---|---|---|
| byte automaton | regex-automata (external) | immutable table | next state, end of input, dead, quit, match |
| vocabulary | `src/src/vocabulary/mod.rs` | EOS id, map from tokens to ids | try_from, try_insert, remove, token_ids, len |
| index construction | `src/src/index.rs` | states met, work stack, table | `Index::new` |
| index | `src/src/index.rs` | immutable table | allowed_tokens, is_final_state, next_state |
| guide | `src/src/python_bindings/mod.rs` | a state of a shared index | advance, get_tokens, is_finished, reset |
| bit mask | `src/src/python_bindings/mod.rs` | none; writes a caller's memory | write_mask_into |
| Python threads | `src/src/python_bindings/mod.rs` | GIL, borrows of the vocabulary | insert, remove, get, `__len__`, `Index(...)`, from_pretrained |
| mask kernels | `src/outlines_core/kernels/` | masks, views of one memory; logits | allocate, fill, apply |
| pretrained vocabulary | `src/src/vocabulary/{mod,locator,processor}.rs` | tokenizer, place of the EOS id, tokens still to be inserted | from_pretrained, locate_eos_token_id, process |
| JSON schema parser | `src/src/json_schema/` | call stack, depth of references | to_regex and a method per keyword |

How they interact. A program makes a vocabulary, from Python perhaps shared by
threads. `Index::new` reads the vocabulary while it walks the automaton, without
the GIL. The index is behind an `Arc` and never changes; each guide is a state
and a reference to it. For each token the program asks the guide to write its
mask, applies the mask to the logits, samples an id and advances the guide.

What is hard, part by part, and what makes the part correct:

* **Index construction.** The order of a `HashMap`; a match flag that speaks of the
  text one byte ago; empty tokens, tokens without ids, ids with two tokens.
  Correct: the table is the one that automaton and vocabulary determine,
  whatever the order, and the call returns.
* **Guide.** `advance` moves before it can fail; the EOS id is listed but
  refused. Correct: the state is that of the text, ids on offer and the finished
  flag are functions of the text, errors do not move the guide.
* **Mask.** A raw pointer and a size; a buffer used again and again; ids above
  the number of ids. Correct: exactly the ids on offer, and no byte outside the
  buffer.
* **Threads.** The index is built without the GIL from a vocabulary that others
  may change; Python code runs while an argument is extracted. Correct: each
  call takes place at one moment or is refused, no borrow outlives its call, and
  no build holds up another thread.
* **JSON schema.** Methods that call `to_regex` for the schemas inside of a
  schema, while one counter, shared by all calls, limits how deep references are
  followed; the limit's error is caught halfway up. Commas that depend on which
  properties are there; quantifiers lowered by one; strings that are pasted, so
  that `|` binds weaker than what surrounds it. Correct: the parser returns,
  the counter is the number of references being followed, and the pattern
  accepts exactly the texts that the schema describes.
* **Kernels.** Three libraries with checks of their own in front of one raw
  write; views with gaps and arrays of other devices, whose address and size
  name memory that is not theirs; logits narrower or wider than the mask; the size
  of a mask worked out in four places. Correct: what is left of the logits are
  the ids that the guide will accept, and a fill touches its array only.
* **Pretrained vocabulary.** A tokenizer and up to three files, downloaded one
  after the other, each of which may fail, while a branch may move; added tokens and
  the model's own tokens overlap; bytes are written as other characters in two
  ways. Correct: the EOS id is that of the first place that answers, no id is lost
  and none is the EOS id, each token has the bytes that the model means by it,
  and a failure that has a remedy costs nothing.

## The modules

| module | models | correspondence |
|---|---|---|
| `Automaton` | external DFA | a record; `next`, `stuck`, `match`, `eoi` are the calls `index.rs` makes. `Run`, `Alive`, `After`: the byte loop over a whole word |
| `Determinize` | `DFA::new`, external | leftmost-first subset construction, matches one byte late. For runs only |
| `Vocabulary` | `Vocabulary` | a record `[eos, tokens]`; one operator per method |
| `Index` | the result of `Index::new`, the query methods | `IsIndex` says what the table is, without the loop |
| `IndexSpec` | what a caller of `Index::new` sees | one step returns an error or an index |
| `IndexBuild` | the loop of `Index::new` | one action per loop step; a variable per local of the function |
| `Guide` | `PyGuide` | `state` is the field; `text` is a history variable |
| `Recognizer` | what a user of a guide sees | ids on offer and finished flag as functions of the text |
| `Mask` | `write_mask_into` | `memory` is a set of bits per element; `written` is a history variable |
| `Kernels` | `kernels/{numpy,torch,mlx}.py` | a mask is `[data_ptr, shape, stride, dtype, cpu]`, a view of `memory`; logits are the set of their finite columns. `Fill`, `FillRejected`, `Apply`, `ApplyRejected` are the functions of the three modules, `GuideCall` any other call of the guide; `filled` is a history variable |
| `Locator` | `locator.rs` | the list of places, and what a lookup makes of a file's field |
| `Processor` | `processor.rs` | strings as code points, tokens as bytes; one operator per function |
| `Pretrained` | `Vocabulary::from_pretrained` | a variable per local of the function; one action per outcome of a download and per insertion; `commit` and `unanswered` are history variables |
| `Session` | threads on one `PyVocabulary` | GIL, borrow flags, a program counter per thread |
| `AtomicVocabulary` | what the threads may rely on | a call is asked, and returns in one step or is refused |
| `Pattern` | the strings that the parser writes | a sequence of items in which the bar of a choice is an item of its own; parentheses make one item |
| `JsonSchema` | `json_schema::parsing::Parser` | `root` and `recursion_depth` are the fields, `stack` the calls of `to_regex`; actions are calls and returns |
| `JsonMeaning` | the documentation of `json_schema`; the words of a pattern | recursive operators over bounded texts. For runs only |
| `Examples`, `MC*` | constants of the runs | expressions and vocabularies of the repository's tests, and harder ones |
| `Basics`, `*Theorems`, `*Proofs` | | theorems and proofs |

`Kernels` extends `Mask`, which extends `Guide`, which extends `Index`, which extends `Automaton` and
`Vocabulary`; `Pretrained` extends `Vocabulary`, `Locator` and `Processor`; `Session`
extends `Vocabulary`; `JsonMeaning` extends `JsonSchema`,
which extends `Pattern`. `Guide` is given indexes that
satisfy `IsIndex`, which is what `IndexBuild` is proved to return. `Session`
abstracts a build to the two moments at which `Index::new` reads the vocabulary
(`Measure`, the length; `Explore`, the loop over the tokens).

Faithfulness in a few points:

* The automaton is leftmost-first, as the crate's default: the second branch of
  `a|ab` adds nothing. `MCIndexBuild` asserts that the construction gives,
  state for state, the tables of the tests in `index.rs`.
* A `HashMap` is a partial function; an iteration takes any token that is left,
  in a new order for every state.
* `advance` moves first and then asks for the tokens; its error after the move is
  in the model.
* A JSON object is a record, and the order of `properties`, which serde_json keeps,
  a field `order`. Where the code asks for a value of one kind (`as_u64`, `as_str`),
  `Other` stands for every other kind. `parse_type_array` calls `parse_type_string`
  without `to_regex`; in the model it is a call with the one type, which takes the
  same branch. Signs, whitespace and the letters of keys and strings are left out;
  a number is its first digit and the numbers of its digits.
* In `Session`, `bytes` and other non-`str` arguments pass through a step in
  which Python code may run and the GIL may be lost, since telling a `Vec<u8>`
  asks `collections.abc.Sequence`. A call from within such code is counted as a
  call of another thread. A borrow that cannot be had is a `RuntimeError`. A download
  keeps the GIL; what it loads is the business of `Pretrained`, since the new
  vocabulary is not shared with any thread yet.
* The kernels of numba, torch and Metal are translated by what each does to a
  column: -infinity or not. The logits are masked once for a token. A mask on another
  device has an address that is not one of the memory, and there is no such array
  with numpy. The torch kernel raises for logits wider than the mask, as
  `narrow` does, before or after the columns beyond are masked, according to
  whether the compiler or the run meets the error.
* In `Pretrained` a revision names a set of commits, one of which answers each
  download; any download may fail. Which files a commit has and the fields that are
  read are constants. Normalizers and decoders are records with the fields that
  the code reads. A hexadecimal number may have a sign, as `from_str_radix` takes it.

## What the runs check

| run | question | bounds |
|---|---|---|
| `IndexBuild` | does the loop build the right table in every order, and return? | 6 expressions, 3 vocabularies of 4 or 5 tokens |
| `Guide` | does a guide follow its text, offer what it should, and never strand? | 8 indexes, `MaxText` = 5 bytes |
| `Mask` | do masks show the current text and nothing else change, is what the kernels leave of the logits what the guide accepts, and does `advance` take whatever is sampled from it? | 3 indexes, `MaxText` = 3, elements of `Bits` = 4 bits, `MemWords` = 6, 5 raw calls, 7 arrays, 5 shapes of logits |
| `Pretrained` | is the EOS id the right one, every token there with its bytes, and no load in vain? | 40 repositories, 4 requests, `MaxTokenId` = 9 |
| `Session` | are calls atomic, borrows given back, threads not held up? | 3 threads, one token, `MaxLen` = 3, 11 calls |
| `Schema` | does the parser return, count its references, and write the pattern the schema means? | 263 schemas, `MaxRecursionDepth` = 1, texts of up to 20 tokens, `MaxDigits` = 2 |
| `LostContinuation`, `DeadEnd`, `DroppedIds` | see the findings | as above |
| `LeakedDepth`, `RequiredDropped`, `EmptySchema` | see the findings | 1 to 4 schemas |

Why the bounds are enough. The expressions have automata with final states that
go on, states that pass a match, loops back to the start, and none at all. The
vocabularies have tokens of two bytes, of none, without ids, with two ids, and
two tokens with one id, which lead to the same state or to different ones, so that
the order of the `HashMap` shows. `MaxText` reaches every state of every automaton and
goes round each loop. Four bits an element give ids on both sides of each
boundary; the vocabularies have eight ids, which fill two elements, nine, which
begin a third, and ids with gaps. Buffers are null, misaligned, too short, exact,
longer, overlapping; arrays are the rows of a batch and that batch, a vector, a
view with gaps, one of eight-byte elements and one of another device. The logits are
narrower than a mask, between two masks, and wider than any, as a vector, a row, two
rows and in three dimensions, so that each check fires and passes.
The repositories take every pair of contents of the two files (the EOS id, another,
one above the largest id, one of another kind, none; the text of the EOS token, of
another and of none, alone and in an object) with one tokenizer, and five more tokenizers
and four decoders that are not supported with one file; one branch moves between two commits that
disagree on everything. Tokens have every character of the byte level, one that is no such
character, characters of one to four bytes, bytes in lower case, with a sign and
with no digit, and two tokens have the same bytes.
Three threads are a builder, a writer and a reader at once; one token suffices
since calls on a vocabulary conflict whatever their token, and `MaxLen` lets the
token gain an id, lose them and be missing.

The schemas take every pair of bounds from 0 to 3 or none, for array elements,
properties, lengths and digits: a bound of 0, the first two that lowering by one
tells apart, and an inverted pair; every set of required properties among three,
with each of them, or none, referring to the root; and references beside one
another, in one another, through definitions, arrays and choices, to missing
paths, to other documents, and by the root's name. `MaxRecursionDepth` is 1
where the code has 3: a limit reached after two references in one another is
reached by the same steps, with fewer copies. Each schema of `MeansWhatItSays`
has a length of text that is enough for all its properties, or for one element
more than its bounds, or for its references unfolded to the limit. Texts are
compared both ways: all that the pattern accepts up to that length is all that
the schema means. Values without constraints are cut at a depth, 2 unless a keyword
`depth` says otherwise; the lengths of the arrays with `maxItems` 1 (8 tokens, and 6 with
`depth` 1) and of the objects with a `depth` (6 and 8) reach one level beyond the cut, those
of the empty schema and of unbounded objects and arrays do not, since the pairs and triples of
numbers that fit into such a text are too many. The schemas of `ReadAs` deviate from the
documentation (see the end of the findings), and are compared as exactly, with the
schema that the parser reads them as and the texts it accepts besides. Those of `Others` are
parsed only: they have an error, or lose a required property (finding 5).

`CHECK_DEADLOCK FALSE` is said of `IndexBuild`, `Pretrained` and the runs of the schema
parser only, where the call returns and nothing follows.

### Fairness

`IndexBuild` and `JsonSchema` assume `WF_vars(Next)`: the call runs on its thread
until it returns. `Pretrained` assumes `WF_vars(Compute)`, the steps that need no
download, and nothing of the hub, which may never answer: `Returns` starts where the EOS id
is found. `Session` assumes strong fairness of a thread's losing the GIL while it
runs Python code (CPython sets a drop request after the switch interval when
another thread waits), of its getting the GIL (a waiting thread is served in the
end) and of the steps of a method that has it. Nothing is assumed of the steps
without the GIL: a build may take for ever, and still `BuildStopsNobody` and
`CallsReturn` hold. Nothing is assumed of the network either, and a download keeps the
GIL: one that never ends stops every thread (`Stuck`), and it is the only thing that
does. `src/benchmarks/bench_regex_guide.py` builds indexes from
several threads on one vocabulary in this way. `Guide` and `Mask` have no
fairness and no liveness property: what comes next is up to the caller.

## What the runs found

1. **A continuation may be lost** (`NoContinuationLost`, `index.rs:138`). A token
   is entered in the table if it leads to a state that reports no match or that
   matches at the end. The flag is one byte late: with `a(bc)?`, the state after
   `ab` reports the match of `a`, does not match at the end, and so `b` is not
   offered after `a`, although `abc` matches. `NeverStranded` shows the other
   side: with a token for every byte, whatever is offered leads to a final state.
2. **A guide may have no tokens** (`NoneNeverHappens`, `mod.rs:53`). The comment
   says that this should not happen for states the index offers. It does when
   the vocabulary has no token that goes on from a state, as in
   `a(bc)?` with the tokens `a` and `bc` and a stray `b`, or after 1. `ErrorKeepsPlace`
   shows that the error then comes after the move, and that nothing but `reset`
   helps.
3. **An allowed id may have no bit** (`EveryAllowedBitSet`, `mod.rs:131`). The
   buffer is measured by the number of ids, not by the largest one. `DenseIdsFit`
   shows that it is large enough when the ids are the numbers below that number,
   and `WritesOnlyBuffer` that nothing is written beyond it.
4. **The limit of references leaks** (`LimitIsOnNesting`, `parsing.rs:295`).
   A reference that names the root by its `$id` returns before the counter is
   lowered, so that such references are counted wherever they are: the fifth one in a
   schema is refused (the third one with the limit of the run), and its property is
   left out. `RefusedOnlyWhenNested` shows that all other references are
   refused only for depth, and `NestingBounded` that the leak never
   lets the parser go deeper.
5. **A required property may be left out** (`RequiredPresent`, `parsing.rs:121`).
   When the schema of a property hits the limit the property is skipped, required or
   not; the innermost object of a recursive schema then lacks it.
6. **The pattern of an empty schema falls apart** (`EmptyMeansAnything`,
   `parsing.rs:86`). Its alternatives have no parentheses, as those of `anyOf`,
   `oneOf` and arrays have. As the schema of a property, the name belongs to the
   first alternative and what follows to the last.

Other places where the pattern is not what the documentation says, modelled; the run
`Schema` compares each with what it is read as (`ReadAs`): integers of at
most one digit and other bounds that become zero when lowered have no bound at
all; `minDigits` and `minDigitsInteger` above one still allow a zero of one digit, since the
quantifier stands behind a first digit that is none (`DigitsCounted`);
at most n digits of a fraction or an exponent allow none behind the point;
`maxDigitsInteger` without a lower bound above one asks for two digits or a zero; `minProperties` above
one and `maxProperties` above zero have no effect (`ObjectCounts`); `minItems` of one
or more with `maxItems` of zero gives the empty array; `allOf` puts patterns in a row;
`oneOf` is a choice; a user's pattern with a choice takes its quotes apart, and one with a single
anchor matches nothing; the formats `uri` and `email` are anchored and have no quotes, so that a
property with such a format matches nothing. A lower bound above an upper
one gives an array a quantifier that the regex crate refuses (in the model, one that
matches nothing). And values without constraints are cut: arrays and objects nest twice inside an
array or an object (`depth`, a test at `mod.rs:1233` calls it the default depth limit), so that an
empty schema does not allow any JSON value; `Anything` of `JsonMeaning` takes that as their meaning.

Places where the loading of a vocabulary surprises, modelled, and either outside of what the
properties say or allowed by them: a token that is added without being special and
also in the model's own vocabulary has its id twice, and counts twice in `len`; special
tokens that the first loop leaves out come back with the second when the model's own vocabulary has
them; the number in `generation_config.json` is not compared with the tokenizer, so
that it may be the id of an ordinary token, which then disappears as the EOS token would; of
several decoders that write a character for a space the last one counts; a
`Prepend` in a sequence inside of a sequence stays; a token `<0x+a>`, with a sign for a
digit, becomes the byte 10 where the model's own decoder leaves the text; a `Replace` with a regex makes the
decoder one that is not supported; when a branch moves between the downloads, tokenizer
and EOS id may be of two commits (`FirstAnswerDecides` is about revisions that do not).
The documentation of `__len__` speaks of a number without the EOS token, and the code
counts it, as the size that an index takes from it needs.

In the kernels: that of torch raises a `RuntimeError` for logits wider than the mask,
where its comment (`torch.py:45`) says that the columns beyond are set to -infinity; numpy and
mlx do that. No logits of such a call count as masked in `SurvivorsOffered`.

## What is proved

For every automaton with `IsAutomaton`, every vocabulary that the constructor
accepts, any number of threads and any calls:

* `Basics`. What does not belong to one component: a set of natural numbers has a least one;
  what `FlattenSeq` returns, which the library defines by recursion (`FlattenJoins`); and
  vectors of natural numbers that go down (`Countdown`), of which no infinite sequence does
  (`CountdownEnds`).
* `IndexTheorems`. The recursive function behind `Run` exists and satisfies
  its recursion (`RunIsRun`); a run over a concatenation is two runs
  (`RunConcat`). Everything about automata rests on these. `Reachable` is the least
  closed set; lemmas on the query methods; all records that satisfy `IsIndex` have the same
  entries, and differ only in the state of an id that has several targets, as only an id
  of two tokens has (`OneIndex`).
* `IndexBuildProofs`. Each safety invariant of the run `IndexBuild`, and that
  `Index::new` implements `IndexSpec`. The properties are not inductive one by
  one. The invariant `IInv` adds what the loop knows in between: how far the
  current token has been walked (`Walked`), what every finished walk has left
  (`Complete`, for the tokens that the current state is done with too), and which
  states are final so far (`FinalsExplored`). When the stack is empty everything
  seen is explored, `OnlyReachable` and closure make it `Reachable`, and
  `EntriesSound` and `Complete` make the table the one of `IsIndex`. `BuildCountsDown`:
  each step leaves fewer states, tokens or bytes to look at, which takes
  `ExploredOnce`, since a state that came back to the stack would raise their number.
* `GuideProofs`. `FollowsText` from an invariant that ties the state to the run over the
  text, with `RunConcat` for each token; `ErrorKeepsPlace`; and that a guide
  implements `Recognizer`, where the table is unfolded into the runs it stands for.
  `NeverStranded` adds that the guide is at the start or at a state that `Index::new`
  records (`OnTrack`). Of a set of states that entries of the table do not leave, and none of which is
  final, the part that is alive and reports no match is closed under bytes, since each byte
  is a token and its step is recorded: a trap of the automaton itself, which it has not.
  "Some state is reached" is said by way of closed sets, since there is no
  induction over the length of a path.
* `KernelsProofs`. Every property of the run `Mask`, for any number of bits to an element, any
  memory, arrays and shapes. The invariant `KInv` ties three things together: the guide's
  place (from `GuideProofs`), the bits of the buffer last written (`MaskShowsText` with
  the size that passed the checks), and, until the guide is called again, the columns
  left finite (`AppliedInv`). `ImageBits` and `ImageElsewhere` say what
  write_mask_into does to a bit: an element and a bit of it are the place of one number
  (`OnePlace`), and rounding up leaves an element for each (`RoundedUp`).
  `SurvivorsOffered` is then a matter of addresses: column c of row r is the bit c of the
  buffer that starts at that row. Since the table has an entry for every id on offer,
  a program that samples among these columns is never refused (`SampledIsTaken`).
* `PretrainedProofs`. Every safety property of the run, for every tokenizer, and whatever
  the hub does. `EveryIdLoaded`: the ids inserted and those still to be inserted make up
  what is wanted, through both loops. `FirstAnswerDecides`: each place before the one that is
  looked at was not answered or has no EOS id. `FailsForAReason`: from the same, the search
  ends when no place is left (`SearchEnds`), and a token that is documented is processed
  (`ReadableIsProcessed`). `TypeOK`: a token is a sequence of bytes (`ProcessedType`).
  `TokensDecode`: the tokens inserted, and those to do read as their decoder reads them,
  make up the sources (`DecodeInv`), and each insertion moves one. These rest on what the source
  computes with tables: that `CHAR_MAP`, filled by counting over the bytes that do not print, is the
  table of its documentation (`CharMapDocumented`, with the count at each end of a gap by `CharOfByte`);
  that a name `<0x__>` is read as its byte, whatever the case of its digits (`ByteNames`);
  that UTF-8 leaves ASCII as it is (`Utf8Ascii`); that a decoder with one Replace
  writes the character that `Spacechar` finds (`PlainMark`). `LoadCountsDown`: each step,
  one that fails too, leaves fewer phases or fewer places and tokens to do.
* `SessionProofs`. `IInv` adds `ReadsHold`: while a thread builds, the vocabulary
  is still what it has read, since a shared borrow keeps every writer out. From it,
  threads implement `AtomicVocabulary`: an index is that of one vocabulary.
* `JsonSchemaProofs`. For every set of schemas and every limit: the counter stays
  in its range (it is a `usize` that is lowered without a check), no more references
  are followed inside one another than the limit and one (`NestingBounded`), and for
  schemas that do not name themselves the counter is their number
  (`DepthCountsOpenRefs`) and refuses a reference only for depth
  (`RefusedOnlyWhenNested`). The invariant adds that the counter is never below
  the number of references being followed (`CountsAtLeast`, which no leak breaks),
  and that without a name all are local (`AllLocal`). The lemmas say how pushing,
  popping and replacing the topmost call change the set of calls that are references.
  And every call pairs its results with its own schemas (`TypeOK`): those that have a
  result, the one waited for and those to come are its list, in its order, also after
  a property was skipped (`PlaceInv`, which tells a call that waits from one that
  does not).
  *The recursion ends.* A schema is higher than those it is parsed by, but not than what it
  refers to, so that the limit on references is all that bounds the recursion. `CallsBounded`:
  below a reference the height goes down with each call, references inside one
  another are at most the limit and one, so that the stack is at most the limit and two times
  the height and one, over every document that has a height (`IsHeight`: every finite
  one has; `HeightAssumption` has TLC compute one for the schemas of the run). `ParseCountsDown`: the
  schemas that each call has left, from the bottom of the stack to its bound, go down in
  the order of vectors with each call and each result.
  *The commas.* `CommasOfRequired` and `CommasOfOptional`: for any number of properties, any
  order of required and optional ones, and whichever of them an object has, the pattern that is
  left has one comma between each two and none elsewhere, provided that the last required property
  was not skipped (`MembersOf` follows the loop, `SoFar` is its invariant).
  *The bounds.* `CountsOf` reads off a pattern how many elements it allows. `ArrayCounts`: as
  many as `minItems` and `maxItems` allow, unless these contradict each other with a maximum of
  zero. `ObjectCounts`: never fewer than are legal, and only those exactly when the maximum is zero, or
  absent with a minimum of at most one. `DigitsCounted`: an integer has one digit, always, since
  zero is allowed whatever `minDigits` says, or as many as `minDigits` and a `maxDigits` of at
  least two allow (one of zero or one `NonZeroU64` makes no bound); these are the legal numbers of
  digits exactly when `minDigits` is at most one and `maxDigits` is not zero or one.

The assumptions are those named in the modules (`DfaAssumption`,
`VocabularyAssumption`, `BuildsAssumption`, `MaskAssumption`, `KernelsAssumption`,
`ReposAssumption`, `CallsAssumption`, ...); TLC
evaluates each of them in the runs. `FiniteAssumption` of `IndexBuild` says that an automaton
has finitely many states and a vocabulary finitely many tokens. `UnboundedAssumption` and
`OtherAssumption` say that the two model values which stand for `None` are no numbers and
no pairs of them. `BuildsAssumption` asks that no id stands for
two tokens: otherwise a sampled id has no one text. `MaskAssumption` and `KernelsAssumption` ask
that callers own the memory they pass: nothing in the code can know it.

Only model-checked: the liveness properties (`Returns` of three modules, `BuildStopsNobody`,
`CallsReturn`), since ENABLED and fairness are beyond the prover. Half of `Returns` is proved for all
constants: builds, loads and parses take finitely many steps (`BuildCountsDown`, `LoadCountsDown`,
`ParseCountsDown` with `CountdownEnds`); that a step is possible until they have returned
stays with TLC. And the two properties that compare with the meaning
of a schema or an expression, which takes recursion over data: `PatternMeansSchema`, of which
the commas and the bounds are proved,
and `FinishedTextMatches`, which needs `Determinize` too. All other properties of the passing
runs are theorems. `FinishedTextMatches` goes
one way only: a text that the expression matches may not be recognized, since the
automaton is leftmost-first.

What the proofs taught about the model. `NeverStranded` was stated of every automaton
and is false of some: of one that reports a match with no byte in between, and of one
with a trap of its own, as the expression `[a&&b]` has; `MatchesLate` and `NoTrap`
say what it needs, TLC evaluates them for each automaton of the run, and they hold of
all of them. `TokensDecode` was false of a token such as `<0x+a>`, which the code
reads as the byte 10 (`from_str_radix` takes a sign) and which a tokenizer's own
decoder leaves as text; `Unreadable` excludes it. `VocabLen` counts the places of
ids, and `Utf8` is joined from the characters, so that neither needs a fold over
numbers. `ReposAssumption` says that a tokenizer has finitely many tokens, in
characters, with ids that are `u32`. `returned` of `JsonSchema` is an option, `{}` or
the set of a pattern, since no pattern need be known to differ from an empty one; and
its `TypeOK` speaks of schemas whose array is a sequence, as each JSON array is.
`ParseProperties` is split into the operators that its theorems speak of (`Fragment`, `UpTo`),
and the exceptions that `ObjectCounts` and `DigitsCounted` had to make are among those that the
section above lists.

## What is not modelled

* The regex parser and the details of the crate's determinization: external, and larger than
  this repository. `Automaton` fixes what the code asks of them.
* The hub and the tokenizers crate: external. What they may answer is in `Pretrained`.
* Serialization and copies (`__reduce__`, `from_binary`, `__deepcopy__`): bincode and `Clone`
  reproduce each field, and the index that two guides share never changes.
* `Display`, `Debug`, `__repr__`, `__eq__`: they read and change nothing; the wording of errors.
* The conversion of a schema from the command line and from Python (`json_schema.py`),
  re-exports, packaging, benchmarks: no state.
* Of the schema parser: letters of keys, strings and formats, signs, and whitespace patterns,
  which are pasted in and looked at nowhere.

## Plan

Done: `Automaton`, `Index`, `IndexBuild`, `Guide`, `Mask` and the threads around a
vocabulary; the schema parser against `JsonMeaning`, and its counter; `Pretrained`; `Kernels`,
which composes guide, mask and logits into the loop of a generating program; the proofs named above.

Left: that the automata of `Determinize` satisfy `MatchesLate` and `NoTrap`, for every
expression without assertions and without parts that match nothing, is induction over
expressions and stays with TLC, as do the properties named above.
