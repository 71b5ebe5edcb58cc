-------------------------- MODULE PretrainedProofs --------------------------
(***************************************************************************)
(* The ids and the tokens of a vocabulary that was loaded, the place that  *)
(* its EOS id is from, and the reasons for which a load fails, for all     *)
(* tokenizers and all that a hub may do.                                   *)
(***************************************************************************)
EXTENDS Pretrained, Basics

TokenIdsType == 0..MaxTokenId

(* The ids that a vocabulary has for its tokens.                           *)
IdsOf(v) == UNION {Ids(v, w) : w \in Tokens(v)}

TodoIds == {item[2] : item \in todo}

----------------------------------------------------------------------------
(* Inserting a token *)

LEMMA RangeAppend ==
  ASSUME NEW S, NEW s \in Seq(S), NEW x \in S
  PROVE  Range(Append(s, x)) = Range(s) \cup {x}
<1>1. /\ Append(s, x) \in Seq(S) /\ Len(Append(s, x)) = Len(s) + 1
      /\ \A i \in 1..Len(s) : Append(s, x)[i] = s[i]
      /\ Append(s, x)[Len(s) + 1] = x
  BY AppendProperties
<1>2. /\ DOMAIN s = 1..Len(s) /\ Len(s) \in Nat
      /\ DOMAIN Append(s, x) = 1..(Len(s) + 1)
  BY <1>1, LenProperties
<1>3. 1..(Len(s) + 1) = (1..Len(s)) \cup {Len(s) + 1}
  BY <1>2
<1> QED BY <1>1, <1>2, <1>3 DEF Range

(* A vocabulary whose tokens have sequences of ids.                        *)
IsVocabulary(v) ==
  /\ v = [eos |-> v.eos, tokens |-> v.tokens]
  /\ \A w \in Tokens(v) : v.tokens[w] \in Seq(TokenIdsType)

LEMMA InsertedFacts ==
  ASSUME NEW v, IsVocabulary(v), NEW w, NEW id \in TokenIdsType
  PROVE  /\ IsVocabulary(Inserted(v, w, id))
         /\ Inserted(v, w, id).eos = v.eos
         /\ IdsOf(Inserted(v, w, id)) = IdsOf(v) \cup {id}
         /\ Tokens(Inserted(v, w, id)) = Tokens(v) \cup {w}
         /\ \A u \in Tokens(v) \cup {w} : Inserted(v, w, id).tokens[u] =
              IF u # w THEN v.tokens[u]
              ELSE Append(IF w \in Tokens(v) THEN v.tokens[w] ELSE <<>>, id)
<1> DEFINE old == IF w \in Tokens(v) THEN v.tokens[w] ELSE <<>>
           f == [u \in Tokens(v) \cup {w} |->
                   IF u # w THEN v.tokens[u] ELSE Append(old, id)]
           n == Inserted(v, w, id)
<1>1. old \in Seq(TokenIdsType)
  BY EmptySeq DEF IsVocabulary
<1>2. Range(old) = IF w \in Tokens(v) THEN Ids(v, w) ELSE {}
  <2>1. Range(<<>>) = {}
    BY DEF Range
  <2> QED BY <2>1 DEF Ids
<1>3. Append(old, id) \in Seq(TokenIdsType) /\ Range(Append(old, id)) = Range(old) \cup {id}
  <2> HIDE DEF old
  <2> QED BY <1>1, AppendProperties, RangeAppend
<1>4. v = [eos |-> v.eos, tokens |-> v.tokens]
  BY DEF IsVocabulary
<1> DEFINE eos == v.eos
<1>5. n = [eos |-> eos, tokens |-> f]
  <2> HIDE DEF eos
  <2>1. v = [eos |-> eos, tokens |-> v.tokens]
    BY <1>4 DEF eos
  <2> QED BY <2>1 DEF Inserted
<1> HIDE DEF old
<1>6. /\ v.eos = eos /\ n.eos = eos /\ n = [eos |-> eos, tokens |-> n.tokens]
      /\ Tokens(n) = Tokens(v) \cup {w}
      /\ \A u \in Tokens(v) \cup {w} : n.tokens[u] = IF u # w THEN v.tokens[u] ELSE Append(old, id)
  BY <1>4, <1>5 DEF Tokens
<1> HIDE DEF n, old, f
<1>7. IsVocabulary(n) /\ n.eos = v.eos
  <2>1. \A u \in Tokens(n) : n.tokens[u] \in Seq(TokenIdsType)
    BY <1>3, <1>6 DEF IsVocabulary
  <2> QED BY <1>6, <2>1 DEF IsVocabulary
<1>8. \A u \in Tokens(n) : Ids(n, u) = IF u # w THEN Ids(v, u) ELSE Range(old) \cup {id}
  BY <1>3, <1>6 DEF Ids
<1>9. IdsOf(n) = IdsOf(v) \cup {id}
  <2>1. ASSUME NEW i \in IdsOf(n) PROVE i \in IdsOf(v) \cup {id}
    <3>1. PICK u \in Tokens(n) : i \in Ids(n, u)
      BY DEF IdsOf
    <3> QED BY <1>2, <1>6, <1>8, <3>1 DEF IdsOf
  <2>2. ASSUME NEW i \in IdsOf(v) PROVE i \in IdsOf(n)
    <3>1. PICK u \in Tokens(v) : i \in Ids(v, u)
      BY DEF IdsOf
    <3>2. u \in Tokens(n) /\ i \in Ids(n, u)
      BY <1>2, <1>6, <1>8, <3>1
    <3> QED BY <3>2 DEF IdsOf
  <2>3. w \in Tokens(n) /\ id \in Ids(n, w)
    BY <1>6, <1>8
  <2> QED BY <2>1, <2>2, <2>3 DEF IdsOf
<1> QED BY <1>6, <1>7, <1>9 DEF n, old
----------------------------------------------------------------------------
(* The ids *)

LEMMA Filtered ==
  ASSUME NEW t, DOMAIN t = {"normalizer", "decoder", "added", "vocab"}
  PROVE  LET u == filter_prepend_normalizers(t)
         IN  u.added = t.added /\ u.vocab = t.vocab /\ u.decoder = t.decoder
BY DEF filter_prepend_normalizers

HasIds(t) ==
  /\ \A added \in t.added : added.id \in TokenIdsType
  /\ \A w \in DOMAIN t.vocab : t.vocab[w] \in TokenIdsType

LEMMA CommitFacts ==
  ASSUME repo \in Repos, NEW c \in Commits
  PROVE  LET t == filter_prepend_normalizers(c.tokenizer)
         IN  /\ HasIds(t) /\ IsTokenizer(t)
             /\ t.added = c.tokenizer.added /\ t.vocab = c.tokenizer.vocab
<1>1. Revision \in DOMAIN repo /\ c \in repo[Revision]
  BY DEF Commits
<1>2. /\ DOMAIN c.tokenizer = {"normalizer", "decoder", "added", "vocab"}
      /\ \A t \in c.tokenizer.added : t.id \in 0..MaxTokenId
      /\ \A w \in DOMAIN c.tokenizer.vocab : c.tokenizer.vocab[w] \in 0..MaxTokenId
      /\ IsTokenizer(c.tokenizer)
  BY <1>1, ReposAssumption DEF IsTokenizer
<1>3. IsTokenizer(filter_prepend_normalizers(c.tokenizer))
  BY <1>2, Filtered DEF IsTokenizer
<1> QED BY <1>2, <1>3, Filtered DEF HasIds, TokenIdsType

(* The ids of added tokens that are not special.                           *)
AddedIds(t, eos) == {added.id : added \in {x \in t.added : ~x.special}} \ {eos}

(* What the vocabulary has and what is still to do make up what is wanted. *)
IdsInv ==
  /\ repo \in Repos
  /\ pc \in {"locate", "added", "tokens"} => HasIds(tokenizer)
  /\ pc \in {"added", "tokens"} =>
       /\ IsVocabulary(vocabulary)
       /\ \A item \in todo : item[2] \in TokenIdsType \ {vocabulary.eos}
  /\ pc = "added" => IdsOf(vocabulary) \cup TodoIds = AddedIds(tokenizer, vocabulary.eos)
  /\ pc = "tokens" => IdsOf(vocabulary) \cup TodoIds = Wanted(tokenizer, vocabulary.eos)
  /\ pc # "returned" => result = None
  /\ EveryIdLoaded

LEMMA IdsInit == ASSUME Init PROVE IdsInv
BY DEF Init, IdsInv, EveryIdLoaded, Loaded, None, Ok

(* A call that fails has loaded nothing.                                   *)
LEMMA IdsFail ==
  ASSUME IdsInv, NEW e, Fail(e), repo' = repo
  PROVE  IdsInv'
<1>1. pc' = "returned" /\ result' # Ok
  BY DEF Fail, Err, Ok
<1> QED BY <1>1 DEF IdsInv, EveryIdLoaded, Loaded

LEMMA IdsLocate == ASSUME IdsInv, Locate PROVE IdsInv'
<1>1. PICK id : /\ vocabulary' = [eos |-> id, tokens |-> NoTokens]
                /\ todo' = AddedTokens(tokenizer, id)
  BY DEF Locate
<1>2. /\ pc = "locate" /\ pc' = "added" /\ UNCHANGED <<repo, tokenizer, result>>
      /\ HasIds(tokenizer) /\ result = None
  BY DEF Locate, input, IdsInv
<1>3. /\ IsVocabulary(vocabulary') /\ vocabulary'.eos = id
      /\ Tokens(vocabulary') = {} /\ IdsOf(vocabulary') = {}
  BY <1>1 DEF IsVocabulary, Tokens, NoTokens, IdsOf
<1>4. \A item \in todo' : \E added \in tokenizer.added :
        ~added.special /\ added.id # id /\ item[2] = added.id
  BY <1>1 DEF AddedTokens
<1>5. \A item \in todo' : item[2] \in TokenIdsType \ {id}
  BY <1>2, <1>4 DEF HasIds
<1>6. TodoIds' = AddedIds(tokenizer, id)
  <2>1. ASSUME NEW added \in tokenizer.added, ~added.special, added.id # id
        PROVE  added.id \in TodoIds'
    <3>1. <<Utf8(added.content), added.id>> \in todo'
      BY <1>1, <2>1 DEF AddedTokens
    <3> QED BY <3>1 DEF TodoIds
  <2> QED BY <1>4, <2>1 DEF TodoIds, AddedIds
<1>7. EveryIdLoaded'
  BY <1>2 DEF EveryIdLoaded, Loaded, None, Ok
<1> QED BY <1>2, <1>3, <1>5, <1>6, <1>7 DEF IdsInv

(* Inserting a token moves its id from what is to do.                      *)
LEMMA IdsInsert ==
  ASSUME IdsInv, pc \in {"added", "tokens"}, NEW token, NEW item \in todo,
         TryInsert(token, item[2], item), UNCHANGED <<repo, tokenizer>>
  PROVE  IdsInv'
<1>1. /\ IsVocabulary(vocabulary) /\ result = None
      /\ \A x \in todo : x[2] \in TokenIdsType \ {vocabulary.eos}
  BY DEF IdsInv
<1>2. MayInsert(vocabulary, item[2])
  BY <1>1 DEF MayInsert
<1>3. /\ vocabulary' = Inserted(vocabulary, token, item[2])
      /\ todo' = todo \ {item} /\ UNCHANGED <<pc, result>>
  BY <1>2 DEF TryInsert
<1>4. /\ IsVocabulary(vocabulary') /\ vocabulary'.eos = vocabulary.eos
      /\ IdsOf(vocabulary') = IdsOf(vocabulary) \cup {item[2]}
  BY <1>1, <1>3, InsertedFacts
<1>5. IdsOf(vocabulary') \cup TodoIds' = IdsOf(vocabulary) \cup TodoIds
  BY <1>3, <1>4 DEF TodoIds
<1>6. EveryIdLoaded'
  BY <1>1, <1>3 DEF EveryIdLoaded, Loaded, None, Ok
<1> QED BY <1>1, <1>3, <1>4, <1>5, <1>6 DEF IdsInv

LEMMA IdsMakeProcessor == ASSUME IdsInv, MakeProcessor PROVE IdsInv'
<1>1. /\ pc = "added" /\ todo = {} /\ pc' = "tokens"
      /\ todo' = VocabTokens(tokenizer, vocabulary.eos)
      /\ UNCHANGED <<repo, tokenizer, vocabulary, result>>
  BY DEF MakeProcessor, input
<1>2. /\ IsVocabulary(vocabulary) /\ result = None /\ HasIds(tokenizer)
      /\ IdsOf(vocabulary) = AddedIds(tokenizer, vocabulary.eos)
  BY <1>1 DEF IdsInv, TodoIds
<1>3. \A item \in todo' : \E w \in DOMAIN tokenizer.vocab :
        tokenizer.vocab[w] # vocabulary.eos /\ item[2] = tokenizer.vocab[w]
  BY <1>1 DEF VocabTokens
<1>4. \A item \in todo' : item[2] \in TokenIdsType \ {vocabulary.eos}
  BY <1>2, <1>3 DEF HasIds
<1>5. TodoIds' = Range(tokenizer.vocab) \ {vocabulary.eos}
  <2>1. ASSUME NEW w \in DOMAIN tokenizer.vocab, tokenizer.vocab[w] # vocabulary.eos
        PROVE  tokenizer.vocab[w] \in TodoIds'
    <3>1. <<w, tokenizer.vocab[w]>> \in todo'
      BY <1>1, <2>1 DEF VocabTokens
    <3> QED BY <3>1 DEF TodoIds
  <2> QED BY <1>3, <2>1 DEF TodoIds, Range
<1>6. IdsOf(vocabulary) \cup TodoIds' = Wanted(tokenizer, vocabulary.eos)
  BY <1>2, <1>5 DEF AddedIds, Wanted
<1>7. EveryIdLoaded'
  BY <1>1, <1>2 DEF EveryIdLoaded, Loaded, None, Ok
<1> QED BY <1>1, <1>2, <1>4, <1>6, <1>7 DEF IdsInv
LEMMA IdsStep == ASSUME IdsInv, [Next]_vars PROVE IdsInv'
<1>1. CASE UNCHANGED vars
  BY <1>1 DEF vars, input, locals, history, IdsInv, EveryIdLoaded, Loaded, TodoIds
<1>2. CASE LoadTokenizer
  <2>1. PICK c \in Commits : tokenizer' = filter_prepend_normalizers(c.tokenizer)
    BY <1>2 DEF LoadTokenizer
  <2>2. pc = "load" /\ pc' = "locate" /\ UNCHANGED <<repo, result>>
    BY <1>2 DEF LoadTokenizer, input
  <2>3. HasIds(tokenizer')
    BY <2>1, CommitFacts DEF IdsInv
  <2> QED BY <2>2, <2>3 DEF IdsInv, EveryIdLoaded, Loaded, None, Ok
<1>3. ASSUME \E e : Fail(e), repo' = repo PROVE IdsInv'
  BY <1>3, IdsFail
<1>4. CASE LoadFails \/ NoProcessor \/ ProcessFails
  BY <1>3, <1>4 DEF LoadFails, NoProcessor, ProcessFails, input
<1>5. CASE Locate
  BY <1>5, IdsLocate
<1>6. CASE LookElsewhere \/ Unanswered
  <2>1. /\ pc = "locate" /\ GoOn
        /\ UNCHANGED <<repo, tokenizer, todo, vocabulary>>
    BY <1>6 DEF LookElsewhere, Unanswered, input
  <2>2. CASE UNCHANGED <<pc, result>>
    BY <2>1, <2>2 DEF IdsInv, EveryIdLoaded, Loaded, None, Ok
  <2> QED BY <1>3, <2>1, <2>2 DEF GoOn
<1>7. CASE InsertAdded
  <2>1. PICK item \in todo : TryInsert(item[1], item[2], item)
    BY <1>7 DEF InsertAdded
  <2>2. pc = "added" /\ UNCHANGED <<repo, tokenizer>>
    BY <1>7 DEF InsertAdded, input
  <2> QED BY <2>1, <2>2, IdsInsert
<1>8. CASE MakeProcessor
  BY <1>8, IdsMakeProcessor
<1>9. CASE InsertToken
  <2>1. PICK item \in todo : \E token : TryInsert(token, item[2], item)
    BY <1>9 DEF InsertToken
  <2>2. pc = "tokens" /\ UNCHANGED <<repo, tokenizer>>
    BY <1>9 DEF InsertToken, input
  <2> QED BY <2>1, <2>2, IdsInsert
<1>10. CASE Return
  <2>1. /\ pc = "tokens" /\ todo = {} /\ pc' = "returned"
        /\ UNCHANGED <<repo, tokenizer, vocabulary, todo>>
    BY <1>10 DEF Return, input, locals
  <2>2. IdsOf(vocabulary) = Wanted(tokenizer, vocabulary.eos)
    BY <2>1 DEF IdsInv, TodoIds
  <2> QED BY <2>1, <2>2 DEF IdsInv, EveryIdLoaded, IdsOf
<1> QED BY <1>1, <1>2, <1>4, <1>5, <1>6, <1>7, <1>8, <1>9, <1>10 DEF Next, Download, Compute

(* A vocabulary that was loaded has the ids of the tokenizer's own tokens  *)
(* and of its added ones that are not special, all of them, and never EOS. *)
THEOREM NoIdLost == Spec => []EveryIdLoaded
<1>1. IdsInv => EveryIdLoaded
  BY DEF IdsInv
<1> QED BY <1>1, IdsInit, IdsStep, PTL DEF Spec

----------------------------------------------------------------------------
(* The place of the EOS id *)

(* Only the tokens count, and filter_prepend_normalizers leaves them.      *)
LEMMA SameLookup ==
  ASSUME NEW t, NEW u, t.added = u.added, t.vocab = u.vocab, NEW place, NEW field
  PROVE  Lookup(place, field, t) = Lookup(place, field, u)
BY DEF Lookup, LookupOf, token_to_id

LEMMA Locations == Len(COMMON_LOCATIONS) = 3 /\ DOMAIN COMMON_LOCATIONS = 1..3
BY DEF COMMON_LOCATIONS

(* A revision that names one commit is answered from that one.             *)
LEMMA PinnedAnswers ==
  ASSUME repo \in Repos, Pinned, NEW c \in Commits, NEW file
  PROVE  Answers(file) = IF file \in DOMAIN c.files THEN {c.files[file]} ELSE {}
<1>1. Commits = repo[Revision] /\ Revision \in DOMAIN repo
  BY DEF Commits
<1>2. IsFiniteSet(Commits) /\ Cardinality(Commits) = 1
  BY <1>1, ReposAssumption DEF Pinned
<1>3. PICK x : Commits = {x}
  BY <1>2, FS_Singleton
<1>4. Commits = {c}
  BY <1>3
<1> QED BY <1>4 DEF Answers

(* Every place before the one that is looked at had no EOS id or was not   *)
(* answered.                                                               *)
SearchInv ==
  /\ repo \in Repos
  /\ pc \in {"locate", "added", "tokens"} =>
       /\ commit \in Commits
       /\ tokenizer.added = commit.tokenizer.added
       /\ tokenizer.vocab = commit.tokenizer.vocab
       /\ location \in 1..3
  /\ pc = "locate" =>
       /\ unanswered \subseteq 1..(location - 1)
       /\ Pinned => \A j \in 1..(location - 1) : j \in unanswered \/ EosAt(commit, j) = {}
  /\ pc = "load" => unanswered = {}
  /\ pc # "returned" => result = None
  /\ FirstAnswerDecides
LEMMA SearchInit == ASSUME Init PROVE SearchInv
BY DEF Init, SearchInv, FirstAnswerDecides, Located, Loaded, None, Ok

LEMMA SearchFail ==
  ASSUME SearchInv, NEW e, Fail(e), repo' = repo
  PROVE  SearchInv'
<1>1. pc' = "returned" /\ result' # Ok
  BY DEF Fail, Err, Ok
<1> QED BY <1>1 DEF SearchInv, FirstAnswerDecides, Located, Loaded

(* What was found stays as long as the EOS id does.                        *)
LEMMA SearchKept ==
  ASSUME SearchInv, pc \in {"added", "tokens"}, UNCHANGED <<input, tokenizer, location, history>>,
         vocabulary'.eos = vocabulary.eos,
         \/ pc' \in {"added", "tokens"} /\ UNCHANGED result
         \/ pc' = "returned"
  PROVE  SearchInv'
<1>1. UNCHANGED <<repo, request, commit, unanswered>>
  BY DEF input, history
<1>2. FirstAnswerDecides'
  <2>1. Located
    BY DEF Located
  <2>2. Pinned' = Pinned
    BY <1>1 DEF Pinned, Revision
  <2> QED BY <1>1, <2>1, <2>2 DEF SearchInv, FirstAnswerDecides, PlacesOf, EosAt
<1>3. Commits' = Commits
  BY <1>1 DEF Commits, Revision
<1> QED BY <1>1, <1>2, <1>3 DEF SearchInv

(* The place that was looked at last, in the commit.                       *)
LEMMA PlaceFacts ==
  ASSUME SearchInv, pc = "locate", Pinned, NEW field \in Answers(Place.file)
  PROVE  /\ Lookup(Place.location, field, tokenizer) = EosAt(commit, location)
         /\ location \in DOMAIN COMMON_LOCATIONS
<1>1. /\ repo \in Repos /\ commit \in Commits /\ location \in 1..3
      /\ tokenizer.added = commit.tokenizer.added
      /\ tokenizer.vocab = commit.tokenizer.vocab
  BY DEF SearchInv
<1>2. Place.file \in DOMAIN commit.files /\ field = commit.files[Place.file]
  BY <1>1, PinnedAnswers
<1>3. Lookup(Place.location, field, tokenizer)
        = Lookup(Place.location, field, commit.tokenizer)
  BY <1>1, SameLookup
<1> QED BY <1>1, <1>2, <1>3, Locations DEF EosAt, Place

LEMMA SearchLocate == ASSUME SearchInv, Locate PROVE SearchInv'
<1>1. PICK field \in Answers(Place.file) :
        \E id \in Lookup(Place.location, field, tokenizer) :
          vocabulary' = [eos |-> id, tokens |-> NoTokens]
  BY DEF Locate
<1>2. PICK id \in Lookup(Place.location, field, tokenizer) :
        vocabulary' = [eos |-> id, tokens |-> NoTokens]
  BY <1>1
<1>3. /\ pc = "locate" /\ pc' = "added"
      /\ UNCHANGED <<repo, request, tokenizer, location, result, commit, unanswered>>
  BY DEF Locate, input, history
<1>4. Pinned' = Pinned /\ Commits' = Commits
  BY <1>3 DEF Pinned, Commits, Revision
<1>5. FirstAnswerDecides'
  <2>1. SUFFICES ASSUME Pinned
                 PROVE  \E i \in PlacesOf(commit) \ unanswered :
                          /\ vocabulary'.eos \in EosAt(commit, i)
                          /\ \A j \in PlacesOf(commit) \ unanswered : i <= j
    BY <1>3, <1>4 DEF FirstAnswerDecides, PlacesOf, EosAt
  <2>2. id \in EosAt(commit, location) /\ location \in DOMAIN COMMON_LOCATIONS
    BY <1>3, <2>1, PlaceFacts
  <2>3. /\ location \in 1..3 /\ unanswered \subseteq 1..(location - 1)
        /\ \A j \in 1..(location - 1) : j \in unanswered \/ EosAt(commit, j) = {}
    BY <1>3, <2>1 DEF SearchInv
  <2>4. location \in PlacesOf(commit) \ unanswered
    BY <2>2, <2>3 DEF PlacesOf
  <2>5. ASSUME NEW j \in PlacesOf(commit) \ unanswered PROVE location <= j
    <3>1. j \in 1..3 /\ EosAt(commit, j) # {} /\ j \notin unanswered
      BY Locations DEF PlacesOf
    <3>2. j \notin 1..(location - 1)
      BY <2>3, <3>1
    <3> QED BY <2>3, <3>1, <3>2
  <2> QED BY <1>2, <2>2, <2>4, <2>5
<1> QED BY <1>3, <1>4, <1>5 DEF SearchInv

(* The search goes on after a place without an EOS id, or one that was not *)
(* answered.                                                               *)
LEMMA SearchGoOn ==
  ASSUME SearchInv, LookElsewhere \/ Unanswered
  PROVE  SearchInv'
<1>1. /\ pc = "locate" /\ GoOn /\ result = None
      /\ UNCHANGED <<repo, request, tokenizer, commit>>
  BY DEF LookElsewhere, Unanswered, input, history, SearchInv
<1>2. CASE location < 3
  <2>1. location' = location + 1 /\ UNCHANGED <<pc, result>> /\ location \in 1..3
    BY <1>1, <1>2, Locations DEF GoOn, SearchInv
  <2>2. Pinned' = Pinned /\ Commits' = Commits
    BY <1>1 DEF Pinned, Commits, Revision
  <2>3. /\ unanswered \subseteq unanswered' /\ unanswered' \subseteq unanswered \cup {location}
        /\ Pinned => location \in unanswered' \/ EosAt(commit, location) = {}
    <3>1. CASE LookElsewhere
      <4>1. PICK field \in Answers(Place.file) : Lookup(Place.location, field, tokenizer) = {}
        BY <3>1 DEF LookElsewhere
      <4>2. Pinned => EosAt(commit, location) = {}
        BY <1>1, <4>1, PlaceFacts
      <4> QED BY <3>1, <4>2 DEF LookElsewhere, history
    <3>2. CASE Unanswered
      BY <3>2 DEF Unanswered
    <3> QED BY <3>1, <3>2
  <2>4. /\ unanswered \subseteq 1..(location - 1)
        /\ Pinned => \A j \in 1..(location - 1) : j \in unanswered \/ EosAt(commit, j) = {}
    BY <1>1 DEF SearchInv
  <2>5. 1..(location' - 1) = (1..(location - 1)) \cup {location}
    BY <2>1
  <2>6. /\ unanswered' \subseteq 1..(location' - 1)
        /\ Pinned => \A j \in 1..(location' - 1) : j \in unanswered' \/ EosAt(commit, j) = {}
    BY <2>3, <2>4, <2>5
  <2>7. FirstAnswerDecides'
    BY <1>1, <2>1 DEF FirstAnswerDecides, Located, Loaded, None, Ok
  <2>8. /\ location' \in 1..3 /\ pc' = "locate" /\ result' = None /\ commit' = commit
        /\ tokenizer' = tokenizer
    BY <1>1, <1>2, <2>1
  <2>9. /\ repo' \in Repos /\ commit' \in Commits'
        /\ tokenizer'.added = commit'.tokenizer.added
        /\ tokenizer'.vocab = commit'.tokenizer.vocab
    BY <1>1, <2>2, <2>8 DEF SearchInv
  <2>10. (Pinned => \A j \in 1..(location - 1) : j \in unanswered \/ EosAt(commit, j) = {})'
    BY <2>2, <2>6, <2>8
  <2> QED BY <2>6, <2>7, <2>8, <2>9, <2>10 DEF SearchInv
<1>3. CASE ~(location < 3)
  BY <1>1, <1>3, Locations, SearchFail DEF GoOn
<1> QED BY <1>2, <1>3

LEMMA SearchInsert ==
  ASSUME IdsInv, SearchInv, pc \in {"added", "tokens"}, NEW token, NEW item \in todo,
         TryInsert(token, item[2], item),
         UNCHANGED <<input, tokenizer, location, history>>
  PROVE  SearchInv'
<1>1. /\ IsVocabulary(vocabulary)
      /\ item[2] \in TokenIdsType \ {vocabulary.eos}
  BY DEF IdsInv
<1>2. /\ vocabulary' = Inserted(vocabulary, token, item[2])
      /\ UNCHANGED <<pc, result>>
  BY <1>1 DEF TryInsert, MayInsert
<1>3. vocabulary'.eos = vocabulary.eos
  BY <1>1, <1>2, InsertedFacts
<1> QED BY <1>2, <1>3, SearchKept

LEMMA SearchStep == ASSUME IdsInv, SearchInv, [Next]_vars PROVE SearchInv'
<1>1. CASE UNCHANGED vars
  <2>1. UNCHANGED <<repo, request, pc, tokenizer, location, vocabulary, result, commit, unanswered>>
    BY <1>1 DEF vars, input, locals, history
  <2> QED BY <2>1 DEF SearchInv, FirstAnswerDecides, Located, Loaded, Pinned, Commits,
                      Revision, PlacesOf, EosAt
<1>2. CASE LoadTokenizer
  <2>1. PICK c \in Commits : /\ tokenizer' = filter_prepend_normalizers(c.tokenizer)
                             /\ commit' = c
    BY <1>2 DEF LoadTokenizer
  <2>2. /\ pc = "load" /\ pc' = "locate" /\ location' = 1
        /\ UNCHANGED <<repo, request, result, unanswered>>
    BY <1>2 DEF LoadTokenizer, input
  <2>3. tokenizer'.added = commit'.tokenizer.added /\ tokenizer'.vocab = commit'.tokenizer.vocab
    BY <2>1, CommitFacts DEF SearchInv
  <2>4. commit' \in Commits'
    BY <2>1, <2>2 DEF Commits, Revision
  <2> QED BY <2>2, <2>3, <2>4 DEF SearchInv, FirstAnswerDecides, Located, Loaded, None, Ok
<1>3. CASE LoadFails \/ NoProcessor \/ ProcessFails
  BY <1>3, SearchFail DEF LoadFails, NoProcessor, ProcessFails, input
<1>4. CASE Locate
  BY <1>4, SearchLocate
<1>5. CASE LookElsewhere \/ Unanswered
  BY <1>5, SearchGoOn
<1>6. CASE InsertAdded
  <2>1. PICK item \in todo : TryInsert(item[1], item[2], item)
    BY <1>6 DEF InsertAdded
  <2> QED BY <1>6, <2>1, SearchInsert DEF InsertAdded
<1>7. CASE MakeProcessor
  BY <1>7, SearchKept DEF MakeProcessor
<1>8. CASE InsertToken
  <2>1. PICK item \in todo : \E token : TryInsert(token, item[2], item)
    BY <1>8 DEF InsertToken
  <2> QED BY <1>8, <2>1, SearchInsert DEF InsertToken
<1>9. CASE Return
  BY <1>9, SearchKept DEF Return, locals
<1> QED BY <1>1, <1>2, <1>3, <1>4, <1>5, <1>6, <1>7, <1>8, <1>9 DEF Next, Download, Compute

(* For a revision that names one commit the EOS id is from the first place *)
(* of that commit that has one and was answered.                           *)
THEOREM FirstAnswer == Spec => []FirstAnswerDecides
<1>1. SearchInv => FirstAnswerDecides
  BY DEF SearchInv
<1> QED BY <1>1, IdsInit, IdsStep, SearchInit, SearchStep, PTL DEF Spec

----------------------------------------------------------------------------
(* The bytes of a text *)

LEMMA Utf8CharType ==
  ASSUME NEW ch \in Char
  PROVE  Utf8Char(ch) \in Seq(Byte)
<1>1. ch \in Nat
  BY DEF Char
<1>2. /\ 128 + ((ch \div 1) % 64) \in Byte
      /\ 128 + ((ch \div 64) % 64) \in Byte
      /\ 128 + ((ch \div 4096) % 64) \in Byte
  BY SMT, <1>1 DEF Byte
<1>3. /\ ch < 128 => ch \in Byte
      /\ ch < 2048 => 192 + (ch \div 64) \in Byte
      /\ ch < 65536 => 224 + (ch \div 4096) \in Byte
  BY SMT, <1>1 DEF Byte
<1>4. 240 + (ch \div 262144) \in Byte
  BY SMT DEF Byte, Char
<1>5. CASE ch < 128
  BY <1>3, <1>5 DEF Utf8Char
<1>6. CASE ~(ch < 128) /\ ch < 2048
  <2>1. Utf8Char(ch) = <<192 + (ch \div 64), 128 + ((ch \div 1) % 64)>>
    BY <1>6 DEF Utf8Char
  <2> QED BY SMT, <1>2, <1>3, <1>6, <2>1
<1>7. CASE ~(ch < 128) /\ ~(ch < 2048) /\ ch < 65536
  <2>1. Utf8Char(ch) = <<224 + (ch \div 4096), 128 + ((ch \div 64) % 64), 128 + ((ch \div 1) % 64)>>
    BY SMT, <1>7 DEF Utf8Char
  <2> QED BY SMT, <1>2, <1>3, <1>7, <2>1
<1>8. CASE ~(ch < 128) /\ ~(ch < 2048) /\ ~(ch < 65536)
  <2>1. Utf8Char(ch) = <<240 + (ch \div 262144), 128 + ((ch \div 4096) % 64),
                         128 + ((ch \div 64) % 64), 128 + ((ch \div 1) % 64)>>
    BY SMT, <1>8 DEF Utf8Char
  <2> QED BY SMT, <1>2, <1>4, <2>1
<1> QED BY SMT, <1>5, <1>6, <1>7, <1>8

(* as_bytes gives bytes.                                                   *)
LEMMA Utf8Type ==
  ASSUME NEW w \in Seq(Char)
  PROVE  Utf8(w) \in Seq(Byte)
<1> DEFINE s == [i \in DOMAIN w |-> Utf8Char(w[i])]
           n == Len(w)
<1>1. n \in Nat /\ DOMAIN w = 1..n /\ \A i \in 1..n : w[i] \in Char
  BY LenProperties, ElementOfSeq
<1>2. s \in [1..n -> Seq(Byte)]
  BY <1>1, Utf8CharType
<1>3. CASE n = 0
  <2>1. s = <<>>
    BY <1>1, <1>3
  <2> QED BY <2>1, EmptySeq DEF Utf8, FlattenSeq
<1>4. CASE n # 0
  <2> HIDE DEF s, n
  <2>1. PICK g \in [1..n -> Seq(Byte)] : Joins(s, n, g)
    BY <1>1, <1>2, <1>4, JoinsExists
  <2>2. FlattenSeq(s) = g[n]
    BY <1>1, <1>2, <1>4, <2>1, FlattenJoins
  <2>3. g[n] \in Seq(Byte)
    BY <1>1, <1>4, <2>1
  <2> QED BY <2>2, <2>3 DEF Utf8, s
<1> QED BY <1>3, <1>4

Ascii == 0..127

LEMMA AsciiChar ==
  ASSUME NEW ch \in Ascii
  PROVE  Utf8Char(ch) = <<ch>>
<1>1. ch \in Nat /\ ch < 128
  BY DEF Ascii
<1> QED BY SMT, <1>1 DEF Utf8Char

LEMMA OneMore ==
  ASSUME NEW S, NEW w \in Seq(S), NEW i \in 1..Len(w)
  PROVE  SubSeq(w, 1, i) = (IF i = 1 THEN <<>> ELSE SubSeq(w, 1, i - 1)) \o <<w[i]>>
<1> DEFINE p == IF i = 1 THEN <<>> ELSE SubSeq(w, 1, i - 1)
           l == <<w[i]>>
<1>1. Len(w) \in Nat /\ w[i] \in S
  BY LenProperties, ElementOfSeq
<1>2. /\ SubSeq(w, 1, i) \in Seq(S) /\ Len(SubSeq(w, 1, i)) = i
      /\ \A j \in 1..i : SubSeq(w, 1, i)[j] = w[j]
  BY <1>1
<1>3. p \in Seq(S) /\ Len(p) = i - 1 /\ \A j \in 1..(i - 1) : p[j] = w[j]
  <2>1. CASE i = 1
    BY <2>1, EmptySeq
  <2>2. CASE i # 1
    BY <1>1, <2>2
  <2> QED BY <2>1, <2>2
<1>4. l \in Seq(S) /\ Len(l) = 1 /\ l[1] = w[i]
  BY <1>1
<1> HIDE DEF p, l
<1>5. /\ p \o l \in Seq(S) /\ Len(p \o l) = i
      /\ \A j \in 1..i : (p \o l)[j] = IF j <= i - 1 THEN p[j] ELSE l[j - (i - 1)]
  <2>1. Len(p \o l) = Len(p) + Len(l)
    BY <1>3, <1>4, ConcatProperties
  <2>2. \A j \in 1..Len(p) + Len(l) :
          (p \o l)[j] = IF j <= Len(p) THEN p[j] ELSE l[j - Len(p)]
    BY <1>3, <1>4, ConcatProperties
  <2> QED BY <1>3, <1>4, <2>1, <2>2, ConcatProperties
<1>6. \A j \in 1..i : (p \o l)[j] = w[j]
  <2>1. ASSUME NEW j \in 1..i PROVE (p \o l)[j] = w[j]
    <3>1. CASE j = i
      BY <1>1, <1>4, <1>5, <3>1
    <3>2. CASE j # i
      BY <1>1, <1>3, <1>5, <3>2
    <3> QED BY <3>1, <3>2
  <2> QED BY <2>1
<1>7. SubSeq(w, 1, i) = p \o l
  BY <1>2, <1>5, <1>6, SeqEqual
<1> QED BY <1>7 DEF p, l

(* A character of ASCII is a byte of its own.                              *)
LEMMA Utf8Ascii ==
  ASSUME NEW w \in Seq(Ascii)
  PROVE  Utf8(w) = w
<1> DEFINE s == [i \in DOMAIN w |-> Utf8Char(w[i])]
           n == Len(w)
           g == [i \in 1..n |-> SubSeq(w, 1, i)]
<1>1. n \in Nat /\ DOMAIN w = 1..n /\ \A i \in 1..n : w[i] \in Ascii
  BY LenProperties, ElementOfSeq
<1>2. \A i \in 1..n : Utf8Char(w[i]) = <<w[i]>>
  BY <1>1, AsciiChar
<1>3. s \in [1..n -> Seq(Ascii)] /\ \A i \in 1..n : s[i] = <<w[i]>>
  <2>1. ASSUME NEW i \in 1..n PROVE s[i] = <<w[i]>> /\ s[i] \in Seq(Ascii)
    <3>1. w[i] \in Ascii /\ s[i] = <<w[i]>>
      BY <1>1, <1>2
    <3> HIDE DEF s
    <3> QED BY <3>1
  <2> QED BY <1>1, <2>1
<1>4. CASE n = 0
  <2>1. s = <<>> /\ w = <<>>
    BY <1>1, <1>4, EmptySeq
  <2> QED BY <2>1 DEF Utf8, FlattenSeq
<1>5. CASE n # 0
  <2>1. g \in [1..n -> Seq(Ascii)]
    BY <1>1, SubSeqProperties
  <2>2. Joins(s, n, g)
    <3>1. g[1] = s[1]
      <4>1. SubSeq(w, 1, 1) = <<>> \o <<w[1]>>
        <5>1. 1 \in 1..n
          BY <1>1, <1>5
        <5> QED BY <5>1, OneMore
      <4>2. <<>> \o <<w[1]>> = <<w[1]>>
        <5>1. <<w[1]>> \in Seq(Ascii)
          BY <1>1, <1>5
        <5> QED BY <5>1, ConcatEmptySeq
      <4>3. s[1] = <<w[1]>> /\ g[1] = SubSeq(w, 1, 1)
        BY <1>1, <1>3, <1>5
      <4> HIDE DEF s, g
      <4> QED BY <4>1, <4>2, <4>3
    <3>2. ASSUME NEW i \in 2..n PROVE g[i] = g[i-1] \o s[i]
      <4>1. i \in 1..n /\ i # 1 /\ i - 1 \in 1..n
        BY <1>1
      <4>2. SubSeq(w, 1, i) = SubSeq(w, 1, i - 1) \o <<w[i]>>
        BY <4>1, OneMore
      <4> QED BY <1>3, <4>1, <4>2
    <3> QED BY <3>1, <3>2 DEF Joins
  <2>3. FlattenSeq(s) = g[n]
    <3>1. n \in Nat \ {0} /\ s \in [1..n -> Seq(Ascii)]
      BY <1>1, <1>3, <1>5
    <3> HIDE DEF s, g, n
    <3> QED BY <2>1, <2>2, <3>1, FlattenJoins
  <2>4. g[n] = w
    BY <1>1, <1>5
  <2> QED BY <2>3, <2>4 DEF Utf8
<1> QED BY <1>4, <1>5

----------------------------------------------------------------------------
(* The table of the byte level *)

BothIntervals(a, b, c, d) == (a..b) \cup (c..d)

LEMMA TwoIntervals ==
  ASSUME NEW a \in Int, NEW b \in Int, NEW c \in Int, NEW d \in Int,
         a <= b + 1, b < c, c <= d + 1
  PROVE  Cardinality(BothIntervals(a, b, c, d)) = (b - a + 1) + (d - c + 1)
<1>1. IsFiniteSet(a..b) /\ Cardinality(a..b) = b - a + 1
  BY FS_Interval
<1>2. IsFiniteSet(c..d) /\ Cardinality(c..d) = d - c + 1
  BY FS_Interval
<1>3. (a..b) \cap (c..d) = {}
  OBVIOUS
<1>4. Cardinality((a..b) \cup (c..d)) = Cardinality(a..b) + Cardinality(c..d) - Cardinality({})
  BY <1>1, <1>2, <1>3, FS_Union
<1>5. Cardinality({}) = 0
  BY FS_EmptySet
<1> QED BY <1>1, <1>2, <1>4, <1>5 DEF BothIntervals

(* The characters that stand for bytes, without counting.                  *)
LEMMA CharOfByte ==
  ASSUME NEW b \in Byte
  PROVE  CharOf(b) = IF b \in Printable THEN b
                     ELSE IF b <= 32 THEN 256 + b
                     ELSE IF b <= 160 THEN 162 + b
                     ELSE 323
<1> DEFINE before == {x \in 0..(b - 1) : x \notin Printable}
<1>1. CASE b \in Printable
  BY <1>1 DEF CharOf
<1>2. CASE b \in 0..32
  <2>1. b \notin Printable /\ b <= 32 /\ b \in Int
    BY <1>2 DEF Printable
  <2>2. before = 0..(b - 1)
    BY <1>2 DEF Printable
  <2>3. Cardinality(0..(b - 1)) = b
    BY <1>2, FS_Interval
  <2> QED BY <2>1, <2>2, <2>3 DEF CharOf
<1>3. CASE b \in 127..160
  <2>1. b \notin Printable /\ ~(b <= 32) /\ b <= 160 /\ b \in Int
    BY <1>3 DEF Printable
  <2>2. PICK x \in Int, y \in Int, z \in Int : x = 0 /\ y = 32 /\ z = 127
    OBVIOUS
  <2>3. before = BothIntervals(x, y, z, b - 1)
    BY <1>3, <2>2 DEF Printable, BothIntervals
  <2>4. x <= y + 1 /\ y < z /\ z <= (b - 1) + 1 /\ b - 1 \in Int
    BY <1>3, <2>2
  <2>5. Cardinality(BothIntervals(x, y, z, b - 1)) = (y - x + 1) + ((b - 1) - z + 1)
    BY <2>4, TwoIntervals
  <2>6. 256 + ((y - x + 1) + ((b - 1) - z + 1)) = 162 + b
    BY <1>3, <2>2
  <2> QED BY <2>1, <2>3, <2>5, <2>6 DEF CharOf
<1>4. CASE b = 173
  <2>1. b \notin Printable /\ ~(b <= 32) /\ ~(b <= 160)
    BY <1>4 DEF Printable
  <2>2. PICK x \in Int, y \in Int, z \in Int, v \in Int : x = 0 /\ y = 32 /\ z = 127 /\ v = 160
    OBVIOUS
  <2>3. before = BothIntervals(x, y, z, v)
    BY <1>4, <2>2 DEF Printable, BothIntervals
  <2>4. x <= y + 1 /\ y < z /\ z <= v + 1
    BY <2>2
  <2>5. Cardinality(BothIntervals(x, y, z, v)) = (y - x + 1) + (v - z + 1)
    BY <2>4, TwoIntervals
  <2>6. 256 + ((y - x + 1) + (v - z + 1)) = 323
    BY <2>2
  <2> QED BY <2>1, <2>3, <2>5, <2>6 DEF CharOf
<1> QED BY <1>1, <1>2, <1>3, <1>4 DEF Byte, Printable

(* CHAR_MAP is the table that its comment shows.                           *)
LEMMA CharMapDocumented ==
  /\ \A ch \in DOMAIN CHAR_MAP : CHAR_MAP[ch] \in Byte /\ CHAR_MAP[ch] = Documented(ch)
  /\ (256..323) \cup {ch \in Byte : Documented(ch) \in Printable} \subseteq DOMAIN CHAR_MAP
<1>1. DOMAIN CHAR_MAP = {CharOf(b) : b \in Byte}
  BY DEF CHAR_MAP
<1>2. \A b \in Byte : Documented(CharOf(b)) = b
  <2>1. ASSUME NEW b \in Byte PROVE Documented(CharOf(b)) = b
    <3>1. CASE b \in Printable
      <4>1. CharOf(b) = b /\ b \in 0..255
        BY <3>1, CharOfByte DEF Byte
      <4> QED BY <4>1 DEF Documented
    <3>2. CASE b \notin Printable /\ b <= 32
      <4>1. CharOf(b) = 256 + b /\ b \in 0..32
        BY <3>2, CharOfByte DEF Byte
      <4> QED BY <4>1 DEF Documented
    <3>3. CASE b \notin Printable /\ ~(b <= 32) /\ b <= 160
      <4>1. CharOf(b) = 162 + b /\ b \in 127..160
        BY <3>3, CharOfByte DEF Byte, Printable
      <4> QED BY <4>1 DEF Documented
    <3>4. CASE b \notin Printable /\ ~(b <= 160)
      <4>1. CharOf(b) = 323 /\ b = 173
        BY <3>4, CharOfByte DEF Byte, Printable
      <4> QED BY <4>1 DEF Documented
    <3> QED BY <3>1, <3>2, <3>3, <3>4
  <2> QED BY <2>1
<1>3. ASSUME NEW ch \in DOMAIN CHAR_MAP
      PROVE  CHAR_MAP[ch] \in Byte /\ CHAR_MAP[ch] = Documented(ch)
  <2>1. CHAR_MAP[ch] = CHOOSE b \in Byte : CharOf(b) = ch
    BY <1>1 DEF CHAR_MAP
  <2>2. \E b \in Byte : CharOf(b) = ch
    BY <1>1
  <2>3. CHAR_MAP[ch] \in Byte /\ CharOf(CHAR_MAP[ch]) = ch
    BY <2>1, <2>2
  <2> QED BY <1>2, <2>3
<1>4. ASSUME NEW ch \in 256..323 PROVE ch \in DOMAIN CHAR_MAP
  <2>1. CASE ch \in 256..288
    <3>1. ch - 256 \in Byte /\ ch - 256 \notin Printable /\ ch - 256 <= 32
      BY <2>1 DEF Byte, Printable
    <3>2. CharOf(ch - 256) = 256 + (ch - 256) /\ 256 + (ch - 256) = ch
      BY <3>1, CharOfByte
    <3> QED BY <1>1, <3>1, <3>2
  <2>2. CASE ch \in 289..322
    <3>1. /\ ch - 162 \in Byte /\ ch - 162 \notin Printable
          /\ ~(ch - 162 <= 32) /\ ch - 162 <= 160
      BY <2>2 DEF Byte, Printable
    <3>2. CharOf(ch - 162) = 162 + (ch - 162) /\ 162 + (ch - 162) = ch
      BY <3>1, CharOfByte
    <3> QED BY <1>1, <3>1, <3>2
  <2>3. CASE ch = 323
    <3>1. 173 \in Byte /\ 173 \notin Printable /\ ~(173 <= 32) /\ ~(173 <= 160)
      BY DEF Byte, Printable
    <3>2. CharOf(173) = 323
      BY <3>1, CharOfByte
    <3> QED BY <1>1, <2>3, <3>1, <3>2
  <2> QED BY <2>1, <2>2, <2>3
<1>5. ASSUME NEW ch \in Byte, Documented(ch) \in Printable PROVE ch \in DOMAIN CHAR_MAP
  <2>1. Documented(ch) = ch
    BY DEF Documented, Byte
  <2>2. CharOf(ch) = ch
    BY <1>5, <2>1, CharOfByte
  <2> QED BY <1>1, <2>2
<1> QED BY <1>3, <1>4, <1>5

----------------------------------------------------------------------------
(* What a token is read as *)

LEMMA SeqOfOthers ==
  ASSUME NEW S, NEW T, NEW w \in Seq(S), \A i \in 1..Len(w) : w[i] \in T
  PROVE  w \in Seq(T)
<1>1. Len(w) \in Nat /\ w \in [1..Len(w) -> T]
  BY LenProperties
<1> DEFINE n == Len(w)
<1> HIDE DEF n
<1>2. n \in Nat /\ w \in [1..n -> T]
  BY <1>1 DEF n
<1> QED BY <1>2, SeqDef

LEMMA Beginning ==
  ASSUME NEW S, NEW w \in Seq(S), NEW n \in Nat, n <= Len(w)
  PROVE  /\ SubSeq(w, 1, n) \in Seq(S) /\ Len(SubSeq(w, 1, n)) = n
         /\ \A i \in 1..n : SubSeq(w, 1, n)[i] = w[i]
OBVIOUS

LEMMA ThreeElements ==
  ASSUME NEW S, NEW w \in Seq(S), Len(w) = 3
  PROVE  w = <<w[1], w[2], w[3]>>
<1>1. w \in [1..3 -> S] /\ DOMAIN w = 1..3
  BY LenProperties
<1> QED BY <1>1

LEMMA HexValues == \A d \in DOMAIN Hex : Hex[d] \in 0..15
<1>1. ASSUME NEW d \in DOMAIN Hex PROVE Hex[d] \in 0..15
  <2>1. d \in (48..57) \cup (65..70) \cup (97..102)
    BY DEF Hex
  <2>2. Hex[d] = IF d <= 57 THEN d - 48 ELSE IF d <= 70 THEN d - 55 ELSE d - 87
    BY <2>1 DEF Hex
  <2> QED BY <2>1, <2>2
<1> QED BY <1>1

LEMMA HexDigit ==
  ASSUME NEW ch \in Nat, NEW d \in 0..15, Upper(ch) = Digit(d)
  PROVE  ch \in DOMAIN Hex /\ Hex[ch] = d /\ ch \in Ascii
<1>1. CASE ch \in 97..102
  <2>1. ch - 32 = 55 + d /\ ch - 87 = d
    BY <1>1 DEF Upper, Digit
  <2>2. ch \in DOMAIN Hex /\ Hex[ch] = ch - 87
    BY <1>1 DEF Hex
  <2> QED BY <1>1, <2>1, <2>2 DEF Ascii
<1>2. CASE ch \notin 97..102 /\ d < 10
  <2>1. ch = 48 + d /\ ch \in 48..57
    BY <1>2 DEF Upper, Digit
  <2>2. ch \in DOMAIN Hex /\ Hex[ch] = ch - 48
    BY <2>1 DEF Hex
  <2> QED BY <2>1, <2>2 DEF Ascii
<1>3. CASE ch \notin 97..102 /\ ~(d < 10)
  <2>1. ch = 55 + d /\ ch \in 65..70
    BY <1>3 DEF Upper, Digit
  <2>2. ch \in DOMAIN Hex /\ Hex[ch] = ch - 55
    BY <2>1 DEF Hex
  <2> QED BY <2>1, <2>2 DEF Ascii
<1> QED BY <1>1, <1>2, <1>3

(* <0x__> names the byte that from_str_radix makes of it.                  *)
LEMMA ByteNames ==
  ASSUME NEW w \in Seq(Char), NEW b \in Byte, IsByteName(w, b)
  PROVE  /\ Utf8(w) = w /\ IsByteToken(w)
         /\ w[4] \in DOMAIN Hex /\ w[5] \in DOMAIN Hex
         /\ 16 * Hex[w[4]] + Hex[w[5]] = b
<1> DEFINE u == [w EXCEPT ![4] = Upper(@), ![5] = Upper(@)]
<1>1. Len(w) = 6 /\ u = ByteName(b)
  BY DEF IsByteName
<1>2. DOMAIN w = 1..6 /\ \A i \in 1..6 : w[i] \in Nat
  <2>1. DOMAIN w = 1..Len(w) /\ \A i \in 1..Len(w) : w[i] \in Char
    BY LenProperties, ElementOfSeq
  <2> QED BY <1>1, <2>1 DEF Char
<1>3. /\ u[1] = w[1] /\ u[2] = w[2] /\ u[3] = w[3] /\ u[6] = w[6]
      /\ u[4] = Upper(w[4]) /\ u[5] = Upper(w[5])
  BY <1>2
<1> DEFINE hi == b \div 16
           lo == b % 16
<1>4. hi \in 0..15 /\ lo \in 0..15 /\ 16 * hi + lo = b
  BY DEF Byte
<1> HIDE DEF u, hi, lo
<1>5. /\ w[1] = 60 /\ w[2] = 48 /\ w[3] = 120 /\ w[6] = 62
      /\ Upper(w[4]) = Digit(hi) /\ Upper(w[5]) = Digit(lo)
  BY <1>1, <1>3 DEF ByteName, hi, lo
<1>6. /\ w[4] \in DOMAIN Hex /\ Hex[w[4]] = hi /\ w[4] \in Ascii
      /\ w[5] \in DOMAIN Hex /\ Hex[w[5]] = lo /\ w[5] \in Ascii
  <2>1. w[4] \in Nat /\ w[5] \in Nat
    BY <1>2
  <2>2. w[4] \in DOMAIN Hex /\ Hex[w[4]] = hi /\ w[4] \in Ascii
    <3> DEFINE x == w[4]
    <3>1. x \in Nat /\ Upper(x) = Digit(hi)
      BY <1>5, <2>1
    <3> HIDE DEF x
    <3>2. x \in DOMAIN Hex /\ Hex[x] = hi /\ x \in Ascii
      BY <1>4, <3>1, HexDigit
    <3> QED BY <3>2 DEF x
  <2>3. w[5] \in DOMAIN Hex /\ Hex[w[5]] = lo /\ w[5] \in Ascii
    <3> DEFINE x == w[5]
    <3>1. x \in Nat /\ Upper(x) = Digit(lo)
      BY <1>5, <2>1
    <3> HIDE DEF x
    <3>2. x \in DOMAIN Hex /\ Hex[x] = lo /\ x \in Ascii
      BY <1>4, <3>1, HexDigit
    <3> QED BY <3>2 DEF x
  <2> QED BY <2>2, <2>3
<1>7. w \in Seq(Ascii)
  <2>1. \A i \in 1..6 : w[i] \in Ascii
    <3>1. w[1] \in Ascii /\ w[2] \in Ascii /\ w[3] \in Ascii /\ w[6] \in Ascii
      BY <1>5 DEF Ascii
    <3> QED BY <1>6, <3>1
  <2> QED BY <1>1, <2>1, SeqOfOthers
<1>8. IsByteToken(w)
  <2> DEFINE v == SubSeq(w, 1, 3)
  <2>1. v \in Seq(Char) /\ Len(v) = 3 /\ v[1] = w[1] /\ v[2] = w[2] /\ v[3] = w[3]
    <3>1. 3 \in Nat /\ 3 <= Len(w)
      BY <1>1
    <3>2. v \in Seq(Char) /\ Len(v) = 3 /\ \A i \in 1..3 : v[i] = w[i]
      BY <3>1, Beginning
    <3> QED BY <3>2
  <2>2. v = <<v[1], v[2], v[3]>>
    <3> HIDE DEF v
    <3> QED BY <2>1, ThreeElements
  <2> QED BY <1>1, <1>5, <2>1, <2>2 DEF IsByteToken
<1> QED BY <1>4, <1>6, <1>7, <1>8, Utf8Ascii

LEMMA NewProcessorFacts ==
  ASSUME NEW decoder, NEW p \in NewProcessor(decoder)
  PROVE  \/ decoder.type = "ByteLevel" /\ p.level = "Byte"
         \/ /\ decoder.type = "Sequence" /\ p.level = "ByteFallback"
            /\ p.spacechar = Spacechar(decoder.decoders)
BY DEF NewProcessor, ByteFallbackLevel

(* A token that the documentation gives a meaning is processed.            *)
LEMMA ReadableIsProcessed ==
  ASSUME NEW decoder, NEW p \in NewProcessor(decoder), NEW w \in Seq(Char),
         Readable(decoder, w)
  PROVE  Process(p, w) # {}
<1>1. CASE decoder.type = "ByteLevel" /\ p.level = "Byte"
  <2>1. ToSet(w) \subseteq DOMAIN CHAR_MAP
    BY <1>1, CharMapDocumented DEF Readable
  <2> QED BY <1>1, <2>1 DEF Process, ByteLevel
<1>2. CASE decoder.type = "Sequence" /\ p.level = "ByteFallback"
  <2>1. CASE IsByteToken(Utf8(w))
    <3>1. PICK b \in Byte : IsByteName(w, b)
      BY <1>2, <2>1 DEF Readable
    <3>2. Utf8(w) = w /\ w[4] \in DOMAIN Hex /\ w[5] \in DOMAIN Hex
      BY <3>1, ByteNames
    <3> QED BY <1>2, <2>1, <3>2 DEF Process, ByteFallback, FromHex
  <2>2. CASE ~IsByteToken(Utf8(w))
    BY <1>2, <2>2 DEF Process, ByteFallback
  <2> QED BY <2>1, <2>2
<1> QED BY <1>1, <1>2, NewProcessorFacts

(* And whatever a token is processed to are bytes.                         *)
LEMMA ProcessedType ==
  ASSUME NEW decoder, NEW p \in NewProcessor(decoder), NEW w \in Seq(Char),
         NEW token \in Process(p, w)
  PROVE  token \in Seq(Byte)
<1>0. Len(w) \in Nat /\ DOMAIN w = 1..Len(w) /\ \A i \in 1..Len(w) : w[i] \in Char
  BY LenProperties, ElementOfSeq
<1>1. CASE decoder.type = "ByteLevel" /\ p.level = "Byte"
  <2>1. ToSet(w) \subseteq DOMAIN CHAR_MAP /\ token = [i \in DOMAIN w |-> CHAR_MAP[w[i]]]
    BY <1>1 DEF Process, ByteLevel
  <2>2. \A i \in 1..Len(w) : CHAR_MAP[w[i]] \in Byte
    BY <1>0, <2>1, CharMapDocumented DEF ToSet
  <2> QED BY <1>0, <2>1, <2>2
<1>2. CASE decoder.type = "Sequence" /\ p.level = "ByteFallback"
  <2>1. CASE IsByteToken(Utf8(w))
    <3> DEFINE x == Utf8(w)[4]
               y == Utf8(w)[5]
    <3>1. token \in FromHex(x, y)
      BY <1>2, <2>1 DEF Process, ByteFallback
    <3> HIDE DEF x, y
    <3>2. CASE x \in DOMAIN Hex /\ y \in DOMAIN Hex
      <4> DEFINE byte == 16 * Hex[x] + Hex[y]
      <4>1. byte \in Byte
        <5>1. Hex[x] \in 0..15 /\ Hex[y] \in 0..15
          BY <3>2, HexValues
        <5>2. \A i, j \in 0..15 : 16 * i + j \in Byte
          BY DEF Byte
        <5> QED BY <5>1, <5>2
      <4>2. token = <<byte>>
        BY <3>1, <3>2 DEF FromHex
      <4> HIDE DEF byte
      <4> QED BY <4>1, <4>2
    <3>3. CASE ~(x \in DOMAIN Hex) /\ y \in DOMAIN Hex
      <4>1. Hex[y] \in Byte
        BY <3>3, HexValues DEF Byte
      <4>2. token = <<Hex[y]>>
        BY <3>1, <3>3 DEF FromHex
      <4> QED BY <4>1, <4>2
    <3> QED BY <3>1, <3>2, <3>3 DEF FromHex
  <2>2. CASE ~IsByteToken(Utf8(w))
    <3>1. token = Utf8(apply_default(p.spacechar, w))
      BY <1>2, <2>2 DEF Process, ByteFallback
    <3>2. space \in Char
      BY SMT DEF space, Char
    <3>3. apply_default(p.spacechar, w) \in Seq(Char)
      BY <1>0, <3>2 DEF apply_default, ReplaceAll
    <3> QED BY <3>1, <3>3, Utf8Type
  <2> QED BY <2>1, <2>2
<1> QED BY <1>1, <1>2, NewProcessorFacts

----------------------------------------------------------------------------
(* What a call holds while it runs *)

LoadInv ==
  /\ repo \in Repos /\ request \in Requests
  /\ pc \in {"load", "locate", "added", "tokens", "returned"}
  /\ pc \in {"locate", "added", "tokens"} => IsTokenizer(tokenizer)
  /\ pc = "added" => todo \subseteq AddedTokens(tokenizer, vocabulary.eos)
  /\ pc = "tokens" =>
       /\ processor \in NewProcessor(tokenizer.decoder)
       /\ todo \subseteq VocabTokens(tokenizer, vocabulary.eos)

LEMMA LoadInit == ASSUME Init PROVE LoadInv
BY DEF Init, LoadInv

(* What is inserted leaves the list, or nothing is, and the EOS id stays.  *)
LEMMA InsertSteps ==
  ASSUME IdsInv, pc \in {"added", "tokens"}, NEW token, NEW item \in todo,
         TryInsert(token, item[2], item)
  PROVE  /\ vocabulary' = Inserted(vocabulary, token, item[2])
         /\ vocabulary'.eos = vocabulary.eos
         /\ todo' = todo \ {item}
         /\ UNCHANGED <<pc, result>>
<1>1. /\ IsVocabulary(vocabulary)
      /\ item[2] \in TokenIdsType \ {vocabulary.eos}
  BY DEF IdsInv
<1>2. /\ vocabulary' = Inserted(vocabulary, token, item[2])
      /\ todo' = todo \ {item} /\ UNCHANGED <<pc, result>>
  BY <1>1 DEF TryInsert, MayInsert
<1> QED BY <1>1, <1>2, InsertedFacts

LEMMA LoadStep == ASSUME IdsInv, LoadInv, [Next]_vars PROVE LoadInv'
<1>1. CASE UNCHANGED vars
  BY <1>1 DEF vars, input, locals, LoadInv
<1>2. CASE LoadTokenizer
  <2>1. PICK c \in Commits : tokenizer' = filter_prepend_normalizers(c.tokenizer)
    BY <1>2 DEF LoadTokenizer
  <2>2. IsTokenizer(tokenizer')
    BY <2>1, CommitFacts DEF LoadInv
  <2> QED BY <1>2, <2>2 DEF LoadTokenizer, LoadInv, input
<1>3. CASE LoadFails \/ NoProcessor \/ ProcessFails \/ Return
  BY <1>3 DEF LoadFails, NoProcessor, ProcessFails, Return, Fail, LoadInv, input, locals
<1>4. CASE Locate
  <2>1. /\ pc = "locate" /\ pc' = "added" /\ UNCHANGED <<repo, request, tokenizer>>
        /\ todo' = AddedTokens(tokenizer, vocabulary'.eos)
    BY <1>4 DEF Locate, input
  <2> QED BY <2>1 DEF LoadInv
<1>5. CASE LookElsewhere \/ Unanswered
  <2>1. /\ pc = "locate" /\ pc' \in {"locate", "returned"}
        /\ UNCHANGED <<repo, request, tokenizer>>
    BY <1>5 DEF LookElsewhere, Unanswered, GoOn, Fail, input
  <2> QED BY <2>1 DEF LoadInv
<1>6. CASE InsertAdded
  <2>1. PICK item \in todo : TryInsert(item[1], item[2], item)
    BY <1>6 DEF InsertAdded
  <2>2. pc = "added" /\ UNCHANGED <<repo, request, tokenizer, processor>>
    BY <1>6 DEF InsertAdded, input
  <2>3. vocabulary'.eos = vocabulary.eos /\ todo' \subseteq todo /\ pc' = pc
    BY <2>1, <2>2, InsertSteps
  <2> QED BY <2>2, <2>3 DEF LoadInv
<1>7. CASE MakeProcessor
  BY <1>7 DEF MakeProcessor, LoadInv, input
<1>8. CASE InsertToken
  <2>1. PICK item \in todo : \E token : TryInsert(token, item[2], item)
    BY <1>8 DEF InsertToken
  <2>2. pc = "tokens" /\ UNCHANGED <<repo, request, tokenizer, processor>>
    BY <1>8 DEF InsertToken, input
  <2>3. vocabulary'.eos = vocabulary.eos /\ todo' \subseteq todo /\ pc' = pc
    BY <2>1, <2>2, InsertSteps
  <2> QED BY <2>2, <2>3 DEF LoadInv
<1> QED BY <1>1, <1>2, <1>3, <1>4, <1>5, <1>6, <1>7, <1>8 DEF Next, Download, Compute

----------------------------------------------------------------------------
(* A load that fails *)

(* Until a call returns nothing has failed, and without a tokenizer there  *)
(* is no commit.                                                           *)
ReasonInv ==
  /\ pc = "load" => commit = None
  /\ pc # "returned" => result = None
  /\ FailsForAReason

LEMMA ReasonInit == ASSUME Init PROVE ReasonInv
BY DEF Init, ReasonInv, FailsForAReason

(* Nothing is claimed of a call that has not failed.                       *)
LEMMA NotFailed ==
  ASSUME ReasonInv, pc' \in {"locate", "added", "tokens"}, result' = result, pc # "returned"
  PROVE  ReasonInv'
BY DEF ReasonInv, FailsForAReason

(* The last place was looked at.                                           *)
LEMMA SearchEnds ==
  ASSUME SearchInv, LookElsewhere \/ Unanswered, ~(location < 3), Pinned
  PROVE  PlacesOf(commit) \subseteq unanswered'
<1>1. pc = "locate" /\ location = 3
  BY DEF LookElsewhere, Unanswered, SearchInv
<1>2. \A j \in 1..2 : j \in unanswered \/ EosAt(commit, j) = {}
  BY <1>1 DEF SearchInv
<1>3. unanswered \subseteq unanswered' /\ (3 \in unanswered' \/ EosAt(commit, 3) = {})
  <2>1. CASE LookElsewhere
    <3>1. PICK field \in Answers(Place.file) : Lookup(Place.location, field, tokenizer) = {}
      BY <2>1 DEF LookElsewhere
    <3>2. EosAt(commit, location) = {}
      BY <1>1, <3>1, PlaceFacts
    <3> QED BY <1>1, <2>1, <3>2 DEF LookElsewhere, history
  <2>2. CASE Unanswered
    BY <1>1, <2>2 DEF Unanswered
  <2> QED BY <2>1, <2>2
<1>4. ASSUME NEW j \in PlacesOf(commit) PROVE j \in unanswered'
  <2>1. j \in 1..3 /\ EosAt(commit, j) # {}
    BY Locations DEF PlacesOf
  <2> QED BY <1>2, <1>3, <2>1
<1> QED BY <1>4

LEMMA ReasonGoOn ==
  ASSUME SearchInv, ReasonInv, LookElsewhere \/ Unanswered
  PROVE  ReasonInv'
<1>1. pc = "locate" /\ GoOn /\ UNCHANGED <<repo, request, tokenizer, commit>>
  BY DEF LookElsewhere, Unanswered, input, history
<1>2. CASE location < 3
  BY <1>1, <1>2, Locations, NotFailed DEF GoOn
<1>3. CASE ~(location < 3)
  <2>1. pc' = "returned"
    BY <1>1, <1>3, Locations DEF GoOn, Fail
  <2>2. Pinned' = Pinned /\ PlacesOf(commit)' = PlacesOf(commit)
    BY <1>1 DEF Pinned, Revision, PlacesOf, EosAt
  <2>3. FailsForAReason'
    BY <1>3, <2>2, SearchEnds DEF FailsForAReason
  <2> QED BY <2>1, <2>3 DEF ReasonInv
<1> QED BY <1>2, <1>3

(* A token that cannot be processed is one without a meaning.              *)
LEMMA ReasonProcessFails ==
  ASSUME IdsInv, LoadInv, ReasonInv, ProcessFails
  PROVE  ReasonInv'
<1>1. PICK item \in todo : Process(processor, item[1]) = {}
  BY DEF ProcessFails
<1>2. pc = "tokens" /\ pc' = "returned" /\ UNCHANGED <<tokenizer, vocabulary>>
  BY DEF ProcessFails, Fail, locals
<1>3. PICK w \in DOMAIN tokenizer.vocab :
        tokenizer.vocab[w] # vocabulary.eos /\ item = <<w, tokenizer.vocab[w]>>
  BY <1>2 DEF LoadInv, VocabTokens
<1>4. w \in Seq(Char) /\ processor \in NewProcessor(tokenizer.decoder) /\ item[1] = w
  BY <1>2, <1>3 DEF LoadInv, IsTokenizer
<1>5. ~Readable(tokenizer.decoder, w)
  BY <1>1, <1>4, ReadableIsProcessed
<1>6. w \in Unreadable(tokenizer, vocabulary.eos)
  BY <1>3, <1>5 DEF Unreadable
<1>7. vocabulary # None
  <2>1. vocabulary = [eos |-> vocabulary.eos, tokens |-> vocabulary.tokens]
    BY <1>2 DEF IdsInv, IsVocabulary
  <2>2. "eos" \in DOMAIN vocabulary
    BY <2>1
  <2>3. "eos" \notin DOMAIN None
    BY DEF None
  <2> QED BY <2>2, <2>3
<1> QED BY <1>2, <1>6, <1>7 DEF ReasonInv, FailsForAReason

LEMMA ReasonStep ==
  ASSUME IdsInv, SearchInv, LoadInv, ReasonInv, [Next]_vars
  PROVE  ReasonInv'
<1>1. CASE UNCHANGED vars
  BY <1>1 DEF vars, input, locals, history, ReasonInv, FailsForAReason, Loaded, Pinned,
              Revision, PlacesOf, EosAt
<1>2. CASE LoadTokenizer \/ Locate \/ MakeProcessor
  BY <1>2, NotFailed DEF LoadTokenizer, Locate, MakeProcessor
<1>3. CASE LoadFails
  BY <1>3 DEF LoadFails, Fail, history, ReasonInv, FailsForAReason
<1>4. CASE LookElsewhere \/ Unanswered
  BY <1>4, ReasonGoOn
<1>5. CASE InsertAdded
  <2>1. PICK item \in todo : TryInsert(item[1], item[2], item)
    BY <1>5 DEF InsertAdded
  <2>2. pc = "added" /\ pc' = pc /\ result' = result
    BY <1>5, <2>1, InsertSteps DEF InsertAdded
  <2> QED BY <2>2, NotFailed
<1>6. CASE NoProcessor
  BY <1>6 DEF NoProcessor, Fail, locals, ReasonInv, FailsForAReason
<1>7. CASE InsertToken
  <2>1. PICK item \in todo : \E token : TryInsert(token, item[2], item)
    BY <1>7 DEF InsertToken
  <2>2. pc = "tokens" /\ pc' = pc /\ result' = result
    BY <1>7, <2>1, InsertSteps DEF InsertToken
  <2> QED BY <2>2, NotFailed
<1>8. CASE ProcessFails
  BY <1>8, ReasonProcessFails
<1>9. CASE Return
  BY <1>9 DEF Return, ReasonInv, FailsForAReason, Loaded
<1> QED BY <1>1, <1>2, <1>3, <1>4, <1>5, <1>6, <1>7, <1>8, <1>9 DEF Next, Download, Compute

(* A load of a revision that names one commit fails only if every place of *)
(* that commit with an EOS id went unanswered, or for a decoder or a token *)
(* that the documentation gives no meaning.                                *)
THEOREM FailureHasReason == Spec => []FailsForAReason
<1>1. ReasonInv => FailsForAReason
  BY DEF ReasonInv
<1> QED BY <1>1, IdsInit, IdsStep, SearchInit, SearchStep, LoadInit, LoadStep,
           ReasonInit, ReasonStep, PTL DEF Spec

----------------------------------------------------------------------------
(* Types *)

TypeInv ==
  /\ pc \in {"added", "tokens"} =>
       /\ vocabulary.eos \in 0..MaxTokenId
       /\ \A w \in Tokens(vocabulary) : w \in Seq(Byte)
  /\ pc = "returned" => result # None
  /\ unanswered \subseteq 1..3

LEMMA TypeInit == ASSUME Init PROVE TypeInv
BY DEF Init, TypeInv

LEMMA ResultIsSome == Ok # None /\ \A e : Err(e) # None
<1>1. DOMAIN None = {"kind"} /\ DOMAIN Ok = {"tag"} /\ \A e : DOMAIN Err(e) = {"tag", "error"}
  BY DEF None, Ok, Err
<1> QED BY <1>1

LEMMA LookupType ==
  ASSUME NEW t, IsTokenizer(t), NEW place, NEW field
  PROVE  Lookup(place, field, t) \subseteq 0..MaxTokenId
BY DEF Lookup, LookupOf, token_to_id, IsTokenizer

LEMMA InsertType ==
  ASSUME IdsInv, TypeInv, pc \in {"added", "tokens"}, NEW token \in Seq(Byte), NEW item \in todo,
         TryInsert(token, item[2], item), unanswered' = unanswered
  PROVE  TypeInv'
<1>1. /\ vocabulary' = Inserted(vocabulary, token, item[2])
      /\ vocabulary'.eos = vocabulary.eos /\ UNCHANGED <<pc, result>>
  BY InsertSteps
<1>2. IsVocabulary(vocabulary) /\ item[2] \in TokenIdsType
  BY DEF IdsInv
<1>3. Tokens(vocabulary') = Tokens(vocabulary) \cup {token}
  BY <1>1, <1>2, InsertedFacts
<1> QED BY <1>1, <1>3 DEF TypeInv

LEMMA TypeStep == ASSUME IdsInv, SearchInv, LoadInv, TypeInv, [Next]_vars PROVE TypeInv'
<1>1. CASE UNCHANGED vars
  BY <1>1 DEF vars, locals, history, TypeInv
<1>2. CASE LoadTokenizer \/ MakeProcessor
  BY <1>2 DEF LoadTokenizer, MakeProcessor, history, TypeInv
<1>3. CASE LoadFails \/ NoProcessor \/ ProcessFails \/ Return
  <2>1. pc' = "returned" /\ result' # None /\ unanswered' = unanswered
    BY <1>3, ResultIsSome DEF LoadFails, NoProcessor, ProcessFails, Return, Fail, history
  <2> QED BY <2>1 DEF TypeInv
<1>4. CASE Locate
  <2>1. PICK field : \E id \in Lookup(Place.location, field, tokenizer) :
          vocabulary' = [eos |-> id, tokens |-> NoTokens]
    BY <1>4 DEF Locate
  <2>2. pc = "locate" /\ pc' = "added" /\ UNCHANGED <<result, unanswered>>
    BY <1>4 DEF Locate, history
  <2>3. vocabulary'.eos \in 0..MaxTokenId
    BY <2>1, <2>2, LookupType DEF LoadInv
  <2>4. Tokens(vocabulary') = {}
    BY <2>1 DEF Tokens, NoTokens
  <2> QED BY <2>2, <2>3, <2>4 DEF TypeInv
<1>5. CASE LookElsewhere \/ Unanswered
  <2>1. /\ unanswered' \subseteq unanswered \cup {location} /\ location \in 1..3
        /\ \/ pc = "locate" /\ pc' = "locate"
           \/ pc' = "returned" /\ result' # None
    BY <1>5, ResultIsSome DEF LookElsewhere, Unanswered, GoOn, Fail, history, SearchInv
  <2> QED BY <2>1 DEF TypeInv
<1>6. CASE InsertAdded
  <2>1. PICK item \in todo : TryInsert(item[1], item[2], item)
    BY <1>6 DEF InsertAdded
  <2>2. pc = "added" /\ unanswered' = unanswered
    BY <1>6 DEF InsertAdded, history
  <2>3. PICK added \in tokenizer.added : item = <<Utf8(added.content), added.id>>
    BY <2>2 DEF LoadInv, AddedTokens
  <2>4. item[1] \in Seq(Byte)
    BY <2>2, <2>3, Utf8Type DEF LoadInv, IsTokenizer
  <2> QED BY <2>1, <2>2, <2>4, InsertType
<1>7. CASE InsertToken
  <2>0. PICK item \in todo : \E token \in Process(processor, item[1]) :
          TryInsert(token, item[2], item)
    BY <1>7 DEF InsertToken
  <2>1. PICK token \in Process(processor, item[1]) : TryInsert(token, item[2], item)
    BY <2>0
  <2>2. pc = "tokens" /\ unanswered' = unanswered
    BY <1>7 DEF InsertToken, history
  <2>3. PICK w \in DOMAIN tokenizer.vocab : item = <<w, tokenizer.vocab[w]>>
    BY <2>2 DEF LoadInv, VocabTokens
  <2>4. item[1] \in Seq(Char) /\ processor \in NewProcessor(tokenizer.decoder)
    BY <2>2, <2>3 DEF LoadInv, IsTokenizer
  <2>5. token \in Seq(Byte)
    BY <2>4, ProcessedType
  <2> QED BY <2>1, <2>2, <2>5, InsertType
<1> QED BY <1>1, <1>2, <1>3, <1>4, <1>5, <1>6, <1>7 DEF Next, Download, Compute

(* The types of what a call works on: the tokens are sequences of bytes    *)
(* and no token that is still to be inserted has the EOS id.               *)
THEOREM LoadTypes == Spec => []TypeOK
<1>1. IdsInv /\ SearchInv /\ LoadInv /\ TypeInv => TypeOK
  <2> SUFFICES ASSUME IdsInv, SearchInv, LoadInv, TypeInv PROVE TypeOK
    OBVIOUS
  <2>1. pc \in {"locate", "added", "tokens"} => location \in DOMAIN COMMON_LOCATIONS
    BY Locations DEF SearchInv
  <2>2. pc \in {"added", "tokens"} =>
          /\ vocabulary = [eos |-> vocabulary.eos, tokens |-> vocabulary.tokens]
          /\ vocabulary.eos \in 0..MaxTokenId
          /\ \A w \in Tokens(vocabulary) :
               w \in Seq(Byte) /\ vocabulary.tokens[w] \in Seq(0..MaxTokenId)
          /\ \A item \in todo : item[2] \in 0..MaxTokenId \ {vocabulary.eos}
    BY DEF IdsInv, IsVocabulary, TypeInv, TokenIdsType
  <2>3. pc = "returned" <=> result # None
    BY DEF IdsInv, TypeInv
  <2>4. unanswered \subseteq DOMAIN COMMON_LOCATIONS
    BY Locations DEF TypeInv
  <2> QED BY <2>1, <2>2, <2>3, <2>4 DEF LoadInv, TypeOK
<1> QED BY <1>1, IdsInit, IdsStep, SearchInit, SearchStep, LoadInit, LoadStep,
           TypeInit, TypeStep, PTL DEF Spec

----------------------------------------------------------------------------
(* A token is read as its decoder would write it *)

LEMMA GreatestExists ==
  ASSUME NEW n \in Nat, NEW I \in SUBSET (1..n), I # {}
  PROVE  Max(I) \in I
<1> DEFINE J == {n - i : i \in I}
<1>1. PICK j \in J : \A k \in J : j <= k
  <2>1. J \in SUBSET Nat /\ J # {}
    <3>1. \A i \in I : n - i \in Nat
      OBVIOUS
    <3> QED BY <3>1
  <2> HIDE DEF J
  <2> QED BY <2>1, NatMinimum
<1>2. PICK m \in I : j = n - m
  OBVIOUS
<1>3. ASSUME NEW i \in I PROVE m >= i
  <2>1. n - i \in J
    OBVIOUS
  <2>2. n - m <= n - i
    BY <1>1, <1>2, <2>1
  <2> QED BY <2>2
<1> QED BY <1>2, <1>3 DEF Max

(* For a plain decoder the one character that it replaces is Spacechar.    *)
LEMMA PlainMark ==
  ASSUME NEW decoder, decoder.type = "Sequence", IsPlain(decoder),
         decoder.decoders \in Seq(ToSet(decoder.decoders)), NEW ch
  PROVE  LET R == {x \in ToSet(decoder.decoders) : x.type = "Replace"}
             written == {d.pattern[1] : d \in R}
         IN  ch \in written \/ ch = space <=> ch = Spacechar(decoder.decoders) \/ ch = space
<1> DEFINE ds == decoder.decoders
           R == {x \in ToSet(ds) : x.type = "Replace"}
           n == Len(ds)
           I == {i \in 1..n : ReplacesBySpace(ds[i])}
<1>1. n \in Nat /\ DOMAIN ds = 1..n
  BY LenProperties
<1>2. Cardinality(R) <= 1 /\ \A x \in R : ReplacesBySpace(x)
  BY DEF IsPlain
<1>3. Spacechar(ds) = IF I = {} THEN space ELSE IF Max(I) = 0 THEN space ELSE ds[Max(I)].pattern[1]
  BY DEF Spacechar, SelectLastInSeq
<1>4. R = {ds[i] : i \in I}
  <2>1. ASSUME NEW x \in R PROVE x \in {ds[i] : i \in I}
    <3>1. PICK i \in 1..n : x = ds[i]
      BY <1>1 DEF ToSet
    <3> QED BY <1>2, <3>1
  <2>2. ASSUME NEW i \in I PROVE ds[i] \in R
    BY <1>1 DEF ToSet, ReplacesBySpace
  <2> QED BY <2>1, <2>2
<1>5. IsFiniteSet(R)
  <2> DEFINE f == [i \in 1..n |-> ds[i]]
  <2>1. f \in Surjection(1..n, ToSet(ds))
    BY <1>1 DEF Surjection, ToSet
  <2>2. IsFiniteSet(1..n)
    BY <1>1, FS_Interval
  <2>3. IsFiniteSet(ToSet(ds))
    BY <2>1, <2>2, FS_Surjection
  <2> QED BY <2>3, FS_Subset
<1> DEFINE written == {d.pattern[1] : d \in R}
<1>6. CASE I = {}
  <2>1. R = {} /\ written = {} /\ Spacechar(ds) = space
    BY <1>3, <1>4, <1>6
  <2> QED BY <2>1
<1>7. CASE I # {}
  <2>1. Max(I) \in I
    <3>1. I \in SUBSET (1..n)
      OBVIOUS
    <3> HIDE DEF I, n
    <3> QED BY <1>1, <1>7, <3>1, GreatestExists
  <2>2. Spacechar(ds) = ds[Max(I)].pattern[1] /\ ds[Max(I)] \in R
    <3> DEFINE m == Max(I)
    <3>1. m \in I /\ m # 0
      BY <2>1
    <3> HIDE DEF m
    <3>2. Spacechar(ds) = ds[m].pattern[1]
      BY <1>3, <1>7, <3>1 DEF m
    <3>3. ds[m] \in R
      BY <1>4, <3>1
    <3> QED BY <3>2, <3>3 DEF m
  <2>3. R = {ds[Max(I)]}
    <3> HIDE DEF R, I
    <3>1. R # {} /\ Cardinality(R) \in Nat /\ Cardinality(R) # 0
      BY <1>5, <2>2, FS_CardinalityType, FS_EmptySet
    <3>2. Cardinality(R) = 1
      BY <1>2, <3>1
    <3>3. \E x : R = {x}
      BY <1>5, <3>2, FS_Singleton
    <3> QED BY <2>2, <3>3
  <2>4. written = {Spacechar(ds)}
    BY <2>2, <2>3
  <2> QED BY <2>4
<1> QED BY <1>6, <1>7

LEMMA ProcessedAsDecoded ==
  ASSUME NEW t, IsTokenizer(t), IsPlain(t.decoder), NEW p \in NewProcessor(t.decoder),
         NEW w \in Seq(Char), Readable(t.decoder, w), NEW token \in Process(p, w)
  PROVE  token = Decoded(t.decoder, w)
<1> DEFINE decoder == t.decoder
<1>1. CASE decoder.type = "ByteLevel" /\ p.level = "Byte"
  <2>1. ToSet(w) \subseteq DOMAIN CHAR_MAP /\ token = [i \in DOMAIN w |-> CHAR_MAP[w[i]]]
    BY <1>1 DEF Process, ByteLevel
  <2>2. \A i \in DOMAIN w : CHAR_MAP[w[i]] = Documented(w[i])
    BY <2>1, CharMapDocumented DEF ToSet
  <2> QED BY <1>1, <2>1, <2>2 DEF Decoded
<1>2. CASE /\ decoder.type = "Sequence" /\ p.level = "ByteFallback"
           /\ p.spacechar = Spacechar(decoder.decoders)
  <2>1. CASE IsByteToken(Utf8(w))
    <3>1. \E b \in Byte : IsByteName(w, b)
      BY <1>2, <2>1 DEF Readable
    <3> DEFINE b == CHOOSE b \in Byte : IsByteName(w, b)
    <3>2. b \in Byte /\ IsByteName(w, b)
      BY <3>1
    <3>3. /\ Utf8(w) = w /\ w[4] \in DOMAIN Hex /\ w[5] \in DOMAIN Hex
          /\ 16 * Hex[w[4]] + Hex[w[5]] = b
      BY <3>2, ByteNames
    <3>4. token = <<b>>
      BY <1>2, <2>1, <3>3 DEF Process, ByteFallback, FromHex
    <3> QED BY <1>2, <3>1, <3>4 DEF Decoded
  <2>2. CASE ~IsByteToken(Utf8(w))
    <3>1. \A b \in Byte : ~IsByteName(w, b)
      BY <2>2, ByteNames
    <3> DEFINE written == {d.pattern[1] : d \in {x \in ToSet(decoder.decoders) : x.type = "Replace"}}
               mark == Spacechar(decoder.decoders)
               read == [i \in DOMAIN w |-> IF w[i] \in written THEN space ELSE w[i]]
    <3>2. token = Utf8(ReplaceAll(w, mark, space))
      BY <1>2, <2>2 DEF Process, ByteFallback, apply_default
    <3>3. decoder.decoders \in Seq(ToSet(decoder.decoders))
      BY <1>2 DEF IsTokenizer
    <3>4. \A ch : ch \in written \/ ch = space <=> ch = mark \/ ch = space
      BY <1>2, <3>3, PlainMark
    <3>5. DOMAIN w = 1..Len(w)
      BY LenProperties
    <3> HIDE DEF written, mark
    <3>6. ReplaceAll(w, mark, space) = read
      BY <3>4, <3>5 DEF ReplaceAll
    <3>7. Decoded(decoder, w) = Utf8(read)
      BY <1>2, <3>1 DEF Decoded, written
    <3> QED BY <3>2, <3>6, <3>7
  <2> QED BY <2>1, <2>2
<1> QED BY <1>1, <1>2, NewProcessorFacts

----------------------------------------------------------------------------
(* Tokens and how many they are *)

PairsOf(v) == UNION {{w} \X Ids(v, w) : w \in Tokens(v)}

(* The places of the ids of a vocabulary: it has one for each id.          *)
Slots(v) == UNION {{w} \X DOMAIN v.tokens[w] : w \in Tokens(v)}

LEMMA InsertedPairs ==
  ASSUME NEW v, IsVocabulary(v), NEW w, NEW id \in TokenIdsType, IsFiniteSet(Slots(v))
  PROVE  LET n == Inserted(v, w, id) IN
         /\ PairsOf(n) = PairsOf(v) \cup {<<w, id>>}
         /\ IsFiniteSet(Slots(n))
         /\ VocabLen(n) = VocabLen(v) + 1
<1> DEFINE n == Inserted(v, w, id)
           old == IF w \in Tokens(v) THEN v.tokens[w] ELSE <<>>
           k == Len(old) + 1
<1>1. /\ Tokens(n) = Tokens(v) \cup {w}
      /\ \A u \in Tokens(v) \cup {w} : n.tokens[u] = IF u # w THEN v.tokens[u] ELSE Append(old, id)
  BY InsertedFacts
<1>2. old \in Seq(TokenIdsType)
  BY EmptySeq DEF IsVocabulary
<1>3. Range(old) = (IF w \in Tokens(v) THEN Ids(v, w) ELSE {})
      /\ DOMAIN old = (IF w \in Tokens(v) THEN DOMAIN v.tokens[w] ELSE {})
  <2>1. Range(<<>>) = {} /\ DOMAIN <<>> = {}
    BY DEF Range
  <2> QED BY <2>1 DEF Ids
<1> HIDE DEF n, old
<1>4. Range(Append(old, id)) = Range(old) \cup {id}
  BY <1>2, RangeAppend
<1>5. DOMAIN Append(old, id) = DOMAIN old \cup {k} /\ k \notin DOMAIN old
  <2>1. Len(old) \in Nat /\ DOMAIN old = 1..Len(old)
    BY <1>2, LenProperties
  <2>2. Append(old, id) \in Seq(TokenIdsType) /\ Len(Append(old, id)) = Len(old) + 1
    BY <1>2, AppendProperties
  <2>3. DOMAIN Append(old, id) = 1..(Len(old) + 1)
    BY <2>2, LenProperties
  <2>4. 1..(Len(old) + 1) = (1..Len(old)) \cup {Len(old) + 1}
    BY <2>1
  <2> QED BY <2>1, <2>3, <2>4
<1> HIDE DEF k
<1>6. PairsOf(n) = PairsOf(v) \cup {<<w, id>>}
  <2>1. \A u \in Tokens(n) : Ids(n, u) = IF u # w THEN Ids(v, u) ELSE Range(old) \cup {id}
    BY <1>1, <1>4 DEF Ids
  <2>2. ASSUME NEW x \in PairsOf(n) PROVE x \in PairsOf(v) \cup {<<w, id>>}
    <3>1. PICK u \in Tokens(n) : x \in {u} \X Ids(n, u)
      BY DEF PairsOf
    <3>2. PICK i \in Ids(n, u) : x = <<u, i>>
      BY <3>1
    <3>3. CASE u \in Tokens(v) /\ i \in Ids(v, u)
      BY <3>2, <3>3 DEF PairsOf
    <3> QED BY <1>1, <1>3, <2>1, <3>2, <3>3
  <2>3. ASSUME NEW x \in PairsOf(v) PROVE x \in PairsOf(n)
    <3>1. PICK u \in Tokens(v) : x \in {u} \X Ids(v, u)
      BY DEF PairsOf
    <3>2. u \in Tokens(n) /\ x \in {u} \X Ids(n, u)
      BY <1>1, <1>3, <2>1, <3>1
    <3> QED BY <3>2 DEF PairsOf
  <2>4. w \in Tokens(n) /\ <<w, id>> \in {w} \X Ids(n, w)
    BY <1>1, <2>1
  <2> QED BY <2>2, <2>3, <2>4 DEF PairsOf
<1>7. Slots(n) = Slots(v) \cup {<<w, k>>}
  <2>1. \A u \in Tokens(n) :
          DOMAIN n.tokens[u] = IF u # w THEN DOMAIN v.tokens[u] ELSE DOMAIN old \cup {k}
    BY <1>1, <1>5
  <2>2. ASSUME NEW x \in Slots(n) PROVE x \in Slots(v) \cup {<<w, k>>}
    <3>1. PICK u \in Tokens(n) : x \in {u} \X DOMAIN n.tokens[u]
      BY DEF Slots
    <3>2. PICK i \in DOMAIN n.tokens[u] : x = <<u, i>>
      BY <3>1
    <3>3. CASE u \in Tokens(v) /\ i \in DOMAIN v.tokens[u]
      BY <3>2, <3>3 DEF Slots
    <3> QED BY <1>1, <1>3, <2>1, <3>2, <3>3
  <2>3. ASSUME NEW x \in Slots(v) PROVE x \in Slots(n)
    <3>1. PICK u \in Tokens(v) : x \in {u} \X DOMAIN v.tokens[u]
      BY DEF Slots
    <3>2. u \in Tokens(n) /\ x \in {u} \X DOMAIN n.tokens[u]
      BY <1>1, <1>3, <2>1, <3>1
    <3> QED BY <3>2 DEF Slots
  <2>4. w \in Tokens(n) /\ <<w, k>> \in {w} \X DOMAIN n.tokens[w]
    BY <1>1, <2>1
  <2> QED BY <2>2, <2>3, <2>4 DEF Slots
<1>8. <<w, k>> \notin Slots(v)
  <2> SUFFICES ASSUME <<w, k>> \in Slots(v) PROVE FALSE
    OBVIOUS
  <2>1. PICK u \in Tokens(v) : <<w, k>> \in {u} \X DOMAIN v.tokens[u]
    BY DEF Slots
  <2> QED BY <1>3, <1>5, <2>1
<1>9. IsFiniteSet(Slots(n)) /\ Cardinality(Slots(n)) = Cardinality(Slots(v)) + 1
  BY <1>7, <1>8, FS_AddElement
<1>10. VocabLen(n) = VocabLen(v) + 1
  <2>1. VocabLen(n) = 1 + Cardinality(Slots(n)) /\ VocabLen(v) = 1 + Cardinality(Slots(v))
    BY DEF VocabLen, Slots
  <2>2. Cardinality(Slots(v)) \in Nat
    BY FS_CardinalityType
  <2> QED BY <1>9, <2>1, <2>2
<1> QED BY <1>6, <1>9, <1>10 DEF n

(* What a tokenizer lists is finite.                                       *)
LEMMA ListsAreFinite ==
  ASSUME NEW t, IsTokenizer(t), NEW eos
  PROVE  IsFiniteSet(AddedTokens(t, eos)) /\ IsFiniteSet(VocabTokens(t, eos))
<1>1. IsFiniteSet(AddedTokens(t, eos))
  <2> DEFINE S == {x \in t.added : ~x.special /\ x.id # eos}
             f == [x \in S |-> <<Utf8(x.content), x.id>>]
  <2>1. IsFiniteSet(S)
    BY FS_Subset DEF IsTokenizer
  <2>2. f \in Surjection(S, AddedTokens(t, eos))
    BY DEF Surjection, AddedTokens
  <2> HIDE DEF S, f
  <2> QED BY <2>1, <2>2, FS_Surjection
<1>2. IsFiniteSet(VocabTokens(t, eos))
  <2> DEFINE S == {u \in DOMAIN t.vocab : t.vocab[u] # eos}
             f == [w \in S |-> <<w, t.vocab[w]>>]
  <2>1. IsFiniteSet(S)
    BY FS_Subset DEF IsTokenizer
  <2>2. f \in Surjection(S, VocabTokens(t, eos))
    BY DEF Surjection, VocabTokens
  <2> HIDE DEF S, f
  <2> QED BY <2>1, <2>2, FS_Surjection
<1> QED BY <1>1, <1>2

(* The tokens that are to be inserted, as they are meant.                  *)
Meant(decoder, items) == {<<Decoded(decoder, item[1]), item[2]>> : item \in items}

Documentable(t, eos) == IsPlain(t.decoder) /\ Unreadable(t, eos) = {}

DecodeInv ==
  /\ pc \in {"added", "tokens"} => IsFiniteSet(Slots(vocabulary)) /\ IsFiniteSet(todo)
  /\ pc = "added" =>
       /\ PairsOf(vocabulary) \cup todo = AddedTokens(tokenizer, vocabulary.eos)
       /\ VocabLen(vocabulary) + Cardinality(todo)
            = 1 + Cardinality(AddedTokens(tokenizer, vocabulary.eos))
  /\ pc = "tokens" =>
       /\ Documentable(tokenizer, vocabulary.eos) =>
            PairsOf(vocabulary) \cup Meant(tokenizer.decoder, todo)
              = Sources(tokenizer, vocabulary.eos)
       /\ VocabLen(vocabulary) + Cardinality(todo)
            = 1 + Cardinality(AddedTokens(tokenizer, vocabulary.eos))
                + Cardinality(VocabTokens(tokenizer, vocabulary.eos))
  /\ pc # "returned" => result = None
  /\ TokensDecode

LEMMA NotLoaded ==
  ASSUME result = None
  PROVE  TokensDecode
BY DEF TokensDecode, Loaded, None, Ok

LEMMA DecodeInit == ASSUME Init PROVE DecodeInv
BY NotLoaded DEF Init, DecodeInv

LEMMA DecodeLocate == ASSUME LoadInv, DecodeInv, Locate PROVE DecodeInv'
<1>1. PICK id : /\ vocabulary' = [eos |-> id, tokens |-> NoTokens]
                /\ todo' = AddedTokens(tokenizer, id)
  BY DEF Locate
<1>2. /\ pc = "locate" /\ pc' = "added" /\ UNCHANGED <<tokenizer, result>> /\ result = None
      /\ IsTokenizer(tokenizer)
  BY DEF Locate, input, LoadInv, DecodeInv
<1>3. Tokens(vocabulary') = {} /\ vocabulary'.eos = id
  BY <1>1 DEF Tokens, NoTokens
<1>4. PairsOf(vocabulary') = {} /\ Slots(vocabulary') = {}
  BY <1>3 DEF PairsOf, Slots
<1>5. IsFiniteSet(Slots(vocabulary')) /\ VocabLen(vocabulary') = 1
  <2>1. VocabLen(vocabulary') = 1 + Cardinality(Slots(vocabulary'))
    BY DEF VocabLen, Slots
  <2> QED BY <1>4, <2>1, FS_EmptySet
<1>6. IsFiniteSet(todo') /\ Cardinality(todo') \in Nat
  BY <1>1, <1>2, ListsAreFinite, FS_CardinalityType
<1>7. VocabLen(vocabulary') + Cardinality(todo')
        = 1 + Cardinality(AddedTokens(tokenizer', vocabulary'.eos))
  BY <1>1, <1>2, <1>3, <1>5, <1>6
<1>8. PairsOf(vocabulary') \cup todo' = AddedTokens(tokenizer', vocabulary'.eos)
  BY <1>1, <1>2, <1>3, <1>4
<1>9. TokensDecode'
  BY <1>2, NotLoaded DEF TokensDecode, Loaded, None, Ok
<1> QED BY <1>2, <1>5, <1>6, <1>7, <1>8, <1>9 DEF DecodeInv

LEMMA MeantSources ==
  ASSUME NEW t, NEW eos
  PROVE  AddedTokens(t, eos) \cup Meant(t.decoder, VocabTokens(t, eos)) = Sources(t, eos)
<1> DEFINE own == {u \in DOMAIN t.vocab : t.vocab[u] # eos}
           means == {<<Decoded(t.decoder, w), t.vocab[w]>> : w \in own}
<1>1. ASSUME NEW x \in Meant(t.decoder, VocabTokens(t, eos)) PROVE x \in means
  <2>1. PICK item \in VocabTokens(t, eos) : x = <<Decoded(t.decoder, item[1]), item[2]>>
    BY DEF Meant
  <2>2. PICK w \in own : item = <<w, t.vocab[w]>>
    BY DEF VocabTokens
  <2>3. item[1] = w /\ item[2] = t.vocab[w]
    BY <2>2
  <2> QED BY <2>1, <2>2, <2>3
<1>2. ASSUME NEW w \in own
      PROVE  <<Decoded(t.decoder, w), t.vocab[w]>> \in Meant(t.decoder, VocabTokens(t, eos))
  <2> DEFINE item == <<w, t.vocab[w]>>
  <2>1. item \in VocabTokens(t, eos)
    BY DEF VocabTokens
  <2>2. item[1] = w /\ item[2] = t.vocab[w]
    OBVIOUS
  <2> HIDE DEF item
  <2>3. <<Decoded(t.decoder, item[1]), item[2]>> \in Meant(t.decoder, VocabTokens(t, eos))
    BY <2>1 DEF Meant
  <2> QED BY <2>2, <2>3
<1> QED BY <1>1, <1>2 DEF Sources

LEMMA DecodeMakeProcessor == ASSUME LoadInv, DecodeInv, MakeProcessor PROVE DecodeInv'
<1> DEFINE t == tokenizer
           eos == vocabulary.eos
<1>1. /\ pc = "added" /\ todo = {} /\ pc' = "tokens" /\ todo' = VocabTokens(t, eos)
      /\ UNCHANGED <<tokenizer, vocabulary, result>>
  BY DEF MakeProcessor, input
<1>2. /\ IsFiniteSet(Slots(vocabulary)) /\ result = None /\ IsTokenizer(t)
      /\ PairsOf(vocabulary) = AddedTokens(t, eos)
      /\ VocabLen(vocabulary) + Cardinality(todo) = 1 + Cardinality(AddedTokens(t, eos))
  BY <1>1 DEF DecodeInv, LoadInv
<1>3. /\ IsFiniteSet(todo') /\ Cardinality(todo') \in Nat
      /\ Cardinality(AddedTokens(t, eos)) \in Nat
  BY <1>1, <1>2, ListsAreFinite, FS_CardinalityType
<1>4. VocabLen(vocabulary) = 1 + Cardinality(AddedTokens(t, eos))
  <2>1. VocabLen(vocabulary) = 1 + Cardinality(Slots(vocabulary))
    BY DEF VocabLen, Slots
  <2>2. Cardinality(Slots(vocabulary)) \in Nat /\ Cardinality(todo) = 0
    BY <1>1, <1>2, FS_CardinalityType, FS_EmptySet
  <2> QED BY <1>2, <1>3, <2>1, <2>2
<1>5. AddedTokens(t, eos) \cup Meant(t.decoder, VocabTokens(t, eos)) = Sources(t, eos)
  BY MeantSources
<1>6. PairsOf(vocabulary) \cup Meant(t.decoder, todo') = Sources(t, eos)
  BY <1>1, <1>2, <1>5
<1>7. TokensDecode'
  BY <1>1, <1>2, NotLoaded DEF TokensDecode, Loaded, None, Ok
<1>8. VocabLen(vocabulary) + Cardinality(todo')
        = 1 + Cardinality(AddedTokens(t, eos)) + Cardinality(VocabTokens(t, eos))
  BY <1>1, <1>4
<1> QED BY <1>1, <1>2, <1>3, <1>6, <1>7, <1>8 DEF DecodeInv

(* An id goes from what is to do into the vocabulary.                      *)
LEMMA InsertMoves ==
  ASSUME IdsInv, DecodeInv, pc \in {"added", "tokens"}, NEW token, NEW item \in todo,
         TryInsert(token, item[2], item)
  PROVE  /\ PairsOf(vocabulary') = PairsOf(vocabulary) \cup {<<token, item[2]>>}
         /\ IsFiniteSet(Slots(vocabulary')) /\ IsFiniteSet(todo')
         /\ VocabLen(vocabulary') + Cardinality(todo') = VocabLen(vocabulary) + Cardinality(todo)
<1>1. vocabulary' = Inserted(vocabulary, token, item[2]) /\ todo' = todo \ {item}
  BY InsertSteps
<1>2. /\ IsVocabulary(vocabulary) /\ item[2] \in TokenIdsType
      /\ IsFiniteSet(Slots(vocabulary)) /\ IsFiniteSet(todo)
  BY DEF IdsInv, DecodeInv
<1>3. /\ PairsOf(vocabulary') = PairsOf(vocabulary) \cup {<<token, item[2]>>}
      /\ IsFiniteSet(Slots(vocabulary')) /\ VocabLen(vocabulary') = VocabLen(vocabulary) + 1
  BY <1>1, <1>2, InsertedPairs
<1>4. /\ IsFiniteSet(todo') /\ Cardinality(todo') = Cardinality(todo) - 1
      /\ Cardinality(todo) \in Nat
  BY <1>1, <1>2, FS_RemoveElement, FS_CardinalityType
<1>5. VocabLen(vocabulary) \in Int
  <2>1. VocabLen(vocabulary) = 1 + Cardinality(Slots(vocabulary))
    BY DEF VocabLen, Slots
  <2> QED BY <1>2, <2>1, FS_CardinalityType
<1> QED BY <1>3, <1>4, <1>5

LEMMA DecodeInsertAdded == ASSUME IdsInv, LoadInv, DecodeInv, InsertAdded PROVE DecodeInv'
<1>1. PICK item \in todo : TryInsert(item[1], item[2], item)
  BY DEF InsertAdded
<1>2. pc = "added" /\ UNCHANGED tokenizer /\ result = None
  BY DEF InsertAdded, DecodeInv
<1>3. /\ vocabulary'.eos = vocabulary.eos /\ todo' = todo \ {item}
      /\ UNCHANGED <<pc, result>>
  BY <1>1, <1>2, InsertSteps
<1>4. /\ PairsOf(vocabulary') = PairsOf(vocabulary) \cup {<<item[1], item[2]>>}
      /\ IsFiniteSet(Slots(vocabulary')) /\ IsFiniteSet(todo')
      /\ VocabLen(vocabulary') + Cardinality(todo') = VocabLen(vocabulary) + Cardinality(todo)
  BY <1>1, <1>2, InsertMoves
<1>5. item = <<item[1], item[2]>>
  BY <1>2 DEF LoadInv, AddedTokens
<1>6. PairsOf(vocabulary') \cup todo' = PairsOf(vocabulary) \cup todo
  <2> DEFINE pair == <<item[1], item[2]>>
  <2>1. item = pair /\ PairsOf(vocabulary') = PairsOf(vocabulary) \cup {pair}
    BY <1>4, <1>5
  <2> HIDE DEF pair
  <2> QED BY <1>3, <2>1
<1>7. TokensDecode'
  BY <1>2, <1>3, NotLoaded DEF TokensDecode, Loaded, None, Ok
<1> QED BY <1>2, <1>3, <1>4, <1>6, <1>7 DEF DecodeInv

LEMMA DecodeInsertToken == ASSUME IdsInv, LoadInv, DecodeInv, InsertToken PROVE DecodeInv'
<1> DEFINE t == tokenizer
           eos == vocabulary.eos
<1>1. PICK item \in todo : \E x \in Process(processor, item[1]) : TryInsert(x, item[2], item)
  BY DEF InsertToken
<1>2. PICK token \in Process(processor, item[1]) : TryInsert(token, item[2], item)
  BY <1>1
<1>3. pc = "tokens" /\ UNCHANGED tokenizer /\ result = None
  BY DEF InsertToken, DecodeInv
<1>4. /\ vocabulary'.eos = vocabulary.eos /\ todo' = todo \ {item}
      /\ UNCHANGED <<pc, result>>
  BY <1>2, <1>3, InsertSteps
<1>5. /\ PairsOf(vocabulary') = PairsOf(vocabulary) \cup {<<token, item[2]>>}
      /\ IsFiniteSet(Slots(vocabulary')) /\ IsFiniteSet(todo')
      /\ VocabLen(vocabulary') + Cardinality(todo') = VocabLen(vocabulary) + Cardinality(todo)
  BY <1>2, <1>3, InsertMoves
<1>6. ASSUME Documentable(t, eos) PROVE token = Decoded(t.decoder, item[1])
  <2>1. PICK w \in DOMAIN t.vocab : item = <<w, t.vocab[w]>> /\ t.vocab[w] # eos
    BY <1>3 DEF LoadInv, VocabTokens
  <2>2. Readable(t.decoder, w) /\ IsPlain(t.decoder)
    BY <1>6, <2>1 DEF Documentable, Unreadable
  <2>3. IsTokenizer(t) /\ processor \in NewProcessor(t.decoder)
    BY <1>3 DEF LoadInv
  <2>4. w \in Seq(Char)
    BY <2>3 DEF IsTokenizer
  <2>5. item[1] = w
    BY <2>1
  <2>6. token \in Process(processor, w)
    BY <1>2, <2>5
  <2>7. token = Decoded(t.decoder, w)
    <3> HIDE DEF t
    <3> QED BY <2>2, <2>3, <2>4, <2>6, ProcessedAsDecoded
  <2> QED BY <2>5, <2>7
<1>7. ASSUME Documentable(t, eos)
      PROVE  PairsOf(vocabulary') \cup Meant(t.decoder, todo') = Sources(t, eos)
  <2> DEFINE pair == <<Decoded(t.decoder, item[1]), item[2]>>
  <2>1. PairsOf(vocabulary') = PairsOf(vocabulary) \cup {pair}
    BY <1>5, <1>6, <1>7
  <2>2. Meant(t.decoder, todo) = Meant(t.decoder, todo') \cup {pair}
    BY <1>4 DEF Meant
  <2>3. PairsOf(vocabulary) \cup Meant(t.decoder, todo) = Sources(t, eos)
    BY <1>3, <1>7 DEF DecodeInv
  <2> HIDE DEF pair
  <2> QED BY <2>1, <2>2, <2>3
<1>8. TokensDecode'
  BY <1>3, <1>4, NotLoaded DEF TokensDecode, Loaded, None, Ok
<1>9. VocabLen(vocabulary') + Cardinality(todo')
        = 1 + Cardinality(AddedTokens(t, eos)) + Cardinality(VocabTokens(t, eos))
  BY <1>3, <1>5 DEF DecodeInv
<1> QED BY <1>3, <1>4, <1>5, <1>7, <1>8, <1>9 DEF DecodeInv

LEMMA DecodeReturn == ASSUME LoadInv, DecodeInv, Return PROVE DecodeInv'
<1> DEFINE t == tokenizer
           eos == vocabulary.eos
<1>1. /\ pc = "tokens" /\ todo = {} /\ pc' = "returned"
      /\ UNCHANGED <<tokenizer, vocabulary, todo>>
  BY DEF Return, input, locals
<1>2. Meant(t.decoder, todo) = {} /\ Cardinality(todo) = 0
  BY <1>1, FS_EmptySet DEF Meant
<1>3. Documentable(t, eos) => PairsOf(vocabulary) = Sources(t, eos)
  BY <1>1, <1>2 DEF DecodeInv
<1>4. VocabLen(vocabulary)
        = 1 + Cardinality(AddedTokens(t, eos)) + Cardinality(VocabTokens(t, eos))
  <2>1. VocabLen(vocabulary) = 1 + Cardinality(Slots(vocabulary))
    BY DEF VocabLen, Slots
  <2>2. Cardinality(Slots(vocabulary)) \in Nat
    BY <1>1, FS_CardinalityType DEF DecodeInv
  <2>3. VocabLen(vocabulary) + 0
          = 1 + Cardinality(AddedTokens(t, eos)) + Cardinality(VocabTokens(t, eos))
    BY <1>1, <1>2 DEF DecodeInv
  <2> QED BY <2>1, <2>2, <2>3
<1>5. TokensDecode'
  BY <1>1, <1>3, <1>4 DEF TokensDecode, Documentable, PairsOf
<1> QED BY <1>1, <1>5 DEF DecodeInv

LEMMA DecodeStep == ASSUME IdsInv, LoadInv, DecodeInv, [Next]_vars PROVE DecodeInv'
<1>0. ASSUME NEW e, Fail(e) PROVE pc' = "returned" /\ result' # Ok
  BY <1>0 DEF Fail, Err, Ok
<1>1. CASE UNCHANGED vars
  BY <1>1 DEF vars, locals, DecodeInv, TokensDecode, Loaded
<1>2. ASSUME pc' \notin {"added", "tokens"}, result' # Ok, pc' = "returned" \/ result' = None
      PROVE  DecodeInv'
  BY <1>2 DEF DecodeInv, TokensDecode, Loaded
<1>3. CASE LoadTokenizer
  <2>1. pc' = "locate" /\ result' = None
    BY <1>3 DEF LoadTokenizer, DecodeInv
  <2> QED BY <1>2, <2>1 DEF None, Ok
<1>4. CASE LoadFails \/ NoProcessor \/ ProcessFails
  <2>1. \E e : Fail(e)
    BY <1>4 DEF LoadFails, NoProcessor, ProcessFails
  <2>2. pc' = "returned" /\ result' # Ok
    BY <1>0, <2>1
  <2> QED BY <1>2, <2>2
<1>5. CASE Locate
  BY <1>5, DecodeLocate
<1>6. CASE LookElsewhere \/ Unanswered
  <2>1. \/ pc' = "locate" /\ result' = None
        \/ pc' = "returned" /\ result' # Ok
    BY <1>0, <1>6 DEF LookElsewhere, Unanswered, GoOn, DecodeInv
  <2> QED BY <1>2, <2>1 DEF None, Ok
<1>7. CASE InsertAdded
  BY <1>7, DecodeInsertAdded
<1>8. CASE MakeProcessor
  BY <1>8, DecodeMakeProcessor
<1>9. CASE InsertToken
  BY <1>9, DecodeInsertToken
<1>10. CASE Return
  BY <1>10, DecodeReturn
<1> QED BY <1>1, <1>3, <1>4, <1>5, <1>6, <1>7, <1>8, <1>9, <1>10 DEF Next, Download, Compute

(* The tokens that a load takes have the bytes their decoder would write,  *)
(* if the documentation gives each of them a meaning, and whatever they    *)
(* are, each has an id for each place it comes from.                       *)
THEOREM TokensAreDecoded == Spec => []TokensDecode
<1>1. DecodeInv => TokensDecode
  BY DEF DecodeInv
<1> QED BY <1>1, IdsInit, IdsStep, LoadInit, LoadStep, DecodeInit, DecodeStep, PTL DEF Spec

----------------------------------------------------------------------------
(* The load comes to an end *)

(* What is left to do: phases of the load, and places or tokens in one.    *)
PhasesLeft ==
  CASE pc = "load" -> 4 [] pc = "locate" -> 3 [] pc = "added" -> 2 [] pc = "tokens" -> 1
    [] OTHER -> 0

PartsLeft ==
  CASE pc = "locate"              -> Len(COMMON_LOCATIONS) - location
    [] pc \in {"added", "tokens"} -> Cardinality(todo)
    [] OTHER                      -> 0

Rank == <<PhasesLeft, PartsLeft>>

LEMMA RankType ==
  ASSUME SearchInv, DecodeInv
  PROVE  PhasesLeft \in Nat /\ PartsLeft \in Nat
<1>1. CASE pc = "locate"
  BY <1>1, Locations DEF PhasesLeft, PartsLeft, SearchInv
<1>2. CASE pc \in {"added", "tokens"}
  <2>1. Cardinality(todo) \in Nat
    BY <1>2, FS_CardinalityType DEF DecodeInv
  <2> QED BY <1>2, <2>1 DEF PhasesLeft, PartsLeft
<1>3. CASE pc \notin {"locate", "added", "tokens"}
  BY <1>3 DEF PhasesLeft, PartsLeft
<1> QED BY <1>1, <1>2, <1>3

(* A call that returns has no phase left.                                  *)
LEMMA ReturnCounts ==
  ASSUME pc \in {"load", "locate", "added", "tokens"}, pc' = "returned"
  PROVE  PhasesLeft' < PhasesLeft
BY DEF PhasesLeft

(* A token that is inserted is one less.                                   *)
LEMMA InsertCounts ==
  ASSUME DecodeInv, pc \in {"added", "tokens"}, NEW token, NEW item \in todo,
         TryInsert(token, item[2], item)
  PROVE  PhasesLeft' < PhasesLeft \/ (PhasesLeft' = PhasesLeft /\ PartsLeft' < PartsLeft)
<1>1. CASE MayInsert(vocabulary, item[2])
  <2>1. todo' = todo \ {item} /\ pc' = pc
    BY <1>1 DEF TryInsert
  <2>2. Cardinality(todo') < Cardinality(todo)
    BY <2>1, FewerMembers DEF DecodeInv
  <2> QED BY <2>1, <2>2 DEF PhasesLeft, PartsLeft
<1>2. CASE ~MayInsert(vocabulary, item[2])
  BY <1>2, ReturnCounts DEF TryInsert, Fail
<1> QED BY <1>1, <1>2

(* The next place is one less, and behind the last one the call returns.   *)
LEMMA GoOnCounts ==
  ASSUME SearchInv, pc = "locate", GoOn
  PROVE  PhasesLeft' < PhasesLeft \/ (PhasesLeft' = PhasesLeft /\ PartsLeft' < PartsLeft)
<1>1. CASE location < Len(COMMON_LOCATIONS)
  <2>1. location' = location + 1 /\ pc' = "locate" /\ location \in 1..3
    BY <1>1, Locations DEF GoOn, SearchInv
  <2> QED BY <2>1, Locations DEF PhasesLeft, PartsLeft
<1>2. CASE ~(location < Len(COMMON_LOCATIONS))
  BY <1>2, ReturnCounts DEF GoOn, Fail
<1> QED BY <1>1, <1>2

(* Every step of a load, one that a hub takes or one that fails too,       *)
(* leaves less to do: nothing is downloaded or inserted a second time, and *)
(* as such a countdown ends (CountdownEnds), a load takes finitely many    *)
(* steps, whatever the hub answers.                                        *)
THEOREM LoadCountsDown == Spec => [][(<<Rank', Rank>> \in Countdown(2))]_vars
<1>1. ASSUME SearchInv, DecodeInv, LoadInv, SearchInv', DecodeInv', Next
      PROVE  <<Rank', Rank>> \in Countdown(2)
  <2>1. PhasesLeft \in Nat /\ PartsLeft \in Nat /\ PhasesLeft' \in Nat /\ PartsLeft' \in Nat
    <3>1. (SearchInv /\ DecodeInv => PhasesLeft \in Nat /\ PartsLeft \in Nat)'
      BY RankType, PTL
    <3> QED BY <1>1, <3>1, RankType
  <2>2. PhasesLeft' < PhasesLeft \/ (PhasesLeft' = PhasesLeft /\ PartsLeft' < PartsLeft)
    <3>1. CASE LoadTokenizer \/ Locate \/ MakeProcessor
      BY <3>1 DEF LoadTokenizer, Locate, MakeProcessor, PhasesLeft
    <3>2. CASE LoadFails \/ NoProcessor \/ ProcessFails \/ Return
      BY <3>2, ReturnCounts DEF LoadFails, NoProcessor, ProcessFails, Return, Fail
    <3>3. CASE LookElsewhere \/ Unanswered
      BY <1>1, <3>3, GoOnCounts DEF LookElsewhere, Unanswered
    <3>4. CASE InsertAdded \/ InsertToken
      BY <1>1, <3>4, InsertCounts DEF InsertAdded, InsertToken
    <3> QED BY <1>1, <3>1, <3>2, <3>3, <3>4 DEF Next, Download, Compute
  <2> QED BY <2>1, <2>2, CountsDownTwo DEF Rank
<1> QED
  BY <1>1, IdsInit, IdsStep, SearchInit, SearchStep, LoadInit, LoadStep, DecodeInit, DecodeStep,
     PTL DEF Spec
=============================================================================
