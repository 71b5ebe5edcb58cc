------------------------------ MODULE Session ------------------------------
(***************************************************************************)
(* The threads of a Python program share a Vocabulary and build indexes    *)
(* from it (PyVocabulary and PyIndex::__new__ in                           *)
(* src/src/python_bindings/mod.rs).  Python code runs with the GIL, which  *)
(* it may lose at any time; a method keeps it, except that                 *)
(*   - PyIndex::__new__ gives it up for as long as the index is built;     *)
(*   - telling what a token argument is may run Python code: bytes are     *)
(*     tested for being a Sequence, whose __instancecheck__ is Python.     *)
(* It keeps it in from_pretrained too, which waits for the network; that   *)
(* method has no object, and so no borrow.                                 *)
(* All that keeps a method from seeing another halfway is the borrow of    *)
(* the object, shared for &self and exclusive for &mut self, that PyO3     *)
(* takes before it looks at the arguments and drops when the method        *)
(* returns.  A borrow that cannot be had is a RuntimeError, never a wait.  *)
(* A call made from within an argument's own code counts as a call of      *)
(* another thread.                                                         *)
(***************************************************************************)
EXTENDS Vocabulary

CONSTANTS
  Threads,
  Calls,   \* what threads may call: records with op and arg, token and id
  Eos,     \* the arguments of the constructor: the EOS id
  Maps,    \* and the map of tokens to ids
  Nobody,  \* not a thread
  MaxLen   \* bound on the length of the vocabulary

TokenArgs == {"str", "bytes", "other"}

IsCall(c) ==
  \/ c.op = "insert" /\ c.arg \in TokenArgs /\ DOMAIN c = {"op", "arg", "token", "id"}
  \/ c.op \in {"remove", "get"} /\ c.arg \in TokenArgs /\ DOMAIN c = {"op", "arg", "token"}
  \/ c.op = "len" /\ c.arg = "none" /\ DOMAIN c = {"op", "arg"}
  \/ c.op = "Index" /\ c.arg \in {"regex", "invalid regex"} /\ DOMAIN c = {"op", "arg"}
  \/ c.op = "from_pretrained" /\ c.arg \in {"served", "unserved"} /\ DOMAIN c = {"op", "arg"}

ASSUME CallsAssumption ==
  /\ Nobody \notin Threads
  /\ \A c \in Calls : IsCall(c) /\ (c.op = "insert" => c.id \in Nat)
  /\ \A m \in Maps : \A w \in DOMAIN m : m[w] \in Seq(Nat)

VARIABLES
  vocabulary,
  call, pc,   \* for each thread: the call it is in, and how far it got
  size, read, \* for each thread: what Index::new has read of the vocabulary
  gil,        \* the thread that has the GIL
  readers,    \* the threads with a shared borrow of the vocabulary
  writer,     \* the thread with the exclusive one
  returned    \* what the last step returned to its caller, if it did

build == <<size, read>>
borrows == <<readers, writer>>
vars == <<vocabulary, call, pc, build, gil, borrows, returned>>

NoCall  == [op |-> "none"]
NoReply == [tag |-> "none"]

(* What Python makes of an Error of the crate.                             *)
ValueError == [tag |-> "ValueError"]

(* No call returns.                                                        *)
Silent == returned' = NoReply

Building(t) == pc[t] \in {"measure", "explore"}

Init ==
  /\ \E m \in Maps : Accepted(Eos, m) /\ vocabulary = [eos |-> Eos, tokens |-> m]
  /\ call = [t \in Threads |-> NoCall]
  /\ pc = [t \in Threads |-> "python"]
  /\ size = [t \in Threads |-> 0] /\ read = [t \in Threads |-> <<>>]
  /\ gil = Nobody
  /\ readers = {} /\ writer = Nobody
  /\ returned = NoReply

----------------------------------------------------------------------------
(* The GIL *)

TakeGil(t) ==
  /\ gil = Nobody /\ ~Building(t)
  /\ gil' = t
  /\ Silent
  /\ UNCHANGED <<vocabulary, call, pc, build, borrows>>

(* Python code is running, the program's or that of an argument.           *)
DropGil(t) ==
  /\ gil = t /\ pc[t] \in {"python", "extract"}
  /\ gil' = Nobody
  /\ Silent
  /\ UNCHANGED <<vocabulary, call, pc, build, borrows>>

----------------------------------------------------------------------------
(* The beginning and the end of a method *)

Exclusive(c) == c.op \in {"insert", "remove"}

Shared(c) == c.op \in {"get", "len", "Index"}

(* try_borrow_mut, try_borrow; a static method has nothing to borrow.      *)
MayBorrow(c) ==
  /\ Exclusive(c) => writer = Nobody /\ readers = {}
  /\ Shared(c) => writer = Nobody

(* Mutant: the borrow ends before the index is built.                      *)
BorrowBriefly(t, c) ==
  /\ writer' = IF Exclusive(c) THEN t ELSE writer
  /\ readers' = IF Shared(c) /\ c.op # "Index" THEN readers \cup {t} ELSE readers

Borrow(t, c) ==
  /\ writer' = IF Exclusive(c) THEN t ELSE writer
  /\ readers' = IF Shared(c) THEN readers \cup {t} ELSE readers

Release(t) ==
  /\ readers' = readers \ {t}
  /\ writer' = IF writer = t THEN Nobody ELSE writer

Refuse(t, c) ==
  /\ gil = t /\ pc[t] = "python" /\ ~MayBorrow(c)
  /\ returned' = [tag |-> "RuntimeError"]
  /\ UNCHANGED <<vocabulary, call, pc, build, gil, borrows>>

Begin(t, c) ==
  /\ gil = t /\ pc[t] = "python" /\ MayBorrow(c) /\ c.op \notin {"Index", "from_pretrained"}
  /\ c.op = "insert" => VocabLen(vocabulary) < MaxLen
  /\ call' = [call EXCEPT ![t] = c]
  /\ pc' = [pc EXCEPT ![t] = IF c.arg \in {"bytes", "other"} THEN "extract" ELSE "body"]
  /\ Borrow(t, c)
  /\ Silent
  /\ UNCHANGED <<vocabulary, build, gil>>

EndWith(t, reply) ==
  /\ call' = [call EXCEPT ![t] = NoCall]
  /\ pc' = [pc EXCEPT ![t] = "python"]
  /\ Release(t)
  /\ returned' = reply
  /\ UNCHANGED <<build, gil>>

----------------------------------------------------------------------------
(* insert, remove, get and __len__ *)

Extract(t) ==
  /\ gil = t /\ pc[t] = "extract" /\ call[t].arg = "bytes"
  /\ pc' = [pc EXCEPT ![t] = "body"]
  /\ Silent
  /\ UNCHANGED <<vocabulary, call, build, gil, borrows>>

(* Mutant: the error leaves the object borrowed.                           *)
ExtractFailsBorrowed(t) ==
  /\ gil = t /\ pc[t] = "extract" /\ call[t].arg = "other"
  /\ call' = [call EXCEPT ![t] = NoCall]
  /\ pc' = [pc EXCEPT ![t] = "python"]
  /\ returned' = [tag |-> "TypeError"]
  /\ UNCHANGED <<vocabulary, build, gil, borrows>>

ExtractFails(t) ==
  /\ gil = t /\ pc[t] = "extract" /\ call[t].arg = "other"
  /\ EndWith(t, [tag |-> "TypeError"])
  /\ UNCHANGED vocabulary

Body(t, op) == gil = t /\ pc[t] = "body" /\ call[t].op = op

Insert(t) ==
  /\ Body(t, "insert") /\ MayInsert(vocabulary, call[t].id)
  /\ vocabulary' = Inserted(vocabulary, call[t].token, call[t].id)
  /\ EndWith(t, [tag |-> "None"])

InsertRefused(t) ==
  /\ Body(t, "insert") /\ ~MayInsert(vocabulary, call[t].id)
  /\ EndWith(t, ValueError)
  /\ UNCHANGED vocabulary

Remove(t) ==
  /\ Body(t, "remove")
  /\ vocabulary' = Removed(vocabulary, call[t].token)
  /\ EndWith(t, [tag |-> "None"])

Get(t) ==
  /\ Body(t, "get")
  /\ EndWith(t, [tag |-> "get", ids |-> TokenIds(vocabulary, call[t].token)])
  /\ UNCHANGED vocabulary

Length(t) ==
  /\ Body(t, "len")
  /\ EndWith(t, [tag |-> "len", len |-> VocabLen(vocabulary)])
  /\ UNCHANGED vocabulary

----------------------------------------------------------------------------
(* PyIndex::__new__: py.allow_threads(|| Index::new(regex, &vocabulary.0)) *)

BeginIndexKeeping(t, c, holder) ==
  /\ gil = t /\ pc[t] = "python" /\ MayBorrow(c) /\ c.op = "Index"
  /\ call' = [call EXCEPT ![t] = c]
  /\ pc' = [pc EXCEPT ![t] = "measure"]
  /\ Borrow(t, c)
  /\ gil' = holder
  /\ Silent
  /\ UNCHANGED <<vocabulary, build>>

(* Mutant: without allow_threads.                                          *)
BeginIndexWithGil(t, c) == BeginIndexKeeping(t, c, t)

BeginIndex(t, c) == BeginIndexKeeping(t, c, Nobody)

(* let vocab_size = vocabulary.len()                                       *)
Measure(t) ==
  /\ pc[t] = "measure"
  /\ size' = [size EXCEPT ![t] = VocabLen(vocabulary)]
  /\ pc' = [pc EXCEPT ![t] = "explore"]
  /\ Silent
  /\ UNCHANGED <<vocabulary, call, read, gil, borrows>>

(* The loop over vocabulary.tokens(), if the regex compiles.               *)
Explore(t) ==
  /\ pc[t] = "explore"
  /\ read' = IF call[t].arg = "regex" THEN [read EXCEPT ![t] = vocabulary.tokens] ELSE read
  /\ pc' = [pc EXCEPT ![t] = "built"]
  /\ Silent
  /\ UNCHANGED <<vocabulary, call, size, gil, borrows>>

EndIndex(t) ==
  /\ gil = t /\ pc[t] = "built"
  /\ call' = [call EXCEPT ![t] = NoCall]
  /\ pc' = [pc EXCEPT ![t] = "python"]
  /\ Release(t)
  /\ returned' = IF call[t].arg = "regex"
                 THEN [tag |-> "Index", vocab_size |-> size[t], tokens |-> read[t]]
                 ELSE ValueError
  /\ size' = [size EXCEPT ![t] = 0] /\ read' = [read EXCEPT ![t] = <<>>]
  /\ UNCHANGED <<vocabulary, gil>>

----------------------------------------------------------------------------
(* from_pretrained: Vocabulary::from_pretrained downloads with the GIL     *)

BeginDownload(t, c) ==
  /\ gil = t /\ pc[t] = "python" /\ c.op = "from_pretrained"
  /\ call' = [call EXCEPT ![t] = c]
  /\ pc' = [pc EXCEPT ![t] = "download"]
  /\ Silent
  /\ UNCHANGED <<vocabulary, build, gil, borrows>>

(* The hub answers; the new vocabulary is another object.                  *)
EndDownload(t) ==
  /\ gil = t /\ pc[t] = "download"
  /\ EndWith(t, IF call[t].arg = "served" THEN [tag |-> "Vocabulary"] ELSE ValueError)
  /\ UNCHANGED vocabulary

----------------------------------------------------------------------------
(* A step of a method that runs with the GIL *)
Step(t) ==
  \/ Extract(t) \/ ExtractFails(t)
  \/ Insert(t) \/ InsertRefused(t) \/ Remove(t) \/ Get(t) \/ Length(t)
  \/ EndIndex(t)

Next ==
  \E t \in Threads :
    \/ TakeGil(t) \/ DropGil(t)
    \/ \E c \in Calls : Refuse(t, c) \/ Begin(t, c) \/ BeginIndex(t, c) \/ BeginDownload(t, c)
    \/ Step(t)
    \/ EndDownload(t)
    \/ Measure(t) \/ Explore(t)

(* CPython takes the GIL from a thread that has it when another waits, and *)
(* lets each waiting thread have it in the end; a thread that has it makes *)
(* progress, the code of an argument too.  Nothing is assumed of a build   *)
(* or of the network: either may take for ever.                            *)
Fairness ==
  \A t \in Threads :
    SF_vars(DropGil(t)) /\ SF_vars(TakeGil(t)) /\ SF_vars(Step(t))

Spec == Init /\ [][Next]_vars /\ Fairness

----------------------------------------------------------------------------
(* Properties *)

(* Type invariant.                                                         *)
TypeOK ==
  /\ vocabulary = [eos |-> Eos, tokens |-> vocabulary.tokens]
  /\ \A w \in Tokens(vocabulary) : vocabulary.tokens[w] \in Seq(Nat)
  /\ call \in [Threads -> Calls \cup {NoCall}]
  /\ pc \in [Threads -> {"python", "extract", "body", "measure", "explore", "built", "download"}]
  /\ DOMAIN size = Threads /\ DOMAIN read = Threads
  /\ gil \in Threads \cup {Nobody}
  /\ readers \subseteq Threads
  /\ writer \in Threads \cup {Nobody}
  /\ \A t \in Threads :
       /\ pc[t] = "python" <=> call[t] = NoCall
       /\ pc[t] \in {"measure", "explore", "built"} => call[t].op = "Index"
       /\ pc[t] = "download" <=> call[t].op = "from_pretrained"
       /\ pc[t] = "download" => gil = t
       /\ pc[t] \in {"extract", "body"} => call[t].op # "Index"
       /\ pc[t] = "body" => call[t].arg # "other"
  /\ gil # Nobody => ~Building(gil)

(* A borrow lasts as long as the call it was taken for, whichever way the  *)
(* call ends: a vocabulary that nobody uses can be changed, and one that   *)
(* is being changed has no other user.                                     *)
BorrowsAreCalls ==
  /\ readers = {t \in Threads : call[t].op \in {"get", "len", "Index"}}
  /\ \A t \in Threads : writer = t <=> call[t].op \in {"insert", "remove"}
  /\ writer # Nobody => readers = {}

(* The EOS id stays out of the tokens, by whatever calls they got there:   *)
(* Index::new takes the id for the end of the text wherever it meets it.   *)
EosReserved == EosReservedIn(vocabulary)

(* What a build has read is still so.                                      *)
ReadsHold ==
  \A t \in Threads :
    /\ pc[t] \in {"explore", "built"} => size[t] = VocabLen(vocabulary)
    /\ pc[t] = "built" /\ call[t].arg = "regex" => read[t] = vocabulary.tokens

(* The inductive invariant.                                                *)
IInv == TypeOK /\ BorrowsAreCalls /\ EosReserved /\ ReadsHold

(* A download that never ends: the GIL is never free again.                *)
Stuck == <>[](\E t \in Threads : pc[t] = "download")

(* A thread is not kept waiting by a build of another, however long, but   *)
(* only by a download that does not end: it has the GIL time and again.    *)
BuildStopsNobody == \A t \in Threads : []<>(gil = t \/ Building(t)) \/ Stuck

(* Every call that is neither building nor downloading returns, next to    *)
(* builds that never end, unless a download does not end.                  *)
CallsReturn ==
  \A t \in Threads :
    (pc[t] \in {"extract", "body", "built"} ~> pc[t] = "python") \/ Stuck

(* The vocabulary as its users see it.                                     *)
Abstract == INSTANCE AtomicVocabulary

(* Calls on a shared vocabulary take place one at a time or are refused    *)
(* for a conflict; an index is that of one vocabulary, the one it returns  *)
(* to, although it was read in pieces and without the GIL.                 *)
ImplementsAtomicVocabulary == Abstract!Spec
=============================================================================
