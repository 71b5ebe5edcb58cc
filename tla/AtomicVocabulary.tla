-------------------------- MODULE AtomicVocabulary --------------------------
(***************************************************************************)
(* What the threads of a Python program may rely on when they share a      *)
(* Vocabulary: a call is refused because a call that conflicts with it is  *)
(* under way, or it takes place at one moment, the building of an Index    *)
(* among them.                                                             *)
(***************************************************************************)
EXTENDS Vocabulary

CONSTANTS
  Threads,
  Calls,  \* what threads may call: records with op and arg, token and id
  Eos,    \* the arguments of the constructor: the EOS id
  Maps    \* and the map of tokens to ids

VARIABLES
  vocabulary,
  call,     \* the call each thread is in
  returned  \* what the last step returned to its caller, if it did

vars == <<vocabulary, call, returned>>

NoCall == [op |-> "none"]
NoReply == [tag |-> "none"]

Running == {t \in Threads : call[t] # NoCall}

(* Calls that change the vocabulary tolerate no other call on it.          *)
Conflict(c, d) ==
  /\ {c.op, d.op} \cap {"insert", "remove"} # {}
  /\ "from_pretrained" \notin {c.op, d.op}

Reply(c, v) ==
  IF c.arg = "other" THEN [tag |-> "TypeError"]
  ELSE IF c.arg \in {"invalid regex", "unserved"} \/ (c.op = "insert" /\ ~MayInsert(v, c.id))
  THEN [tag |-> "ValueError"]
  ELSE CASE c.op \in {"insert", "remove"} -> [tag |-> "None"]
         [] c.op = "get" -> [tag |-> "get", ids |-> TokenIds(v, c.token)]
         [] c.op = "len" -> [tag |-> "len", len |-> VocabLen(v)]
         [] c.op = "from_pretrained" -> [tag |-> "Vocabulary"]
         [] c.op = "Index" ->
              [tag |-> "Index", vocab_size |-> VocabLen(v), tokens |-> v.tokens]

Effect(c, v) ==
  IF c.arg # "other" /\ c.op = "insert" /\ MayInsert(v, c.id) THEN Inserted(v, c.token, c.id)
  ELSE IF c.arg # "other" /\ c.op = "remove" THEN Removed(v, c.token)
  ELSE v

Init ==
  /\ \E m \in Maps : Accepted(Eos, m) /\ vocabulary = [eos |-> Eos, tokens |-> m]
  /\ call = [t \in Threads |-> NoCall]
  /\ returned = NoReply

Ask(t, c) ==
  /\ t \notin Running
  /\ \A u \in Running : ~Conflict(call[u], c)
  /\ call' = [call EXCEPT ![t] = c]
  /\ returned' = NoReply
  /\ UNCHANGED vocabulary

Refuse(t, c) ==
  /\ t \notin Running
  /\ \E u \in Running : Conflict(call[u], c)
  /\ returned' = [tag |-> "RuntimeError"]
  /\ UNCHANGED <<vocabulary, call>>

Return(t) ==
  /\ t \in Running
  /\ vocabulary' = Effect(call[t], vocabulary)
  /\ returned' = Reply(call[t], vocabulary)
  /\ call' = [call EXCEPT ![t] = NoCall]

(* Time passes.                                                            *)
Wait == returned' = NoReply /\ UNCHANGED <<vocabulary, call>>

Next ==
  \/ Wait
  \/ \E t \in Threads : Return(t) \/ \E c \in Calls : Ask(t, c) \/ Refuse(t, c)

Spec == Init /\ [][Next]_vars
=============================================================================
