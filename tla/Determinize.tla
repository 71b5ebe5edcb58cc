---------------------------- MODULE Determinize ----------------------------
(***************************************************************************)
(* The automaton of a regular expression, as the regex-automata crate      *)
(* builds it for DFA::new: subset construction over threads kept in        *)
(* priority order, leftmost-first, with matches reported one byte late.    *)
(* The crate is not in the repository; the tables of the tests at          *)
(* src/src/index.rs:229 and :283 fix the details.                          *)
(*                                                                         *)
(* An expression is a record with a field op:                              *)
(*   [op |-> "byte", set |-> S]                a byte of the set S         *)
(*   [op |-> "cat", fst |-> e, snd |-> f]      e then f                    *)
(*   [op |-> "alt", fst |-> e, snd |-> f]      e, or else f                *)
(*   [op |-> "opt", arg |-> e]                 e?                          *)
(*   [op |-> "star", arg |-> e]                e*, e not matching ""       *)
(* A thread is the sequence of expressions it has still to match; the      *)
(* empty sequence is a thread that has matched.                            *)
(***************************************************************************)
EXTENDS Integers, Sequences, SequencesExt, TLC

Byte(S)   == [op |-> "byte", set |-> S]
Cat(e, f) == [op |-> "cat", fst |-> e, snd |-> f]
Alt(e, f) == [op |-> "alt", fst |-> e, snd |-> f]
Opt(e)    == [op |-> "opt", arg |-> e]
Star(e)   == [op |-> "star", arg |-> e]

(* The epsilon closure of a thread: the threads it may continue as, each   *)
(* waiting for a byte or matched, in priority order.                       *)
RECURSIVE Closure(_)
Closure(k) ==
  IF k = <<>> \/ (k # <<>> /\ k[1].op = "byte") THEN <<k>>
  ELSE LET e == k[1] rest == Tail(k) IN
       CASE e.op = "cat"  -> Closure(<<e.fst, e.snd>> \o rest)
         [] e.op = "alt"  -> Closure(<<e.fst>> \o rest) \o Closure(<<e.snd>> \o rest)
         [] e.op = "opt"  -> Closure(<<e.arg>> \o rest) \o Closure(rest)
         [] e.op = "star" -> Closure(<<e.arg, e>> \o rest) \o Closure(rest)

(* A sequence without its repetitions: the first occurrence stays.         *)
Distinct(ks) ==
  FoldLeft(LAMBDA acc, k : IF Contains(acc, k) THEN acc ELSE Append(acc, k), <<>>, ks)

(* A state of the automaton: whether it reports a match, and its threads.  *)
DfaState(flag, threads) == [match |-> flag, threads |-> Distinct(threads)]

Matched(s) == Contains(s.threads, <<>>)

(* The threads of higher priority than the first one that has matched.     *)
Preferred(s) ==
  IF Matched(s) THEN SubSeq(s.threads, 1, SelectInSeq(s.threads, LAMBDA k : k = <<>>) - 1)
                ELSE s.threads

(* next_state: the preferred threads that the byte b moves, and the match  *)
(* flag of the state that is left.                                         *)
StepBy(s, b) ==
  LET moved == SelectSeq(Preferred(s), LAMBDA k : b \in k[1].set)
  IN  DfaState(Matched(s), FlattenSeq([j \in 1..Len(moved) |-> Closure(Tail(moved[j]))]))

DeadState == DfaState(FALSE, <<>>)

(* The states found so far, in the order they were found, and those that   *)
(* the n-th and the ones behind it lead to.                                *)
RECURSIVE Explore(_, _, _)
Explore(states, n, bytes) ==
  LET Add(b, found) ==
        LET q == StepBy(states[n], b)
        IN  IF Contains(found, q) THEN found ELSE Append(found, q)
  IN  IF n > Len(states) THEN states
      ELSE Explore(FoldSet(Add, states, bytes), n + 1, bytes)

(* DFA::new: the table over the given bytes, its states numbered.  0 is    *)
(* the quit state, which no byte of these expressions leads to.  (To       *)
(* extend next by nothing changes nothing: it makes TLC tabulate it.)      *)
DfaOf(e, bytes) ==
  LET start   == DfaState(FALSE, Closure(<<e>>))
      states  == Explore(<<start, DeadState>>, 1, bytes)
      ids     == 0..Len(states)
      number  == [s \in ToSet(states) |-> CHOOSE n \in 1..Len(states) : states[n] = s]
  IN  [ states |-> ids,
        bytes  |-> bytes,
        start  |-> number[start],
        next   |-> [<<n, b>> \in ids \X bytes |->
                      IF n = 0 THEN 0 ELSE number[StepBy(states[n], b)]] @@ <<>>,
        stuck  |-> {0, number[DeadState]},
        match  |-> {n \in 1..Len(states) : states[n].match},
        eoi    |-> {n \in 1..Len(states) : Matched(states[n])} ]

----------------------------------------------------------------------------
(* What the expressions mean, with no automaton: the positions after which *)
(* e may end when it starts behind position i of the text.                 *)
RECURSIVE Ends(_, _, _)
Ends(e, text, i) ==
  CASE e.op = "byte" -> IF i < Len(text) /\ text[i + 1] \in e.set THEN {i + 1} ELSE {}
    [] e.op = "cat"  -> UNION {Ends(e.snd, text, j) : j \in Ends(e.fst, text, i)}
    [] e.op = "alt"  -> Ends(e.fst, text, i) \cup Ends(e.snd, text, i)
    [] e.op = "opt"  -> {i} \cup Ends(e.arg, text, i)
    [] e.op = "star" -> {i} \cup UNION {Ends(e, text, j) : j \in Ends(e.arg, text, i)}

FullMatch(e, text) == Len(text) \in Ends(e, text, 0)
=============================================================================
