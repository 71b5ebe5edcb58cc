------------------------------ MODULE Pattern ------------------------------
(***************************************************************************)
(* The regular expressions that the schema parser writes.                  *)
(*                                                                         *)
(* The parser writes strings, and to put strings in a row is not to put    *)
(* expressions in a row: "|" binds weakest.  A pattern is therefore a      *)
(* sequence of items in which "|" is an item of its own; what is between   *)
(* parentheses is one item.  The items:                                    *)
(*   <<"or">>                 |                                            *)
(*   <<"text", t>>            an escaped piece of JSON, t                  *)
(*   <<"raw", x>>             a piece of a string's content                *)
(*   <<"strings", lo, hi>>    a string of lo to hi characters              *)
(*   <<"numbers", i, f, e>>   a number, each part the quantifier of its    *)
(*                            digits (behind the first one, for i); an     *)
(*                            empty sequence where there is no such part   *)
(*   <<"format", name>>       a string of a format, with its quotes        *)
(*   <<"bare", name>>         a string of a format, without quotes         *)
(*   <<"begin">>, <<"end">>   the anchors ^ and $                          *)
(*   <<"repeat", p, lo, hi>>  (p){lo,hi}                                   *)
(* Signs, whitespace and the letters of strings are left out.              *)
(***************************************************************************)
EXTENDS Integers, Sequences, SequencesExt

CONSTANT Unbounded  \* the upper bound that is not there, as in {1,}

ASSUME UnboundedAssumption == Unbounded \notin Nat

Item(item) == <<item>>
Text(t)    == Item(<<"text", t>>)

(* join of a separator; join("|")                                          *)
JoinBy(sep, ps) ==
  FlattenSeq([i \in 1..Len(ps) |-> IF i = 1 THEN ps[i] ELSE sep \o ps[i]])

JoinOr(ps) == JoinBy(Item(<<"or">>), ps)

(* Whether n repetitions are as many as a quantifier asks for              *)
Within(n, quantifier) ==
  n >= quantifier[1] /\ (quantifier[2] = Unbounded \/ n <= quantifier[2])

(* 0|[1-9][0-9]{..}: a zero, or more digits behind a first one; what the   *)
(* quantifier asks for is not asked of the zero.                           *)
WholePartMatches(first, more, quantifier) ==
  IF first = "0" THEN more = 0 ELSE Within(more, quantifier)

(* (p){lo,hi}, (p) and (p)?                                                *)
Repeat(p, lo, hi) == Item(<<"repeat", p, lo, hi>>)
Group(p)          == Repeat(p, 1, 1)
Optional(p)       == Repeat(p, 0, 1)
============================================================================
