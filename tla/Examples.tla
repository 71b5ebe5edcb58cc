------------------------------ MODULE Examples ------------------------------
(* Expressions and vocabularies the runs are made of: those of the         *)
(* repository's tests and others that bring out a hard case.               *)
EXTENDS Index, Determinize, TLC

(* Bytes are numbers, as in Vec<u8>; these are the ASCII codes.            *)
zero == 48
one == 49
a == 97
b == 98
c == 99

MCBytes == {zero, one, a, b, c}

(* 0|[1-9][0-9]*, the expression of the tests, over the digits 0 and 1     *)
Number == Alt(Byte({zero}), Cat(Byte({one}), Star(Byte({zero, one}))))

(* a(bc)?                                                                  *)
OptionalTail == Cat(Byte({a}), Opt(Cat(Byte({b}), Byte({c}))))

(* a|ab: leftmost-first, the second branch never adds to a match           *)
Prefixed == Alt(Byte({a}), Cat(Byte({a}), Byte({b})))

(* (a|b)*: the start is final, and a loop leads back                       *)
Loop == Star(Alt(Byte({a}), Byte({b})))

(* The expression of the test at src/src/index.rs:284.  Its characters,    *)
(* F0 9F 98 and 87 to 8E, are shortened to their first and last bytes.     *)
Emoji(S) == Cat(Byte({240}), Byte(S))

Multibyte ==
  Alt(Emoji({135}), Cat(Byte({32}), Cat(Emoji(136..141), Star(Emoji(135..142)))))

Vocab(eos, ts) == [eos |-> eos, tokens |-> ts]

(* `\n(\.\n)?`\n, the expression of the test at src/src/index.rs:267       *)
tick == 96
newline == 10
dot == 46

Fenced ==
  LET Line(x) == Cat(Byte({x}), Byte({newline}))
  IN  Cat(Line(tick), Cat(Opt(Line(dot)), Line(tick)))

FencedBytes == {tick, newline, dot}

FencedVocabulary ==
  Vocab(104, (<<newline>> :> <<103>>) @@ (<<dot>> :> <<102>>) @@ (<<tick>> :> <<101>>))

(* An empty token and a token without ids beside ordinary ones.            *)
WithEmptyToken ==
  Vocab(9, (<<>> :> <<7>>) @@ (<<a>> :> <<1>>) @@ (<<b, c>> :> <<2>>) @@ (<<c>> :> <<>>))

(* The vocabulary of the test at src/src/index.rs:229: an id for each of   *)
(* "2", "0", "1a" and "blah", the last one shortened.                      *)
TestVocabulary ==
  Vocab(4, (<<one>> :> <<2>>) @@ (<<zero>> :> <<3>>) @@ (<<one, a>> :> <<1>>)
           @@ (<<b, a>> :> <<0>>))

(* Every letter, a token over two letters and two ids for one token.       *)
Letters ==
  Vocab(0, (<<a>> :> <<1, 5>>) @@ (<<b>> :> <<2>>) @@ (<<c>> :> <<3>>)
           @@ (<<b, c>> :> <<4>>))

(* What the API lets in without a word: the empty token, a token with no   *)
(* id, and one id under two tokens.                                        *)
Odd ==
  Vocab(9, (<<>> :> <<7>>) @@ (<<a>> :> <<1>>) @@ (<<a, b>> :> <<1>>)
           @@ (<<one>> :> <<>>) @@ (<<zero, zero>> :> <<2>>)
           @@ (<<zero>> :> <<3>>) @@ (<<one, one>> :> <<3>>))

(* One id for each byte, and two longer tokens.                            *)
AllBytes ==
  Vocab(9, (<<zero>> :> <<0>>) @@ (<<one>> :> <<1>>) @@ (<<a>> :> <<2>>)
           @@ (<<b>> :> <<3>>) @@ (<<c>> :> <<4>>) @@ (<<b, c>> :> <<5>>)
           @@ (<<one, zero>> :> <<6>>))

(* The vocabulary of the test at src/src/index.rs:285.                     *)
MultibyteVocabulary ==
  LET grin == <<240, 141>> IN
  Vocab(8, (<<32>> \o grin :> <<5, 6>>) @@ (<<b, a>> :> <<0>>)
           @@ (<<240, 135>> :> <<2>>) @@ (<<240, 136, a>> :> <<1>>)
           @@ (grin :> <<3, 4>>) @@ (<<32, 240>> :> <<7>>))

MultibyteBytes == {32, 240, 135, 136, 141, a, b}
=============================================================================
