------------------------------- MODULE MCMask -------------------------------
(* Values of the constants of Mask and Kernels for TLC.                    *)
EXTENDS Kernels, Examples

BuildOf(e, bytes, v) ==
  LET d == DfaOf(e, bytes)
  IN  [dfa |-> d, vocabulary |-> v, index |-> IndexOf(d, v)]

(* Eight ids, 0 to 7, in two elements of four bits; the last id is offered.*)
Dense ==
  Vocab(3, (<<a>> :> <<0, 7>>) @@ (<<b>> :> <<1>>) @@ (<<c>> :> <<2, 4>>)
           @@ (<<b, c>> :> <<5, 6>>))

(* Nine ids: the last one has an element to itself.                        *)
DenseOdd ==
  Vocab(3, (<<a>> :> <<0, 8>>) @@ (<<b>> :> <<1, 7>>) @@ (<<c>> :> <<2, 4>>)
           @@ (<<b, c>> :> <<5, 6>>))

(* Ids that leave gaps, as those of the test at src/src/index.rs:268.      *)
Sparse == Vocab(12, (<<a>> :> <<9>>) @@ (<<b>> :> <<1>>) @@ (<<b, c>> :> <<2>>))

AllBuilds ==
  {BuildOf(OptionalTail, {a, b, c}, v) : v \in {Dense, DenseOdd, Sparse}}

(* A LET, so that the coverage of TLC does not report on it at each use.   *)
MCBuilds == LET built == AllBuilds IN built

(* The null pointer, a misaligned one, buffers that are too short or long, *)
(* overlapping those of the arrays, and 8-byte elements.                   *)
MCCalls ==
  {[data_ptr |-> p, numel |-> n, element_size |-> 4] : p \in {0, 6, 8}, n \in {3}}
    \cup {[data_ptr |-> 4, numel |-> 0, element_size |-> 4],
          [data_ptr |-> 4, numel |-> 3, element_size |-> 8]}

Array(data_ptr, shape, stride, dtype, cpu) ==
  [data_ptr |-> data_ptr, shape |-> shape, stride |-> stride, dtype |-> dtype, cpu |-> cpu]

(* The two rows of a batch of two, that batch, a vector, a view of every   *)
(* second element, 8-byte elements, and a mask on another device.          *)
MCArrays ==
  { Array(4, <<1, 2>>, 1, "int32", TRUE), Array(12, <<1, 2>>, 1, "int32", TRUE),
    Array(4, <<2, 2>>, 1, "int32", TRUE), Array(4, <<2>>, 1, "int32", TRUE),
    Array(4, <<1, 2>>, 2, "int32", TRUE), Array(4, <<1, 2>>, 1, "int64", TRUE),
    Array(4, <<1, 2>>, 1, "int32", FALSE) }

(* Narrower than the masks, as wide as DenseOdd's vocabulary, and wider    *)
(* than any mask; a vector, one row, two rows, three dimensions.           *)
MCShapes ==
  {<<9>>, <<1, 7>>, <<1, 13>>, <<2, 9>>, <<1, 1, 9>>}
=============================================================================
