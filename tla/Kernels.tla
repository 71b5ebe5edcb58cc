------------------------------- MODULE Kernels -------------------------------
(***************************************************************************)
(* outlines_core/kernels: numpy.py, torch.py and mlx.py.  A program        *)
(* allocates a mask, has a guide fill it for each token, and applies it to *)
(* the logits of its model, where an id is the number of a column; it then *)
(* samples among the columns left finite.  Masks are views of the memory   *)
(* of Mask.                                                                *)
(***************************************************************************)
EXTENDS Mask

CONSTANTS
  Addresses, \* where allocate_token_bitmask finds room
  Arrays,    \* masks made otherwise: [data_ptr, shape, stride, dtype, cpu]
  Shapes     \* the shapes of logits

(* Masks lie in the memory, with room for the vocabulary where they are    *)
(* allocated, and an allocator aligns what it finds.                       *)
ASSUME KernelsAssumption ==
  /\ \A p \in Addresses :
       /\ p \in Nat \ {0} /\ p % 4 = 0
       /\ \A b \in Builds :
            (p \div 4) + ((b.index.vocab_size + Bits - 1) \div Bits) <= MemWords
  /\ \A m \in Arrays :
       /\ m.data_ptr \in Nat /\ m.stride \in Nat /\ m.shape \in Seq(Nat)
       /\ Len(m.shape) = 2 /\ m.stride = 1
            => (m.data_ptr \div 4) + m.shape[1] * m.shape[2] <= MemWords
  /\ Shapes \subseteq Seq(Nat)

VARIABLES
  filled,    \* history: the mask the guide last wrote to, NoArray after a raw call
  logits     \* the logits after a call of apply: [shape, mask, finite, outcome]

kernelsVars == <<maskVars, filled, logits>>

Libraries == {"numpy", "torch", "mlx"}

(* Mutant: rounded down.                                                   *)
allocate_token_bitmask_down(data_ptr, vocab_size) ==
  [data_ptr |-> data_ptr, shape |-> <<1, vocab_size \div Bits>>,
   stride |-> 1, dtype |-> "int32", cpu |-> TRUE]

(* The same in the three modules.                                          *)
allocate_token_bitmask(data_ptr, vocab_size) ==
  [data_ptr |-> data_ptr, shape |-> <<1, (vocab_size + Bits - 1) \div Bits>>,
   stride |-> 1, dtype |-> "int32", cpu |-> TRUE]

Allocated == {allocate_token_bitmask(p, index.vocab_size) : p \in Addresses}

NoArray  == [data_ptr |-> 0, shape |-> <<0>>, stride |-> 1, dtype |-> "int32", cpu |-> TRUE]
NoLogits == [shape |-> <<0>>, mask |-> NoArray, finite |-> {}, outcome |-> "none"]

(* The number of elements of a matrix: numel, or size.                     *)
Size(shape) == shape[1] * shape[2]

(* The element of memory at place i of a mask, in the order of its rows.   *)
Address(m, i) == (m.data_ptr \div 4) + i * m.stride

(* The masks a library can hold: only torch has arrays on other devices.   *)
MasksOf(library) == {m \in Arrays \cup Allocated : m.cpu \/ library = "torch"}

Elements(m) == IF m.cpu THEN {Address(m, i) : i \in 0..(Size(m.shape) - 1)} ELSE {}

----------------------------------------------------------------------------
(* fill_next_token_bitmask *)

(* Mutant: a view with gaps is let through.                                *)
UnfitStrided(library, m) ==
  \/ m.dtype # "int32"
  \/ Len(m.shape) # 2
  \/ m.shape[1] # 1
  \/ library = "torch" /\ ~m.cpu

(* The checks of the three modules; each raises a ValueError.              *)
Unfit(library, m) ==
  \/ m.dtype # "int32"
  \/ Len(m.shape) # 2
  \/ m.shape[1] # 1
  \/ m.stride # 1   \* not contiguous
  \/ library = "torch" /\ ~m.cpu

CallOf(m) == [data_ptr |-> m.data_ptr, numel |-> Size(m.shape),
              element_size |-> IF m.dtype = "int32" THEN 4 ELSE 8]

Fill(library, m) ==
  /\ ~Unfit(library, m)
  /\ \/ WriteMask(CallOf(m)) /\ filled' = m
     \/ WriteMaskRejected(CallOf(m)) /\ UNCHANGED filled
  /\ logits' = NoLogits

FillRejected(library, m) ==
  /\ Unfit(library, m)
  /\ reply' = Refused
  /\ logits' = NoLogits
  /\ UNCHANGED <<build, state, text, memory, written, filled>>

----------------------------------------------------------------------------
(* apply_token_bitmask_inplace, and apply_token_bitmask of mlx *)

(* A vector becomes a matrix of one row, except with torch.                *)
Expanded(library, shape) ==
  IF Len(shape) = 1 /\ library # "torch" THEN <<1>> \o shape ELSE shape

Mismatch(m, rows, shape) ==
  \/ m.dtype # "int32"
  \/ Len(rows) # 2
  \/ Len(shape) # 2
  \/ rows[1] # shape[1]

Columns(shape) == (1..shape[1]) \X (0..(shape[2] - 1))

(* Row r of the mask has no element for these columns.                     *)
Overhang(rows, shape) == {p \in Columns(shape) : p[2] >= Bits * rows[2]}

(* Row p[1] of the mask has the bit of column p[2].                        *)
HasBit(m, rows, p) ==
  p[2] % Bits \in memory[Address(m, (p[1] - 1) * rows[2] + p[2] \div Bits)]

(* Mutant: the columns beyond the mask are left alone.                     *)
KeptWithOverhang(m, rows, shape) ==
  {p \in Columns(shape) : p \in Overhang(rows, shape) \/ HasBit(m, rows, p)}

(* The columns that the kernels do not set to -infinity.                   *)
Kept(m, rows, shape) ==
  {p \in Columns(shape) : p \notin Overhang(rows, shape) /\ HasBit(m, rows, p)}

Outcome(shape, m, finite, outcome) ==
  logits' = [shape |-> shape, mask |-> m, finite |-> finite, outcome |-> outcome]

(* The logits come from the model with every column finite; a program      *)
(* masks those of a token once.  torch narrows the bits to the width of    *)
(* the logits and raises when they are wider than the mask; by then the    *)
(* overhang is masked, unless the compiler met the error while it traced   *)
(* the kernel.                                                             *)
Apply(library, m, given) ==
  LET rows  == Expanded(library, m.shape)
      shape == Expanded(library, given)
  IN  /\ m.cpu
      /\ logits = NoLogits
      /\ \/ /\ ~Mismatch(m, rows, shape)
            /\ library = "torch" /\ shape[2] > Bits * rows[2]
            /\ \E finite \in {Columns(shape), Columns(shape) \ Overhang(rows, shape)} :
                 Outcome(shape, m, finite, "RuntimeError")
         \/ /\ ~Mismatch(m, rows, shape)
            /\ ~(library = "torch" /\ shape[2] > Bits * rows[2])
            /\ Outcome(shape, m, Kept(m, rows, shape), "applied")
      /\ UNCHANGED <<maskVars, filled>>

ApplyRejected(library, m, given) ==
  /\ Mismatch(m, Expanded(library, m.shape), Expanded(library, given))
  /\ reply' = Refused
  /\ UNCHANGED <<build, state, text, memory, written, filled, logits>>

----------------------------------------------------------------------------
KernelsInit == MaskInit /\ filled = NoArray /\ logits = NoLogits

(* A call of the guide, after which the logits are those of the next token.*)
GuideCall ==
  /\ MaskNext
  /\ logits' = NoLogits
  /\ IF memory' = memory /\ written' = written THEN UNCHANGED filled ELSE filled' = NoArray

KernelsNext ==
  \/ GuideCall
  \/ \E library \in Libraries : \E m \in MasksOf(library) :
       \/ Fill(library, m)
       \/ FillRejected(library, m)
       \/ \E shape \in Shapes : Apply(library, m, shape) \/ ApplyRejected(library, m, shape)

KernelsSpec == KernelsInit /\ [][KernelsNext]_kernelsVars

----------------------------------------------------------------------------
(* Properties *)

(* Type invariant.                                                         *)
KernelsTypeOK ==
  /\ MaskTypeOK
  /\ filled \in Arrays \cup Allocated \cup {NoArray}
  /\ logits.shape \in {Expanded("numpy", s) : s \in Shapes} \cup Shapes \cup {NoLogits.shape}
  /\ logits.finite # {} => logits.finite \subseteq Columns(logits.shape)

(* A fill changes elements of the array it was given and no other: not     *)
(* those between the elements of a view with gaps, nor those at an address *)
(* that is another device's.                                               *)
FillsOnlyArray ==
  [][ \A e \in Words : memory'[e] # memory[e] /\ filled' # NoArray
        => e \in Elements(filled') ]_kernelsVars

RowKept(r) == {p[2] : p \in {q \in logits.finite : q[1] = r}}

(* Row r of the applied mask is what the guide last wrote, for this text.  *)
RowIsCurrent(r) ==
  LET rows == Expanded("numpy", logits.mask.shape)
  IN  /\ written.text = text
      /\ written.numel = rows[2]
      /\ written.base = Address(logits.mask, (r - 1) * rows[2])
      /\ logits.mask.stride = 1

(* Where a mask just filled was applied, the columns left finite are those *)
(* of the ids that the guide will accept (or EOS in a finished text), as   *)
(* far as mask and logits reach: nothing is sampled that advance refuses.  *)
SurvivorsOffered ==
  logits.outcome = "applied" =>
    \A r \in 1..logits.shape[1] : RowIsCurrent(r) =>
      RowKept(r) = { id \in Abstract!Offered(build, text) :
                       id < logits.shape[2] /\ id < Bits * written.numel }

(* The loop of a generating program gets on: an id sampled among the       *)
(* columns left finite is one that advance accepts, or the EOS id in a     *)
(* text that is finished.                                                  *)
SampledIsTaken ==
  logits.outcome = "applied" =>
    \A r \in 1..logits.shape[1] : RowIsCurrent(r) =>
      \A id \in RowKept(r) :
        \/ NextStates(index, state, id) # {}
        \/ id = build.vocabulary.eos /\ is_finished(state)

(* A mask allocated for the size of the vocabulary is never refused; once  *)
(* filled and applied it leaves every id on offer when the ids are the     *)
(* numbers below that size and the logits have a column for each: the      *)
(* sizes that the kernels and write_mask_into work out agree.              *)
AllocatedSuffices ==
  /\ \A m \in Allocated : ~Rejected(CallOf(m))
  /\ /\ logits.outcome = "applied" /\ logits.mask = filled /\ filled \in Allocated
     /\ RowIsCurrent(1) /\ DenseIds /\ logits.shape[2] >= index.vocab_size
     => RowKept(1) = Abstract!Offered(build, text)
=============================================================================
