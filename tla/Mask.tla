-------------------------------- MODULE Mask --------------------------------
(***************************************************************************)
(* PyGuide::write_mask_into (src/src/python_bindings/mod.rs): a guide      *)
(* writes the ids on offer, one bit each, into a buffer that belongs to    *)
(* the caller and of which it only has an address and a size.  The buffer  *)
(* is used again after each token, so it holds the bits of an earlier one. *)
(***************************************************************************)
EXTENDS Guide

CONSTANTS
  Bits,     \* bits of a buffer element: 32 in the code
  MemWords, \* the memory is MemWords elements of 4 bytes, from address 0
  Calls     \* the arguments callers pass: records [data_ptr, numel, element_size]

ASSUME MaskAssumption ==
  /\ Bits \in Nat \ {0} /\ MemWords \in Nat
  /\ \A c \in Calls :
       /\ c.data_ptr \in Nat /\ c.numel \in Nat /\ c.element_size \in Nat
       /\ (c.data_ptr \div 4) + c.numel <= MemWords
  /\ \A b \in Builds : AllIds(b.vocabulary) \subseteq Nat /\ b.index.vocab_size \in Nat

VARIABLES
  memory,   \* the bits set in each element
  written   \* history: the buffer last written, and the text it was written for

maskVars == <<vars, memory, written>>

Words == 0..(MemWords - 1)

Nowhere == [base |-> 0, numel |-> 0, text |-> <<>>]

MaskInit ==
  /\ Init
  /\ memory = [a \in Words |-> 0..(Bits - 1)]
  /\ written = Nowhere

(* Mutant: rounded down.                                                   *)
expected_elements_down == index.vocab_size \div Bits

expected_elements == (index.vocab_size + Bits - 1) \div Bits

(* The four checks, in the order of the code; each returns a ValueError.   *)
Rejected(c) ==
  \/ c.element_size # 4
  \/ c.data_ptr = 0
  \/ c.data_ptr % 4 # 0
  \/ c.numel < expected_elements

(* The elements at base .. base + numel - 1.                               *)
Buffer(base, numel) == base..(base + numel - 1)

(* Mutant: the buffer is not cleared.                                      *)
ZeroedNot(m, base, numel) == m

(* write_bytes(data_ptr, 0, numel * 4)                                     *)
Zeroed(m, base, numel) == [a \in Words |-> IF a \in Buffer(base, numel) THEN {} ELSE m[a]]

(* Mutant: the id is not reduced to the bits of an element.                *)
WithBitsUnreduced(m, base, ids) ==
  [a \in Words |-> m[a] \cup {id \in ids : base + id \div Bits = a}]

(* slice[bucket] |= 1 << (token % 32) for each token of ids                *)
WithBits(m, base, ids) ==
  [a \in Words |-> m[a] \cup {id % Bits : id \in {i \in ids : base + i \div Bits = a}}]

(* Mutant: no test of the bucket.                                          *)
InBufferAlways(numel, ids) == ids

(* The ids whose bucket lies in the buffer.                                *)
InBuffer(numel, ids) == {id \in ids : id \div Bits < numel}

WriteMask(c) ==
  LET base == c.data_ptr \div 4 IN
  /\ ~Rejected(c)
  /\ memory' = WithBits(Zeroed(memory, base, c.numel), base,
                        InBuffer(c.numel, AllowedTokens(index, state)))
  /\ written' = [base |-> base, numel |-> c.numel, text |-> text]
  /\ reply' = None
  /\ UNCHANGED <<build, state, text>>

WriteMaskRejected(c) ==
  /\ Rejected(c)
  /\ reply' = Refused
  /\ UNCHANGED <<build, state, text, memory, written>>

MaskNext ==
  \/ Next /\ UNCHANGED <<memory, written>>
  \/ \E c \in Calls : WriteMask(c) \/ WriteMaskRejected(c)

MaskSpec == MaskInit /\ [][MaskNext]_maskVars

----------------------------------------------------------------------------
(* Properties *)

(* Type invariant of the memory.                                           *)
MaskTypeOK ==
  /\ TypeOK
  /\ memory \in [Words -> SUBSET (0..(Bits - 1))]
  /\ Buffer(written.base, written.numel) \subseteq Words

BitSet(w, id) == id % Bits \in memory[w.base + id \div Bits]

(* The bits of the buffer are those of the ids that the text it was        *)
(* written for determines: no bit is left of an earlier token, none is     *)
(* missing or set for an id that is not on offer.                          *)
MaskShowsText ==
  \A id \in 0..(written.numel * Bits - 1) :
    BitSet(written, id) <=> id \in Abstract!Offered(build, written.text)

(* A call writes into its buffer or not at all: an element that changes    *)
(* lies between data_ptr and data_ptr + 4 * numel, and a call that raises  *)
(* ValueError changes none.                                                *)
WritesOnlyBuffer ==
  [][ \A a \in Words : memory'[a] # memory[a]
        => reply' # Refused /\ a \in Buffer(written'.base, written'.numel) ]_maskVars

DenseIds == \A id \in AllIds(build.vocabulary) : id < index.vocab_size

AllBitsSet ==
  \A id \in Abstract!Offered(build, written.text) :
    id \div Bits < written.numel /\ BitSet(written, id)

(* When the ids are the numbers below the vocabulary's size, a buffer that *)
(* passes the checks has a bit for every id: no id on offer is dropped for *)
(* want of room.                                                           *)
DenseIdsFit == written.numel > 0 /\ DenseIds => AllBitsSet

(* "Each bit in the bitmask corresponds to a token ID, with a bit value of *)
(* 1 indicating that the token is allowed" (outlines_core/kernels/numpy.py,*)
(* line 92): after a call that succeeds, every id on offer has its bit.    *)
EveryAllowedBitSet == written.numel > 0 => AllBitsSet
=============================================================================
