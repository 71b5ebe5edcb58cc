--------------------------- MODULE KernelsProofs ---------------------------
(***************************************************************************)
(* The bits that a guide writes, and the columns that the kernels leave    *)
(* finite, are those of the ids that the text determines, for all indexes, *)
(* masks and logits.                                                       *)
(***************************************************************************)
EXTENDS Kernels, GuideProofs

----------------------------------------------------------------------------
(* Places of bits *)

LEMMA DivMod ==
  ASSUME NEW B \in Nat \ {0}, NEW n \in Nat
  PROVE  /\ n \div B \in Nat /\ n % B \in 0..(B - 1)
         /\ n = (B * (n \div B)) + (n % B)
OBVIOUS

(* An element and a bit of it are the place of one number.                 *)
LEMMA OnePlace ==
  ASSUME NEW B \in Nat \ {0}, NEW n \in Nat, NEW m \in Nat,
         n \div B = m \div B, n % B = m % B
  PROVE  n = m
BY DivMod

LEMMA BelowTimes ==
  ASSUME NEW B \in Nat \ {0}, NEW n \in Nat, NEW k \in Nat
  PROVE  /\ n < k * B <=> n \div B < k
         /\ n < B * k <=> n \div B < k
BY DivMod

(* Rounded up, there is an element for each number below k.                *)
LEMMA RoundedUp ==
  ASSUME NEW B \in Nat \ {0}, NEW k \in Nat
  PROVE  /\ (k + B - 1) \div B \in Nat
         /\ \A n \in Nat : n < k => n \div B < (k + B - 1) \div B
<1>1. k + B - 1 \in Nat
  OBVIOUS
<1> QED BY <1>1, DivMod

----------------------------------------------------------------------------
(* What write_mask_into writes *)

Image(base, numel, ids) ==
  WithBits(Zeroed(memory, base, numel), base, InBuffer(numel, ids))

(* A bit of the buffer is set for the ids that are given, and for no other.*)
LEMMA ImageBits ==
  ASSUME NEW base \in Nat, NEW numel \in Nat, NEW ids \in SUBSET Nat,
         Buffer(base, numel) \subseteq Words,
         NEW id \in 0..(numel * Bits - 1)
  PROVE  id % Bits \in Image(base, numel, ids)[base + (id \div Bits)] <=> id \in ids
<1> DEFINE a == base + (id \div Bits)
           S == {i \in InBuffer(numel, ids) : base + (i \div Bits) = a}
<1>1. Bits \in Nat \ {0} /\ id \in Nat /\ id < numel * Bits
  BY MaskAssumption
<1>2. id \div Bits \in Nat /\ id \div Bits < numel
  BY <1>1, DivMod, BelowTimes
<1>3. a \in Buffer(base, numel) /\ a \in Words
  BY <1>2 DEF Buffer
<1>4. Image(base, numel, ids)[a] = {i % Bits : i \in S}
  BY <1>3 DEF Image, WithBits, Zeroed
<1>5. ASSUME id \in ids PROVE id \in S
  BY <1>2, <1>5 DEF InBuffer
<1>6. ASSUME NEW i \in S, i % Bits = id % Bits PROVE i = id
  <2>1. i \in Nat /\ i \in ids /\ base + (i \div Bits) = a
    BY DEF InBuffer
  <2>2. i \div Bits \in Nat
    BY <1>1, <2>1, DivMod
  <2>3. i \div Bits = id \div Bits
    BY <1>2, <2>1, <2>2
  <2> QED BY <1>1, <1>6, <2>1, <2>3, OnePlace
<1>7. S \subseteq ids
  BY DEF InBuffer
<1> HIDE DEF S, a
<1>8. id % Bits \in {i % Bits : i \in S} <=> id \in ids
  BY <1>5, <1>6, <1>7
<1> QED BY <1>4, <1>8 DEF a

(* Outside of the buffer the memory stays as it is.                        *)
LEMMA ImageElsewhere ==
  ASSUME NEW base \in Nat, NEW numel \in Nat, NEW ids \in SUBSET Nat,
         NEW a \in Words, a \notin Buffer(base, numel)
  PROVE  Image(base, numel, ids)[a] = memory[a]
<1>1. ASSUME NEW i \in InBuffer(numel, ids) PROVE base + (i \div Bits) # a
  <2>1. i \in Nat /\ i \div Bits < numel
    BY DEF InBuffer
  <2>2. i \div Bits \in Nat
    BY <2>1, DivMod, MaskAssumption
  <2> QED BY <2>1, <2>2 DEF Buffer
<1>2. {i \in InBuffer(numel, ids) : base + (i \div Bits) = a} = {}
  BY <1>1
<1>3. Zeroed(memory, base, numel)[a] = memory[a]
  BY DEF Zeroed
<1> QED BY <1>2, <1>3 DEF Image, WithBits

LEMMA ImageType ==
  ASSUME memory \in [Words -> SUBSET (0..(Bits - 1))],
         NEW base \in Nat, NEW numel \in Nat, NEW ids \in SUBSET Nat
  PROVE  Image(base, numel, ids) \in [Words -> SUBSET (0..(Bits - 1))]
<1>1. \A i \in InBuffer(numel, ids) : i % Bits \in 0..(Bits - 1)
  BY DivMod, MaskAssumption DEF InBuffer
<1>2. \A a \in Words : Zeroed(memory, base, numel)[a] \in SUBSET (0..(Bits - 1))
  BY DEF Zeroed
<1> HIDE DEF Words
<1>3. ASSUME NEW a \in Words
      PROVE  Image(base, numel, ids)[a] \in SUBSET (0..(Bits - 1))
  BY <1>1, <1>2 DEF Image, WithBits
<1>4. Image(base, numel, ids) = [a \in Words |-> Image(base, numel, ids)[a]]
  BY DEF Image, WithBits
<1> QED BY <1>3, <1>4
----------------------------------------------------------------------------
(* What the memory keeps *)

IsCall(c) ==
  /\ c.data_ptr \in Nat /\ c.numel \in Nat
  /\ (c.data_ptr \div 4) + c.numel <= MemWords

(* The bits last written are those of the text, in a buffer that the size  *)
(* of the vocabulary lets pass.                                            *)
MaskInv ==
  /\ TypeOK /\ Place
  /\ memory \in [Words -> SUBSET (0..(Bits - 1))]
  /\ written.base \in Nat /\ written.numel \in Nat
  /\ Buffer(written.base, written.numel) \subseteq Words
  /\ MaskShowsText
  /\ written.numel > 0 => written.numel >= expected_elements

(* The ids on offer are numbers, and they are those that the index lists.  *)
LEMMA OfferedFacts ==
  ASSUME Place
  PROVE  /\ AllowedTokens(index, state) = Abstract!Offered(build, text)
         /\ AllowedTokens(index, state) \in SUBSET Nat
<1>1. LeadsTo(build, text, state)
  BY DEF Place, FollowsText, LeadsTo
<1>2. build \in Builds /\ AllIds(build.vocabulary) \subseteq Nat
  BY MaskAssumption DEF Place
<1> QED BY <1>1, <1>2, OffersText, AllowedType DEF index

LEMMA MaskInvInit == ASSUME MaskInit PROVE MaskInv
<1>1. Place /\ TypeOK
  <2>1. Place
    BY PlaceInit DEF MaskInit
  <2>2. state \in build.dfa.states /\ text \in Seq(build.dfa.bytes)
    BY <2>1, BuildFacts, ReachableIsClosed DEF Place, FollowsText
  <2> QED BY <2>1, <2>2, MaxTextAssumption DEF MaskInit, Init, TypeOK
<1>2. /\ written.base = 0 /\ written.numel = 0
      /\ Buffer(written.base, written.numel) = {}
  BY DEF MaskInit, Nowhere, Buffer
<1>3. MaskShowsText
  BY <1>2, MaskAssumption DEF MaskShowsText
<1>4. memory \in [Words -> SUBSET (0..(Bits - 1))]
  BY DEF MaskInit
<1> QED BY <1>1, <1>2, <1>3, <1>4 DEF MaskInv

(* A call that moves nothing but the reply.                                *)
LEMMA GuideKept ==
  ASSUME TypeOK, Place, UNCHANGED <<build, state, text>>,
         reply' \in {Refused, None} \/ reply' = reply
  PROVE  TypeOK' /\ Place'
<1>1. Place'
  BY DEF Place, FollowsText
<1> QED BY <1>1 DEF TypeOK

LEMMA MemoryKept ==
  ASSUME MaskInv, TypeOK', Place', UNCHANGED <<build, memory, written>>
  PROVE  MaskInv'
<1>1. MaskShowsText'
  BY DEF MaskInv, MaskShowsText, BitSet
<1> QED BY <1>1 DEF MaskInv, expected_elements, index

LEMMA WriteMaskFacts ==
  ASSUME MaskInv, NEW c, IsCall(c), WriteMask(c)
  PROVE  /\ memory' = Image(c.data_ptr \div 4, c.numel, AllowedTokens(index, state))
         /\ written' = [base |-> c.data_ptr \div 4, numel |-> c.numel, text |-> text]
         /\ c.data_ptr \div 4 \in Nat
         /\ Buffer(c.data_ptr \div 4, c.numel) \subseteq Words
         /\ c.numel >= expected_elements
         /\ UNCHANGED <<build, state, text>> /\ reply' = None
<1>1. c.data_ptr \div 4 \in Nat
  BY DivMod DEF IsCall
<1>2. expected_elements \in Nat
  <2>1. index.vocab_size \in Nat /\ Bits \in Nat \ {0}
    BY MaskAssumption DEF MaskInv, Place, index
  <2> QED BY <2>1, RoundedUp DEF expected_elements
<1>3. Buffer(c.data_ptr \div 4, c.numel) \subseteq Words
  BY <1>1, MaskAssumption DEF IsCall, Buffer, Words
<1> QED BY <1>1, <1>2, <1>3 DEF WriteMask, Rejected, IsCall, Image

LEMMA WriteMaskKeeps ==
  ASSUME MaskInv, NEW c, IsCall(c), WriteMask(c)
  PROVE  MaskInv'
<1> DEFINE base == c.data_ptr \div 4
           ids == AllowedTokens(index, state)
<1>1. /\ memory' = Image(base, c.numel, ids)
      /\ written' = [base |-> base, numel |-> c.numel, text |-> text]
      /\ base \in Nat /\ c.numel \in Nat
      /\ Buffer(base, c.numel) \subseteq Words
      /\ c.numel >= expected_elements
      /\ UNCHANGED <<build, state, text>> /\ reply' = None
  BY WriteMaskFacts DEF IsCall
<1>2. ids = Abstract!Offered(build, text) /\ ids \in SUBSET Nat
  BY OfferedFacts DEF MaskInv
<1> HIDE DEF base, ids
<1>3. /\ written'.base = base /\ written'.numel = c.numel /\ written'.text = text
  BY <1>1
<1>4. MaskShowsText'
  <2>1. ASSUME NEW id \in 0..(c.numel * Bits - 1)
        PROVE  id % Bits \in memory'[base + (id \div Bits)]
                 <=> id \in Abstract!Offered(build, text)
    BY <1>1, <1>2, ImageBits
  <2> QED BY <1>1, <1>3, <2>1 DEF MaskShowsText, BitSet
<1>5. memory' \in [Words -> SUBSET (0..(Bits - 1))]
  BY <1>1, <1>2, ImageType DEF MaskInv
<1>6. TypeOK' /\ Place'
  BY <1>1, GuideKept DEF MaskInv
<1>7. expected_elements' = expected_elements
  BY <1>1 DEF expected_elements, index
<1> QED BY <1>1, <1>3, <1>4, <1>5, <1>6, <1>7 DEF MaskInv
----------------------------------------------------------------------------
(* What the kernels keep *)

(* As long as no other token is asked for, the columns left finite are     *)
(* those that the memory has a bit for.                                    *)
AppliedInv ==
  logits.outcome = "applied" =>
    LET m    == logits.mask
        rows == Expanded("numpy", m.shape)
    IN  /\ m \in Arrays \cup Allocated
        /\ ~Mismatch(m, rows, logits.shape)
        /\ logits.finite = Kept(m, rows, logits.shape)

LogitsType ==
  /\ filled \in Arrays \cup Allocated \cup {NoArray}
  /\ logits.shape \in {Expanded("numpy", s) : s \in Shapes} \cup Shapes \cup {NoLogits.shape}
  /\ logits.finite # {} => logits.finite \subseteq Columns(logits.shape)

KInv == MaskInv /\ LogitsType /\ AppliedInv

LEMMA AllocatedFacts ==
  ASSUME Place, NEW m \in Allocated
  PROVE  /\ m.data_ptr \in Nat \ {0} /\ m.data_ptr % 4 = 0
         /\ m.shape = <<1, expected_elements>> /\ m.shape \in Seq(Nat)
         /\ m.stride = 1 /\ m.dtype = "int32"
         /\ expected_elements \in Nat /\ Size(m.shape) = expected_elements
         /\ IsCall(CallOf(m))
<1>1. PICK p \in Addresses : m = allocate_token_bitmask(p, index.vocab_size)
  BY DEF Allocated
<1>2. index.vocab_size \in Nat /\ Bits \in Nat \ {0} /\ build \in Builds
  BY MaskAssumption DEF Place, index
<1>3. expected_elements \in Nat
  BY <1>2, RoundedUp DEF expected_elements
<1>4. /\ m.data_ptr = p /\ m.shape = <<1, expected_elements>>
      /\ m.stride = 1 /\ m.dtype = "int32"
  BY <1>1 DEF allocate_token_bitmask, expected_elements
<1>5. /\ p \in Nat \ {0} /\ p % 4 = 0
      /\ (p \div 4) + expected_elements <= MemWords
  BY <1>2, KernelsAssumption DEF expected_elements, index
<1>6. Size(m.shape) = expected_elements /\ m.shape \in Seq(Nat)
  BY <1>3, <1>4 DEF Size
<1> QED BY <1>3, <1>4, <1>5, <1>6 DEF CallOf, IsCall

(* A mask that fill_next_token_bitmask does not refuse lies in the memory. *)
LEMMA FitIsCall ==
  ASSUME Place, NEW library, NEW m \in MasksOf(library), ~Unfit(library, m)
  PROVE  IsCall(CallOf(m))
<1>1. CASE m \in Allocated
  BY <1>1, AllocatedFacts
<1>2. CASE m \in Arrays
  <2>1. /\ m.data_ptr \in Nat /\ m.shape \in Seq(Nat) /\ Len(m.shape) = 2
        /\ (m.data_ptr \div 4) + m.shape[1] * m.shape[2] <= MemWords
    BY <1>2, KernelsAssumption DEF Unfit
  <2>2. m.shape[1] \in Nat /\ m.shape[2] \in Nat
    BY <2>1, ElementOfSeq
  <2>3. m.shape[1] * m.shape[2] \in Nat
    BY <2>2
  <2> QED BY <2>1, <2>3 DEF CallOf, IsCall, Size
<1> QED BY <1>1, <1>2 DEF MasksOf

LEMMA CallsAreCalls == ASSUME NEW c \in Calls PROVE IsCall(c)
BY MaskAssumption DEF IsCall

(* The logits of the next token.                                           *)
LEMMA NewLogits ==
  ASSUME filled' \in Arrays \cup Allocated \cup {NoArray}, logits' = NoLogits,
         build' = build
  PROVE  LogitsType' /\ AppliedInv'
<1>1. /\ logits'.outcome = "none" /\ logits'.finite = {}
      /\ logits'.shape = NoLogits.shape
  BY DEF NoLogits
<1>2. Allocated' = Allocated
  BY DEF Allocated, index
<1> QED BY <1>1, <1>2 DEF LogitsType, AppliedInv

LEMMA LogitsKept ==
  ASSUME LogitsType, AppliedInv, UNCHANGED <<build, memory, filled, logits>>
  PROVE  LogitsType' /\ AppliedInv'
<1>1. Allocated' = Allocated
  BY DEF Allocated, index
<1>2. ASSUME NEW m, NEW rows, NEW shape
      PROVE  Kept(m, rows, shape)' = Kept(m, rows, shape)
  BY DEF Kept, HasBit
<1> QED BY <1>1, <1>2 DEF LogitsType, AppliedInv

LEMMA GuideStep ==
  ASSUME MaskInv, Next, UNCHANGED <<memory, written>>
  PROVE  MaskInv' /\ build' = build
<1>1. TypeOK' /\ Place'
  BY PlaceStep, TypeStep DEF MaskInv
<1>2. build' = build
  BY DEF Next, Advance, AdvanceMoving, AdvanceRefused, RefuseAt, Reset, ResetTo
<1> QED BY <1>1, <1>2, MemoryKept

LEMMA RefusalStep ==
  ASSUME MaskInv, reply' \in {Refused, None} \/ reply' = reply,
         UNCHANGED <<build, state, text, memory, written>>
  PROVE  MaskInv'
<1>1. TypeOK' /\ Place'
  BY GuideKept DEF MaskInv
<1> QED BY <1>1, MemoryKept
(* Outside of a matrix of two dimensions numpy and torch read a shape the  *)
(* same way, and a shape is a sequence of sizes.                           *)
LEMMA ExpandedFacts ==
  ASSUME NEW library, NEW shape \in Seq(Nat)
  PROVE  /\ Expanded(library, shape) \in {Expanded("numpy", shape), shape}
         /\ Expanded(library, shape) \in Seq(Nat)
         /\ Len(Expanded(library, shape)) = 2
              => Expanded(library, shape) = Expanded("numpy", shape)
<1> DEFINE matrix == <<1>> \o shape
<1>1. matrix \in Seq(Nat)
  OBVIOUS
<1>2. Expanded("numpy", shape) = IF Len(shape) = 1 THEN matrix ELSE shape
  BY DEF Expanded
<1>3. Expanded(library, shape)
        = IF Len(shape) = 1 /\ library # "torch" THEN matrix ELSE shape
  BY DEF Expanded
<1> HIDE DEF matrix
<1>4. CASE Len(shape) # 1
  BY <1>2, <1>3, <1>4
<1>5. CASE Len(shape) = 1
  BY <1>1, <1>2, <1>3, <1>5
<1> QED BY <1>4, <1>5

LEMMA MaskShape ==
  ASSUME Place, NEW m \in Arrays \cup Allocated
  PROVE  m.shape \in Seq(Nat) /\ m.data_ptr \in Nat
BY KernelsAssumption, AllocatedFacts

LEMMA ApplyStep ==
  ASSUME KInv, NEW library, NEW m \in MasksOf(library), NEW given \in Shapes,
         Apply(library, m, given)
  PROVE  KInv'
<1> DEFINE rows  == Expanded(library, m.shape)
           shape == Expanded(library, given)
<1>1. /\ ~Mismatch(m, rows, shape)
      /\ UNCHANGED <<maskVars, filled>>
  BY DEF Apply
<1>2. m \in Arrays \cup Allocated /\ Place
  BY DEF MasksOf, KInv, MaskInv
<1>3. MaskInv'
  <2>1. reply' = reply /\ UNCHANGED <<build, state, text, memory, written>>
    BY <1>1 DEF maskVars, vars
  <2> QED BY <2>1, RefusalStep DEF KInv
<1>4. UNCHANGED <<build, memory, filled>> /\ Allocated' = Allocated
  BY <1>1 DEF maskVars, vars, Allocated, index
<1>5. rows = Expanded("numpy", m.shape)
  <2>1. Len(rows) = 2
    BY <1>1 DEF Mismatch
  <2> QED BY <1>2, <2>1, MaskShape, ExpandedFacts
<1>6. shape \in {Expanded("numpy", s) : s \in Shapes} \cup Shapes
  <2>1. given \in Seq(Nat)
    BY KernelsAssumption
  <2>2. shape \in {Expanded("numpy", given), given}
    BY <2>1, ExpandedFacts
  <2> QED BY <2>2
<1> HIDE DEF rows, shape
<1>7. PICK finite, outcome :
        /\ logits' = [shape |-> shape, mask |-> m, finite |-> finite, outcome |-> outcome]
        /\ finite \subseteq Columns(shape)
        /\ outcome = "applied" => finite = Kept(m, rows, shape)
  <2>1. CASE \E finite \in {Columns(shape), Columns(shape) \ Overhang(rows, shape)} :
               Outcome(shape, m, finite, "RuntimeError")
    <3>1. PICK finite : /\ finite \subseteq Columns(shape)
                        /\ Outcome(shape, m, finite, "RuntimeError")
      BY <2>1
    <3>2. /\ logits' = [shape |-> shape, mask |-> m, finite |-> finite,
                         outcome |-> "RuntimeError"]
          /\ "RuntimeError" = "applied" => finite = Kept(m, rows, shape)
      BY <3>1 DEF Outcome
    <3> QED BY <3>1, <3>2, Zenon
  <2>2. CASE Outcome(shape, m, Kept(m, rows, shape), "applied")
    <3>1. Kept(m, rows, shape) \subseteq Columns(shape)
      BY DEF Kept
    <3> QED BY <2>2, <3>1 DEF Outcome
  <2> QED BY <2>1, <2>2 DEF Apply, rows, shape
<1>8. /\ logits'.shape = shape /\ logits'.mask = m /\ logits'.finite = finite
      /\ logits'.outcome = outcome
  BY <1>7
<1>9. LogitsType'
  BY <1>4, <1>6, <1>7, <1>8 DEF KInv, LogitsType
<1>10. AppliedInv'
  <2>1. Kept(m, rows, shape)' = Kept(m, rows, shape)
    BY <1>4 DEF Kept, HasBit, rows, shape
  <2> QED BY <1>1, <1>2, <1>4, <1>5, <1>7, <1>8, <2>1 DEF AppliedInv
<1> QED BY <1>3, <1>9, <1>10 DEF KInv

LEMMA FillStep ==
  ASSUME KInv, NEW library, NEW m \in MasksOf(library), Fill(library, m)
  PROVE  KInv'
<1>1. ~Unfit(library, m) /\ logits' = NoLogits /\ IsCall(CallOf(m)) /\ MaskInv
  BY FitIsCall DEF Fill, KInv, MaskInv
<1>2. m \in Arrays \cup Allocated /\ filled \in Arrays \cup Allocated \cup {NoArray}
  BY DEF MasksOf, KInv, LogitsType
<1>3. CASE WriteMask(CallOf(m)) /\ filled' = m
  <2>1. MaskInv' /\ build' = build
    BY <1>1, <1>3, WriteMaskKeeps DEF WriteMask
  <2> QED BY <1>1, <1>2, <1>3, <2>1, NewLogits DEF KInv
<1>4. CASE WriteMaskRejected(CallOf(m)) /\ UNCHANGED filled
  <2>1. UNCHANGED <<build, state, text, memory, written>> /\ reply' = Refused
    BY <1>4 DEF WriteMaskRejected
  <2>2. MaskInv'
    BY <1>1, <2>1, RefusalStep
  <2> QED BY <1>1, <1>2, <1>4, <2>1, <2>2, NewLogits DEF KInv
<1> QED BY <1>3, <1>4 DEF Fill

LEMMA GuideCallStep == ASSUME KInv, GuideCall PROVE KInv'
<1>1. /\ MaskNext /\ logits' = NoLogits /\ MaskInv
      /\ filled' \in Arrays \cup Allocated \cup {NoArray}
  BY DEF GuideCall, KInv, LogitsType
<1>2. CASE Next /\ UNCHANGED <<memory, written>>
  BY <1>1, <1>2, GuideStep, NewLogits DEF KInv
<1>3. ASSUME NEW c \in Calls, WriteMask(c) PROVE KInv'
  <2>1. MaskInv' /\ build' = build
    BY <1>1, <1>3, CallsAreCalls, WriteMaskKeeps DEF WriteMask
  <2> QED BY <1>1, <2>1, NewLogits DEF KInv
<1>4. ASSUME NEW c \in Calls, WriteMaskRejected(c) PROVE KInv'
  <2>1. UNCHANGED <<build, state, text, memory, written>> /\ reply' = Refused
    BY <1>4 DEF WriteMaskRejected
  <2>2. MaskInv'
    BY <1>1, <2>1, RefusalStep
  <2> QED BY <1>1, <2>1, <2>2, NewLogits DEF KInv
<1> QED BY <1>1, <1>2, <1>3, <1>4 DEF MaskNext

LEMMA KInvInit == ASSUME KernelsInit PROVE KInv
<1>1. MaskInv /\ filled = NoArray /\ logits = NoLogits
  BY MaskInvInit DEF KernelsInit
<1>2. logits.outcome = "none" /\ logits.finite = {}
  BY <1>1 DEF NoLogits
<1> QED BY <1>1, <1>2 DEF KInv, LogitsType, AppliedInv

LEMMA KInvStep == ASSUME KInv, [KernelsNext]_kernelsVars PROVE KInv'
<1>1. CASE UNCHANGED kernelsVars
  <2>1. UNCHANGED <<build, state, text, reply, memory, written, filled, logits>>
    BY <1>1 DEF kernelsVars, maskVars, vars
  <2>2. MaskInv'
    BY <2>1, RefusalStep DEF KInv
  <2> QED BY <2>1, <2>2, LogitsKept DEF KInv
<1>2. CASE GuideCall
  BY <1>2, GuideCallStep
<1>3. ASSUME NEW library \in Libraries, NEW m \in MasksOf(library), Fill(library, m)
      PROVE  KInv'
  BY <1>3, FillStep
<1>4. ASSUME NEW library \in Libraries, NEW m \in MasksOf(library), FillRejected(library, m)
      PROVE  KInv'
  <2>1. /\ UNCHANGED <<build, state, text, memory, written, filled>>
        /\ reply' = Refused /\ logits' = NoLogits
    BY <1>4 DEF FillRejected
  <2>2. MaskInv'
    BY <2>1, RefusalStep DEF KInv
  <2>3. filled' \in Arrays \cup Allocated \cup {NoArray}
    BY <2>1 DEF KInv, LogitsType
  <2> QED BY <2>1, <2>2, <2>3, NewLogits DEF KInv
<1>5. ASSUME NEW library \in Libraries, NEW m \in MasksOf(library), NEW shape \in Shapes,
             Apply(library, m, shape)
      PROVE  KInv'
  BY <1>5, ApplyStep
<1>6. ASSUME NEW library \in Libraries, NEW m \in MasksOf(library), NEW shape \in Shapes,
             ApplyRejected(library, m, shape)
      PROVE  KInv'
  <2>1. UNCHANGED <<build, state, text, memory, written, filled, logits>> /\ reply' = Refused
    BY <1>6 DEF ApplyRejected
  <2>2. MaskInv'
    BY <2>1, RefusalStep DEF KInv
  <2> QED BY <2>1, <2>2, LogitsKept DEF KInv
<1> QED BY <1>1, <1>2, <1>3, <1>4, <1>5, <1>6 DEF KernelsNext
----------------------------------------------------------------------------
(* Properties of every step and every state *)

LEMMA KInvAlways == KernelsSpec => []KInv
BY KInvInit, KInvStep, PTL DEF KernelsSpec

(* The memory, the logits and the guide stay well-typed.                   *)
THEOREM KernelsTypeCorrect == KernelsSpec => []KernelsTypeOK
<1>1. KInv => KernelsTypeOK
  BY DEF KInv, MaskInv, LogitsType, KernelsTypeOK, MaskTypeOK
<1> QED BY <1>1, KInvAlways, PTL

(* The buffer last written shows the ids that its text determines.         *)
THEOREM MasksShowTheText == KernelsSpec => []MaskShowsText
<1>1. KInv => MaskShowsText
  BY DEF KInv, MaskInv
<1> QED BY <1>1, KInvAlways, PTL

(* Ids below the size of the vocabulary all have a bit.                    *)
LEMMA DenseFits ==
  ASSUME KInv, written.numel > 0, DenseIds,
         NEW id \in Abstract!Offered(build, written.text)
  PROVE  id \in Nat /\ id \div Bits < written.numel /\ id < written.numel * Bits
<1>1. /\ build \in Builds /\ written.numel \in Nat /\ written.numel >= expected_elements
  BY DEF KInv, MaskInv, Place
<1>2. /\ Bits \in Nat \ {0} /\ index.vocab_size \in Nat
      /\ AllIds(build.vocabulary) \subseteq Nat
  BY <1>1, MaskAssumption DEF index
<1>3. id \in AllIds(build.vocabulary)
  <2>1. build.vocabulary.eos \in AllIds(build.vocabulary)
    BY DEF AllIds
  <2> QED BY <2>1, SameOperators DEF Abstract!Offered
<1>4. id \in Nat /\ id < index.vocab_size
  BY <1>2, <1>3 DEF DenseIds
<1>5. id \div Bits < expected_elements /\ expected_elements \in Nat
  BY <1>2, <1>4, RoundedUp DEF expected_elements
<1>6. id \div Bits \in Nat
  BY <1>2, <1>4, DivMod
<1> QED BY <1>1, <1>2, <1>4, <1>5, <1>6, BelowTimes

(* With dense ids no id on offer is dropped for want of room.              *)
THEOREM NoIdDropped == KernelsSpec => []DenseIdsFit
<1>1. ASSUME KInv PROVE DenseIdsFit
  <2>1. SUFFICES ASSUME written.numel > 0, DenseIds,
                        NEW id \in Abstract!Offered(build, written.text)
                 PROVE  id \div Bits < written.numel /\ BitSet(written, id)
    BY DEF DenseIdsFit, AllBitsSet
  <2>2. id \in Nat /\ id \div Bits < written.numel /\ id < written.numel * Bits
    BY <1>1, <2>1, DenseFits
  <2>3. written.numel * Bits \in Nat
    BY <1>1, MaskAssumption DEF KInv, MaskInv
  <2>4. id \in 0..(written.numel * Bits - 1)
    BY <2>2, <2>3
  <2> QED BY <1>1, <2>1, <2>2, <2>4 DEF KInv, MaskInv, MaskShowsText
<1> QED BY <1>1, KInvAlways, PTL

(* A call that writes changes nothing outside of its buffer.               *)
LEMMA WritesWithin ==
  ASSUME MaskInv, NEW c, IsCall(c), WriteMask(c), NEW a \in Words, memory'[a] # memory[a]
  PROVE  a \in Buffer(c.data_ptr \div 4, c.numel)
<1>1. /\ memory' = Image(c.data_ptr \div 4, c.numel, AllowedTokens(index, state))
      /\ c.data_ptr \div 4 \in Nat /\ c.numel \in Nat
  BY WriteMaskFacts DEF IsCall
<1>2. AllowedTokens(index, state) \in SUBSET Nat
  BY OfferedFacts DEF MaskInv
<1> QED BY <1>1, <1>2, ImageElsewhere

(* A call writes into its buffer or not at all.                            *)
THEOREM WritesWithinBuffer == KernelsSpec => WritesOnlyBuffer
<1>1. ASSUME KInv, [KernelsNext]_kernelsVars
      PROVE  [ \A a \in Words : memory'[a] # memory[a]
                 => reply' # Refused /\ a \in Buffer(written'.base, written'.numel) ]_maskVars
  <2>1. SUFFICES ASSUME NEW a \in Words, memory'[a] # memory[a]
                 PROVE  reply' # Refused /\ a \in Buffer(written'.base, written'.numel)
    OBVIOUS
  <2>2. PICK c : IsCall(c) /\ WriteMask(c)
    <3>1. memory' # memory
      BY <2>1
    <3>2. ~UNCHANGED kernelsVars
      BY <3>1 DEF kernelsVars, maskVars
    <3>3. ASSUME GuideCall PROVE \E c \in Calls : WriteMask(c)
      BY <3>1, <3>3 DEF GuideCall, MaskNext, WriteMaskRejected
    <3>4. ASSUME NEW library, NEW m \in MasksOf(library), NEW shape,
                 \/ FillRejected(library, m)
                 \/ Apply(library, m, shape)
                 \/ ApplyRejected(library, m, shape)
          PROVE  FALSE
      BY <3>1, <3>4 DEF FillRejected, Apply, ApplyRejected, maskVars
    <3>5. ASSUME NEW library, NEW m \in MasksOf(library), Fill(library, m)
          PROVE  IsCall(CallOf(m)) /\ WriteMask(CallOf(m))
      BY <1>1, <3>1, <3>5, FitIsCall DEF Fill, WriteMaskRejected, KInv, MaskInv
    <3> QED BY <1>1, <3>2, <3>3, <3>4, <3>5, CallsAreCalls DEF KernelsNext
  <2>3. /\ reply' = None
        /\ written'.base = c.data_ptr \div 4 /\ written'.numel = c.numel
    BY <2>2 DEF WriteMask
  <2> QED BY <1>1, <2>1, <2>2, <2>3, WritesWithin DEF KInv, None, Refused
<1> QED BY <1>1, KInvAlways, PTL DEF KernelsSpec, WritesOnlyBuffer
(* A fill changes elements of the array it was given and no other.         *)
THEOREM FillsWithinArray == KernelsSpec => FillsOnlyArray
<1>1. ASSUME KInv, [KernelsNext]_kernelsVars
      PROVE  [ \A e \in Words : memory'[e] # memory[e] /\ filled' # NoArray
                 => e \in Elements(filled') ]_kernelsVars
  <2>1. SUFFICES ASSUME NEW e \in Words, memory'[e] # memory[e], filled' # NoArray
                 PROVE  e \in Elements(filled')
    OBVIOUS
  <2>2. memory' # memory
    BY <2>1
  <2>3. \E library : \E m \in MasksOf(library) : Fill(library, m)
    <3>1. ~UNCHANGED kernelsVars
      BY <2>2 DEF kernelsVars, maskVars
    <3>2. ~GuideCall
      BY <2>1, <2>2 DEF GuideCall
    <3>3. ASSUME NEW library, NEW m \in MasksOf(library), NEW shape,
                 \/ FillRejected(library, m)
                 \/ Apply(library, m, shape)
                 \/ ApplyRejected(library, m, shape)
          PROVE  FALSE
      BY <2>2, <3>3 DEF FillRejected, Apply, ApplyRejected, maskVars
    <3> QED BY <1>1, <3>1, <3>2, <3>3 DEF KernelsNext
  <2>4. PICK library : \E m \in MasksOf(library) : Fill(library, m)
    BY <2>3
  <2>5. PICK m \in MasksOf(library) : Fill(library, m)
    BY <2>4
  <2>6. /\ WriteMask(CallOf(m)) /\ filled' = m /\ ~Unfit(library, m)
        /\ IsCall(CallOf(m))
    BY <1>1, <2>2, <2>5, FitIsCall DEF Fill, WriteMaskRejected, KInv, MaskInv
  <2>7. e \in Buffer(m.data_ptr \div 4, Size(m.shape))
    BY <1>1, <2>1, <2>6, WritesWithin DEF CallOf, KInv
  <2>8. m.stride = 1 /\ m.cpu
    BY <2>6 DEF Unfit, MasksOf
  <2>9. m.data_ptr \div 4 \in Nat /\ Size(m.shape) \in Nat
    BY <2>6, DivMod DEF IsCall, CallOf
  <2> DEFINE i == e - (m.data_ptr \div 4)
  <2>10. i \in 0..(Size(m.shape) - 1) /\ e = Address(m, i)
    BY <2>7, <2>8, <2>9 DEF Buffer, Address
  <2> HIDE DEF i
  <2> QED BY <2>6, <2>8, <2>10 DEF Elements
<1> QED BY <1>1, KInvAlways, PTL DEF KernelsSpec, FillsOnlyArray

----------------------------------------------------------------------------
(* What may be sampled *)

(* The columns of a row that were left finite.                             *)
LEMMA RowKeptFacts ==
  ASSUME KInv, logits.outcome = "applied", NEW r \in 1..logits.shape[1], RowIsCurrent(r)
  PROVE  /\ logits.shape[2] \in Nat
         /\ RowKept(r) = {id \in 0..(logits.shape[2] - 1) :
                            id < Bits * written.numel /\ BitSet(written, id)}
<1> DEFINE m == logits.mask
           rows == Expanded("numpy", m.shape)
           shape == logits.shape
<1>1. /\ m \in Arrays \cup Allocated /\ ~Mismatch(m, rows, shape)
      /\ logits.finite = Kept(m, rows, shape)
  BY DEF KInv, AppliedInv
<1>2. /\ written.text = text /\ written.numel = rows[2] /\ m.stride = 1
      /\ written.base = Address(m, (r - 1) * rows[2])
      /\ written.numel \in Nat /\ written.base \in Nat
  BY DEF RowIsCurrent, KInv, MaskInv
<1>3. m.data_ptr \div 4 \in Nat
  <2>1. Place
    BY DEF KInv, MaskInv
  <2>2. m.data_ptr \in Nat
    BY <1>1, <2>1, MaskShape
  <2> QED BY <2>2, DivMod
<1>4. shape \in Seq(Nat) /\ Len(shape) = 2
  <2>1. ASSUME NEW s \in Shapes
        PROVE  s \in Seq(Nat) /\ Expanded("numpy", s) \in Seq(Nat)
    <3>1. s \in Seq(Nat)
      BY KernelsAssumption
    <3> QED BY <3>1, ExpandedFacts
  <2>2. NoLogits.shape \in Seq(Nat)
    BY DEF NoLogits
  <2>3. shape \in Seq(Nat)
    BY <2>1, <2>2 DEF KInv, LogitsType
  <2>4. Len(shape) = 2
    BY <1>1 DEF Mismatch
  <2> QED BY <2>3, <2>4
<1>5. shape[1] \in Nat /\ shape[2] \in Nat
  BY <1>4, ElementOfSeq
<1> HIDE DEF m, rows, shape
<1>6. Bits \in Nat \ {0}
  BY MaskAssumption
<1>7. ASSUME NEW id \in 0..(shape[2] - 1)
      PROVE  HasBit(m, rows, <<r, id>>) <=> BitSet(written, id)
  <2>1. id \div Bits \in Nat
    <3>1. id \in Nat
      BY <1>5
    <3> QED BY <1>6, <3>1, DivMod
  <2>2. (r - 1) * rows[2] \in Int
    <3>1. r \in Int /\ rows[2] \in Int
      BY <1>2, <1>5 DEF shape
    <3> QED BY <3>1
  <2> DEFINE x == (r - 1) * rows[2]
  <2>3. /\ Address(m, x) = (m.data_ptr \div 4) + x
        /\ Address(m, x + (id \div Bits)) = (m.data_ptr \div 4) + (x + (id \div Bits))
    <3> HIDE DEF x
    <3> QED BY <1>2, <1>3, <2>1, <2>2 DEF Address, x
  <2>4. Address(m, x + (id \div Bits)) = written.base + (id \div Bits)
    <3>1. written.base = Address(m, x) /\ x \in Int
      BY <1>2, <2>2
    <3> HIDE DEF x
    <3> QED BY <1>3, <2>1, <2>3, <3>1
  <2> QED BY <2>4 DEF HasBit, BitSet
<1>8. ASSUME NEW id
      PROVE  id \in RowKept(r) <=>
               /\ id \in 0..(shape[2] - 1) /\ id < Bits * rows[2]
               /\ HasBit(m, rows, <<r, id>>)
  <2>1. id \in RowKept(r) <=> \E p \in Kept(m, rows, shape) : p[1] = r /\ p[2] = id
    BY <1>1 DEF RowKept
  <2>2. \A p \in Kept(m, rows, shape) : p[1] = r /\ p[2] = id => p = <<r, id>>
    BY DEF Kept, Columns
  <2>3. id \in RowKept(r) <=> <<r, id>> \in Kept(m, rows, shape)
    BY <2>1, <2>2
  <2>4. <<r, id>> \in Columns(shape) <=> id \in 0..(shape[2] - 1)
    BY DEF Columns, shape
  <2>5. ASSUME id \in 0..(shape[2] - 1)
        PROVE  <<r, id>> \in Overhang(rows, shape) <=> ~(id < Bits * rows[2])
    <3>1. Bits * rows[2] \in Nat /\ id \in Nat
      BY <1>2, <1>5, <1>6, <2>5
    <3> QED BY <2>4, <2>5, <3>1 DEF Overhang
  <2> QED BY <2>3, <2>4, <2>5 DEF Kept
<1>9. RowKept(r) = {id \in 0..(shape[2] - 1) :
                      id < Bits * written.numel /\ BitSet(written, id)}
  BY <1>2, <1>7, <1>8
<1> QED BY <1>5, <1>9 DEF shape

(* Where a mask just filled was applied, the columns left finite are those *)
(* of the ids on offer, as far as mask and logits reach.                   *)
LEMMA SurvivorsLemma == ASSUME KInv PROVE SurvivorsOffered
<1>1. SUFFICES ASSUME logits.outcome = "applied", NEW r \in 1..logits.shape[1],
                      RowIsCurrent(r)
               PROVE  RowKept(r) = { id \in Abstract!Offered(build, text) :
                                       id < logits.shape[2] /\ id < Bits * written.numel }
  BY DEF SurvivorsOffered
<1>2. /\ MaskShowsText /\ written.text = text /\ written.numel \in Nat
      /\ Abstract!Offered(build, text) \subseteq Nat
  BY <1>1, OfferedFacts DEF KInv, MaskInv, RowIsCurrent
<1>3. Bits * written.numel \in Nat /\ Bits * written.numel = written.numel * Bits
  BY <1>2, MaskAssumption
<1>4. \A id \in 0..(written.numel * Bits - 1) :
        BitSet(written, id) <=> id \in Abstract!Offered(build, text)
  BY <1>2 DEF MaskShowsText
<1>5. \A id \in Nat : id < Bits * written.numel => id \in 0..(written.numel * Bits - 1)
  BY <1>3
<1>6. /\ logits.shape[2] \in Nat
      /\ RowKept(r) = {id \in 0..(logits.shape[2] - 1) :
                         id < Bits * written.numel /\ BitSet(written, id)}
  BY <1>1, RowKeptFacts
<1>7. \A id : id \in 0..(logits.shape[2] - 1) <=> id \in Nat /\ id < logits.shape[2]
  BY <1>6
<1> QED BY <1>2, <1>4, <1>5, <1>6, <1>7

(* Nothing is sampled that the guide refuses, and nothing it accepts is    *)
(* masked where mask and logits reach.                                     *)
THEOREM SurvivorsAreOffered == KernelsSpec => []SurvivorsOffered
BY SurvivorsLemma, KInvAlways, PTL

(* An id on offer leads on, or is the EOS id at a final state.             *)
LEMMA OfferedIsTaken ==
  ASSUME Place, NEW id \in Abstract!Offered(build, text)
  PROVE  \/ NextStates(index, state, id) # {}
         \/ id = build.vocabulary.eos /\ is_finished(state)
<1> DEFINE v == build.vocabulary
           d == build.dfa
<1>1. /\ state \in Reachable(d, v) /\ build \in Builds
      /\ id \in AllowedTokens(index, state)
  BY OfferedFacts DEF Place, FollowsText
<1>2. IsIndex(d, v, index)
  BY <1>1, BuildFacts DEF index
<1>3. <<state, id>> \in DOMAIN index.transitions
  <2>1. PICK p \in DOMAIN index.transitions : p[1] = state /\ p[2] = id
    BY <1>1 DEF AllowedTokens
  <2>2. p \in Entries(d, v, Reachable(d, v))
    BY <1>2 DEF IsIndex
  <2>3. p = <<p[1], p[2]>>
    BY <2>2 DEF Entries
  <2> QED BY <2>1, <2>3
<1>4. CASE id # v.eos
  BY <1>2, <1>3, <1>4 DEF NextStates, IsIndex
<1>5. CASE id = v.eos
  <2>1. Targets(d, v, state, v.eos) = {}
    BY DEF Targets, Walks, Usable
  <2>2. state \in d.eoi
    BY <1>1, <1>2, <1>5, <2>1, AllowedFacts
  <2>3. state \in index.final_states
    BY <1>1, <1>2, <2>2 DEF IsIndex
  <2> QED BY <1>5, <2>3 DEF is_finished, IsFinalState
<1> QED BY <1>4, <1>5

(* Whatever is sampled among the finite columns, the guide takes it.       *)
THEOREM SampledIdsAreTaken == KernelsSpec => []SampledIsTaken
<1>1. ASSUME KInv PROVE SampledIsTaken
  <2>1. SUFFICES ASSUME logits.outcome = "applied", NEW r \in 1..logits.shape[1],
                        RowIsCurrent(r), NEW id \in RowKept(r)
                 PROVE  \/ NextStates(index, state, id) # {}
                        \/ id = build.vocabulary.eos /\ is_finished(state)
    BY DEF SampledIsTaken
  <2>2. id \in Abstract!Offered(build, text)
    BY <1>1, <2>1, SurvivorsLemma DEF SurvivorsOffered
  <2> QED BY <1>1, <2>2, OfferedIsTaken DEF KInv, MaskInv
<1> QED BY <1>1, KInvAlways, PTL

(* The mask that a library allocates for the size of the vocabulary is one *)
(* that the guide fills and that has a bit for every id.                   *)
THEOREM AllocatedIsEnough == KernelsSpec => []AllocatedSuffices
<1>1. ASSUME KInv PROVE AllocatedSuffices
  <2>1. ASSUME NEW m \in Allocated PROVE ~Rejected(CallOf(m))
    <3>1. /\ m.data_ptr \in Nat \ {0} /\ m.data_ptr % 4 = 0 /\ m.dtype = "int32"
          /\ Size(m.shape) = expected_elements /\ expected_elements \in Nat
      BY <1>1, AllocatedFacts DEF KInv, MaskInv
    <3>2. /\ CallOf(m).data_ptr = m.data_ptr /\ CallOf(m).element_size = 4
          /\ CallOf(m).numel = expected_elements
      BY <3>1 DEF CallOf
    <3> QED BY <3>1, <3>2 DEF Rejected
  <2>2. ASSUME logits.outcome = "applied", logits.mask = filled, filled \in Allocated,
               RowIsCurrent(1), DenseIds, logits.shape[2] >= index.vocab_size
        PROVE  RowKept(1) = Abstract!Offered(build, text)
    <3>1. /\ filled.shape = <<1, expected_elements>> /\ expected_elements \in Nat
          /\ filled.shape \in Seq(Nat)
      BY <1>1, <2>2, AllocatedFacts DEF KInv, MaskInv
    <3>2. Expanded("numpy", filled.shape) = <<1, expected_elements>>
      BY <3>1 DEF Expanded
    <3>3. logits.shape[1] = 1 /\ written.numel = expected_elements
      BY <1>1, <2>2, <3>2 DEF KInv, AppliedInv, Mismatch, RowIsCurrent
    <3>4. /\ logits.shape[2] \in Nat
          /\ RowKept(1) = { id \in Abstract!Offered(build, text) :
                              id < logits.shape[2] /\ id < Bits * written.numel }
      BY <1>1, <2>2, <3>3, RowKeptFacts, SurvivorsLemma DEF SurvivorsOffered
    <3>5. ASSUME NEW id \in Abstract!Offered(build, text)
          PROVE  id < logits.shape[2] /\ id < Bits * written.numel
      <4>1. build \in Builds /\ index.vocab_size \in Nat /\ Bits \in Nat \ {0}
        BY <1>1, MaskAssumption DEF KInv, MaskInv, Place, index
      <4>2. id \in AllIds(build.vocabulary)
        <5>1. build.vocabulary.eos \in AllIds(build.vocabulary)
          BY DEF AllIds
        <5> QED BY <5>1, SameOperators DEF Abstract!Offered
      <4>3. id \in Nat /\ id < index.vocab_size
        BY <2>2, <4>1, <4>2, MaskAssumption DEF DenseIds
      <4>4. id \div Bits < expected_elements
        BY <4>1, <4>3, RoundedUp DEF expected_elements
      <4> QED BY <2>2, <3>1, <3>3, <3>4, <4>1, <4>3, <4>4, BelowTimes
    <3> QED BY <3>4, <3>5
  <2> QED BY <2>1, <2>2 DEF AllocatedSuffices
<1> QED BY <1>1, KInvAlways, PTL
=============================================================================
