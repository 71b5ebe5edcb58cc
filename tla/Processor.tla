------------------------------ MODULE Processor ------------------------------
(***************************************************************************)
(* TokenProcessor (src/src/vocabulary/processor.rs): the bytes that a      *)
(* token of a tokenizer stands for.  A string is a sequence of characters, *)
(* a character its code point.  A Result or an Option is a set: what it    *)
(* holds, or nothing.                                                      *)
(***************************************************************************)
EXTENDS Integers, Sequences, FiniteSets, SequencesExt

Byte == 0..255

(* A char: a code point.  (None is a surrogate; nothing depends on it.)    *)
Char == {ch \in Nat : ch < 1114112}

space == 32

----------------------------------------------------------------------------
(* as_bytes *)

(* The bytes of a character in UTF-8, six bits in each one but the first.  *)
Utf8Char(ch) ==
  LET Tail6(k) == 128 + ((ch \div k) % 64) IN
  IF ch < 128 THEN <<ch>>
  ELSE IF ch < 2048 THEN <<192 + (ch \div 64), Tail6(1)>>
  ELSE IF ch < 65536 THEN <<224 + (ch \div 4096), Tail6(64), Tail6(1)>>
  ELSE <<240 + (ch \div 262144), Tail6(4096), Tail6(64), Tail6(1)>>

Utf8(text) == FlattenSeq([i \in DOMAIN text |-> Utf8Char(text[i])])

----------------------------------------------------------------------------
(* The byte level: CHAR_MAP *)

(* The bytes that are printable as characters of their own.                *)
Printable == (33..126) \cup (161..172) \cup (174..255)

(* The character a byte is written as: the others take, in turn, those     *)
(* from 0x100 on.                                                          *)
CharOf(byte) ==
  IF byte \in Printable THEN byte
  ELSE 256 + Cardinality({b \in 0..(byte - 1) : b \notin Printable})

CHAR_MAP ==
  LET chars == {CharOf(b) : b \in Byte}
  IN  [ch \in chars |-> CHOOSE b \in Byte : CharOf(b) = ch]

ByteLevel(token) ==
  IF ToSet(token) \subseteq DOMAIN CHAR_MAP
  THEN {[i \in DOMAIN token |-> CHAR_MAP[token[i]]]} ELSE {}

----------------------------------------------------------------------------
(* The byte fallback level *)

Hex ==
  [d \in (48..57) \cup (65..70) \cup (97..102) |->
     IF d <= 57 THEN d - 48 ELSE IF d <= 70 THEN d - 55 ELSE d - 87]

(* u8::from_str_radix(.., 16) of two bytes: it takes a plus sign too.      *)
FromHex(x, y) ==
  IF x \in DOMAIN Hex /\ y \in DOMAIN Hex THEN {<<16 * Hex[x] + Hex[y]>>}
  ELSE IF x = 43 /\ y \in DOMAIN Hex THEN {<<Hex[y]>>}
  ELSE {}

(* token.len() == 6 && token.starts_with("<0x") && token.ends_with('>')    *)
IsByteToken(bytes) ==
  Len(bytes) = 6 /\ SubSeq(bytes, 1, 3) = <<60, 48, 120>> /\ bytes[6] = 62

(* Mods::apply_default                                                     *)
apply_default(spacechar, token) == ReplaceAll(token, spacechar, space)

ByteFallback(spacechar, token) ==
  IF IsByteToken(Utf8(token)) THEN FromHex(Utf8(token)[4], Utf8(token)[5])
  ELSE {Utf8(apply_default(spacechar, token))}

----------------------------------------------------------------------------
(* TokenProcessor::new and process.  A decoder is a record with its type,  *)
(* one; a Sequence has the decoders it is made of, a Replace its content   *)
(* and its pattern, which is a String or a Regex.                          *)

(* unpack_decoder: ReplacePattern has no other case than String.           *)
Unpacks(decoder) == decoder.type = "Replace" => decoder.kind = "String"

(* ReplaceDecoder::space_replacement                                       *)
ReplacesBySpace(decoder) ==
  decoder.type = "Replace" /\ decoder.content = <<space>> /\ Len(decoder.pattern) = 1

(* Mutant: spaces are left as they are written.                            *)
SpacecharDefault(decoders) == space

(* The last one that replaces by a space counts.                           *)
Spacechar(decoders) ==
  LET i == SelectLastInSeq(decoders, ReplacesBySpace)
  IN  IF i = 0 THEN space ELSE decoders[i].pattern[1]

ByteFallbackLevel(decoders) ==
  IF /\ \A d \in ToSet(decoders) : Unpacks(d)
     /\ \E d \in ToSet(decoders) : d.type = "ByteFallback"
  THEN {[level |-> "ByteFallback", spacechar |-> Spacechar(decoders)]}
  ELSE {}

(* TokenProcessor::new                                                     *)
NewProcessor(decoder) ==
  CASE decoder.type = "ByteLevel" -> {[level |-> "Byte"]}
    [] decoder.type = "Sequence" -> ByteFallbackLevel(decoder.decoders)
    [] OTHER -> {}

Process(processor, token) ==
  IF processor.level = "Byte" THEN ByteLevel(token)
                              ELSE ByteFallback(processor.spacechar, token)

ProcessError(processor) ==
  IF processor.level = "Byte" THEN "ByteProcessorFailed" ELSE "ByteFallbackProcessorFailed"
=============================================================================
