----------------------------- MODULE TypeStream -----------------------------
(***************************************************************************)
(* The entropy stage: the array of quantisation codes, type[], is packed   *)
(* into bytes by one of three coders and unpacked by the decompressor.     *)
(*                                                                         *)
(* ADT-FSE (transcode.c) splits a code in two: a class, of which there are *)
(* 68, and the offset inside it.  The classes go through FSE, the offsets  *)
(* into a bit stream that is written forwards and read from its end.  A    *)
(* size of at most 1 is what FSE returns when it produced nothing.         *)
(* Zstandard gets the codes as 16-bit words.  Huffman, a lossless code of  *)
(* the ints themselves, is represented by what it carries.                 *)
(*                                                                         *)
(* The specification is TSSpec, so that it can be reasoned about together  *)
(* with the other parts of the stream, Container and ExactData.            *)
(***************************************************************************)
EXTENDS Integers, Sequences, SequencesExt

CONSTANTS
  EntropyTypes, \* the settings of entropy_type
  Intervals,    \* quantization_intervals
  Types,        \* codes to pack, below Intervals
  MaxLen        \* bound: dataSeriesLength

ASSUME TypeStreamAssumption ==
  /\ EntropyTypes \subseteq {"huffman", "zstd", "adt-fse"}
  /\ Intervals \in {2 * n : n \in 1 .. Intervals}
  /\ Types \subseteq 0 .. Intervals - 1
  /\ MaxLen \in Nat

VARIABLES
  entropyType,
  type,     \* the codes of the compressor
  words,    \* what Huffman or Zstandard carries
  tp_code,  \* ADT-FSE: the class of each code
  bits,     \* transCodeBits: the offsets, [n |-> width, v |-> value]
  fseSize,  \* FseCode_size, 2 for anything above 1
  phase,    \* "encode", "decode", "done"
  decoded   \* type[] of the decompressor; from the right, for ADT-FSE

tsvars == <<entropyType, type, words, tp_code, bits, fseSize, phase, decoded>>

md == Intervals \div 2

-----------------------------------------------------------------------------
POSITIVE_CODE_NUM == 34
TOTAL_CODE_NUM == 67

\* The first 34 rows of code2int, <<base, offset width>>; the others mirror them.
Positive == [c \in 0 .. 33 |->
  IF c < 16 THEN <<c, 0>>
  ELSE IF c < 25
    THEN <<<<16, 1>>, <<18, 1>>, <<20, 1>>, <<22, 1>>, <<24, 2>>, <<28, 2>>,
           <<32, 3>>, <<40, 3>>, <<48, 4>>>>[c - 15]
  ELSE <<2 ^ (c - 19), c - 19>>]

Base(c) == IF c < POSITIVE_CODE_NUM THEN Positive[c][1]
           ELSE -Positive[TOTAL_CODE_NUM - c][1]
Width(c) == Positive[IF c < POSITIVE_CODE_NUM THEN c ELSE TOTAL_CODE_NUM - c][2]

Log2(x) == CHOOSE n \in 0 .. 30 : 2 ^ n <= x /\ x < 2 ^ (n + 1)

\* Mutant of Int2code: the highest bit is counted from 0.
Int2codeLow(f) ==
  IF f > 63 THEN 18 + Log2(f)
  ELSE CHOOSE c \in 0 .. 24 : Base(c) <= f /\ f < Base(c + 1)

\* Of a factor >= 0: a table up to 63, the highest bit beyond.
Int2code(f) ==
  IF f > 63 THEN 19 + Log2(f)
  ELSE CHOOSE c \in 0 .. 24 : Base(c) <= f /\ f < Base(c + 1)

type2code(t) ==
  IF t >= md THEN Int2code(t - md) ELSE TOTAL_CODE_NUM - Int2code(md - t)

diff(t) == LET d == IF t >= md THEN t - md ELSE md - t
           IN d - Base(Int2code(d))

-----------------------------------------------------------------------------
TSInit ==
  /\ entropyType \in EntropyTypes
  /\ type = << >> /\ words = << >> /\ tp_code = << >> /\ bits = << >>
  /\ fseSize = 0 /\ phase = "encode" /\ decoded = << >>

\* BIT_addBitsFast
Put(c, d) == IF Width(c) = 0 THEN bits ELSE Append(bits, [n |-> Width(c), v |-> d])

\* Mutant of EncodeType: nbits is not reset for an unpredictable value.
EncodeTypeStaleWidth(t) ==
  /\ phase = "encode" /\ Len(type) < MaxLen
  /\ entropyType = "adt-fse"
  /\ type' = Append(type, t)
  /\ tp_code' = Append(tp_code, IF t = 0 THEN TOTAL_CODE_NUM ELSE type2code(t))
  /\ bits' = IF t # 0 THEN Put(type2code(t), diff(t))
             ELSE IF bits = << >> THEN bits ELSE Append(bits, Last(bits))
  /\ UNCHANGED <<entropyType, words, fseSize, phase, decoded>>

\* One turn of the encoding loop.
EncodeType(t) ==
  /\ phase = "encode" /\ Len(type) < MaxLen
  /\ type' = Append(type, t)
  /\ CASE entropyType = "huffman" ->
            words' = Append(words, t) /\ UNCHANGED <<tp_code, bits>>
       [] entropyType = "zstd" ->
            words' = Append(words, t % 2 ^ 16) /\ UNCHANGED <<tp_code, bits>>
       [] entropyType = "adt-fse" ->
            /\ tp_code' = Append(tp_code, IF t = 0 THEN TOTAL_CODE_NUM ELSE type2code(t))
            /\ bits' = IF t = 0 THEN bits ELSE Put(type2code(t), diff(t))
            /\ UNCHANGED words
  /\ UNCHANGED <<entropyType, fseSize, phase, decoded>>

\* The size FSE_compress returns: 0 when it gives up, 1 for a single symbol.
Occurrences(s, c) == Len(SelectSeq(s, LAMBDA x : x = c))
FSE_compress(s) ==
  IF Len(s) <= 1 THEN {0}
  ELSE IF \A i \in DOMAIN s : s[i] = s[1] THEN {1}
  ELSE IF \A i \in DOMAIN s : Occurrences(s, s[i]) = 1 THEN {0}
  ELSE {0, 2}

EncodeEnd ==
  /\ phase = "encode" /\ Len(type) > 0
  /\ fseSize' \in IF entropyType = "adt-fse" THEN FSE_compress(tp_code) ELSE {0}
  /\ phase' = "decode"
  /\ UNCHANGED <<entropyType, type, words, tp_code, bits, decoded>>

\* (short): a word above 2^15 - 1 is negative.
Short(w) == IF w < 2 ^ 15 THEN w ELSE w - 2 ^ 16

DecodeWords ==
  /\ phase = "decode" /\ entropyType # "adt-fse"
  /\ decoded' = [i \in DOMAIN words |->
              IF entropyType = "zstd" THEN Short(words[i]) ELSE words[i]]
  /\ phase' = "done"
  /\ UNCHANGED <<entropyType, type, words, tp_code, bits, fseSize>>

\* "all 0"
DecodeNoFse ==
  /\ phase = "decode" /\ entropyType = "adt-fse" /\ fseSize <= 1
  /\ decoded' = [i \in DOMAIN type |-> 0]
  /\ phase' = "done"
  /\ UNCHANGED <<entropyType, type, words, tp_code, bits, fseSize>>

\* BIT_readBitsFast: the last n bits, whatever they were written as.
ReadBits(n) ==
  IF n = 0 THEN {0}
  ELSE IF bits # << >> /\ Last(bits).n = n THEN {Last(bits).v}
  ELSE 0 .. 2 ^ n - 1

\* Mutant of DecodeFse: the offset of a negative factor is added.
DecodeFseUnsigned ==
  /\ phase = "decode" /\ entropyType = "adt-fse" /\ fseSize > 1
  /\ LET c == tp_code[Len(tp_code) - Len(decoded)]
     IN \/ /\ c = TOTAL_CODE_NUM
           /\ decoded' = <<0>> \o decoded
           /\ UNCHANGED bits
        \/ /\ c # TOTAL_CODE_NUM
           /\ \E d \in ReadBits(Width(c)) : decoded' = <<md + Base(c) + d>> \o decoded
           /\ bits' = IF Width(c) = 0 \/ bits = << >> THEN bits ELSE Front(bits)
  /\ phase' = IF Len(decoded) + 1 = Len(tp_code) THEN "done" ELSE phase
  /\ UNCHANGED <<entropyType, type, words, tp_code, fseSize>>

\* One turn of the decoding loop, which runs from the last code to the first.
DecodeFse ==
  /\ phase = "decode" /\ entropyType = "adt-fse" /\ fseSize > 1
  /\ LET c == tp_code[Len(tp_code) - Len(decoded)]
     IN \/ /\ c = TOTAL_CODE_NUM
           /\ decoded' = <<0>> \o decoded
           /\ UNCHANGED bits
        \/ /\ c # TOTAL_CODE_NUM
           /\ \E d \in ReadBits(Width(c)) :
                decoded' = <<md + Base(c) + (IF c < POSITIVE_CODE_NUM THEN d ELSE -d)>> \o decoded
           /\ bits' = IF Width(c) = 0 \/ bits = << >> THEN bits ELSE Front(bits)
  /\ phase' = IF Len(decoded) + 1 = Len(tp_code) THEN "done" ELSE phase
  /\ UNCHANGED <<entropyType, type, words, tp_code, fseSize>>

TSNext ==
  \/ \E t \in Types : EncodeType(t)
  \/ EncodeEnd
  \/ DecodeWords
  \/ DecodeNoFse
  \/ DecodeFse

TSSpec == TSInit /\ [][TSNext]_tsvars

-----------------------------------------------------------------------------
(* Properties                                                              *)

\* Codes stay below intervals and no class without an offset takes part in bits.
TSTypeOK ==
  /\ entropyType \in EntropyTypes
  /\ type \in Seq(0 .. Intervals - 1) /\ words \in Seq(0 .. Intervals - 1)
  /\ tp_code \in Seq(0 .. TOTAL_CODE_NUM)
  /\ \A i \in DOMAIN bits : bits[i].n \in 1 .. 14 /\ bits[i].v \in Nat
  /\ fseSize \in 0 .. 2 /\ phase \in {"encode", "decode", "done"}
  /\ decoded \in Seq(Int)

\* The codes come back as they went in ("0 for huffman(default), 1 for Zstd
\* and 2 for adt-fse", README.md:19).
RoundTrip == phase = "done" => decoded = type

\* They do when FSE coded the classes, or all of them were "unpredictable".
FseCoded ==
  entropyType = "adt-fse" => fseSize > 1 \/ \A i \in DOMAIN type : type[i] = 0
RoundTripIfCoded == FseCoded => RoundTrip

\* An offset never has more bits than its class gives it: BIT_addBitsFast
\* takes a clean value, and a stray bit would land in the next offset.
OffsetsFit == \A i \in DOMAIN bits : bits[i].v < 2 ^ bits[i].n

\* Writing and reading the bit stream are in step: after the last class no
\* offset is left over.
BitsUsedUp == phase = "done" /\ fseSize > 1 => bits = << >>
=============================================================================
