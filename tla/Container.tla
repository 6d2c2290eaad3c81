------------------------------ MODULE Container ------------------------------
(***************************************************************************)
(* The compressed stream of floating-point data as a byte layout.          *)
(*                                                                         *)
(* After the version comes one byte of flags, and everything the           *)
(* decompressor knows about the rest it takes from there: which kind of    *)
(* stream it is, which optional fields are present, how wide a size is.    *)
(* Writer and reader lay the stream out in two functions of their own, and *)
(* share the global exe_params.  A byte is the set of its bits; a field is *)
(* its name and its width in bytes.                                        *)
(*                                                                         *)
(* The specification is CSpec, so that it can be reasoned about together   *)
(* with the other parts of the stream, TypeStream and ExactData.           *)
(***************************************************************************)
EXTENDS Integers, Sequences, FiniteSets

CONSTANTS
  EntropyTypeValues, \* settings of entropy_type, out of 0, 1, 2
  Protect,           \* settings of protectValueRange
  Leftover           \* bits that malloc'ed memory can put in a byte of flags

Bits == {1, 2, 4, 8, 16, 32, 64, 128}

ASSUME ContainerAssumption ==
  /\ EntropyTypeValues \subseteq 0 .. 2
  /\ Protect \subseteq BOOLEAN
  /\ Leftover \subseteq SUBSET (Bits \ {1})

VARIABLES
  confparams_cpr, \* the compressor's settings
  SZ_SIZE_TYPE,   \* exe_params->SZ_SIZE_TYPE
  stream,         \* the stream at hand, written here or elsewhere, or NoStream
  read            \* how the reader understood it, or NotRead

cvars == <<confparams_cpr, SZ_SIZE_TYPE, stream, read>>

\* Codes, one constant, the raw numbers, or blocks with regression.
Kinds == {"codes", "constant", "raw", "regression"}
Modes == {"ABS", "PW_REL", "ABS_AND_PW_REL"}
CprSettings == [entropy_type : EntropyTypeValues, protectValueRange : Protect,
                errorBoundMode : Modes, accelerate : BOOLEAN]
NoStream == [kind |-> "none"]
NotRead == [kind |-> "none"]
When(test, s) == IF test THEN s ELSE << >>
Flag(test, b) == IF test THEN {b} ELSE {}

-----------------------------------------------------------------------------
\* tdps->entropyType << 1.  The field is set for a stream of codes; for a
\* constant it is what malloc returned; the other kinds have no tdps.
EntropyBits(kind, c) ==
  CASE kind = "codes" -> {CASE c.entropy_type = 0 -> {}
                            [] c.entropy_type = 1 -> {2}
                            [] c.entropy_type = 2 -> {4}}
    [] kind = "constant" -> Leftover
    [] OTHER -> {{}}

\* convertTDPStoFlatBytes_float: sameByte, e from entropyType.
TdpsFlags(kind, c, st, e) ==
  e \cup Flag(kind = "constant", 1)
    \cup Flag(c.errorBoundMode # "ABS", 32)
    \cup Flag(st = 8, 64)
    \cup Flag(c.errorBoundMode = "PW_REL" /\ c.accelerate, 8)
    \cup Flag(c.protectValueRange, 4)

\* SZ_compress_args_float_StoreOriData: 16 or 80.
RawFlags(st) == {16} \cup Flag(st = 8, 64)

\* initRandomAccessBytes
RegressionFlags(c, st) ==
  {128} \cup Flag(st = 8, 64) \cup Flag(c.protectValueRange, 4)

Flags(kind, c, st, e) ==
  CASE kind = "raw" -> RawFlags(st)
    [] kind = "regression" -> RegressionFlags(c, st)
    [] OTHER -> TdpsFlags(kind, c, st, e)

\* convertTDPStoBytes_float: the fields of a stream of codes, as written.
Written(c, st) ==
  <<<<"dataSeriesLength", st>>, <<"max_quant_intervals", 4>>>>
  \o When(c.errorBoundMode # "ABS",
          <<<<"radExpo", 1>>, <<"segment_size", st>>, <<"pwrErrBoundBytes_size", 4>>>>)
  \o <<<<"intervals", 4>>, <<"medianValue", 4>>, <<"reqLength", 1>>>>
  \o When(c.errorBoundMode = "PW_REL" /\ c.accelerate,
          <<<<"plus_bits", 1>>, <<"max_bits", 1>>>>)
  \o <<<<"realPrecision", 8>>>>
  \o (IF c.entropy_type <= 1 THEN <<<<"typeArray_size", st>>>>
      ELSE <<<<"FseCode_size", st>>, <<"transCodeBits_size", st>>>>)
  \o <<<<"exactDataNum", st>>, <<"exactMidBytes_size", st>>>>
  \o When(c.errorBoundMode # "ABS", <<<<"minLogValue", 4>>>>)

\* What the reader takes from the flags.
Parsed(f) ==
  [kind |-> IF 16 \in f THEN "raw" ELSE IF 1 \in f THEN "constant"
            ELSE IF 128 \in f THEN "regression" ELSE "codes",
   entropyType |-> (IF 2 \in f THEN 1 ELSE 0) + (IF 4 \in f THEN 2 ELSE 0),
   isPW_REL |-> 32 \in f,
   accelerate |-> 8 \in f,
   sizeType |-> IF 64 \in f THEN 8 ELSE 4]

\* Mutant of Expected: the two bytes of MSST19 are looked for in every
\* point-wise relative stream.
ExpectedPlusBits(p) ==
  <<<<"dataSeriesLength", p.sizeType>>, <<"max_quant_intervals", 4>>>>
  \o When(p.isPW_REL, <<<<"radExpo", 1>>, <<"segment_size", p.sizeType>>,
                        <<"pwrErrBoundBytes_size", 4>>>>)
  \o <<<<"intervals", 4>>, <<"medianValue", 4>>, <<"reqLength", 1>>>>
  \o When(p.isPW_REL, <<<<"plus_bits", 1>>, <<"max_bits", 1>>>>)
  \o <<<<"realPrecision", 8>>>>
  \o (IF p.entropyType <= 1 THEN <<<<"typeArray_size", p.sizeType>>>>
      ELSE <<<<"FseCode_size", p.sizeType>>, <<"transCodeBits_size", p.sizeType>>>>)
  \o <<<<"exactDataNum", p.sizeType>>, <<"exactMidBytes_size", p.sizeType>>>>
  \o When(p.isPW_REL, <<<<"minLogValue", 4>>>>)

\* new_TightDataPointStorageF_fromFlatBytes: the fields it goes through.
Expected(p) ==
  <<<<"dataSeriesLength", p.sizeType>>, <<"max_quant_intervals", 4>>>>
  \o When(p.isPW_REL, <<<<"radExpo", 1>>, <<"segment_size", p.sizeType>>,
                        <<"pwrErrBoundBytes_size", 4>>>>)
  \o <<<<"intervals", 4>>, <<"medianValue", 4>>, <<"reqLength", 1>>>>
  \o When(p.isPW_REL /\ p.accelerate, <<<<"plus_bits", 1>>, <<"max_bits", 1>>>>)
  \o <<<<"realPrecision", 8>>>>
  \o (IF p.entropyType <= 1 THEN <<<<"typeArray_size", p.sizeType>>>>
      ELSE <<<<"FseCode_size", p.sizeType>>, <<"transCodeBits_size", p.sizeType>>>>)
  \o <<<<"exactDataNum", p.sizeType>>, <<"exactMidBytes_size", p.sizeType>>>>
  \o When(p.isPW_REL, <<<<"minLogValue", 4>>>>)

-----------------------------------------------------------------------------
CInit ==
  /\ confparams_cpr \in CprSettings
  /\ SZ_SIZE_TYPE = 8
  /\ stream = NoStream
  /\ read = NotRead

\* SZ_Init with other settings.
Configure ==
  /\ confparams_cpr' \in CprSettings
  /\ SZ_SIZE_TYPE' = 8
  /\ UNCHANGED <<stream, read>>

Write(kind, c, st) ==
  /\ \E e \in EntropyBits(kind, c) :
       stream' = [kind |-> kind, settings |-> c, sizeType |-> st, entropy |-> e,
                  flags |-> Flags(kind, c, st, e)]
  /\ read' = NotRead

Compress(kind) ==
  /\ Write(kind, confparams_cpr, SZ_SIZE_TYPE)
  /\ UNCHANGED <<confparams_cpr, SZ_SIZE_TYPE>>

\* A stream made on a machine where size_t has 4 bytes.
Receive(kind) ==
  /\ \E c \in CprSettings : Write(kind, c, 4)
  /\ UNCHANGED <<confparams_cpr, SZ_SIZE_TYPE>>

\* SZ_decompress clears exe_params; the reader sets the size type again.
Decompress ==
  /\ stream # NoStream
  /\ LET p == Parsed(stream.flags)
     IN /\ SZ_SIZE_TYPE' = p.sizeType
        /\ read' = p
  /\ UNCHANGED <<confparams_cpr, stream>>

CNext ==
  \/ Configure
  \/ \E kind \in Kinds : Compress(kind) \/ Receive(kind)
  \/ Decompress

CSpec == CInit /\ [][CNext]_cvars

-----------------------------------------------------------------------------
(* Properties                                                              *)

\* The size type is 4 or 8, and a stream is of a kind and begins with a byte.
CTypeOK ==
  /\ confparams_cpr \in CprSettings
  /\ SZ_SIZE_TYPE \in {4, 8}
  /\ stream # NoStream =>
       /\ stream.kind \in Kinds
       /\ stream.settings \in CprSettings
       /\ stream.sizeType \in {4, 8}
       /\ stream.entropy \subseteq Bits /\ stream.flags \subseteq Bits
  /\ read.kind \in Kinds \cup {"none"}

\* The reader takes the stream for what it is: the kind, the width of a size,
\* and for codes the coder and the place of every field.
Understood ==
  /\ read.kind = stream.kind
  /\ read.sizeType = stream.sizeType
  /\ stream.kind = "codes" =>
       /\ read.entropyType = stream.settings.entropy_type
       /\ Expected(read) = Written(stream.settings, stream.sizeType)

\* Every stream is understood as it was written, whatever was written and read
\* before in the process (TightDataPointStorageF.c:66-305, 584-896).
ReadAsWritten == read # NotRead => Understood

\* In the stream of a constant the field that nobody set has neither the bit
\* of raw streams nor, where a size has 4 bytes, the one of 8.
LeftoverHarmless ==
  stream.kind = "constant" =>
    /\ 16 \notin stream.entropy
    /\ 64 \in stream.entropy => stream.sizeType = 8

\* In a stream of codes protectValueRange, which shares bit 4 with
\* entropy_type, does not set a bit that entropy_type left clear.
ProtectHarmless ==
  stream.kind = "codes" /\ stream.settings.protectValueRange =>
    stream.settings.entropy_type = 2

\* The same for every stream that is not altered by these two, and whatever
\* else memory holds.
ReadAsWrittenUnlessAltered ==
  read # NotRead /\ LeftoverHarmless /\ ProtectHarmless => Understood
=============================================================================
