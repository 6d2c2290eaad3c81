---------------------------- MODULE IntegerCodec ----------------------------
(***************************************************************************)
(* The coders of 8-, 16- and 32-bit integers, signed and unsigned, of one  *)
(* and two dimensions (sz_int32.c, szd_int32.c and their siblings): the    *)
(* values are predicted and quantized as the floats are, but the bound is  *)
(* a real number and a rebuilt value is truncated to an integer, in a long *)
(* that is then clamped (8 and 16 bits) or in the type itself (32 bits).   *)
(* An exact value is its distance from the minimum, in as few bytes as the *)
(* range of the values needs.                                              *)
(*                                                                         *)
(* The bound is Num / Den.  Where a double does not fit the type it is     *)
(* converted to, C leaves the result open: x86 gives the smallest number   *)
(* (or, unsigned, wraps), ARM the nearest; writer and reader may differ.   *)
(* The 64-bit coders, the third and fourth dimension and the entropy stage *)
(* are left out.                                                           *)
(***************************************************************************)
EXTENDS Integers, Sequences, SequencesExt, FiniteSetsExt

CONSTANTS
  Inputs,    \* [type, cols, data] to compress; cols is 0 in one dimension
  Nums,      \* numerators of the bound
  Den,       \* its denominator
  Capacity,  \* number of quantization intervals
  ByteBits,  \* bits of a byte (8); types have one, two or four bytes
  Behind     \* what memory can hold behind the values, two elements

\* How many numbers some bytes hold, and half of them.
Half(bytes) == 2 ^ (ByteBits * bytes - 1)
Numbers(bytes) == 2 * Half(bytes)

\* The numbers of a type.
Lowest(t) == IF t.signed THEN -Half(t.bytes) ELSE 0
TypeRange(t) == Lowest(t) .. Lowest(t) + Numbers(t.bytes) - 1

ASSUME IntegerAssumption ==
  /\ Nums \subseteq Nat \ {0} /\ Den \in Nat \ {0} /\ ByteBits \in Nat \ {0}
  /\ Behind \subseteq Seq(Int)
  /\ Capacity \in {2 * n : n \in 1 .. 2 ^ 15}
  /\ \A x \in Inputs :
       /\ x.type \in [bytes : {1, 2, 4}, signed : BOOLEAN]
       /\ x.cols \in Nat \ {1} /\ x.data \in Seq(TypeRange(x.type)) /\ Len(x.data) >= 2

VARIABLES
  type,        \* [bytes, signed]
  cols,        \* values in a row, 0 in one dimension
  data,        \* the values
  num,         \* the bound, times Den
  writerSat, readerSat, \* conversions saturate
  form,        \* "new", "coding", and what is stored: "constant", "coded", "raw"
  codes, exact,\* the stream
  stored,      \* the elements of a stream that is stored raw
  rebuilt,     \* the values the encoder predicts from
  out          \* the values read back

given == <<type, cols, data, num, writerSat, readerSat>>
vars == <<given, form, codes, exact, stored, rebuilt, out>>

-----------------------------------------------------------------------------
(* Machine arithmetic                                                      *)

Low == Lowest(type)
High == Low + Numbers(type.bytes) - 1
\* The types whose coder computes in a long and clamps.
clamps == type.bytes < 4

Abs(x) == IF x < 0 THEN -x ELSE x
\* Division that truncates, as the conversion of a double.
Trunc(x, y) == IF x >= 0 THEN x \div y ELSE -((-x) \div y)
Clamp(x) == Max({Low, Min({High, x})})
\* An integer assigned to the type.
Word(x) == Low + ((x - Low) % Numbers(type.bytes))
\* A double assigned to the type.
Convert(x, saturates) ==
  IF x \in Low .. High THEN x
  ELSE IF saturates THEN Clamp(x)
  ELSE IF type.signed THEN Low ELSE Word(x)

-----------------------------------------------------------------------------
(* What writer and reader share                                            *)

minValue == Min(ToSet(data))
valueRangeSize == Max(ToSet(data)) - minValue

\* Mutant of ByteSize: two bytes are never taken.
ByteSizeOneOrFour(range) == IF range <= Numbers(2) THEN 1 ELSE 4
\* computeByteSizePerIntValue: as it stands, a range of 2^8 is given one byte.
ByteSize(range) ==
  IF range <= Numbers(1) THEN 1 ELSE IF range <= Numbers(2) THEN 2 ELSE 4
Width == Numbers(ByteSize(valueRangeSize))

intvRadius == Capacity \div 2

\* Elements stored without a prediction: two in one dimension, one in two.
Forced(k) == IF cols = 0 THEN k <= 2 ELSE k = 1

\* The prediction of value k from the values before it.
Predict(d, k) ==
  LET p == IF cols = 0 \/ k = 2 THEN d[k - 1]
           ELSE IF k <= cols THEN 2 * d[k - 1] - d[k - 2]
           ELSE IF k % cols = 1 THEN d[k - cols]
           ELSE d[k - 1] + d[k - cols] - d[k - cols - 1]
  IN IF clamps THEN p ELSE Word(p)

-----------------------------------------------------------------------------
(* Writer                                                                  *)

\* diff and predAbsErr: with 32 bits, and signed, one of them has the type.
Diff(v, pred) ==
  IF type = [bytes |-> 4, signed |-> TRUE] /\ cols # 0 THEN Word(v - pred) ELSE v - pred
PredAbsErr(v, pred) ==
  IF type = [bytes |-> 4, signed |-> TRUE] /\ cols = 0 THEN Word(Abs(v - pred))
  ELSE Abs(Diff(v, pred))

\* Mutant of InRange: the error may be the radius.
InRangeToEdge(e) == e * Den <= (Capacity - 1) * num
\* predAbsErr<checkRadius, itvNum<intvCapacity
InRange(e) == e * Den < (Capacity - 1) * num

\* Mutant of State: rounded down.
StateDown(e) == Trunc(e * Den, 2 * num)
State(e) == Trunc(e * Den + num, 2 * num)

\* The value that a prediction and a number of intervals stand for.
Rebuild(pred, state, saturates) ==
  LET x == Trunc(pred * Den + 2 * state * num, Den)
  IN IF clamps THEN Clamp(x) ELSE Convert(x, saturates)

\* All values within the bound of each other: the first stands for them.
WithinRange ==
  /\ form = "new" /\ valueRangeSize * Den <= num
  /\ form' = "constant"
  /\ UNCHANGED <<given, codes, exact, stored, rebuilt, out>>

Begin ==
  /\ form = "new" /\ valueRangeSize * Den > num
  /\ form' = "coding"
  /\ UNCHANGED <<given, codes, exact, stored, rebuilt, out>>

i == Len(rebuilt) + 1
Predictable(k) ==
  IF Forced(k) THEN FALSE ELSE InRange(PredAbsErr(data[k], Predict(rebuilt, k)))

EncodePredicted ==
  /\ form = "coding" /\ i <= Len(data) /\ Predictable(i)
  /\ LET pred == Predict(rebuilt, i)
         e == PredAbsErr(data[i], pred)
         state == IF Diff(data[i], pred) >= 0 THEN State(e) ELSE -State(e)
     IN /\ codes' = Append(codes, intvRadius + state)
        /\ rebuilt' = Append(rebuilt, Rebuild(pred, state, writerSat))
  /\ UNCHANGED <<given, form, exact, stored, out>>

EncodeExact ==
  /\ form = "coding" /\ i <= Len(data) /\ ~ Predictable(i)
  /\ codes' = Append(codes, 0)
  /\ exact' = Append(exact, (data[i] - minValue) % Width)
  /\ rebuilt' = Append(rebuilt, data[i])
  /\ UNCHANGED <<given, form, stored, out>>

\* Where the stream is longer than the data, the data are stored instead; in
\* one dimension with two elements that are behind them.
EncodeEnd ==
  /\ form = "coding" /\ i > Len(data)
  /\ \/ form' = "coded" /\ UNCHANGED stored
     \/ /\ form' = "raw"
        /\ \E tail \in Behind : stored' = data \o (IF cols = 0 THEN tail ELSE << >>)
  /\ UNCHANGED <<given, codes, exact, rebuilt, out>>

-----------------------------------------------------------------------------
(* Reader                                                                  *)

n == Len(out) + 1

DecodeUncoded ==
  /\ form \in {"constant", "raw"} /\ n <= Len(data)
  /\ out' = Append(out, IF form = "constant" THEN data[1] ELSE stored[n])
  /\ UNCHANGED <<given, form, codes, exact, stored, rebuilt>>

\* The exact value of code n, or what memory has behind the last of them.
ExactAt(k) ==
  LET m == Cardinality({j \in 1 .. k : codes[j] = 0})
  IN IF m <= Len(exact) THEN {exact[m]}
     ELSE 0 .. Width - 1

DecodeExact ==
  /\ form = "coded" /\ n <= Len(data) /\ codes[n] = 0
  /\ \E entry \in ExactAt(n) : out' = Append(out, Word(minValue + entry))
  /\ UNCHANGED <<given, form, codes, exact, stored, rebuilt>>

DecodePredicted ==
  /\ form = "coded" /\ n <= Len(data) /\ codes[n] # 0
  /\ out' = Append(out, Rebuild(Predict(out, n), codes[n] - intvRadius, readerSat))
  /\ UNCHANGED <<given, form, codes, exact, stored, rebuilt>>

Init ==
  /\ \E x \in Inputs : type = x.type /\ cols = x.cols /\ data = x.data
  /\ num \in Nums /\ writerSat \in BOOLEAN /\ readerSat \in BOOLEAN
  /\ clamps => writerSat /\ readerSat
  /\ form = "new" /\ codes = << >> /\ exact = << >> /\ stored = << >>
  /\ rebuilt = << >> /\ out = << >>

Next ==
  \/ WithinRange \/ Begin
  \/ EncodePredicted \/ EncodeExact \/ EncodeEnd
  \/ DecodeUncoded \/ DecodeExact \/ DecodePredicted

Spec == Init /\ [][Next]_vars

-----------------------------------------------------------------------------
(* Properties                                                              *)

\* The range has a byte for each of its values.
Fits == valueRangeSize # Width

\* No prediction comes near the ends of a type that is not clamped.
Centre == Low + Half(type.bytes)
Roomy ==
  clamps \/ \A j \in DOMAIN data :
              4 * (Abs(data[j] - Centre) * Den + num + Den) < Den * Half(type.bytes)

\* The one prediction error that has 32 bits and a sign does not wrap: an
\* int32_t takes llabs of a difference (sz_int32.c:263-285).
ErrorFits == ~ type.signed \/ cols # 0 \/ Roomy

\* What the encoder keeps are numbers of the type, and each code has an exact
\* value if and only if it says so.
TypeOK ==
  /\ form \in {"new", "coding", "constant", "coded", "raw"}
  /\ \A j \in DOMAIN rebuilt : rebuilt[j] \in Low .. High
  /\ \A j \in DOMAIN exact : exact[j] \in 0 .. Numbers(type.bytes) - 1
  /\ Len(codes) = Len(rebuilt) /\ Len(out) <= Len(data)
  /\ ErrorFits => Len(exact) = Cardinality({j \in DOMAIN codes : codes[j] = 0})

\* Every code is one of the alphabet that the Huffman tree has room for, and
\* it is 0, which sends the reader to the exact values, for those values that
\* have no prediction or one too far off, and for no other: a prediction error
\* that does not wrap never gives the code 0 (sz_int32.c:260-290).
CodesInAlphabet ==
  ErrorFits => \A j \in DOMAIN codes :
             /\ codes[j] \in 0 .. Capacity - 1
             /\ codes[j] = 0 <=> ~ Predictable(j)

\* The reader rebuilds what the writer predicted from, if they convert doubles
\* alike, exact values fit their bytes, and no error that wraps was given the
\* code of an exact value (szd_int32.c:141-159).
Follows == (form = "coded" /\ writerSat = readerSat) => IsPrefix(out, rebuilt)
InSync == Fits /\ ErrorFits => Follows

\* As InSync, whatever the ranges. It fails at a range of 256 (dataCompression.c:26).
InSyncAnyRange == ErrorFits => Follows

\* As InSync, with errors that wrap. It fails where int32_t values have nearly
\* the widest range: an error can get the code 0 without an exact value.
InSyncAnyError == Fits => Follows

Error(j) == Abs(out[j] - data[j]) * Den

\* A value comes back within the bound if two times the bound is an integer;
\* otherwise truncation adds less than one. The coders of 8 and 16 bits keep it
\* up to the ends of the type (README.md:96).
BoundKeptUnlessNarrow ==
  (Roomy /\ Fits) => \A j \in DOMAIN out :
                     IF (2 * num) % Den = 0 THEN Error(j) <= num ELSE Error(j) < num + Den

\* The bound as documented (README.md:96), away from the ends of the type. It
\* fails where the bound is a fraction.
BoundKept == (Roomy /\ Fits) => \A j \in DOMAIN out : Error(j) <= num

\* The bound if it is not a fraction. It fails near the ends of 32 bits.
BoundKeptUnlessFraction ==
  (Fits /\ (2 * num) % Den = 0) => \A j \in DOMAIN out : Error(j) <= num
=============================================================================
