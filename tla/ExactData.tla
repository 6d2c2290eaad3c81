------------------------------ MODULE ExactData ------------------------------
(***************************************************************************)
(* Storage of the values that could not be predicted.  Of each value, less *)
(* the median, the first reqLength bits are kept, and of these, the bytes  *)
(* that differ from those of the value before it: the number of equal      *)
(* bytes goes to one array, the remaining whole bytes to another, the bits *)
(* left over to a third.  The first and the last are packed.  The decoder  *)
(* has a cursor in each.                                                   *)
(*                                                                         *)
(* The single- and the double-precision code differ in the constants of    *)
(* the next section only.                                                  *)
(***************************************************************************)
EXTENDS Integers, Sequences

CONSTANTS
  Words,       \* values, less the median, as sequences of bytes
  Settings,    \* <<bytes of a value, exponent of half the range, exponent of the precision>>
  MaxEntries   \* bound: values stored

ASSUME ExactDataAssumption ==
  /\ Words \subseteq [1 .. 4 -> 0 .. 255] \cup [1 .. 8 -> 0 .. 255]
  /\ Settings \subseteq {4, 8} \X Int \X Int
  /\ MaxEntries \in Nat

VARIABLES
  bytes, radExpo, reqExpo,         \* the setting
  given,                           \* history: the values to store
  preDataBytes,                    \* of the encoder
  leadNum, exactMidBytes, resiBits,\* the three dynamic arrays
  packed,                          \* the fields leadNumArray and residualMidBits, once made
  k, p, curByteIndex, preBytes,    \* of the decoder
  out                              \* the values it has recovered; Len(out) is its l

arrays == <<leadNum, exactMidBytes, resiBits>>
decoder == <<k, p, curByteIndex, preBytes, out>>
setting == <<bytes, radExpo, reqExpo>>
vars == <<setting, given, preDataBytes, arrays, packed, decoder>>

\* Bits of the sign and the exponent of a value of n bytes, and the bits kept
\* beyond those the precision asks for.
SignBits(n) == IF n = 4 THEN 9 ELSE 12
Extra(n) == IF n = 4 THEN 1 ELSE 0

\* Bit i of a value, from 0, which is the sign.
Bit(w, i) == (w[i \div 8 + 1] \div 2 ^ (7 - (i % 8))) % 2
Exponent(w) ==
  LET e == SignBits(Len(w)) - 1
  IN (w[1] % 128) * 2 ^ (e - 7) + (w[2] \div 2 ^ (15 - e)) - (2 ^ (e - 1) - 1)

\* A value less the median is at most half the range, but for rounding, which
\* reaches the next power of two and no further.
InRange(w) ==
  \/ Exponent(w) <= radExpo
  \/ Exponent(w) = radExpo + 1 /\ \A i \in SignBits(bytes) .. 8 * bytes - 1 : Bit(w, i) = 0

-----------------------------------------------------------------------------
(* The encoder                                                             *)

Least(a, b) == IF a < b THEN a ELSE b
Greatest(a, b) == IF a > b THEN a ELSE b

\* computeReqLength_float and _double.
\* Mutant of reqLength: the exponent is not always kept.
reqLengthFrom8 ==
  Least(8 * bytes, Greatest(8, SignBits(bytes) + Extra(bytes) + radExpo - reqExpo))
reqLength ==
  Least(8 * bytes, Greatest(SignBits(bytes), SignBits(bytes) + Extra(bytes) + radExpo - reqExpo))
reqBytesLength == reqLength \div 8
resiBitsLength == reqLength % 8

\* What compressSingleFloatValue leaves of a value for the encoder to predict
\* from: its first reqLength bits.
Truncated(w) ==
  [i \in 1 .. bytes |->
     LET kept == Greatest(0, Least(8, reqLength - 8 * (i - 1)))
     IN (w[i] \div 2 ^ (8 - kept)) * 2 ^ (8 - kept)]

\* compIdenticalLeadingBytesCount: at most 3.
Identical(v, w) ==
  CHOOSE n \in 0 .. 3 : /\ \A i \in 1 .. n : v[i] = w[i]
                        /\ n = 3 \/ v[n + 1] # w[n + 1]

\* updateLossyCompElement and addExactData.
addExactData(w) ==
  LET lead == Identical(preDataBytes, w)
  IN /\ leadNum' = Append(leadNum, lead)
     /\ exactMidBytes' = exactMidBytes \o SubSeq(w, lead + 1, reqBytesLength)
     /\ IF resiBitsLength = 0 THEN UNCHANGED resiBits
        ELSE resiBits' = Append(resiBits, w[reqBytesLength + 1] \div 2 ^ (8 - resiBitsLength))
     /\ preDataBytes' = w
     /\ given' = Append(given, w)
     /\ UNCHANGED <<setting, packed, decoder>>

CompressSingleValue(w) ==
  /\ packed = << >> /\ Len(given) < MaxEntries
  /\ Len(w) = bytes /\ InRange(w)
  /\ addExactData(w)

\* convertIntArray2ByteArray_fast_2b: four numbers to a byte.
PackLead(lead) ==
  [i \in 1 .. (Len(lead) + 3) \div 4 |->
     LET at(j) == IF 4 * (i - 1) + j <= Len(lead) THEN lead[4 * (i - 1) + j] ELSE 0
     IN (at(1) * 64 + at(2) * 16 + at(3) * 4 + at(4)) % 256]

\* One turn of convertIntArray2ByteArray_fast_dynamic.  The bits of a value do
\* not meet those already in tmp, so | is +.
PackNext(n, s, value) ==
  LET left == 8 - (s.k % 8) - n
  IN [bytes |-> IF left > 0 THEN s.bytes
                ELSE Append(s.bytes, (s.tmp + (value \div 2 ^ (-left))) % 256),
      tmp |-> IF left > 0 THEN s.tmp + value * 2 ^ left
              ELSE IF left = 0 THEN 0 ELSE (value * 2 ^ (8 + left)) % 256,
      k |-> s.k + n, left |-> left]

\* Its variables after each turn, for values of n bits.
Packing(n, resi) ==
  LET after[i \in 0 .. Len(resi)] ==
        IF i = 0 THEN [bytes |-> << >>, tmp |-> 0, k |-> 0, left |-> 0]
        ELSE PackNext(n, after[i - 1], resi[i])
  IN after

\* Mutant of PackResidual: the last byte is only written when it is full.
PackResidualWhole(n, resi) == Packing(n, resi)[Len(resi)].bytes
PackResidual(n, resi) ==
  LET end == Packing(n, resi)[Len(resi)]
  IN IF end.left # 0 THEN Append(end.bytes, end.tmp) ELSE end.bytes

\* new_TightDataPointStorage: the block is complete.
Finish ==
  /\ packed = << >> /\ given # << >>
  /\ packed' = [leadNumArray |-> PackLead(leadNum),
                residualMidBits |-> PackResidual(resiBitsLength, resiBits)]
  /\ UNCHANGED <<setting, given, preDataBytes, arrays, decoder>>

-----------------------------------------------------------------------------
(* The decoder                                                             *)

Beyond == 256
At(s, i) == IF i \in DOMAIN s THEN s[i] ELSE Beyond

\* convertByteArray2IntArray_fast_2b, number l, from 0.
LeadOf(l) == (At(packed.leadNumArray, l \div 4 + 1) \div 4 ^ (3 - (l % 4))) % 4

\* How far the next residual bits reach into the byte after the current one.
Over == resiBitsLength - (8 - (k % 8))
ResidualBits ==
  LET rest == At(packed.residualMidBits, p + 1) % 2 ^ (8 - (k % 8))
  IN IF Over <= 0 THEN rest \div 2 ^ (-Over)
     ELSE rest * 2 ^ Over + (At(packed.residualMidBits, p + 2) \div 2 ^ (8 - Over))

\* Mutant of Passed: the cursor stays on a byte whose last bits have been read.
PassedIfOver == IF resiBitsLength # 0 /\ Over > 0 THEN 1 ELSE 0
\* By how many bytes the cursor moves.
Passed == IF resiBitsLength # 0 /\ Over >= 0 THEN 1 ELSE 0

\* case 0 of decompressDataSeries.
RecoverExact ==
  /\ packed # << >> /\ Len(out) < Len(given)
  /\ LET lead == LeadOf(Len(out))
         curBytes ==
           [i \in 1 .. bytes |->
              IF resiBitsLength # 0 /\ i = reqBytesLength + 1
                THEN (ResidualBits * 2 ^ (8 - resiBitsLength)) % 256
              ELSE IF i <= lead THEN preBytes[i]
              ELSE IF i <= reqBytesLength THEN At(exactMidBytes, curByteIndex + i - lead)
              ELSE 0]
     IN /\ out' = Append(out, curBytes)
        /\ preBytes' = curBytes
        /\ curByteIndex' = curByteIndex + Greatest(0, reqBytesLength - lead)
  /\ p' = p + Passed
  /\ k' = k + resiBitsLength
  /\ UNCHANGED <<setting, given, preDataBytes, arrays, packed>>

Zero == [i \in 1 .. bytes |-> 0]
Init ==
  /\ \E s \in Settings : bytes = s[1] /\ radExpo = s[2] /\ reqExpo = s[3]
  /\ given = << >> /\ preDataBytes = Zero
  /\ leadNum = << >> /\ exactMidBytes = << >> /\ resiBits = << >>
  /\ packed = << >>
  /\ k = 0 /\ p = 0 /\ curByteIndex = 0 /\ preBytes = Zero /\ out = << >>

Next ==
  \/ \E w \in Words : CompressSingleValue(w)
  \/ Finish
  \/ RecoverExact

Spec == Init /\ [][Next]_vars

-----------------------------------------------------------------------------
(* Properties                                                              *)

Byte == 0 .. 255

\* Every variable has its type, and the encoder's arrays grow together.
TypeOK ==
  /\ \A w \in {preDataBytes, preBytes} : w \in [1 .. bytes -> Byte]
  /\ Len(leadNum) = Len(given) /\ \A i \in DOMAIN leadNum : leadNum[i] \in 0 .. 3
  /\ Len(resiBits) = (IF resiBitsLength = 0 THEN 0 ELSE Len(given))
  /\ \A i \in DOMAIN resiBits : resiBits[i] \in 0 .. 2 ^ resiBitsLength - 1
  /\ Len(out) <= Len(given)

\* Two values with the same sign and exponent and so many more equal bits differ
\* by less than 2^e.
NearWord(e, w, v) ==
  LET sign == SignBits(Len(w))
      same == Least(8 * Len(w), Greatest(sign, sign + Exponent(w) - e))
  IN \A i \in 0 .. same - 1 : Bit(v, i) = Bit(w, i)

Store == INSTANCE ExactStore WITH Near <- NearWord

\* Each value comes back in its place and within the precision, whatever values
\* were before it: the encoder compares whole values, of which the decoder has
\* only what was kept (sz_float.c:546-568, szd_float.c:276-317).
StoreImplemented == Store!Spec

\* The decoder recovers, bit for bit, the value the encoder goes on from, though
\* one cuts its bits off and the other puts them together from three streams
\* (dataCompression.c:454-477, szd_float.c:276-317).
SameForBoth == \A i \in DOMAIN out : out[i] = Truncated(given[i])

\* After the last value every cursor is at the end of its array: an entry that
\* reads more or less than was written spoils all after it
\* (TypeManager.c:366-415, szd_float.c:278-311).
UsedUp ==
  packed # << >> /\ Len(out) = Len(given) =>
    /\ curByteIndex = Len(exactMidBytes)
    /\ p = k \div 8
    /\ Len(packed.residualMidBits) = (k + 7) \div 8
=============================================================================
