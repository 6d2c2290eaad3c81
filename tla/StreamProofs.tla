----------------------------- MODULE StreamProofs -----------------------------
(***************************************************************************)
(* The parts of a compressed stream: its header, its exact values and its  *)
(* codes, written by one half of the library and read by the other.  The   *)
(* reader of each has what the writer had, for all settings and any number *)
(* of entries.  The three parts share no state; each has a section.        *)
(*                                                                         *)
(* The header.  The invariant says where the flags come from, which the    *)
(* reader does not know; what is left is that each flag can be read off    *)
(* the byte again, and that the two layouts ask the same flags.            *)
(*                                                                         *)
(* The exact values.  A number start[i] for each value says where its      *)
(* bytes begin; both sides move along the same numbers.  The decoder puts  *)
(* a value together from bytes it reads and bytes of the value before,     *)
(* which, by the invariant, is the one the encoder compared with, cut to   *)
(* the bits kept.  The residual bits need an induction of their own: what  *)
(* has been packed can be fetched again whatever is packed after it.       *)
(*                                                                         *)
(* The codes.  Of the bit stream of ADT-FSE the invariant says which code  *)
(* each offset belongs to, by counting the codes that have one.            *)
(***************************************************************************)
EXTENDS Container, ExactData, TypeStream, NaturalsInduction,
        WellFoundedInduction, SequenceTheorems, TLAPS

-----------------------------------------------------------------------------
(* The header: what is in the byte of flags                                *)

LEMMA SettingsFields ==
  ASSUME NEW c \in CprSettings
  PROVE  /\ c.entropy_type \in 0 .. 2 /\ c.protectValueRange \in BOOLEAN
         /\ c.errorBoundMode \in Modes /\ c.accelerate \in BOOLEAN
  BY ContainerAssumption DEF CprSettings

LEMMA FlagsAreBits ==
  ASSUME NEW kind \in Kinds, NEW c \in CprSettings, NEW st \in {4, 8},
         NEW e \in EntropyBits(kind, c)
  PROVE  e \subseteq Bits /\ Flags(kind, c, st, e) \subseteq Bits
<1>1. e \subseteq Bits
  <2>1. c.entropy_type \in 0 .. 2  BY SettingsFields
  <2>2. Leftover \subseteq SUBSET Bits  BY ContainerAssumption
  <2> QED  BY <2>1, <2>2 DEF EntropyBits, Bits, Kinds
<1>2. CASE kind = "raw"  BY <1>1, <1>2 DEF Flags, RawFlags, Flag, Bits
<1>3. CASE kind = "regression"
  BY <1>1, <1>3 DEF Flags, RegressionFlags, Flag, Bits
<1>4. CASE kind \in {"codes", "constant"}
  <2>1. Flags(kind, c, st, e) = TdpsFlags(kind, c, st, e)  BY <1>4 DEF Flags
  <2> QED  BY <1>1, <2>1 DEF TdpsFlags, Flag, Bits
<1> QED  BY <1>2, <1>3, <1>4 DEF Kinds

\* A stream of codes.
LEMMA CodesFlags ==
  ASSUME NEW c \in CprSettings, NEW st \in {4, 8}, NEW e \in EntropyBits("codes", c),
         NEW f, f = Flags("codes", c, st, e)
  PROVE  /\ 1 \notin f /\ 16 \notin f /\ 128 \notin f
         /\ 2 \in f <=> c.entropy_type = 1
         /\ 4 \in f <=> c.entropy_type = 2 \/ c.protectValueRange
         /\ 8 \in f <=> c.errorBoundMode = "PW_REL" /\ c.accelerate
         /\ 32 \in f <=> c.errorBoundMode # "ABS"
         /\ 64 \in f <=> st = 8
<1>1. c.entropy_type = 0 \/ c.entropy_type = 1 \/ c.entropy_type = 2
  BY SettingsFields
<1>2.   f = e \cup Flag(FALSE, 1) \cup Flag(c.errorBoundMode # "ABS", 32)
              \cup Flag(st = 8, 64)
              \cup Flag(c.errorBoundMode = "PW_REL" /\ c.accelerate, 8)
              \cup Flag(c.protectValueRange, 4)
  BY DEF Flags, TdpsFlags
<1>3. \A x : /\ x \in Flag(FALSE, 1) <=> FALSE
             /\ x \in Flag(c.errorBoundMode # "ABS", 32) <=> x = 32 /\ c.errorBoundMode # "ABS"
             /\ x \in Flag(st = 8, 64) <=> x = 64 /\ st = 8
             /\ x \in Flag(c.errorBoundMode = "PW_REL" /\ c.accelerate, 8)
                  <=> x = 8 /\ c.errorBoundMode = "PW_REL" /\ c.accelerate
             /\ x \in Flag(c.protectValueRange, 4) <=> x = 4 /\ c.protectValueRange
  BY DEF Flag
<1>4. \A x : x \in e <=> \/ x = 2 /\ c.entropy_type = 1
                         \/ x = 4 /\ c.entropy_type = 2
  BY <1>1 DEF EntropyBits
<1>5. \A x : x \in f <=> \/ x = 2 /\ c.entropy_type = 1
                         \/ x = 4 /\ (c.entropy_type = 2 \/ c.protectValueRange)
                         \/ x = 32 /\ c.errorBoundMode # "ABS"
                         \/ x = 64 /\ st = 8
                         \/ x = 8 /\ c.errorBoundMode = "PW_REL" /\ c.accelerate
  <2> DEFINE b1 == Flag(FALSE, 1)
             b2 == Flag(c.errorBoundMode # "ABS", 32)
             b3 == Flag(st = 8, 64)
             b4 == Flag(c.errorBoundMode = "PW_REL" /\ c.accelerate, 8)
             b5 == Flag(c.protectValueRange, 4)
  <2>1. \A x : x \in f <=> x \in e \/ x \in b1 \/ x \in b2 \/ x \in b3 \/ x \in b4 \/ x \in b5
    <3>1. f = e \cup b1 \cup b2 \cup b3 \cup b4 \cup b5  BY <1>2
    <3> HIDE DEF b1, b2, b3, b4, b5
    <3> QED  BY <3>1
  <2> HIDE DEF b1, b2, b3, b4, b5
  <2> QED  BY <2>1, <1>3, <1>4, Zenon DEF b1, b2, b3, b4, b5
<1> QED  BY <1>5

\* A stream of codes is read as it was laid out.
LEMMA CodesUnderstood ==
  ASSUME NEW c \in CprSettings, NEW st \in {4, 8}, NEW e \in EntropyBits("codes", c),
         NEW f, f = Flags("codes", c, st, e),
         c.protectValueRange => c.entropy_type = 2
  PROVE  /\ Parsed(f).kind = "codes" /\ Parsed(f).sizeType = st
         /\ Parsed(f).entropyType = c.entropy_type
         /\ Expected(Parsed(f)) = Written(c, st)
<1> DEFINE h == Parsed(f)
<1>1. c.entropy_type = 0 \/ c.entropy_type = 1 \/ c.entropy_type = 2
  BY SettingsFields
<1>2. /\ h.kind = "codes" /\ h.sizeType = st
      /\ h.entropyType = c.entropy_type
      /\ h.isPW_REL <=> c.errorBoundMode # "ABS"
      /\ h.accelerate <=> c.errorBoundMode = "PW_REL" /\ c.accelerate
  <2>1. /\ 1 \notin f /\ 16 \notin f /\ 128 \notin f
        /\ 2 \in f <=> c.entropy_type = 1
        /\ 4 \in f <=> c.entropy_type = 2 \/ c.protectValueRange
        /\ 8 \in f <=> c.errorBoundMode = "PW_REL" /\ c.accelerate
        /\ 32 \in f <=> c.errorBoundMode # "ABS"
        /\ 64 \in f <=> st = 8
    BY CodesFlags
  <2>2. /\ h.kind = IF 16 \in f THEN "raw" ELSE IF 1 \in f THEN "constant"
                   ELSE IF 128 \in f THEN "regression" ELSE "codes"
        /\ h.entropyType = (IF 2 \in f THEN 1 ELSE 0) + (IF 4 \in f THEN 2 ELSE 0)
        /\ h.isPW_REL = (32 \in f) /\ h.accelerate = (8 \in f)
        /\ h.sizeType = IF 64 \in f THEN 8 ELSE 4
    BY DEF Parsed
  <2> HIDE DEF h
  <2>3. h.kind = "codes" /\ h.sizeType = st  BY <2>1, <2>2
  <2>4. h.entropyType = c.entropy_type
    <3>1. 4 \in f <=> c.entropy_type = 2  BY <2>1
    <3> QED  BY <1>1, <2>1, <2>2, <3>1
  <2>5. h.isPW_REL <=> c.errorBoundMode # "ABS"
    <3>1. h.isPW_REL = (32 \in f)  BY ONLY <2>2, Zenon
    <3>2. 32 \in f <=> c.errorBoundMode # "ABS"  BY ONLY <2>1, Zenon
    <3> QED  BY ONLY <3>1, <3>2, Zenon
  <2>6. h.accelerate <=> c.errorBoundMode = "PW_REL" /\ c.accelerate
    <3>1. h.accelerate = (8 \in f)  BY ONLY <2>2, Zenon
    <3>2. 8 \in f <=> c.errorBoundMode = "PW_REL" /\ c.accelerate  BY ONLY <2>1, Zenon
    <3> QED  BY ONLY <3>1, <3>2, Zenon
  <2> QED  BY <2>3, <2>4, <2>5, <2>6
<1> HIDE DEF h
<1>3. (h.isPW_REL /\ h.accelerate) <=> (c.errorBoundMode = "PW_REL" /\ c.accelerate)
  BY <1>2
<1>4. \A s : /\ When(h.isPW_REL, s) = When(c.errorBoundMode # "ABS", s)
             /\ When(h.isPW_REL /\ h.accelerate, s)
                  = When(c.errorBoundMode = "PW_REL" /\ c.accelerate, s)
  BY <1>2, <1>3 DEF When
<1>5. Expected(h) = Written(c, st)
  BY <1>2, <1>4 DEF Expected, Written
<1> QED  BY <1>2, <1>5 DEF h

\* A stream of another kind, whose entropyType is set for none of them.
LEMMA OthersUnderstood ==
  ASSUME NEW kind \in Kinds \ {"codes"}, NEW c \in CprSettings, NEW st \in {4, 8},
         NEW e \in EntropyBits(kind, c), NEW f, f = Flags(kind, c, st, e),
         kind = "constant" => 16 \notin e /\ (64 \in e => st = 8)
  PROVE  Parsed(f).kind = kind /\ Parsed(f).sizeType = st
<1>1. CASE kind = "raw"  BY <1>1 DEF Flags, RawFlags, Flag, Parsed
<1>2. CASE kind = "regression"  BY <1>2 DEF Flags, RegressionFlags, Flag, Parsed
<1>3. CASE kind = "constant"
  <2>1. f = e \cup Flag(TRUE, 1) \cup Flag(c.errorBoundMode # "ABS", 32)
              \cup Flag(st = 8, 64)
              \cup Flag(c.errorBoundMode = "PW_REL" /\ c.accelerate, 8)
              \cup Flag(c.protectValueRange, 4)
    BY <1>3 DEF Flags, TdpsFlags
  <2>2. 1 \in f /\ 16 \notin f  BY <1>3, <2>1 DEF Flag
  <2>3. 64 \in f <=> st = 8  BY <1>3, <2>1 DEF Flag
  <2> QED  BY <1>3, <2>2, <2>3 DEF Parsed
<1> QED  BY <1>1, <1>2, <1>3 DEF Kinds

-----------------------------------------------------------------------------
(* The header: the invariant                                               *)

\* Where the flags of the stream at hand come from, which its reader does not
\* know.
FlagsInv ==
  /\ confparams_cpr \in CprSettings /\ SZ_SIZE_TYPE \in {4, 8}
  /\ stream # NoStream =>
       /\ stream.kind \in Kinds /\ stream.settings \in CprSettings
       /\ stream.sizeType \in {4, 8}
       /\ stream.entropy \in EntropyBits(stream.kind, stream.settings)
       /\ stream.flags = Flags(stream.kind, stream.settings, stream.sizeType, stream.entropy)
  /\ read # NotRead => stream # NoStream /\ read = Parsed(stream.flags)

LEMMA FlagsInitially == CInit => FlagsInv
  BY DEF CInit, FlagsInv

LEMMA Wrote ==
  ASSUME NEW kind \in Kinds, NEW c \in CprSettings, NEW st \in {4, 8}, Write(kind, c, st)
  PROVE  /\ stream'.kind \in Kinds /\ stream'.settings \in CprSettings
         /\ stream'.sizeType \in {4, 8}
         /\ stream'.entropy \in EntropyBits(stream'.kind, stream'.settings)
         /\ stream'.flags = Flags(stream'.kind, stream'.settings, stream'.sizeType,
                                  stream'.entropy)
         /\ read' = NotRead
<1>1. PICK e \in EntropyBits(kind, c) :
        stream' = [kind |-> kind, settings |-> c, sizeType |-> st, entropy |-> e,
                   flags |-> Flags(kind, c, st, e)]
  BY DEF Write
<1>2. /\ stream'.kind = kind /\ stream'.settings = c /\ stream'.sizeType = st
      /\ stream'.entropy = e /\ stream'.flags = Flags(kind, c, st, e)
  BY <1>1
<1>3. read' = NotRead  BY DEF Write
<1> QED  BY <1>2, <1>3

LEMMA FlagsStep == FlagsInv /\ [CNext]_cvars => FlagsInv'
<1> SUFFICES ASSUME FlagsInv, [CNext]_cvars PROVE FlagsInv'  OBVIOUS
<1>1. CASE UNCHANGED cvars  BY <1>1 DEF FlagsInv, cvars
<1>2. CASE Configure  BY <1>2 DEF Configure, FlagsInv
<1>3. ASSUME NEW kind \in Kinds, Compress(kind) PROVE FlagsInv'
  <2>1. Write(kind, confparams_cpr, SZ_SIZE_TYPE)  BY <1>3 DEF Compress
  <2>2. confparams_cpr \in CprSettings /\ SZ_SIZE_TYPE \in {4, 8}  BY DEF FlagsInv
  <2>3. confparams_cpr' = confparams_cpr /\ SZ_SIZE_TYPE' = SZ_SIZE_TYPE
    BY <1>3 DEF Compress
  <2> QED  BY <2>1, <2>2, <2>3, Wrote DEF FlagsInv
<1>4. ASSUME NEW kind \in Kinds, Receive(kind) PROVE FlagsInv'
  <2>1. PICK c \in CprSettings : Write(kind, c, 4)  BY <1>4 DEF Receive
  <2>2. confparams_cpr' = confparams_cpr /\ SZ_SIZE_TYPE' = SZ_SIZE_TYPE
    BY <1>4 DEF Receive
  <2>3. 4 \in {4, 8}  OBVIOUS
  <2> QED  BY <2>1, <2>2, <2>3, Wrote DEF FlagsInv
<1>5. CASE Decompress
  <2>1. /\ stream # NoStream /\ stream' = stream /\ confparams_cpr' = confparams_cpr
        /\ read' = Parsed(stream.flags)
        /\ SZ_SIZE_TYPE' = Parsed(stream.flags).sizeType
    BY <1>5 DEF Decompress
  <2>2. SZ_SIZE_TYPE' \in {4, 8}  BY <2>1 DEF Parsed
  <2> QED  BY <2>1, <2>2 DEF FlagsInv
<1> QED  BY <1>1, <1>2, <1>3, <1>4, <1>5 DEF CNext

LEMMA FlagsAlways == CSpec => []FlagsInv
  BY FlagsInitially, FlagsStep, PTL DEF CSpec

-----------------------------------------------------------------------------
(* The header: the theorems                                                *)

\* The settings and the size type are always ones the two layouts know, and
\* the first byte of a stream has no bit outside a byte.
THEOREM FlagsTypeCorrect == CSpec => []CTypeOK
<1>1. FlagsInv => CTypeOK
  <2> SUFFICES ASSUME FlagsInv PROVE CTypeOK  OBVIOUS
  <2>1. stream # NoStream => stream.entropy \subseteq Bits /\ stream.flags \subseteq Bits
    BY FlagsAreBits DEF FlagsInv
  <2>2. read.kind \in Kinds \cup {"none"}
    BY DEF FlagsInv, NotRead, Parsed, Kinds
  <2> QED  BY <2>1, <2>2 DEF FlagsInv, CTypeOK
<1> QED  BY <1>1, FlagsAlways, PTL

\* Every stream is read as it was laid out, whichever of the settings are used,
\* whatever malloc returns and whatever streams were read before, from machines
\* with other sizes too; except a stream of codes whose protectValueRange sets
\* a bit of entropy_type, and one of a constant whose entropyType, which nobody
\* sets, happens to hold the bit of raw streams or of wide sizes.
THEOREM ReadRight == CSpec => []ReadAsWrittenUnlessAltered
<1>1. FlagsInv => ReadAsWrittenUnlessAltered
  <2> SUFFICES ASSUME FlagsInv, read # NotRead, LeftoverHarmless, ProtectHarmless
               PROVE  Understood
    BY DEF ReadAsWrittenUnlessAltered
  <2>1. /\ stream.kind \in Kinds /\ stream.settings \in CprSettings
        /\ stream.sizeType \in {4, 8}
        /\ stream.entropy \in EntropyBits(stream.kind, stream.settings)
        /\ stream.flags = Flags(stream.kind, stream.settings, stream.sizeType, stream.entropy)
        /\ read = Parsed(stream.flags)
    BY DEF FlagsInv
  <2>2. CASE stream.kind = "codes"
    BY <2>1, <2>2, CodesUnderstood DEF Understood, ProtectHarmless
  <2>3. CASE stream.kind # "codes"
    BY <2>1, <2>3, OthersUnderstood DEF Understood, LeftoverHarmless
  <2> QED  BY <2>2, <2>3
<1> QED  BY <1>1, FlagsAlways, PTL

-----------------------------------------------------------------------------
(* Exact values: numbers                                                   *)

LEMMA DivMod ==
  ASSUME NEW n \in Nat, NEW d \in Nat \ {0}
  PROVE  n \div d \in Nat /\ n % d \in 0 .. d - 1 /\ n = d * (n \div d) + (n % d)
OBVIOUS

LEMMA DivModUnique ==
  ASSUME NEW n \in Nat, NEW d \in Nat \ {0}, NEW q \in Nat, NEW r \in 0 .. d - 1,
         n = d * q + r
  PROVE  n \div d = q /\ n % d = r
<1> DEFINE pos == n \div d
           s == n % d
<1>1. pos \in Nat /\ s \in 0 .. d - 1 /\ n = d * pos + s  BY DivMod
<1> HIDE DEF pos, s
<1>2. d * pos \in Int /\ d * q \in Int  BY <1>1
<1>3. ASSUME pos >= q + 1 PROVE FALSE
  <2>1. d * pos >= d * (q + 1) /\ d * (q + 1) = d * q + d  BY <1>1, <1>3
  <2> QED  BY <1>1, <1>2, <2>1
<1>4. ASSUME pos + 1 <= q PROVE FALSE
  <2>1. d * q >= d * (pos + 1) /\ d * (pos + 1) = d * pos + d  BY <1>1, <1>4
  <2> QED  BY <1>1, <1>2, <2>1
<1>5. pos = q  BY <1>1, <1>3, <1>4
<1> QED  BY <1>1, <1>2, <1>5 DEF pos, s

\* A set with 0 and the successor of each of its members has every number.
LEMMA EveryNat ==
  ASSUME NEW S \in SUBSET Nat, 0 \in S, \A n \in S : n + 1 \in S
  PROVE  S = Nat
<1> DEFINE R == OpToRel(<, Nat)
           T == Nat \ S
<1>1. IsWellFoundedOn(R, Nat)  BY NatLessThanWellFounded
<1>2. \A x, y \in Nat : x < y => <<x, y>> \in R  BY DEF OpToRel
<1> HIDE DEF R
<1> SUFFICES ASSUME T # {} PROVE FALSE  OBVIOUS
<1>3. PICK n \in T : \A y \in T : ~ (<<y, n>> \in R)
  <2>1. T \in SUBSET Nat  OBVIOUS
  <2> HIDE DEF T
  <2> QED  BY <1>1, <2>1, WFMin
<1>4. n \in Nat /\ n # 0 /\ n - 1 \in Nat /\ n - 1 < n /\ (n - 1) + 1 = n  OBVIOUS
<1>5. n - 1 \notin S  BY <1>4
<1> QED  BY <1>2, <1>3, <1>4, <1>5

\* Packing gives the variables of the loop after each turn.
LEMMA PackingIs ==
  ASSUME NEW n, NEW resi \in Seq(Int)
  PROVE  /\ Packing(n, resi)[0] = [bytes |-> << >>, tmp |-> 0, k |-> 0, left |-> 0]
         /\ \A i \in 1 .. Len(resi) :
              Packing(n, resi)[i] = PackNext(n, Packing(n, resi)[i - 1], resi[i])
<1> DEFINE F(f, m) ==
             f = [i \in 0 .. m |->
                    IF i = 0 THEN [bytes |-> << >>, tmp |-> 0, k |-> 0, left |-> 0]
                    ELSE PackNext(n, f[i - 1], resi[i])]
           S == {m \in Nat : \E f : F(f, m)}
<1>1. 0 \in S
  <2> DEFINE g == [i \in 0 .. 0 |-> [bytes |-> << >>, tmp |-> 0, k |-> 0, left |-> 0]]
  <2>1. F(g, 0)  OBVIOUS
  <2> HIDE DEF F
  <2> QED  BY <2>1
<1>2. ASSUME NEW m \in S PROVE m + 1 \in S
  <2>1. PICK f : F(f, m)  OBVIOUS
  <2> DEFINE g == [i \in 0 .. m + 1 |->
                     IF i = 0 THEN [bytes |-> << >>, tmp |-> 0, k |-> 0, left |-> 0]
                     ELSE PackNext(n, f[i - 1], resi[i])]
  <2>2. \A i \in 0 .. m : g[i] = f[i]  BY <2>1
  <2>3. \A i \in 0 .. m + 1 : i # 0 => i - 1 \in 0 .. m  OBVIOUS
  <2>4. F(g, m + 1)  BY <2>2, <2>3
  <2> HIDE DEF F, g
  <2> QED  BY <2>4
<1>3. S = Nat  BY <1>1, <1>2, EveryNat
<1>4. \E f : F(f, Len(resi))
  <2>1. Len(resi) \in Nat  OBVIOUS
  <2> HIDE DEF F
  <2> QED  BY <2>1, <1>3
<1>5. Packing(n, resi) = CHOOSE f : F(f, Len(resi))  BY DEF Packing
<1>6. F(Packing(n, resi), Len(resi))
  <2> HIDE DEF F
  <2> QED  BY <1>4, <1>5
<1> HIDE DEF S
<1>7. Len(resi) \in Nat  OBVIOUS
<1> QED  BY <1>6, <1>7

-----------------------------------------------------------------------------
(* Exact values: powers of two                                             *)

Pow(n) == 2 ^ n

LEMMA Powers ==
  /\ Pow(0) = 1 /\ Pow(1) = 2 /\ Pow(2) = 4 /\ Pow(3) = 8 /\ Pow(4) = 16
  /\ Pow(5) = 32 /\ Pow(6) = 64 /\ Pow(7) = 128 /\ Pow(8) = 256
BY DEF Pow

LEMMA PowNat ==
  ASSUME NEW n \in 0 .. 8 PROVE Pow(n) \in Nat /\ 1 <= Pow(n) /\ Pow(n) <= 256
<1>1. \/ n = 0 \/ n = 1 \/ n = 2 \/ n = 3 \/ n = 4 \/ n = 5 \/ n = 6 \/ n = 7 \/ n = 8
  OBVIOUS
<1> QED  BY <1>1, Powers

LEMMA PowPos ==
  ASSUME NEW n \in 0 .. 8 PROVE Pow(n) \in Nat \ {0}
BY PowNat

LEMMA PowSum ==
  ASSUME NEW a \in 0 .. 8, NEW b \in 0 .. 8, a + b <= 8
  PROVE  Pow(a) * Pow(b) = Pow(a + b)
<1>1. \/ b = 0 \/ b = 1 \/ b = 2 \/ b = 3 \/ b = 4 \/ b = 5 \/ b = 6 \/ b = 7 \/ b = 8
  OBVIOUS
<1>2. CASE a = 0  BY <1>1, <1>2, Powers
<1>3. CASE a = 1  BY <1>1, <1>3, Powers
<1>4. CASE a = 2  BY <1>1, <1>4, Powers
<1>5. CASE a = 3  BY <1>1, <1>5, Powers
<1>6. CASE a = 4  BY <1>1, <1>6, Powers
<1>7. CASE a = 5  BY <1>1, <1>7, Powers
<1>8. CASE a = 6  BY <1>1, <1>8, Powers
<1>9. CASE a = 7  BY <1>1, <1>9, Powers
<1>10. CASE a = 8  BY <1>1, <1>10, Powers
<1> QED  BY <1>2, <1>3, <1>4, <1>5, <1>6, <1>7, <1>8, <1>9, <1>10

\* What is added below the unit e of a number does not reach its quotient.
LEMMA DivLow ==
  ASSUME NEW m \in Nat, NEW e \in Nat \ {0}, NEW c \in Nat \ {0}, NEW y \in 0 .. e - 1
  PROVE  (m * e + y) \div (e * c) = m \div c
<1> DEFINE q == m \div c
           r == m % c
<1>1. q \in Nat /\ r \in 0 .. c - 1 /\ m = c * q + r  BY DivMod
<1> HIDE DEF q, r
<1>2. e * c \in Nat \ {0}  OBVIOUS
<1>3. m * e + y = (e * c) * q + (r * e + y)
  <2>1. m * e = (c * q + r) * e  BY <1>1
  <2>2. (c * q + r) * e = (e * c) * q + r * e  BY <1>1
  <2> QED  BY <2>1, <2>2, <1>1
<1>4. r * e + y \in 0 .. e * c - 1
  <2>1. (r + 1) * e <= c * e /\ (r + 1) * e = r * e + e  BY <1>1
  <2> QED  BY <2>1, <1>1
<1>5. m * e + y \in Nat  OBVIOUS
<1> HIDE DEF q
<1>6. (m * e + y) \div (e * c) = q  BY <1>1, <1>2, <1>3, <1>4, <1>5, DivModUnique
<1> QED  BY <1>6 DEF q

LEMMA ModLow ==
  ASSUME NEW m \in Nat, NEW e \in Nat \ {0}, NEW c \in Nat \ {0}, NEW y \in 0 .. e - 1
  PROVE  (m * e + y) % (e * c) = (m % c) * e + y
<1> DEFINE q == m \div c
           r == m % c
<1>1. q \in Nat /\ r \in 0 .. c - 1 /\ m = c * q + r  BY DivMod
<1> HIDE DEF q, r
<1>2. e * c \in Nat \ {0}  OBVIOUS
<1>3. m * e + y = (e * c) * q + (r * e + y)
  <2>1. m * e = (c * q + r) * e  BY <1>1
  <2>2. (c * q + r) * e = (e * c) * q + r * e  BY <1>1
  <2> QED  BY <2>1, <2>2, <1>1
<1>4. r * e + y \in 0 .. e * c - 1
  <2>1. (r + 1) * e <= c * e /\ (r + 1) * e = r * e + e  BY <1>1
  <2> QED  BY <2>1, <1>1
<1>5. m * e + y \in Nat  OBVIOUS
<1>6. (m * e + y) % (e * c) = r * e + y  BY <1>1, <1>2, <1>3, <1>4, <1>5, DivModUnique
<1> QED  BY <1>6 DEF r

-----------------------------------------------------------------------------
(* Exact values: values of b bits, one after the other in the bytes w      *)

\* What ResidualBits takes from w at bit n.
Fetch(b, w, n) ==
  LET over == b - (8 - (n % 8))
      rest == At(w, n \div 8 + 1) % Pow(8 - (n % 8))
  IN IF over <= 0 THEN rest \div Pow(-over)
     ELSE rest * Pow(over) + (At(w, n \div 8 + 2) \div Pow(8 - over))

\* The bits from n on are free: the byte they begin in is a multiple of theirs.
Free(w, n) ==
  /\ Len(w) = n \div 8 + 1
  /\ \E m \in Nat : w[n \div 8 + 1] = m * Pow(8 - (n % 8))

\* w2 is w with bits from n on.
Continues(w, n, w2) ==
  /\ Len(w2) >= n \div 8 + 1
  /\ \A i \in 1 .. n \div 8 : w2[i] = w[i]
  /\ \E y \in 0 .. Pow(8 - (n % 8)) - 1 : w2[n \div 8 + 1] = w[n \div 8 + 1] + y

\* What was there before n is read as before.
LEMMA FetchKept ==
  ASSUME NEW b \in 1 .. 7, NEW w \in Seq(Nat), NEW w2 \in Seq(Nat), NEW n \in Nat,
         Free(w, n), Continues(w, n, w2), NEW l \in Nat, l + b <= n
  PROVE  Fetch(b, w2, l) = Fetch(b, w, l)
<1> DEFINE q == n \div 8
           r == n % 8
           pos == l \div 8
           off == l % 8
<1>1. q \in Nat /\ r \in 0 .. 7 /\ n = 8 * q + r
      /\ pos \in Nat /\ off \in 0 .. 7 /\ l = 8 * pos + off
  OBVIOUS
<1>2. /\ Len(w) = q + 1 /\ Len(w2) >= q + 1 /\ Len(w2) \in Nat
      /\ \A i \in 1 .. q : w2[i] = w[i]
  BY DEF Free, Continues
<1>3. PICK m \in Nat : w[q + 1] = m * Pow(8 - r)  BY DEF Free
<1>4. PICK y \in 0 .. Pow(8 - r) - 1 : w2[q + 1] = w[q + 1] + y  BY DEF Continues
<1>5. /\ Fetch(b, w, l) = LET over == b - (8 - off)
                              rest == At(w, pos + 1) % Pow(8 - off)
                          IN IF over <= 0 THEN rest \div Pow(-over)
                             ELSE rest * Pow(over) + (At(w, pos + 2) \div Pow(8 - over))
      /\ Fetch(b, w2, l) = LET over == b - (8 - off)
                               rest == At(w2, pos + 1) % Pow(8 - off)
                           IN IF over <= 0 THEN rest \div Pow(-over)
                              ELSE rest * Pow(over) + (At(w2, pos + 2) \div Pow(8 - over))
  BY DEF Fetch
<1> HIDE DEF q, r, pos, off
<1>6. DOMAIN w = 1 .. q + 1 /\ DOMAIN w2 = 1 .. Len(w2)  BY <1>2
<1>11. ASSUME NEW i \in 1 .. q PROVE At(w2, i) = At(w, i)
  <2>1. i \in 1 .. q + 1 /\ i \in 1 .. Len(w2)  BY <1>1, <1>2
  <2>2. w2[i] = w[i]  BY <1>2
  <2> QED  BY <1>6, <2>1, <2>2 DEF At
<1>7. At(w, q + 1) = m * Pow(8 - r) /\ At(w2, q + 1) = m * Pow(8 - r) + y
  <2>1. q + 1 \in 1 .. q + 1 /\ q + 1 \in 1 .. Len(w2)  BY <1>1, <1>2
  <2>2. At(w, q + 1) = w[q + 1] /\ At(w2, q + 1) = w2[q + 1]  BY <1>6, <2>1 DEF At
  <2> QED  BY <2>2, <1>3, <1>4
<1>8. 8 - r \in 0 .. 8 /\ Pow(8 - r) \in Nat \ {0}
  <2>1. 8 - r \in 0 .. 8  BY ONLY <1>1
  <2>2. Pow(8 - r) \in Nat \ {0}  BY ONLY <2>1, PowPos, Zenon
  <2> QED  BY ONLY <2>1, <2>2, Zenon
<1>9. CASE off + b <= 8
  <2> DEFINE A == Pow(8 - off)
             D == Pow(8 - off - b)
  <2>1. /\ b - (8 - off) <= 0 /\ -(b - (8 - off)) = 8 - off - b  BY <1>1, <1>9
  <2>2. /\ Fetch(b, w, l) = (At(w, pos + 1) % A) \div D
        /\ Fetch(b, w2, l) = (At(w2, pos + 1) % A) \div D
    BY <1>5, <2>1
  <2>3. CASE pos < q
    <3>1. pos + 1 \in 1 .. q  BY <2>3, <1>1
    <3> QED  BY <2>2, <3>1, <1>11
  <2>4. CASE pos >= q
    <3>1. pos = q /\ off + b <= r  BY <2>4, <1>1
    <3> DEFINE e == Pow(8 - r)
               c == Pow(r - off - b)
    <3>2. 8 - r \in 0 .. 8 /\ r - off - b \in 0 .. 8 /\ b \in 0 .. 8 /\ r - off \in 0 .. 8
      BY <3>1, <1>1
    <3>3. e \in Nat \ {0} /\ c \in Nat \ {0} /\ Pow(r - off) \in Nat \ {0}
      <4>1. e \in Nat \ {0}  BY ONLY <3>2, PowPos, Zenon
      <4>2. c \in Nat \ {0}  BY ONLY <3>2, PowPos, Zenon
      <4>3. Pow(r - off) \in Nat \ {0}  BY ONLY <3>2, PowPos, Zenon
      <4> QED  BY <4>1, <4>2, <4>3
    <3>4. D = e * c
      <4>1. (8 - r) + (r - off - b) = 8 - off - b /\ 8 - off - b <= 8  BY <3>2, <1>1
      <4>2. Pow(8 - r) * Pow(r - off - b) = Pow((8 - r) + (r - off - b))
        BY ONLY <4>1, <3>2, PowSum
      <4> QED  BY ONLY <4>1, <4>2, Zenon
    <3>5. A = e * Pow(r - off)
      <4>1. (8 - r) + (r - off) = 8 - off /\ 8 - off <= 8  BY <3>2, <1>1
      <4>2. Pow(8 - r) * Pow(r - off) = Pow((8 - r) + (r - off))
        BY ONLY <4>1, <3>2, PowSum
      <4> QED  BY ONLY <4>1, <4>2, Zenon
    <3> HIDE DEF A, D, e
    <3>6. ASSUME NEW z \in 0 .. e - 1
          PROVE  ((m * e + z) % A) \div D = (m % Pow(r - off)) \div c
      <4>1. (m * e + z) % A = (m % Pow(r - off)) * e + z  BY <3>3, <3>5, <3>6, ModLow
      <4>2. m % Pow(r - off) \in Nat  BY <3>3
      <4>3. ((m % Pow(r - off)) * e + z) \div (e * c) = (m % Pow(r - off)) \div c
        BY <3>3, <3>6, <4>2, DivLow
      <4> QED  BY <4>1, <4>3, <3>4
    <3>7. 0 \in 0 .. e - 1 /\ y \in 0 .. e - 1  BY <3>3, <1>4 DEF e
    <3>8. At(w, pos + 1) = m * e + 0 /\ At(w2, pos + 1) = m * e + y
      <4>1. m * e + 0 = m * e  BY <3>3
      <4> QED  BY <4>1, <3>1, <1>7 DEF e
    <3>9. (At(w, pos + 1) % A) \div D = (m % Pow(r - off)) \div c  BY <3>6, <3>7, <3>8
    <3>10. (At(w2, pos + 1) % A) \div D = (m % Pow(r - off)) \div c  BY <3>6, <3>7, <3>8
    <3> QED  BY <2>2, <3>9, <3>10
  <2> QED  BY <2>3, <2>4, <1>1
<1>10. CASE off + b > 8
  <2> DEFINE over == b - (8 - off)
             D == Pow(8 - over)
  <2>1. ~ over <= 0 /\ over \in 1 .. 6 /\ pos + 1 \in 1 .. q /\ pos + 2 \in 1 .. q + 1
    <3>1. 8 * pos + off + b <= 8 * q + r  BY <1>1
    <3>2. pos + 1 <= q  BY <3>1, <1>1, <1>10
    <3>3. over \in 1 .. 6  BY <1>1, <1>10
    <3>4. ~ over <= 0  BY <3>3
    <3>5. pos + 1 \in 1 .. q /\ pos + 2 \in 1 .. q + 1  BY <3>2, <1>1
    <3> QED  BY <3>3, <3>4, <3>5
  <2>2. /\ Fetch(b, w, l) = (At(w, pos + 1) % Pow(8 - off)) * Pow(over) + (At(w, pos + 2) \div D)
        /\ Fetch(b, w2, l) = (At(w2, pos + 1) % Pow(8 - off)) * Pow(over) + (At(w2, pos + 2) \div D)
    BY <1>5, <2>1
  <2>3. At(w2, pos + 1) = At(w, pos + 1)  BY <2>1, <1>11
  <2>4. At(w2, pos + 2) \div D = At(w, pos + 2) \div D
    <3>1. CASE pos + 2 \in 1 .. q  BY <3>1, <1>11
    <3>2. CASE pos + 2 = q + 1
      <4>1. over <= r  BY <3>2, <1>1
      <4> DEFINE e == Pow(8 - r)
                 c == Pow(r - over)
      <4>2. 8 - r \in 0 .. 8 /\ r - over \in 0 .. 8 /\ (8 - r) + (r - over) = 8 - over
            /\ 8 - over <= 8
        BY <4>1, <2>1, <1>1
      <4>3. e \in Nat \ {0} /\ c \in Nat \ {0} /\ D = e * c
        <5>1. e \in Nat \ {0}  BY ONLY <4>2, PowPos, Zenon
        <5>2. c \in Nat \ {0}  BY ONLY <4>2, PowPos, Zenon
        <5>3. e * c = Pow((8 - r) + (r - over))  BY ONLY <4>2, PowSum
        <5>4. D = e * c  BY ONLY <5>3, <4>2, Zenon
        <5> QED  BY ONLY <5>1, <5>2, <5>4, Zenon
      <4>4. y \in 0 .. e - 1 /\ 0 \in 0 .. e - 1  BY <1>4, <4>3
      <4>5. At(w, pos + 2) = m * e + 0 /\ At(w2, pos + 2) = m * e + y
        <5>1. m * e + 0 = m * e  BY <4>3
        <5> QED  BY <5>1, <3>2, <1>7
      <4> HIDE DEF D, e, c
      <4>6. (m * e + 0) \div (e * c) = m \div c  BY <4>3, <4>4, DivLow
      <4>7. (m * e + y) \div (e * c) = m \div c  BY <4>3, <4>4, DivLow
      <4> QED  BY <4>3, <4>5, <4>6, <4>7
    <3> QED  BY <3>1, <3>2, <2>1, <1>1
  <2> QED  BY <2>2, <2>3, <2>4
<1> QED  BY <1>9, <1>10, <1>1

-----------------------------------------------------------------------------
(* Exact values: one turn of the packing                                   *)

\* The bits packed so far, with the byte under way.
Word(s) == Append(s.bytes, s.tmp)

Packed(s) ==
  /\ s \in [bytes : Seq(Nat), tmp : Nat, k : Nat, left : Int]
  /\ Len(s.bytes) = s.k \div 8
  /\ \E m \in 0 .. Pow(s.k % 8) - 1 : s.tmp = m * Pow(8 - (s.k % 8))
  /\ s.left = 0 <=> s.k % 8 = 0

\* The sizes of the two parts of a product.
LEMMA PartBounds ==
  ASSUME NEW e \in Nat \ {0}, NEW c \in Nat \ {0}, NEW x \in 0 .. c - 1, NEW y \in 0 .. e - 1
  PROVE  x * e + y \in 0 .. c * e - 1
<1>1. (x + 1) * e <= c * e  OBVIOUS
<1>2. (x + 1) * e = x * e + e  OBVIOUS
<1>3. x * e \in Nat /\ c * e \in Nat  OBVIOUS
<1> QED  BY <1>1, <1>2, <1>3

LEMMA PartsOf ==
  ASSUME NEW e \in Nat \ {0}, NEW x \in Nat, NEW y \in 0 .. e - 1
  PROVE  (x * e + y) \div e = x /\ (x * e + y) % e = y
<1>1. x * e + y = e * x + y /\ x * e + y \in Nat  OBVIOUS
<1> QED  BY <1>1, DivModUnique

LEMMA AppendAt ==
  ASSUME NEW w \in Seq(Nat), NEW x \in Nat
  PROVE  /\ Append(w, x) \in Seq(Nat)
         /\ Len(Append(w, x)) = Len(w) + 1
         /\ Append(w, x)[Len(w) + 1] = x
         /\ \A i \in 1 .. Len(w) : Append(w, x)[i] = w[i]
OBVIOUS

\* What Continues and Fetch need to know of a word.
LEMMA WordAt ==
  ASSUME NEW s, s \in [bytes : Seq(Nat), tmp : Nat, k : Nat, left : Int],
         Len(s.bytes) = s.k \div 8
  PROVE  /\ Word(s) \in Seq(Nat) /\ Len(Word(s)) = s.k \div 8 + 1
         /\ Word(s)[s.k \div 8 + 1] = s.tmp
         /\ \A i \in 1 .. s.k \div 8 : Word(s)[i] = s.bytes[i]
<1>1. s.bytes \in Seq(Nat) /\ s.tmp \in Nat  OBVIOUS
<1> QED  BY <1>1, AppendAt DEF Word

LEMMA WordIsFree ==
  ASSUME NEW s, Packed(s) PROVE Word(s) \in Seq(Nat) /\ Free(Word(s), s.k)
<1>1. PICK m \in 0 .. Pow(s.k % 8) - 1 : s.tmp = m * Pow(8 - (s.k % 8))  BY DEF Packed
<1>2. s \in [bytes : Seq(Nat), tmp : Nat, k : Nat, left : Int] /\ Len(s.bytes) = s.k \div 8
  BY DEF Packed
<1>3. m \in Nat  OBVIOUS
<1> QED  BY <1>1, <1>2, <1>3, WordAt DEF Free

\* A turn adds its value, after what was there, where ResidualBits looks for it.
LEMMA Turn ==
  ASSUME NEW b \in 1 .. 7, NEW v \in 0 .. Pow(b) - 1, NEW s, Packed(s),
         NEW s2, s2 = PackNext(b, s, v)
  PROVE  /\ Packed(s2) /\ s2.k = s.k + b
         /\ Continues(Word(s), s.k, Word(s2))
         /\ Fetch(b, Word(s2), s.k) = v
<1> DEFINE q == s.k \div 8
           off == s.k % 8
           left == 8 - off - b
           e == Pow(8 - off)
<1>1. s \in [bytes : Seq(Nat), tmp : Nat, k : Nat, left : Int] /\ Len(s.bytes) = q
  BY DEF Packed
<1>2. s.k \in Nat /\ s.bytes \in Seq(Nat) /\ s.tmp \in Nat  BY <1>1
<1>3. q \in Nat /\ off \in 0 .. 7 /\ s.k = 8 * q + off
  <2>1. \A n \in Nat : n \div 8 \in Nat /\ n % 8 \in 0 .. 7 /\ n = 8 * (n \div 8) + (n % 8)
    OBVIOUS
  <2> QED  BY ONLY <1>2, <2>1 DEF q, off
<1>4. PICK m \in 0 .. Pow(off) - 1 : s.tmp = m * e  BY DEF Packed
<1>5. Word(s) \in Seq(Nat) /\ Len(Word(s)) = q + 1 /\ Word(s)[q + 1] = s.tmp
      /\ \A i \in 1 .. q : Word(s)[i] = s.bytes[i]
  BY <1>1, WordAt
<1>6. e \in Nat \ {0} /\ Pow(off) \in Nat \ {0} /\ Pow(off) * e = 256
  <2>1. 8 - off \in 0 .. 8 /\ off \in 0 .. 8 /\ off + (8 - off) = 8 /\ off + (8 - off) <= 8  BY <1>3
  <2>2. e \in Nat \ {0} /\ Pow(off) \in Nat \ {0}  BY <2>1, PowPos
  <2>3. Pow(off) * Pow(8 - off) = Pow(off + (8 - off))  BY ONLY <2>1, PowSum
  <2>4. Pow(off + (8 - off)) = 256  BY ONLY <2>1, Powers
  <2> QED  BY <2>2, <2>3, <2>4
<1>7. b \in Nat /\ b \in 0 .. 8 /\ left \in Int /\ left = 8 - (s.k % 8) - b  BY <1>3
<1>8. v \in Nat /\ m \in Nat /\ Pow(b) \in Nat \ {0}
  <2>1. Pow(b) \in Nat \ {0}  BY <1>7, PowPos
  <2> QED  BY <2>1, <1>6
<1>9. /\ left > 0 => s2 = [bytes |-> s.bytes, tmp |-> s.tmp + v * Pow(left),
                           k |-> s.k + b, left |-> left]
      /\ left = 0 => s2 = [bytes |-> Append(s.bytes, (s.tmp + (v \div Pow(-left))) % 256),
                           tmp |-> 0, k |-> s.k + b, left |-> left]
      /\ left < 0 => s2 = [bytes |-> Append(s.bytes, (s.tmp + (v \div Pow(-left))) % 256),
                           tmp |-> (v * Pow(8 + left)) % 256, k |-> s.k + b, left |-> left]
  <2> HIDE DEF left
  <2>1. s \in [bytes : Seq(Nat), tmp : Nat, k : Nat, left : Int]  BY <1>1
  <2>2. b \in Nat /\ v \in Nat /\ left \in Int /\ left = 8 - (s.k % 8) - b  BY <1>7, <1>8
  <2>3. CASE left > 0
    <3>1. left # 0 /\ ~ left < 0  BY <2>3, <2>2
    <3> QED  BY ONLY <2>1, <2>2, <2>3, <3>1, s2 = PackNext(b, s, v) DEF PackNext, Pow
  <2>4. CASE left = 0
    <3>1. ~ left > 0 /\ ~ left < 0  BY <2>4
    <3> QED  BY ONLY <2>1, <2>2, <2>4, <3>1, s2 = PackNext(b, s, v) DEF PackNext, Pow
  <2>5. CASE left < 0
    <3>1. ~ left > 0 /\ left # 0  BY <2>5, <2>2
    <3> QED  BY ONLY <2>1, <2>2, <2>5, <3>1, s2 = PackNext(b, s, v) DEF PackNext, Pow
  <2> QED  BY <2>2, <2>3, <2>4, <2>5
<1>10. Fetch(b, Word(s2), s.k) =
         IF b - (8 - off) <= 0 THEN (At(Word(s2), q + 1) % e) \div Pow(-(b - (8 - off)))
         ELSE (At(Word(s2), q + 1) % e) * Pow(b - (8 - off))
                + (At(Word(s2), q + 2) \div Pow(8 - (b - (8 - off))))
  BY DEF Fetch
<1> HIDE DEF q, off, e
<1>11. CASE left > 0
  <2> DEFINE t == s.tmp + v * Pow(left)
  <2>1. left \in 1 .. 7 /\ left \in 0 .. 8 /\ off + b \in 0 .. 7 /\ b + left = 8 - off
        /\ off + b <= 8 /\ b + left <= 8
    BY <1>11, <1>3, <1>7
  <2>2. Pow(left) \in Nat \ {0}  BY ONLY <2>1, PowPos
  <2>3. Pow(b) * Pow(left) = e
    <3>1. Pow(b) * Pow(left) = Pow(b + left)  BY ONLY <2>1, <1>7, PowSum
    <3> QED  BY <3>1, <2>1 DEF e
  <2>4. Pow(off) * Pow(b) = Pow(off + b)
    <3>1. off \in 0 .. 8  BY <1>3
    <3> QED  BY ONLY <3>1, <2>1, <1>7, PowSum
  <2>5. v * Pow(left) \in 0 .. e - 1
    <3>1. 0 \in 0 .. Pow(left) - 1  BY <2>2
    <3>2. v * Pow(left) + 0 \in 0 .. Pow(b) * Pow(left) - 1
      BY ONLY <1>8, <2>2, <3>1, v \in 0 .. Pow(b) - 1, PartBounds
    <3>3. v * Pow(left) + 0 = v * Pow(left)  BY <1>8, <2>2
    <3> QED  BY <3>2, <3>3, <2>3
  <2>6. t = (m * Pow(b) + v) * Pow(left)
    <3>1. m * e = (m * Pow(b)) * Pow(left)  BY <1>8, <2>2, <2>3
    <3>2. (m * Pow(b) + v) * Pow(left) = (m * Pow(b)) * Pow(left) + v * Pow(left)  BY <1>8, <2>2
    <3> QED  BY <3>1, <3>2, <1>4
  <2>7. m * Pow(b) + v \in 0 .. Pow(off + b) - 1
    BY <1>4, <1>6, <1>8, <2>4, PartBounds
  <2>8. t \in Nat  BY <1>2, <2>5
  <2>9. s2 = [bytes |-> s.bytes, tmp |-> t, k |-> s.k + b, left |-> left]  BY <1>9, <1>11
  <2>10. (s.k + b) \div 8 = q /\ (s.k + b) % 8 = off + b  BY <1>3, <1>7, <2>1
  <2>11. /\ s2 \in [bytes : Seq(Nat), tmp : Nat, k : Nat, left : Int]
         /\ s2.k = s.k + b /\ s2.left = left /\ s2.tmp = t /\ s2.bytes = s.bytes
    BY <2>9, <2>8, <1>2, <1>7
  <2>12. Packed(s2)
    <3>1. Len(s2.bytes) = s2.k \div 8  BY <2>10, <2>11, <1>1
    <3>2. 8 - (off + b) = left  BY <1>7, <1>3
    <3>3. s2.tmp = (m * Pow(b) + v) * Pow(8 - (s2.k % 8))  BY <3>2, <2>6, <2>10, <2>11
    <3>4. m * Pow(b) + v \in 0 .. Pow(s2.k % 8) - 1  BY <2>7, <2>10, <2>11
    <3>5. s2.left # 0 /\ s2.k % 8 # 0  BY <2>10, <2>11, <1>11, <1>3, <2>1
    <3> HIDE DEF left, t
    <3> QED  BY <2>11, <3>1, <3>3, <3>4, <3>5 DEF Packed
  <2>13. Word(s2) \in Seq(Nat) /\ Len(Word(s2)) = q + 1 /\ Word(s2)[q + 1] = t
         /\ \A i \in 1 .. q : Word(s2)[i] = s.bytes[i]
    <3>1. /\ Word(s2) \in Seq(Nat) /\ Len(Word(s2)) = s2.k \div 8 + 1
          /\ Word(s2)[s2.k \div 8 + 1] = s2.tmp
          /\ \A i \in 1 .. s2.k \div 8 : Word(s2)[i] = s2.bytes[i]
      BY <2>12, WordAt DEF Packed
    <3>2. s2.k \div 8 = q /\ s2.tmp = t /\ s2.bytes = s.bytes  BY <2>10, <2>11
    <3> QED  BY ONLY <3>1, <3>2, Zenon
  <2>14. Continues(Word(s), s.k, Word(s2))
    <3>1. Word(s2)[q + 1] = Word(s)[q + 1] + v * Pow(left)  BY <2>13, <1>5
    <3> HIDE DEF left, t
    <3> QED  BY <1>5, <2>5, <2>13, <3>1 DEF Continues, q, e, off
  <2>15. At(Word(s2), q + 1) = t
    <3>1. DOMAIN Word(s2) = 1 .. q + 1 /\ q + 1 \in 1 .. q + 1  BY <2>13, <1>3
    <3> QED  BY <3>1, <2>13 DEF At
  <2>16. t % e = v * Pow(left)  BY <2>5, <1>4, <1>6, <1>8, PartsOf
  <2>17. (v * Pow(left)) \div Pow(left) = v
    <3>1. 0 \in 0 .. Pow(left) - 1 /\ v * Pow(left) + 0 = v * Pow(left)  BY <2>2, <1>8
    <3> QED  BY <3>1, <2>2, <1>8, PartsOf
  <2>18. b - (8 - off) <= 0 /\ -(b - (8 - off)) = left  BY <1>11, <1>3, <1>7
  <2>19. Fetch(b, Word(s2), s.k) = v
    <3> HIDE DEF left, t
    <3> QED  BY <1>10, <2>15, <2>16, <2>17, <2>18
  <2> QED  BY <2>11, <2>12, <2>14, <2>19
<1>12. CASE left = 0
  <2> DEFINE t == s.tmp + v
  <2>1. b = 8 - off /\ Pow(b) = e  BY <1>12, <1>3 DEF e
  <2>2. v \in 0 .. e - 1  BY <2>1
  <2>3. t \in 0 .. 255
    <3>1. m * e + v \in 0 .. Pow(off) * e - 1  BY ONLY <1>4, <1>6, <2>2, PartBounds
    <3> QED  BY <3>1, <1>4, <1>6
  <2>4. (s.tmp + (v \div Pow(-left))) % 256 = t
    <3>1. Pow(-left) = 1  BY <1>12, Powers
    <3>2. v \div 1 = v  BY <1>8
    <3> QED  BY <3>1, <3>2, <2>3
  <2>5. s2 = [bytes |-> Append(s.bytes, t), tmp |-> 0, k |-> s.k + b, left |-> left]
    BY <1>9, <1>12, <2>4
  <2>6. (s.k + b) \div 8 = q + 1 /\ (s.k + b) % 8 = 0  BY <1>3, <2>1
  <2>7. Append(s.bytes, t) \in Seq(Nat) /\ Len(Append(s.bytes, t)) = q + 1
        /\ Append(s.bytes, t)[q + 1] = t
        /\ \A i \in 1 .. q : Append(s.bytes, t)[i] = s.bytes[i]
    <3>1. t \in Nat  BY <2>3
    <3> QED  BY <3>1, <1>1, <1>2, AppendAt
  <2>8. /\ s2 \in [bytes : Seq(Nat), tmp : Nat, k : Nat, left : Int]
        /\ s2.k = s.k + b /\ s2.left = left /\ s2.tmp = 0 /\ s2.bytes = Append(s.bytes, t)
    <3>1. Append(s.bytes, t) \in Seq(Nat) /\ 0 \in Nat /\ s.k + b \in Nat /\ left \in Int
      BY <2>7, <1>2, <1>7
    <3> HIDE DEF left, t
    <3> QED  BY ONLY <3>1, <2>5
  <2>9. Packed(s2)
    <3>1. Len(s2.bytes) = s2.k \div 8  BY <2>6, <2>7, <2>8
    <3>2. Pow(0) = 1 /\ Pow(8) = 256  BY Powers
    <3>3. s2.k % 8 = 0 /\ s2.left = 0 /\ 8 - (s2.k % 8) = 8  BY <2>6, <2>8, <1>12
    <3>4. s2.tmp = 0 * Pow(8 - (s2.k % 8)) /\ 0 \in 0 .. Pow(s2.k % 8) - 1
      BY <2>8, <3>2, <3>3
    <3> HIDE DEF left, t
    <3> QED  BY <2>8, <3>1, <3>3, <3>4 DEF Packed
  <2>10. Word(s2) \in Seq(Nat) /\ Len(Word(s2)) = q + 2
         /\ \A i \in 1 .. q + 1 : Word(s2)[i] = Append(s.bytes, t)[i]
    <3>1. (q + 1) + 1 = q + 2  BY <1>3
    <3>2. /\ Word(s2) \in Seq(Nat) /\ Len(Word(s2)) = s2.k \div 8 + 1
          /\ Word(s2)[s2.k \div 8 + 1] = s2.tmp
          /\ \A i \in 1 .. s2.k \div 8 : Word(s2)[i] = s2.bytes[i]
      BY <2>9, WordAt DEF Packed
    <3>3. s2.k \div 8 = q + 1 /\ s2.bytes = Append(s.bytes, t)  BY <2>6, <2>8
    <3> QED  BY ONLY <3>1, <3>2, <3>3, Zenon
  <2>11. Word(s2)[q + 1] = t /\ \A i \in 1 .. q : Word(s2)[i] = s.bytes[i]
    BY <2>7, <2>10, <1>3
  <2>12. Continues(Word(s), s.k, Word(s2))
    <3>1. Word(s2)[q + 1] = Word(s)[q + 1] + v  BY <2>11, <1>5
    <3>2. Len(Word(s2)) >= q + 1  BY <2>10, <1>3
    <3> HIDE DEF t, left
    <3> QED  BY <1>5, <2>2, <2>11, <3>1, <3>2 DEF Continues, q, e, off
  <2>13. At(Word(s2), q + 1) = t
    <3>1. DOMAIN Word(s2) = 1 .. q + 2 /\ q + 1 \in 1 .. q + 2  BY <2>10, <1>3
    <3> QED  BY <3>1, <2>11 DEF At
  <2>14. t % e = v  BY <2>2, <1>4, <1>6, <1>8, PartsOf
  <2>15. b - (8 - off) <= 0 /\ -(b - (8 - off)) = 0 /\ Pow(0) = 1 /\ v \div 1 = v
    <3>0. b - (8 - off) = 0
      <4>1. b = 8 - off /\ 8 - off \in Int  BY <2>1, <1>3
      <4> QED  BY ONLY <4>1
    <3>1. b - (8 - off) <= 0 /\ -(b - (8 - off)) = 0  BY ONLY <3>0
    <3>2. Pow(0) = 1  BY Powers
    <3>3. v \div 1 = v  BY <1>8
    <3> QED  BY <3>1, <3>2, <3>3
  <2>16. Fetch(b, Word(s2), s.k) = v
    <3> HIDE DEF left, t
    <3> QED  BY <1>10, <2>13, <2>14, <2>15
  <2> QED  BY <2>8, <2>9, <2>12, <2>16
<1>13. CASE left < 0
  <2> DEFINE over == -left
             f == Pow(over)
             g == Pow(8 - over)
             hi == v \div f
             lo == v % f
             t == s.tmp + hi
  <2>1. over \in 0 .. 8 /\ over \in 1 .. 7 /\ 8 - over \in 0 .. 8 /\ over + (8 - off) = b
        /\ 8 - off \in 0 .. 8 /\ over + (8 - over) = 8 /\ b <= 8 /\ 8 + left = 8 - over
    BY <1>13, <1>3, <1>7
  <2>2. f \in Nat \ {0} /\ g \in Nat \ {0}  BY ONLY <2>1, PowPos
  <2>3. f * g = 256
    <3>1. Pow(over) * Pow(8 - over) = Pow(over + (8 - over))
      <4>1. over + (8 - over) <= 8  BY <2>1
      <4> HIDE DEF over
      <4> QED  BY ONLY <4>1, <2>1, PowSum
    <3> QED  BY ONLY <3>1, <2>1, Powers
  <2>4. f * e = Pow(b)
    <3>1. over + (8 - off) <= 8  BY <2>1
    <3>2. Pow(over) * Pow(8 - off) = Pow(over + (8 - off))
      <4> HIDE DEF over
      <4> QED  BY ONLY <3>1, <2>1, PowSum
    <3> QED  BY <3>2, <2>1 DEF e
  <2>5. hi \in Nat /\ lo \in 0 .. f - 1 /\ v = f * hi + lo  BY <1>8, <2>2, DivMod
  <2> HIDE DEF hi, lo
  <2>6. hi \in 0 .. e - 1
    <3>1. SUFFICES ASSUME hi >= e PROVE FALSE  BY <2>5, <1>6
    <3>2. f * hi >= f * e  BY <3>1, <2>2, <2>5, <1>6
    <3>3. f * hi \in Nat /\ f * e \in Nat  BY <2>2, <2>5, <1>6
    <3> QED  BY <3>2, <3>3, <2>4, <2>5
  <2>7. t \in 0 .. 255
    <3>1. m * e + hi \in 0 .. Pow(off) * e - 1  BY ONLY <1>4, <1>6, <2>6, PartBounds
    <3> QED  BY <3>1, <1>4, <1>6
  <2>8. (s.tmp + (v \div Pow(-left))) % 256 = t  BY <2>7 DEF hi
  <2>9. (v * Pow(8 + left)) % 256 = lo * g
    <3>1. 0 \in 0 .. g - 1  BY <2>2
    <3>2. (v * g + 0) % (g * f) = (v % f) * g + 0
      <4> HIDE DEF f, g
      <4> QED  BY ONLY <3>1, <2>2, <1>8, ModLow
    <3>3. v * g + 0 = v * g /\ (v % f) * g + 0 = (v % f) * g /\ g * f = 256
      BY <2>2, <2>3, <2>5, <1>8 DEF lo
    <3> QED  BY <3>2, <3>3, <2>1 DEF lo
  <2>10. s2 = [bytes |-> Append(s.bytes, t), tmp |-> lo * g, k |-> s.k + b, left |-> left]
    BY <1>9, <1>13, <2>8, <2>9
  <2>11. (s.k + b) \div 8 = q + 1 /\ (s.k + b) % 8 = over
    <3>1. s.k + b = 8 * (q + 1) + over /\ q + 1 \in Nat /\ over \in 0 .. 8 - 1  BY <1>3, <2>1
    <3>2. s.k + b \in Nat  BY <1>2, <1>7
    <3> HIDE DEF over
    <3> QED  BY <3>1, <3>2, DivModUnique
  <2>12. Append(s.bytes, t) \in Seq(Nat) /\ Len(Append(s.bytes, t)) = q + 1
         /\ Append(s.bytes, t)[q + 1] = t
         /\ \A i \in 1 .. q : Append(s.bytes, t)[i] = s.bytes[i]
    <3>1. t \in Nat  BY <2>7
    <3> QED  BY <3>1, <1>1, <1>2, AppendAt
  <2>13. /\ s2 \in [bytes : Seq(Nat), tmp : Nat, k : Nat, left : Int]
         /\ s2.k = s.k + b /\ s2.left = left /\ s2.tmp = lo * g /\ s2.bytes = Append(s.bytes, t)
    <3>1. lo * g \in Nat  BY <2>2, <2>5
    <3>2. s.k + b \in Nat  BY <1>2, <1>7
    <3> HIDE DEF t, left, f, g
    <3> QED  BY <3>1, <3>2, <2>10, <2>12, <1>7
  <2>14. Packed(s2)
    <3>1. Len(s2.bytes) = s2.k \div 8  BY <2>11, <2>12, <2>13
    <3>2. s2.tmp = lo * Pow(8 - (s2.k % 8)) /\ lo \in 0 .. Pow(s2.k % 8) - 1
      BY <2>5, <2>11, <2>13
    <3>3. s2.left # 0 /\ s2.k % 8 # 0  BY <2>11, <2>13, <1>13, <2>1
    <3> HIDE DEF left, t, f, g
    <3> QED  BY <2>13, <3>1, <3>2, <3>3 DEF Packed
  <2>15. Word(s2) \in Seq(Nat) /\ Len(Word(s2)) = q + 2 /\ Word(s2)[q + 2] = lo * g
         /\ \A i \in 1 .. q + 1 : Word(s2)[i] = Append(s.bytes, t)[i]
    <3>1. (q + 1) + 1 = q + 2  BY <1>3
    <3>2. /\ Word(s2) \in Seq(Nat) /\ Len(Word(s2)) = s2.k \div 8 + 1
          /\ Word(s2)[s2.k \div 8 + 1] = s2.tmp
          /\ \A i \in 1 .. s2.k \div 8 : Word(s2)[i] = s2.bytes[i]
      BY <2>14, WordAt DEF Packed
    <3>3. s2.k \div 8 = q + 1 /\ s2.tmp = lo * g /\ s2.bytes = Append(s.bytes, t)  BY <2>11, <2>13
    <3> QED  BY ONLY <3>1, <3>2, <3>3, Zenon
  <2>16. Word(s2)[q + 1] = t /\ \A i \in 1 .. q : Word(s2)[i] = s.bytes[i]
    BY <2>12, <2>15, <1>3
  <2>17. Continues(Word(s), s.k, Word(s2))
    <3>1. Word(s2)[q + 1] = Word(s)[q + 1] + hi  BY <2>16, <1>5
    <3>2. Len(Word(s2)) >= q + 1  BY <2>15, <1>3
    <3> HIDE DEF t, left
    <3> QED  BY <1>5, <2>6, <2>16, <3>1, <3>2 DEF Continues, q, e, off
  <2>18. At(Word(s2), q + 1) = t /\ At(Word(s2), q + 2) = lo * g
    <3>1. DOMAIN Word(s2) = 1 .. q + 2 /\ q + 1 \in 1 .. q + 2 /\ q + 2 \in 1 .. q + 2
      BY <2>15, <1>3
    <3> QED  BY <3>1, <2>15, <2>16 DEF At
  <2>19. t % e = hi
    <3>1. (m * e + hi) % e = hi  
      <4> HIDE DEF t, left
      <4>1. e \in Nat \ {0} /\ m \in Nat /\ hi \in 0 .. e - 1  BY <2>6, <1>6, <1>8
      <4> QED  BY ONLY <4>1, PartsOf
    <3> QED  BY <3>1, <1>4
  <2>20. (lo * g) \div g = lo
    <3>1. 0 \in 0 .. g - 1 /\ lo * g + 0 = lo * g /\ lo \in Nat  BY <2>2, <2>5
    <3> HIDE DEF g, f
    <3> QED  BY <3>1, <2>2, PartsOf
  <2>21. ~ b - (8 - off) <= 0 /\ b - (8 - off) = over  BY <2>1, <1>3, <1>7
  <2>22. Fetch(b, Word(s2), s.k) = hi * f + lo
    <3> HIDE DEF left, t, over
    <3> QED  BY <1>10, <2>18, <2>19, <2>20, <2>21
  <2>23. hi * f + lo = v  BY <2>2, <2>5
  <2> QED  BY <2>13, <2>14, <2>17, <2>22, <2>23
<1> QED  BY <1>11, <1>12, <1>13, <1>7

-----------------------------------------------------------------------------
(* Exact values: the packed array                                          *)

\* The bits before n do not need the bytes from there on.
LEMMA FetchPrefix ==
  ASSUME NEW b \in 1 .. 7, NEW w \in Seq(Nat), NEW w2 \in Seq(Nat), NEW q \in Nat,
         Len(w) = q, Len(w2) >= q, \A i \in 1 .. q : w2[i] = w[i],
         NEW l \in Nat, l + b <= 8 * q
  PROVE  Fetch(b, w2, l) = Fetch(b, w, l)
<1> DEFINE c == l \div 8
           off == l % 8
<1>1. c \in Nat /\ off \in 0 .. 7 /\ l = 8 * c + off
  <2>1. \A n \in Nat : n \div 8 \in Nat /\ n % 8 \in 0 .. 7 /\ n = 8 * (n \div 8) + (n % 8)
    OBVIOUS
  <2> QED  BY ONLY <2>1, l \in Nat DEF c, off
<1>2. ASSUME NEW i \in 1 .. q PROVE At(w2, i) = At(w, i)
  <2>1. DOMAIN w = 1 .. q /\ DOMAIN w2 = 1 .. Len(w2) /\ Len(w2) \in Nat  OBVIOUS
  <2>2. i \in 1 .. Len(w2)  BY <2>1
  <2> QED  BY <2>1, <2>2 DEF At
<1>3. /\ Fetch(b, w, l) =
           IF b - (8 - off) <= 0 THEN (At(w, c + 1) % Pow(8 - off)) \div Pow(-(b - (8 - off)))
           ELSE (At(w, c + 1) % Pow(8 - off)) * Pow(b - (8 - off))
                  + (At(w, c + 2) \div Pow(8 - (b - (8 - off))))
      /\ Fetch(b, w2, l) =
           IF b - (8 - off) <= 0 THEN (At(w2, c + 1) % Pow(8 - off)) \div Pow(-(b - (8 - off)))
           ELSE (At(w2, c + 1) % Pow(8 - off)) * Pow(b - (8 - off))
                  + (At(w2, c + 2) \div Pow(8 - (b - (8 - off))))
  BY DEF Fetch
<1> HIDE DEF c, off
<1>4. At(w2, c + 1) = At(w, c + 1)
  <2>1. c + 1 \in 1 .. q  BY <1>1
  <2> QED  BY <2>1, <1>2
<1>5. CASE b - (8 - off) <= 0  BY <1>3, <1>4, <1>5
<1>6. CASE ~ b - (8 - off) <= 0
  <2>1. c + 2 \in 1 .. q  BY <1>1, <1>6
  <2>2. At(w2, c + 2) = At(w, c + 2)  BY <2>1, <1>2
  <2> QED  BY <1>3, <1>4, <1>6, <2>2
<1> QED  BY <1>5, <1>6

LEMMA ContinuesIsLonger ==
  ASSUME NEW b \in 1 .. 7, NEW s, NEW s2, Packed(s), Packed(s2),
         Continues(Word(s), s.k, Word(s2)), NEW l \in Nat, l + b <= s.k
  PROVE  Fetch(b, Word(s2), l) = Fetch(b, Word(s), l)
<1>1. Word(s) \in Seq(Nat) /\ Free(Word(s), s.k) /\ Word(s2) \in Seq(Nat)  BY WordIsFree
<1>2. s.k \in Nat  BY DEF Packed
<1> QED  BY <1>1, <1>2, FetchKept

\* After j turns the first j values are read back.
ReadsBack(b, resi, P) ==
  \A j \in 0 .. Len(resi) :
    /\ Packed(P[j])
    /\ \A l \in 1 .. j : /\ P[l - 1].k \in Nat /\ P[l].k = P[l - 1].k + b
                         /\ P[l - 1].k + b <= P[j].k
                         /\ Fetch(b, Word(P[j]), P[l - 1].k) = resi[l]

LEMMA AllPacked ==
  ASSUME NEW b \in 1 .. 7, NEW resi \in Seq(Nat),
         \A i \in 1 .. Len(resi) : resi[i] \in 0 .. Pow(b) - 1,
         NEW P, P = Packing(b, resi)
  PROVE  ReadsBack(b, resi, P)
<1> DEFINE Read(j, l) == /\ P[l - 1].k \in Nat /\ P[l].k = P[l - 1].k + b
                         /\ P[l - 1].k + b <= P[j].k
                         /\ Fetch(b, Word(P[j]), P[l - 1].k) = resi[l]
           Good(j) == Packed(P[j]) /\ \A l \in 1 .. j : Read(j, l)
           S == {j \in Nat : j <= Len(resi) => Good(j)}
<1>1. Len(resi) \in Nat  OBVIOUS
<1>2. /\ P[0] = [bytes |-> << >>, tmp |-> 0, k |-> 0, left |-> 0]
      /\ \A i \in 1 .. Len(resi) : P[i] = PackNext(b, P[i - 1], resi[i])
  <2>1. resi \in Seq(Int)  OBVIOUS
  <2> QED  BY <2>1, PackingIs
<1>3. 0 \in S
  <2>1. Packed(P[0])
    <3> DEFINE z == [bytes |-> << >>, tmp |-> 0, k |-> 0, left |-> 0]
    <3>1. z \in [bytes : Seq(Nat), tmp : Nat, k : Nat, left : Int]  OBVIOUS
    <3>2. z.k = 0 /\ z.tmp = 0 /\ z.left = 0 /\ Len(z.bytes) = 0  OBVIOUS
    <3> HIDE DEF z
    <3>3. z.k \div 8 = 0 /\ z.k % 8 = 0  BY <3>2
    <3>4. z.tmp = 0 * Pow(8 - (z.k % 8)) /\ 0 \in 0 .. Pow(z.k % 8) - 1  BY <3>2, <3>3, Powers
    <3>5. Packed(z)  BY <3>1, <3>2, <3>3, <3>4 DEF Packed
    <3> QED  BY <3>5, <1>2 DEF z
  <2>2. \A l \in 1 .. 0 : Read(0, l)  OBVIOUS
  <2> QED  BY <2>1, <2>2
<1>4. ASSUME NEW j \in S PROVE j + 1 \in S
  <2> SUFFICES ASSUME j + 1 <= Len(resi) PROVE Good(j + 1)  BY <1>4
  <2>1. j \in Nat /\ j + 1 \in 1 .. Len(resi) /\ (j + 1) - 1 = j /\ j <= Len(resi)  BY <1>1
  <2>2. Packed(P[j]) /\ \A l \in 1 .. j : Read(j, l)  BY <2>1
  <2>3. resi[j + 1] \in 0 .. Pow(b) - 1 /\ P[j + 1] = PackNext(b, P[j], resi[j + 1])
    BY <2>1, <1>2
  <2>4. /\ Packed(P[j + 1]) /\ P[j + 1].k = P[j].k + b
        /\ Continues(Word(P[j]), P[j].k, Word(P[j + 1]))
        /\ Fetch(b, Word(P[j + 1]), P[j].k) = resi[j + 1]
    BY <2>2, <2>3, Turn
  <2>5. P[j].k \in Nat  BY <2>2 DEF Packed
  <2>6. ASSUME NEW x \in Nat, x + b <= P[j].k
        PROVE  Fetch(b, Word(P[j + 1]), x) = Fetch(b, Word(P[j]), x)
    BY ONLY b \in 1 .. 7, <2>2, <2>4, <2>6, ContinuesIsLonger
  <2>7. ASSUME NEW l \in 1 .. j + 1 PROVE Read(j + 1, l)
    <3>1. CASE l = j + 1
      <4>1. l - 1 = j /\ l = j + 1  BY <3>1, <2>1
      <4> QED  BY <4>1, <2>4, <2>5
    <3>2. CASE l # j + 1
      <4>1. l \in 1 .. j  BY <3>2, <2>1
      <4>2. Read(j, l)  BY <4>1, <2>2
      <4>5. P[l - 1].k \in Nat /\ P[l - 1].k + b <= P[j].k  BY <4>2
      <4>3. Fetch(b, Word(P[j + 1]), P[l - 1].k) = Fetch(b, Word(P[j]), P[l - 1].k)
        BY ONLY <2>6, <4>5, Zenon
      <4>4. P[l - 1].k + b <= P[j + 1].k
        <5>1. P[j + 1].k = P[j].k + b  BY ONLY <2>4, Zenon
        <5>2. \A x \in Nat, y \in Nat : x + b <= y => x + b <= y + b  BY ONLY b \in 1 .. 7
        <5>3. P[l - 1].k + b <= P[j].k + b  BY ONLY <5>2, <4>5, <2>5, Zenon
        <5> QED  BY ONLY <5>1, <5>3, Zenon
      <4> QED  BY <4>2, <4>3, <4>4
    <3> QED  BY <3>1, <3>2
  <2> HIDE DEF Read
  <2> QED  BY <2>4, <2>7
<1>5. S = Nat
  <2> HIDE DEF Good
  <2>1. S \in SUBSET Nat  OBVIOUS
  <2> HIDE DEF S
  <2> QED  BY <2>1, <1>3, <1>4, EveryNat
<1>6. ASSUME NEW j \in 0 .. Len(resi) PROVE Good(j)
  <2>1. j \in Nat /\ j <= Len(resi)  BY <1>1
  <2>2. j \in S  BY <2>1, <1>5
  <2> HIDE DEF Good
  <2> QED  BY <2>1, <2>2
<1> QED  BY <1>6 DEF ReadsBack

\* The array has no byte more than it needs, and gives back each value.
LEMMA ResidualIs ==
  ASSUME NEW b \in 1 .. 7, NEW resi \in Seq(Nat),
         \A i \in 1 .. Len(resi) : resi[i] \in 0 .. Pow(b) - 1,
         NEW P, P = Packing(b, resi)
  PROVE  /\ Len(PackResidual(b, resi)) = (P[Len(resi)].k + 7) \div 8
         /\ \A l \in 1 .. Len(resi) : Fetch(b, PackResidual(b, resi), P[l - 1].k) = resi[l]
<1> DEFINE n == Len(resi)
           end == P[n]
           w == PackResidual(b, resi)
<1> SUFFICES /\ w \in Seq(Nat) /\ Len(w) = (end.k + 7) \div 8
             /\ \A l \in 1 .. n : Fetch(b, w, P[l - 1].k) = resi[l]
  OBVIOUS
<1>1. n \in Nat /\ n \in 0 .. n  OBVIOUS
<1>2. /\ Packed(end)
      /\ \A l \in 1 .. n : /\ P[l - 1].k \in Nat /\ P[l - 1].k + b <= end.k
                           /\ Fetch(b, Word(end), P[l - 1].k) = resi[l]
  <2>1. ReadsBack(b, resi, P)  BY AllPacked
  <2> QED  BY ONLY <1>1, <2>1, Zenon DEF ReadsBack
<1>3. w = IF end.left # 0 THEN Word(end) ELSE end.bytes  BY DEF PackResidual, Word
<1> HIDE DEF end, n, w
<1>4. /\ end.k \in Nat /\ end.bytes \in Seq(Nat) /\ Len(end.bytes) = end.k \div 8
      /\ end.left = 0 <=> end.k % 8 = 0
      /\ end \in [bytes : Seq(Nat), tmp : Nat, k : Nat, left : Int]
  BY <1>2 DEF Packed
<1>5. /\ Word(end) \in Seq(Nat) /\ Len(Word(end)) = end.k \div 8 + 1
      /\ \A i \in 1 .. end.k \div 8 : Word(end)[i] = end.bytes[i]
  BY <1>4, WordAt
<1>6. CASE end.left # 0
  <2>1. (end.k + 7) \div 8 = end.k \div 8 + 1  BY <1>4, <1>6
  <2> QED  BY <1>2, <1>3, <1>4, <1>5, <1>6, <2>1
<1>7. CASE end.left = 0
  <2>1. (end.k + 7) \div 8 = end.k \div 8 /\ end.k = 8 * (end.k \div 8) /\ end.k \div 8 \in Nat
    <3>1. \A x \in Nat : x % 8 = 0 =>
            (x + 7) \div 8 = x \div 8 /\ x = 8 * (x \div 8) /\ x \div 8 \in Nat
      OBVIOUS
    <3> QED  BY ONLY <3>1, <1>4, <1>7
  <2> DEFINE q == end.k \div 8
  <2>2. w = end.bytes /\ Len(w) = q /\ w \in Seq(Nat) /\ Len(Word(end)) >= q  
    BY <1>3, <1>4, <1>5, <1>7, <2>1
  <2>3. ASSUME NEW l \in 1 .. n PROVE Fetch(b, w, P[l - 1].k) = resi[l]
    <3>1. P[l - 1].k \in Nat /\ P[l - 1].k + b <= 8 * q  BY <1>2, <2>1
    <3>2. \A i \in 1 .. q : Word(end)[i] = w[i]  BY <1>5, <2>2
    <3>3. q \in Nat  BY <2>1
    <3> HIDE DEF q
    <3>4. Fetch(b, Word(end), P[l - 1].k) = Fetch(b, w, P[l - 1].k)
      <4>1. \A x \in Nat : x + b <= 8 * q => Fetch(b, Word(end), x) = Fetch(b, w, x)
        BY ONLY b \in 1 .. 7, <3>2, <3>3, <2>2, <1>5, FetchPrefix
      <4> QED  BY ONLY <4>1, <3>1, Zenon
    <3> QED  BY <3>4, <1>2
  <2> QED  BY <1>4, <2>1, <2>2, <2>3
<1> QED  BY <1>6, <1>7

-----------------------------------------------------------------------------
(* Exact values: the leading-byte numbers                                  *)

\* Number j of byte i, or the 0 that fills it up.
LeadAt(lead, i) == IF i <= Len(lead) THEN lead[i] ELSE 0

LEMMA PackLeadIs ==
  ASSUME NEW lead \in Seq(0 .. 3), NEW q \in Nat, 4 * q < Len(lead)
  PROVE  /\ LeadAt(lead, 4 * q + 1) \in 0 .. 3 /\ LeadAt(lead, 4 * q + 2) \in 0 .. 3
         /\ LeadAt(lead, 4 * q + 3) \in 0 .. 3 /\ LeadAt(lead, 4 * q + 4) \in 0 .. 3
         /\ At(PackLead(lead), q + 1) =
              LeadAt(lead, 4 * q + 1) * 64 + LeadAt(lead, 4 * q + 2) * 16
                + LeadAt(lead, 4 * q + 3) * 4 + LeadAt(lead, 4 * q + 4)
<1> DEFINE n == Len(lead)
           a(j) == LeadAt(lead, 4 * q + j)
           sum == a(1) * 64 + a(2) * 16 + a(3) * 4 + a(4)
<1>1. n \in Nat /\ \A i \in 1 .. n : lead[i] \in 0 .. 3  OBVIOUS
<1>2. ASSUME NEW j \in 1 .. 4 PROVE a(j) \in 0 .. 3
  <2>1. CASE 4 * q + j <= n
    <3>1. 4 * q + j \in 1 .. n  BY <2>1, <1>1
    <3> QED  BY <3>1, <2>1, <1>1 DEF LeadAt
  <2>2. CASE ~ 4 * q + j <= n  BY <2>2 DEF LeadAt
  <2> QED  BY <2>1, <2>2
<1>3. a(1) \in 0 .. 3 /\ a(2) \in 0 .. 3 /\ a(3) \in 0 .. 3 /\ a(4) \in 0 .. 3
  <2>1. 1 \in 1 .. 4 /\ 2 \in 1 .. 4 /\ 3 \in 1 .. 4 /\ 4 \in 1 .. 4  OBVIOUS
  <2> HIDE DEF a
  <2> QED  BY <2>1, <1>2
<1>4. q + 1 \in 1 .. (n + 3) \div 4
  <2>1. \A m \in Nat : 4 * q < m => q + 1 <= (m + 3) \div 4 /\ (m + 3) \div 4 \in Int  OBVIOUS
  <2> QED  BY <2>1, <1>1
<1>5. 4 * ((q + 1) - 1) = 4 * q  OBVIOUS
<1>6. PackLead(lead)[q + 1] = sum % 256
  <2>1. PackLead(lead) = [i \in 1 .. (n + 3) \div 4 |->
          (LeadAt(lead, 4 * (i - 1) + 1) * 64 + LeadAt(lead, 4 * (i - 1) + 2) * 16
             + LeadAt(lead, 4 * (i - 1) + 3) * 4 + LeadAt(lead, 4 * (i - 1) + 4)) % 256]
    BY DEF PackLead, LeadAt
  <2> HIDE DEF n
  <2>2. PackLead(lead)[q + 1] =
          (LeadAt(lead, 4 * ((q + 1) - 1) + 1) * 64 + LeadAt(lead, 4 * ((q + 1) - 1) + 2) * 16
             + LeadAt(lead, 4 * ((q + 1) - 1) + 3) * 4 + LeadAt(lead, 4 * ((q + 1) - 1) + 4)) % 256
    BY ONLY <2>1, <1>4, Zenon
  <2> QED  BY ONLY <2>2, <1>5, Zenon DEF sum, a
<1>7. DOMAIN PackLead(lead) = 1 .. (n + 3) \div 4  BY DEF PackLead
<1>8. sum \in 0 .. 255 /\ sum % 256 = sum
  <2> HIDE DEF a
  <2>2. \A x, y, z, u \in 0 .. 3 : x * 64 + y * 16 + z * 4 + u \in 0 .. 255  OBVIOUS
  <2>1. sum \in 0 .. 255  BY ONLY <1>3, <2>2, Zenon DEF sum
  <2> HIDE DEF sum
  <2> QED  BY <2>1
<1>9. At(PackLead(lead), q + 1) = sum
  <2> HIDE DEF sum, n
  <2> QED  BY <1>4, <1>6, <1>7, <1>8 DEF At
<1> QED  BY <1>3, <1>9

LEMMA LeadComesBack ==
  ASSUME NEW lead \in Seq(0 .. 3), NEW l \in 0 .. Len(lead) - 1
  PROVE  (At(PackLead(lead), l \div 4 + 1) \div 4 ^ (3 - (l % 4))) % 4 = lead[l + 1]
<1> DEFINE q == l \div 4
           r == l % 4
           s == At(PackLead(lead), q + 1)
           a(j) == LeadAt(lead, 4 * q + j)
<1>1. q \in Nat /\ r \in 0 .. 3 /\ l = 4 * q + r  OBVIOUS
<1>2. Len(lead) \in Nat /\ l < Len(lead) /\ l \in Nat  OBVIOUS
<1> HIDE DEF q, r
<1>3. /\ a(1) \in 0 .. 3 /\ a(2) \in 0 .. 3 /\ a(3) \in 0 .. 3 /\ a(4) \in 0 .. 3
      /\ s = a(1) * 64 + a(2) * 16 + a(3) * 4 + a(4)
  BY <1>1, <1>2, PackLeadIs
<1> HIDE DEF s
<1>4. /\ (s \div 64) % 4 = a(1) /\ (s \div 16) % 4 = a(2)
      /\ (s \div 4) % 4 = a(3) /\ (s \div 1) % 4 = a(4)
  <2> HIDE DEF a
  <2>1. PICK x \in 0 .. 3 : x = a(1)  BY <1>3
  <2>2. PICK y \in 0 .. 3 : y = a(2)  BY <1>3
  <2>3. PICK z \in 0 .. 3 : z = a(3)  BY <1>3
  <2>4. PICK u \in 0 .. 3 : u = a(4)  BY <1>3
  <2>5. s = x * 64 + y * 16 + z * 4 + u  BY <2>1, <2>2, <2>3, <2>4, <1>3
  <2>6. (s \div 64) % 4 = x  BY ONLY x \in 0 .. 3, y \in 0 .. 3, z \in 0 .. 3, u \in 0 .. 3, <2>5
  <2>7. (s \div 16) % 4 = y  BY ONLY x \in 0 .. 3, y \in 0 .. 3, z \in 0 .. 3, u \in 0 .. 3, <2>5
  <2>8. (s \div 4) % 4 = z  BY ONLY x \in 0 .. 3, y \in 0 .. 3, z \in 0 .. 3, u \in 0 .. 3, <2>5
  <2>9. (s \div 1) % 4 = u  BY ONLY x \in 0 .. 3, y \in 0 .. 3, z \in 0 .. 3, u \in 0 .. 3, <2>5
  <2> QED  BY ONLY <2>1, <2>2, <2>3, <2>4, <2>6, <2>7, <2>8, <2>9, Zenon
<1>5. lead[l + 1] = a(r + 1)
  <2>1. 4 * q + (r + 1) = l + 1 /\ l + 1 <= Len(lead)  BY <1>1, <1>2
  <2> QED  BY <2>1 DEF LeadAt
<1> HIDE DEF a
<1>6. 4 ^ 3 = 64 /\ 4 ^ 2 = 16 /\ 4 ^ 1 = 4 /\ 4 ^ 0 = 1  OBVIOUS
<1>7. (s \div 4 ^ (3 - r)) % 4 = a(r + 1)
  <2>1. r = 0 \/ r = 1 \/ r = 2 \/ r = 3  BY <1>1
  <2>2. CASE r = 0
    <3>1. 3 - r = 3 /\ r + 1 = 1  BY <2>2
    <3> QED  BY <3>1, <1>4, <1>6
  <2>3. CASE r = 1
    <3>1. 3 - r = 2 /\ r + 1 = 2  BY <2>3
    <3> QED  BY <3>1, <1>4, <1>6
  <2>4. CASE r = 2
    <3>1. 3 - r = 1 /\ r + 1 = 3  BY <2>4
    <3> QED  BY <3>1, <1>4, <1>6
  <2>5. CASE r = 3
    <3>1. 3 - r = 0 /\ r + 1 = 4  BY <2>5
    <3> QED  BY <3>1, <1>4, <1>6
  <2> QED  BY <2>1, <2>2, <2>3, <2>4, <2>5
<1> QED  BY <1>5, <1>7 DEF s, q, r

-----------------------------------------------------------------------------
(* Exact values: what is kept of a value                                   *)

SettingOK == bytes \in {4, 8} /\ radExpo \in Int /\ reqExpo \in Int

LEMMA LengthIs ==
  ASSUME SettingOK
  PROVE  /\ reqLength \in Nat /\ reqBytesLength \in 1 .. bytes /\ resiBitsLength \in 0 .. 7
         /\ reqLength = 8 * reqBytesLength + resiBitsLength
         /\ resiBitsLength # 0 => reqBytesLength + 1 <= bytes
<1>1. bytes \in Nat /\ reqLength \in Nat /\ 9 <= reqLength /\ reqLength <= 8 * bytes
  BY DEF SettingOK, reqLength, Least, Greatest, SignBits, Extra
<1>2. \A n \in Nat : n \div 8 \in Nat /\ n % 8 \in 0 .. 7 /\ n = 8 * (n \div 8) + (n % 8)
  OBVIOUS
<1>3. /\ reqBytesLength \in Nat /\ resiBitsLength \in 0 .. 7
      /\ reqLength = 8 * reqBytesLength + resiBitsLength
  BY <1>1, <1>2 DEF reqBytesLength, resiBitsLength
<1> QED  BY <1>1, <1>3

\* Byte i of a value, where less of it is kept.
Cut(i, x) ==
  LET kept == Greatest(0, Least(8, reqLength - 8 * (i - 1)))
  IN (x \div Pow(8 - kept)) * Pow(8 - kept)

LEMMA CutIs ==
  ASSUME SettingOK, NEW i \in 1 .. bytes, NEW x \in 0 .. 255
  PROVE  /\ i <= reqBytesLength => Cut(i, x) = x
         /\ i = reqBytesLength + 1 =>
              Cut(i, x) = (x \div Pow(8 - resiBitsLength)) * Pow(8 - resiBitsLength)
         /\ i > reqBytesLength /\ (i = reqBytesLength + 1 => resiBitsLength = 0) =>
              Cut(i, x) = 0
         /\ Cut(i, x) \in 0 .. 255
<1> DEFINE B == reqBytesLength
           r == resiBitsLength
<1>1. reqLength \in Nat /\ B \in Nat /\ r \in 0 .. 7 /\ reqLength = 8 * B + r /\ bytes \in Nat
  BY LengthIs DEF SettingOK
<1> HIDE DEF B, r
<1>2. i \in Nat /\ x \in Nat  BY <1>1
<1>3. CASE i <= B
  <2>1. Greatest(0, Least(8, reqLength - 8 * (i - 1))) = 8  BY <1>1, <1>2, <1>3 DEF Greatest, Least
  <2>2. Cut(i, x) = (x \div Pow(8 - 8)) * Pow(8 - 8)  BY <2>1 DEF Cut
  <2>3. Pow(8 - 8) = 1  BY Powers
  <2>4. (x \div 1) * 1 = x  BY <1>2
  <2>5. Cut(i, x) = x  BY ONLY <2>2, <2>3, <2>4
  <2>6. i # B + 1 /\ ~ i > B  BY <1>1, <1>2, <1>3
  <2> QED  BY <2>5, <2>6 DEF B, r
<1>4. CASE i = B + 1
  <2>1. Greatest(0, Least(8, reqLength - 8 * (i - 1))) = r  BY <1>1, <1>2, <1>4 DEF Greatest, Least
  <2>2. Cut(i, x) = (x \div Pow(8 - r)) * Pow(8 - r)  BY <2>1 DEF Cut
  <2> DEFINE d == Pow(8 - r)
  <2>3. d \in Nat \ {0}
    <3>1. 8 - r \in 0 .. 8  BY <1>1
    <3> QED  BY <3>1, PowPos
  <2>4. x \div d \in Nat /\ x % d \in 0 .. d - 1 /\ x = d * (x \div d) + (x % d)
    <3> HIDE DEF d
    <3> QED  BY <1>2, <2>3, DivMod
  <2>5. (x \div d) * d \in 0 .. 255
    <3> DEFINE y == x \div d
               z == x % d
    <3>1. y \in Nat /\ z \in Nat /\ x = d * y + z  BY <2>3, <2>4
    <3> HIDE DEF y, z, d
    <3>2. y * d = d * y /\ y * d \in Nat  BY <3>1, <2>3
    <3> QED  BY <3>1, <3>2 DEF y
  <2>6. r = 0 => Cut(i, x) = 0
    <3>1. r = 0 => d = 256 /\ x \div 256 = 0  BY Powers
    <3>2. 0 * 256 = 0  OBVIOUS
    <3> QED  BY ONLY <3>1, <3>2, <2>2 DEF d
  <2>7. ~ i <= B  BY <1>1, <1>2, <1>4
  <2> QED  BY <1>4, <2>2, <2>5, <2>6, <2>7 DEF B, r
<1>5. CASE i > B + 1
  <2>1. Greatest(0, Least(8, reqLength - 8 * (i - 1))) = 0  BY <1>1, <1>2, <1>5 DEF Greatest, Least
  <2>2. Cut(i, x) = (x \div Pow(8 - 0)) * Pow(8 - 0)  BY <2>1 DEF Cut
  <2>3. Pow(8 - 0) = 256 /\ x \div 256 = 0 /\ 0 * 256 = 0  BY Powers
  <2>4. Cut(i, x) = 0  BY ONLY <2>2, <2>3
  <2>5. ~ i <= B /\ i # B + 1  BY <1>1, <1>2, <1>5
  <2> QED  BY <2>4, <2>5 DEF B, r
<1> QED  BY <1>1, <1>2, <1>3, <1>4, <1>5

LEMMA TruncatedIs ==
  ASSUME SettingOK, NEW w \in [1 .. bytes -> 0 .. 255]
  PROVE  /\ Truncated(w) \in [1 .. bytes -> 0 .. 255]
         /\ \A i \in 1 .. bytes : Truncated(w)[i] = Cut(i, w[i])
<1>1. Truncated(w) = [i \in 1 .. bytes |-> Cut(i, w[i])]  BY DEF Truncated, Cut, Pow
<1>2. \A i \in 1 .. bytes : Cut(i, w[i]) \in 0 .. 255  BY CutIs
<1> QED  BY <1>1, <1>2

LEMMA ZeroIs ==
  ASSUME SettingOK
  PROVE  Zero \in [1 .. bytes -> 0 .. 255] /\ Truncated(Zero) = Zero
<1>1. Zero \in [1 .. bytes -> 0 .. 255] /\ \A i \in 1 .. bytes : Zero[i] = 0  BY DEF Zero
<1>2. ASSUME NEW i \in 1 .. bytes PROVE Truncated(Zero)[i] = 0
  <2>1. Truncated(Zero)[i] = Cut(i, 0)  BY <1>1, TruncatedIs
  <2> DEFINE kept == Greatest(0, Least(8, reqLength - 8 * (i - 1)))
  <2>2. kept \in 0 .. 8
    <3>1. i \in Int /\ reqLength \in Nat  BY LengthIs DEF SettingOK
    <3> QED  BY <3>1 DEF Greatest, Least
  <2>3. 8 - kept \in 0 .. 8  BY <2>2
  <2>4. Cut(i, 0) = (0 \div Pow(8 - kept)) * Pow(8 - kept)  BY DEF Cut
  <2> HIDE DEF kept
  <2>5. Pow(8 - kept) \in Nat \ {0}  BY <2>3, PowPos
  <2>6. \A d \in Nat \ {0} : (0 \div d) * d = 0  OBVIOUS
  <2> QED  BY <2>1, <2>4, <2>5, <2>6
<1> QED  BY <1>1, <1>2, TruncatedIs DEF Zero

-----------------------------------------------------------------------------
(* Exact values: the invariant                                             *)

Word8 == [1 .. bytes -> 0 .. 255]

\* The value the encoder compares the value i with.
Prev(i) == IF i = 1 THEN Zero ELSE given[i - 1]

\* What the arrays hold for the value i, where start counts the bytes in the
\* second one.
Entry(i, start) ==
  /\ start[i] = start[i - 1] + Greatest(0, reqBytesLength - leadNum[i])
  /\ start[i] <= Len(exactMidBytes)
  /\ \A j \in 1 .. leadNum[i] : Prev(i)[j] = given[i][j]
  /\ \A j \in leadNum[i] + 1 .. reqBytesLength :
       exactMidBytes[start[i - 1] + j - leadNum[i]] = given[i][j]

Encoded(start) ==
  /\ given \in Seq(Word8)
  /\ preDataBytes = Prev(Len(given) + 1)
  /\ leadNum \in Seq(0 .. 3) /\ Len(leadNum) = Len(given)
  /\ exactMidBytes \in Seq(0 .. 255)
  /\ start \in [0 .. Len(given) -> Nat] /\ start[0] = 0
  /\ start[Len(given)] = Len(exactMidBytes)
  /\ \A i \in 1 .. Len(given) : Entry(i, start)

ResidualsKept ==
  /\ resiBits \in Seq(Nat)
  /\ Len(resiBits) = IF resiBitsLength = 0 THEN 0 ELSE Len(given)
  /\ \A i \in 1 .. Len(resiBits) :
       resiBits[i] = given[i][reqBytesLength + 1] \div Pow(8 - resiBitsLength)

Before ==
  packed = << >> /\ out = << >> /\ k = 0 /\ p = 0 /\ curByteIndex = 0 /\ preBytes = Zero

\* The bits read, once l values have been.
BitsRead(l) == IF resiBitsLength = 0 THEN 0 ELSE Packing(resiBitsLength, resiBits)[l].k

Decoded(start) ==
  /\ packed = [leadNumArray |-> PackLead(leadNum),
               residualMidBits |-> PackResidual(resiBitsLength, resiBits)]
  /\ out \in Seq(Word8) /\ Len(out) <= Len(given)
  /\ \A i \in 1 .. Len(out) : out[i] = Truncated(given[i])
  /\ preBytes = Truncated(Prev(Len(out) + 1))
  /\ k = BitsRead(Len(out)) /\ p = k \div 8
  /\ curByteIndex = start[Len(out)]

ExactInv ==
  /\ SettingOK
  /\ ResidualsKept
  /\ \E start : Encoded(start) /\ (Before \/ Decoded(start))

LEMMA ExactInitially == Init => ExactInv
<1> SUFFICES ASSUME Init PROVE ExactInv  OBVIOUS
<1>1. SettingOK  BY ExactDataAssumption DEF Init, SettingOK
<1>2. /\ given = << >> /\ preDataBytes = Zero /\ leadNum = << >> /\ exactMidBytes = << >>
      /\ resiBits = << >> /\ Before
  BY DEF Init, Before
<1>3. ResidualsKept  BY <1>2 DEF ResidualsKept
<1> DEFINE start == [i \in 0 .. 0 |-> 0]
<1>4. /\ given \in Seq(Word8) /\ leadNum \in Seq(0 .. 3) /\ exactMidBytes \in Seq(0 .. 255)
      /\ Len(given) = 0 /\ Len(leadNum) = 0 /\ Len(exactMidBytes) = 0
  BY <1>2
<1>5. start \in [0 .. 0 -> Nat] /\ start[0] = 0  OBVIOUS
<1>6. Prev(0 + 1) = Zero  BY DEF Prev
<1> HIDE DEF start
<1>7. Encoded(start)  BY <1>2, <1>4, <1>5, <1>6 DEF Encoded
<1> QED  BY <1>1, <1>2, <1>3, <1>7 DEF ExactInv

LEMMA WordLength ==
  ASSUME NEW n \in Nat, NEW w \in [1 .. n -> 0 .. 255]
  PROVE  w \in Seq(0 .. 255) /\ Len(w) = n
<1>1. w \in Seq(0 .. 255)  BY SeqDef
<1>2. DOMAIN w = 1 .. Len(w) /\ Len(w) \in Nat /\ DOMAIN w = 1 .. n  BY <1>1, LenProperties
<1> QED  BY <1>1, <1>2

LEMMA WordOf ==
  ASSUME SettingOK, NEW w \in Words, Len(w) = bytes
  PROVE  w \in Word8 /\ w \in Seq(0 .. 255)
<1>1. w \in [1 .. 4 -> 0 .. 255] \/ w \in [1 .. 8 -> 0 .. 255]  BY ExactDataAssumption
<1>2. CASE w \in [1 .. 4 -> 0 .. 255]
  <2>1. w \in Seq(0 .. 255) /\ Len(w) = 4  BY <1>2, WordLength
  <2> QED  BY <2>1, <1>2 DEF Word8
<1>3. CASE w \in [1 .. 8 -> 0 .. 255]
  <2>1. w \in Seq(0 .. 255) /\ Len(w) = 8  BY <1>3, WordLength
  <2> QED  BY <2>1, <1>3 DEF Word8
<1> QED  BY <1>1, <1>2, <1>3

LEMMA IdenticalIs ==
  ASSUME SettingOK, NEW v \in Word8, NEW w \in Word8
  PROVE  Identical(v, w) \in 0 .. 3 /\ \A i \in 1 .. Identical(v, w) : v[i] = w[i]
<1> DEFINE Is(n) == /\ \A i \in 1 .. n : v[i] = w[i]
                    /\ n = 3 \/ v[n + 1] # w[n + 1]
<1>1. \E n \in 0 .. 3 : Is(n)
  <2>1. CASE v[1] # w[1]
    <3>1. Is(0)  BY <2>1
    <3> QED  BY <3>1
  <2>2. CASE v[1] = w[1] /\ v[2] # w[2]
    <3>1. Is(1)  BY <2>2
    <3> QED  BY <3>1
  <2>3. CASE v[1] = w[1] /\ v[2] = w[2] /\ v[3] # w[3]
    <3>1. Is(2)
      <4>1. \A i \in 1 .. 2 : i = 1 \/ i = 2  OBVIOUS
      <4> QED  BY <2>3, <4>1
    <3> QED  BY <3>1
  <2>4. CASE v[1] = w[1] /\ v[2] = w[2] /\ v[3] = w[3]
    <3>1. Is(3)
      <4>1. \A i \in 1 .. 3 : i = 1 \/ i = 2 \/ i = 3  OBVIOUS
      <4> QED  BY <2>4, <4>1
    <3> QED  BY <3>1
  <2> QED  BY <2>1, <2>2, <2>3, <2>4
<1>2. Identical(v, w) = CHOOSE n \in 0 .. 3 : Is(n)  BY DEF Identical
<1> HIDE DEF Is
<1>3. Identical(v, w) \in 0 .. 3 /\ Is(Identical(v, w))  BY <1>1, <1>2
<1> QED  BY <1>3 DEF Is

\* The places of the bytes once there is one more value.
Longer(start, n, m) == [i \in 0 .. n + 1 |-> IF i <= n THEN start[i] ELSE start[n] + m]

LEMMA LongerIs ==
  ASSUME NEW n \in Nat, NEW m \in Nat, NEW start \in [0 .. n -> Nat]
  PROVE  /\ Longer(start, n, m) \in [0 .. n + 1 -> Nat]
         /\ \A i \in 0 .. n : Longer(start, n, m)[i] = start[i]
         /\ Longer(start, n, m)[n + 1] = start[n] + m
<1>1. ~ n + 1 <= n /\ n + 1 \in 0 .. n + 1 /\ n \in 0 .. n  OBVIOUS
<1>2. \A i \in 0 .. n : i \in 0 .. n + 1 /\ i <= n  OBVIOUS
<1>3. start[n] + m \in Nat  BY <1>1
<1>4. \A i \in 0 .. n + 1 : i <= n => i \in 0 .. n  OBVIOUS
<1> QED  BY <1>1, <1>2, <1>3, <1>4 DEF Longer

\* What addExactData appends to the whole bytes.
LEMMA MidIs ==
  ASSUME SettingOK, NEW w \in Seq(0 .. 255), Len(w) = bytes, NEW lead \in 0 .. 3,
         NEW mid, mid = SubSeq(w, lead + 1, reqBytesLength)
  PROVE  /\ mid \in Seq(0 .. 255) /\ Len(mid) = Greatest(0, reqBytesLength - lead)
         /\ \A j \in lead + 1 .. reqBytesLength : mid[j - lead] = w[j]
<1>1. reqBytesLength \in 1 .. bytes /\ bytes \in Nat  BY LengthIs DEF SettingOK
<1> DEFINE B == reqBytesLength
<1>2. \A i \in lead + 1 .. B : w[i] \in 0 .. 255
  <2>1. \A i \in lead + 1 .. B : i \in 1 .. Len(w)  BY <1>1
  <2> QED  BY <2>1, ElementOfSeq
<1>3. lead + 1 \in Int /\ B \in Int  BY <1>1
<1> HIDE DEF B
<1>4. /\ SubSeq(w, lead + 1, B) \in Seq(0 .. 255)
      /\ Len(SubSeq(w, lead + 1, B)) = IF lead + 1 <= B THEN B - (lead + 1) + 1 ELSE 0
      /\ \A i \in 1 .. B - (lead + 1) + 1 : SubSeq(w, lead + 1, B)[i] = w[(lead + 1) + i - 1]
  BY <1>2, <1>3, SubSeqProperties
<1>5. mid = SubSeq(w, lead + 1, B)  BY DEF B
<1>6. Len(mid) = Greatest(0, B - lead)
  <2>1. \A x \in Int, y \in Int :
          Greatest(0, y - x) = IF x + 1 <= y THEN y - (x + 1) + 1 ELSE 0
    BY DEF Greatest
  <2>2. lead \in Int  OBVIOUS
  <2> QED  BY ONLY <1>3, <1>4, <1>5, <2>1, <2>2, Zenon
<1>7. ASSUME NEW j \in lead + 1 .. B PROVE mid[j - lead] = w[j]
  <2>1. j - lead \in 1 .. B - (lead + 1) + 1 /\ (lead + 1) + (j - lead) - 1 = j  BY <1>3
  <2> QED  BY <2>1, <1>4, <1>5
<1> QED  BY <1>4, <1>5, <1>6, <1>7 DEF B

LEMMA Encodes ==
  ASSUME SettingOK, NEW CONSTANT start, Encoded(start),
         NEW CONSTANT w \in Words, CompressSingleValue(w),
         NEW CONSTANT n, n = Len(given),
         NEW CONSTANT lead, lead = Identical(preDataBytes, w),
         NEW CONSTANT after, after = Longer(start, n, Greatest(0, reqBytesLength - lead))
  PROVE  Encoded(after)'
<1> DEFINE B == reqBytesLength
           mid == SubSeq(w, lead + 1, B)
           m == Greatest(0, B - lead)
<1>1. w \in Word8 /\ w \in Seq(0 .. 255) /\ Len(w) = bytes  BY WordOf DEF CompressSingleValue
<1>2. /\ given \in Seq(Word8) /\ preDataBytes = Prev(n + 1)
      /\ leadNum \in Seq(0 .. 3) /\ Len(leadNum) = n
      /\ exactMidBytes \in Seq(0 .. 255)
      /\ start \in [0 .. n -> Nat] /\ start[0] = 0
      /\ start[n] = Len(exactMidBytes)
      /\ \A i \in 1 .. n : Entry(i, start)
  BY DEF Encoded
<1>3. n \in Nat /\ Len(exactMidBytes) \in Nat /\ B \in Nat
  <2>1. B \in 1 .. bytes /\ bytes \in Nat  BY LengthIs DEF SettingOK
  <2> QED  BY <1>2, <2>1, LenProperties
<1>4. /\ leadNum' = Append(leadNum, lead)
      /\ exactMidBytes' = exactMidBytes \o mid
      /\ preDataBytes' = w /\ given' = Append(given, w)
      /\ UNCHANGED setting
  BY DEF CompressSingleValue, addExactData
<1>5. bytes' = bytes /\ B' = B /\ Zero' = Zero /\ Word8' = Word8
  BY <1>4 DEF setting, reqBytesLength, reqLength, Zero, Word8
<1>6. Prev(n + 1) \in Word8
  <2>1. CASE n = 0  BY <2>1, ZeroIs DEF Prev, Word8
  <2>2. CASE n # 0
    <3>1. n + 1 # 1 /\ (n + 1) - 1 = n /\ n \in 1 .. n  BY <2>2, <1>3
    <3>2. given[n] \in Word8  BY <3>1, <1>2, ElementOfSeq
    <3> QED  BY <3>1, <3>2 DEF Prev
  <2> QED  BY <2>1, <2>2
<1>7. lead \in 0 .. 3 /\ \A i \in 1 .. lead : Prev(n + 1)[i] = w[i]
  BY <1>1, <1>2, <1>6, IdenticalIs
<1>8. /\ mid \in Seq(0 .. 255) /\ Len(mid) = m
      /\ \A j \in lead + 1 .. B : mid[j - lead] = w[j]
  BY ONLY SettingOK, <1>1, <1>7, MidIs
<1>9. m \in Nat  BY <1>3, <1>7 DEF Greatest
<1> HIDE DEF B, mid, m
<1>10. /\ given' \in Seq(Word8) /\ Len(given') = n + 1 /\ given'[n + 1] = w
       /\ \A i \in 1 .. n : given'[i] = given[i]
  BY <1>1, <1>2, <1>3, <1>4
<1>11. /\ leadNum' \in Seq(0 .. 3) /\ Len(leadNum') = n + 1 /\ leadNum'[n + 1] = lead
       /\ \A i \in 1 .. n : leadNum'[i] = leadNum[i] /\ leadNum[i] \in 0 .. 3
  BY <1>2, <1>3, <1>4, <1>7
<1>12. /\ exactMidBytes' \in Seq(0 .. 255)
       /\ Len(exactMidBytes') = Len(exactMidBytes) + m
       /\ \A i \in 1 .. Len(exactMidBytes) + m :
            exactMidBytes'[i] = IF i <= Len(exactMidBytes) THEN exactMidBytes[i]
                                ELSE mid[i - Len(exactMidBytes)]
  <2>1. /\ exactMidBytes \o mid \in Seq(0 .. 255)
        /\ Len(exactMidBytes \o mid) = Len(exactMidBytes) + Len(mid)
        /\ \A i \in 1 .. Len(exactMidBytes) + Len(mid) :
             (exactMidBytes \o mid)[i] = IF i <= Len(exactMidBytes) THEN exactMidBytes[i]
                                         ELSE mid[i - Len(exactMidBytes)]
    BY ONLY <1>2, <1>8, ConcatProperties
  <2> QED  BY ONLY <2>1, <1>4, <1>8, Zenon
<1>13. /\ after \in [0 .. n + 1 -> Nat] /\ \A i \in 0 .. n : after[i] = start[i]
       /\ after[n + 1] = start[n] + m
  <2>1. after = Longer(start, n, m)  BY DEF m, B
  <2>2. n \in Nat /\ m \in Nat /\ start \in [0 .. n -> Nat]  BY ONLY <1>2, <1>3, <1>9, Zenon
  <2> QED  BY ONLY <2>1, <2>2, LongerIs, Zenon
<1>14. ASSUME NEW i \in 1 .. n + 1 PROVE Prev(i)' = Prev(i)
  <2>1. CASE i = 1  BY <2>1, <1>5 DEF Prev
  <2>2. CASE i # 1
    <3>1. i - 1 \in 1 .. n  BY <2>2, <1>3
    <3> QED  BY <2>2, <3>1, <1>10 DEF Prev
  <2> QED  BY <2>1, <2>2
<1>15. preDataBytes' = Prev((n + 1) + 1)'
  <2>1. (n + 1) + 1 # 1 /\ ((n + 1) + 1) - 1 = n + 1  BY <1>3
  <2> QED  BY <2>1, <1>4, <1>10 DEF Prev
<1>16. ASSUME NEW i \in 1 .. n PROVE Entry(i, after)'
  <2>1. Entry(i, start)  BY <1>2
  <2>2. i \in 0 .. n /\ i - 1 \in 0 .. n /\ i \in 1 .. n + 1 /\ leadNum[i] \in 0 .. 3
    BY <1>3, <1>11
  <2>3. after[i] = start[i] /\ after[i - 1] = start[i - 1] /\ leadNum'[i] = leadNum[i]
        /\ given'[i] = given[i] /\ Prev(i)' = Prev(i) /\ reqBytesLength' = reqBytesLength
    BY <2>2, <1>5, <1>10, <1>11, <1>13, <1>14 DEF B
  <2>4. after[i] <= Len(exactMidBytes')  
    <3>1. start[i] \in Nat /\ start[i] <= Len(exactMidBytes)  BY <2>1, <2>2, <1>2 DEF Entry
    <3> QED  BY <3>1, <2>3, <1>3, <1>9, <1>12
  <2>5. ASSUME NEW j \in leadNum[i] + 1 .. reqBytesLength
        PROVE  exactMidBytes'[start[i - 1] + j - leadNum[i]] = given[i][j]
    <3> DEFINE x == start[i - 1] + j - leadNum[i]
    <3>1. exactMidBytes[x] = given[i][j]  BY <2>1 DEF Entry
    <3>2. start[i] = start[i - 1] + Greatest(0, reqBytesLength - leadNum[i])
          /\ start[i] <= Len(exactMidBytes) /\ start[i - 1] \in Nat
      BY <2>1, <2>2, <1>2 DEF Entry
    <3>3. x \in 1 .. Len(exactMidBytes) + m /\ x <= Len(exactMidBytes)
      <4>1. leadNum[i] \in Int /\ reqBytesLength \in Int /\ j \in Int
            /\ leadNum[i] + 1 <= j /\ j <= reqBytesLength
        BY <2>2, <1>3 DEF B
      <4>2. Greatest(0, reqBytesLength - leadNum[i]) = reqBytesLength - leadNum[i]
        BY <4>1 DEF Greatest
      <4> HIDE DEF x
      <4>3. x = start[i - 1] + j - leadNum[i]  BY DEF x
      <4>5. start[i] = start[i - 1] + (reqBytesLength - leadNum[i]) /\ start[i - 1] \in Nat
        BY ONLY <4>2, <3>2, Zenon
      <4>4. start[i] \in Int /\ x \in Int /\ 1 <= x /\ x <= start[i]
        BY ONLY <4>1, <4>3, <4>5
      <4> QED  BY ONLY <4>4, <3>2, <1>3, <1>9
    <3> QED  BY <3>1, <3>3, <1>12
  <2>6. /\ start[i] = start[i - 1] + Greatest(0, reqBytesLength - leadNum[i])
        /\ \A j \in 1 .. leadNum[i] : Prev(i)[j] = given[i][j]
    BY <2>1 DEF Entry
  <2> QED  BY <2>3, <2>4, <2>5, <2>6 DEF Entry
<1>17. Entry(n + 1, after)'
  <2>1. (n + 1) - 1 = n /\ n \in 0 .. n /\ n + 1 \in 1 .. n + 1  BY <1>3
  <2>2. after[n + 1] = after[n] + m /\ after[n] = start[n] /\ start[n] = Len(exactMidBytes)
    BY <2>1, <1>2, <1>13
  <2>3. m = Greatest(0, B - lead) /\ B = reqBytesLength'  BY <1>5 DEF m, B
  <2>4. after[n + 1] <= Len(exactMidBytes')  BY <2>2, <1>3, <1>9, <1>12
  <2>5. \A j \in 1 .. lead : Prev(n + 1)'[j] = w[j]  BY <2>1, <1>7, <1>14
  <2>6. ASSUME NEW j \in lead + 1 .. B
        PROVE  exactMidBytes'[after[n] + j - lead] = w[j]
    <3> DEFINE x == Len(exactMidBytes) + j - lead
    <3>1. x \in 1 .. Len(exactMidBytes) + m /\ ~ x <= Len(exactMidBytes)
          /\ x - Len(exactMidBytes) = j - lead
      BY <1>3, <1>7, <2>3 DEF Greatest
    <3>2. exactMidBytes'[x] = mid[j - lead]  BY <3>1, <1>12
    <3> QED  BY <3>2, <2>2, <1>8
  <2> QED  BY <2>1, <2>2, <2>3, <2>4, <2>5, <2>6, <1>10, <1>11 DEF Entry
<1>18. \A i \in 1 .. n + 1 : Entry(i, after)'
  <2>1. \A i \in 1 .. n + 1 : i \in 1 .. n \/ i = n + 1  BY <1>3
  <2> QED  BY <2>1, <1>16, <1>17
<1>19. after[0] = 0
  <2>1. 0 \in 0 .. n  BY <1>3
  <2> QED  BY <2>1, <1>2, <1>13
<1>20. after[n + 1] = Len(exactMidBytes')  BY <1>2, <1>12, <1>13
<1>21. Encoded(after)'
  BY <1>5, <1>10, <1>11, <1>12, <1>13, <1>15, <1>18, <1>19, <1>20 DEF Encoded
<1> QED  BY <1>21

-----------------------------------------------------------------------------
(* Exact values: the residual bits                                         *)

LEMMA HighBits ==
  ASSUME NEW r \in 1 .. 7, NEW x \in 0 .. 255
  PROVE  x \div Pow(8 - r) \in 0 .. Pow(r) - 1
<1>1. \/ r = 1 \/ r = 2 \/ r = 3 \/ r = 4 \/ r = 5 \/ r = 6 \/ r = 7
  OBVIOUS
<1>2. CASE r = 1  BY <1>2, Powers
<1>3. CASE r = 2  BY <1>3, Powers
<1>4. CASE r = 3  BY <1>4, Powers
<1>5. CASE r = 4  BY <1>5, Powers
<1>6. CASE r = 5  BY <1>6, Powers
<1>7. CASE r = 6  BY <1>7, Powers
<1>8. CASE r = 7  BY <1>8, Powers
<1> QED  BY <1>1, <1>2, <1>3, <1>4, <1>5, <1>6, <1>7, <1>8

LEMMA ResidualsBounded ==
  ASSUME SettingOK, ResidualsKept, given \in Seq(Word8), resiBitsLength # 0
  PROVE  /\ resiBitsLength \in 1 .. 7 /\ Len(resiBits) = Len(given) /\ resiBits \in Seq(Nat)
         /\ \A i \in 1 .. Len(resiBits) : resiBits[i] \in 0 .. Pow(resiBitsLength) - 1
<1>1. resiBitsLength \in 1 .. 7 /\ reqBytesLength + 1 \in 1 .. bytes
  BY LengthIs DEF SettingOK
<1>2. ASSUME NEW i \in 1 .. Len(resiBits)
      PROVE  resiBits[i] \in 0 .. Pow(resiBitsLength) - 1
  <2>1. i \in 1 .. Len(given)  BY DEF ResidualsKept
  <2>2. given[i] \in Word8  BY <2>1, ElementOfSeq
  <2>3. given[i][reqBytesLength + 1] \in 0 .. 255  BY <2>2, <1>1 DEF Word8
  <2>4. resiBits[i] = given[i][reqBytesLength + 1] \div Pow(8 - resiBitsLength)
    BY DEF ResidualsKept
  <2> QED  BY <1>1, <2>3, <2>4, HighBits
<1> QED  BY <1>1, <1>2 DEF ResidualsKept

LEMMA ResidualsGrow ==
  ASSUME SettingOK, ResidualsKept, given \in Seq(Word8), NEW w \in Words, CompressSingleValue(w)
  PROVE  ResidualsKept'
<1> DEFINE B == reqBytesLength
           r == resiBitsLength
           n == Len(given)
<1>1. w \in Word8  BY WordOf DEF CompressSingleValue
<1>2. given' = Append(given, w) /\ UNCHANGED setting
  BY DEF CompressSingleValue, addExactData
<1>3. B' = B /\ r' = r
  BY <1>2 DEF setting, reqBytesLength, resiBitsLength, reqLength
<1>4. n \in Nat /\ Len(given') = n + 1 /\ given'[n + 1] = w
      /\ \A i \in 1 .. n : given'[i] = given[i]
  BY <1>1, <1>2
<1>5. resiBits \in Seq(Nat) /\ Len(resiBits) = IF r = 0 THEN 0 ELSE n  BY DEF ResidualsKept
<1>6. \A i \in 1 .. Len(resiBits) : resiBits[i] = given[i][B + 1] \div Pow(8 - r)
  BY DEF ResidualsKept
<1>7. CASE r = 0
  <2>1. resiBits' = resiBits  BY <1>7 DEF CompressSingleValue, addExactData
  <2>2. Len(resiBits') = 0 /\ resiBits' \in Seq(Nat)  BY <2>1, <1>5, <1>7
  <2> QED  BY <2>2, <1>3, <1>7 DEF ResidualsKept
<1>8. CASE r # 0
  <2> DEFINE x == w[B + 1] \div Pow(8 - r)
  <2>1. r \in 1 .. 7 /\ w[B + 1] \in 0 .. 255
    <3>1. B + 1 \in 1 .. bytes /\ r \in 1 .. 7  BY <1>8, LengthIs DEF SettingOK
    <3> QED  BY <3>1, <1>1 DEF Word8
  <2>2. x \in Nat
    <3>1. x \in 0 .. Pow(r) - 1
      <4> HIDE DEF r
      <4> QED  BY <2>1, HighBits
    <3> QED  BY <3>1
  <2>3. resiBits' = Append(resiBits, x)
    BY <1>8 DEF CompressSingleValue, addExactData, Pow
  <2> HIDE DEF x
  <2>4. /\ resiBits' \in Seq(Nat) /\ Len(resiBits') = n + 1 /\ resiBits'[n + 1] = x
        /\ \A i \in 1 .. n : resiBits'[i] = resiBits[i]
    BY <2>2, <2>3, <1>4, <1>5, <1>8
  <2>5. ASSUME NEW i \in 1 .. n + 1 PROVE resiBits'[i] = given'[i][B + 1] \div Pow(8 - r)
    <3>1. CASE i = n + 1  BY <3>1, <2>4, <1>4 DEF x
    <3>2. CASE i # n + 1
      <4>1. i \in 1 .. n  BY <3>2, <1>4
      <4> QED  BY <4>1, <2>4, <1>4, <1>5, <1>6, <1>8
    <3> QED  BY <3>1, <3>2
  <2>6. r' # 0 /\ Len(resiBits') = Len(given')  BY <1>3, <1>4, <1>8, <2>4
  <2>7. \A i \in 1 .. Len(resiBits') :
          resiBits'[i] = given'[i][reqBytesLength' + 1] \div Pow(8 - resiBitsLength')
    BY <1>3, <2>4, <2>5
  <2> QED  BY <2>4, <2>6, <2>7 DEF ResidualsKept
<1> QED  BY <1>7, <1>8

\* The two lemmas of the packing, as they are used.
LEMMA PackingRead ==
  ASSUME NEW r \in 1 .. 7, NEW resi \in Seq(Nat),
         \A i \in 1 .. Len(resi) : resi[i] \in 0 .. Pow(r) - 1
  PROVE  LET P == Packing(r, resi)
             w == PackResidual(r, resi)
         IN /\ \A j \in 0 .. Len(resi) : P[j].k \in Nat
            /\ \A l \in 1 .. Len(resi) : /\ P[l].k = P[l - 1].k + r
                                          /\ Fetch(r, w, P[l - 1].k) = resi[l]
            /\ Len(w) = (P[Len(resi)].k + 7) \div 8
<1>1. PICK P : P = Packing(r, resi)  OBVIOUS
<1>3. \A j \in 0 .. Len(resi) :
        Packed(P[j]) /\ \A l \in 1 .. j : P[l].k = P[l - 1].k + r
  <2>1. ReadsBack(r, resi, P)  BY <1>1, AllPacked
  <2> QED  BY ONLY <2>1, Zenon DEF ReadsBack
<1>4. \A j \in 0 .. Len(resi) : P[j].k \in Nat  BY <1>3 DEF Packed
<1>5. \A l \in 1 .. Len(resi) : P[l].k = P[l - 1].k + r
  <2>1. Len(resi) \in 0 .. Len(resi)  OBVIOUS
  <2> QED  BY <1>3, <2>1
<1>6. /\ Len(PackResidual(r, resi)) = (P[Len(resi)].k + 7) \div 8
      /\ \A l \in 1 .. Len(resi) : Fetch(r, PackResidual(r, resi), P[l - 1].k) = resi[l]
  BY <1>1, ResidualIs
<1> QED  BY <1>1, <1>4, <1>5, <1>6

\* The places the decoder reads the residual bits at, and what it finds there.
LEMMA ResidualsRead ==
  ASSUME SettingOK, ResidualsKept, given \in Seq(Word8)
  PROVE  /\ BitsRead(0) = 0
         /\ \A l \in 0 .. Len(given) : BitsRead(l) \in Nat
         /\ \A l \in 0 .. Len(given) - 1 :
              /\ BitsRead(l + 1) = BitsRead(l) + resiBitsLength
              /\ resiBitsLength # 0 =>
                   Fetch(resiBitsLength, PackResidual(resiBitsLength, resiBits), BitsRead(l)) =
                     resiBits[l + 1]
         /\ Len(PackResidual(resiBitsLength, resiBits)) = (BitsRead(Len(given)) + 7) \div 8
<1> DEFINE r == resiBitsLength
           P == Packing(r, resiBits)
           n == Len(given)
<1>1. n \in Nat  OBVIOUS
<1>2. /\ resiBits \in Seq(Nat) /\ resiBits \in Seq(Int)  BY DEF ResidualsKept
<1>3. P[0] = [bytes |-> << >>, tmp |-> 0, k |-> 0, left |-> 0]
  <2> HIDE DEF r
  <2> QED  BY <1>2, PackingIs
<1>4. CASE r = 0
  <2>1. Len(resiBits) = 0  BY <1>4 DEF ResidualsKept
  <2>2. P[Len(resiBits)].left = 0 /\ P[Len(resiBits)].bytes = << >>
    <3> HIDE DEF P
    <3> QED  BY <1>3, <2>1
  <2>3. PackResidual(r, resiBits) = << >>  BY <2>2 DEF PackResidual
  <2>4. \A l : BitsRead(l) = 0  BY <1>4 DEF BitsRead
  <2>5. Len(PackResidual(r, resiBits)) = (BitsRead(n) + 7) \div 8  BY <2>3, <2>4
  <2> QED  BY <1>4, <2>4, <2>5
<1>5. CASE r # 0
  <2>1. /\ r \in 1 .. 7 /\ Len(resiBits) = n
        /\ \A i \in 1 .. Len(resiBits) : resiBits[i] \in 0 .. Pow(r) - 1
    BY <1>5, ResidualsBounded
  <2>2. \A l : BitsRead(l) = P[l].k  BY <1>5 DEF BitsRead
  <2> HIDE DEF r, P, n
  <2>3. /\ \A j \in 0 .. n : P[j].k \in Nat
        /\ \A l \in 1 .. n : /\ P[l].k = P[l - 1].k + r
                             /\ Fetch(r, PackResidual(r, resiBits), P[l - 1].k) = resiBits[l]
        /\ Len(PackResidual(r, resiBits)) = (P[n].k + 7) \div 8
    BY <1>2, <2>1, PackingRead DEF P
  <2>5. BitsRead(0) = 0  BY <2>2, <1>3
  <2>6. \A l \in 0 .. n : BitsRead(l) \in Nat
    BY <2>2, <2>3
  <2>7. ASSUME NEW l \in 0 .. n - 1
        PROVE  /\ BitsRead(l + 1) = BitsRead(l) + r
               /\ Fetch(r, PackResidual(r, resiBits), BitsRead(l)) = resiBits[l + 1]
    <3>1. l + 1 \in 1 .. n /\ (l + 1) - 1 = l /\ l + 1 \in 0 .. n /\ l + 1 \in 1 .. l + 1  BY <1>1
    <3>2. P[l + 1].k = P[(l + 1) - 1].k + r  BY <2>3, <3>1
    <3>3. Fetch(r, PackResidual(r, resiBits), P[(l + 1) - 1].k) = resiBits[l + 1]  BY <2>3, <3>1
    <3> QED  BY <2>2, <3>1, <3>2, <3>3
  <2>8. Len(PackResidual(r, resiBits)) = (BitsRead(n) + 7) \div 8  BY <2>2, <2>3
  <2> QED  BY <2>5, <2>6, <2>7, <2>8 DEF r, n
<1> QED  BY <1>4, <1>5

-----------------------------------------------------------------------------
(* Exact values: the steps                                                 *)

LEMMA PrevIs ==
  ASSUME SettingOK, NEW start, Encoded(start), NEW i \in 1 .. Len(given) + 1
  PROVE  Prev(i) \in Word8
<1>1. CASE i = 1  BY <1>1, ZeroIs DEF Prev, Word8
<1>2. CASE i # 1
  <2>1. i - 1 \in 1 .. Len(given) /\ given \in Seq(Word8)  BY <1>2 DEF Encoded
  <2>2. given[i - 1] \in Word8  BY <2>1, ElementOfSeq
  <2> QED  BY <1>2, <2>2 DEF Prev
<1> QED  BY <1>1, <1>2

LEMMA RecordIsNotEmpty ==
  ASSUME NEW x, NEW y, NEW f, f = [leadNumArray |-> x, residualMidBits |-> y]
  PROVE  f # << >>
<1>1. DOMAIN f = {"leadNumArray", "residualMidBits"}  OBVIOUS
<1>2. "leadNumArray" \in DOMAIN f  BY <1>1
<1>3. DOMAIN << >> = {}  OBVIOUS
<1> QED  BY <1>2, <1>3

LEMMA Compresses ==
  ASSUME ExactInv, NEW w \in Words, CompressSingleValue(w) PROVE ExactInv'
<1>1. PICK start : Encoded(start) /\ (Before \/ Decoded(start))  BY DEF ExactInv
<1>2. SettingOK /\ ResidualsKept  BY DEF ExactInv
<1>3. packed = << >>  BY DEF CompressSingleValue
<1>4. Before
  <2>1. ~ Decoded(start)  BY <1>3, RecordIsNotEmpty DEF Decoded
  <2> QED  BY <1>1, <2>1
<1>5. PICK v \in Words : v = w  OBVIOUS
<1>6. PICK n : n = Len(given)  OBVIOUS
<1>7. PICK lead : lead = Identical(preDataBytes, v)  OBVIOUS
<1>8. PICK after : after = Longer(start, n, Greatest(0, reqBytesLength - lead))  OBVIOUS
<1>9. Encoded(after)'
  BY <1>1, <1>2, <1>5, <1>6, <1>7, <1>8, Encodes
<1>10. given \in Seq(Word8)  BY <1>1 DEF Encoded
<1>11. ResidualsKept'  BY <1>2, <1>10, ResidualsGrow
<1>12. UNCHANGED <<setting, packed, decoder>>  BY DEF CompressSingleValue, addExactData
<1>13. SettingOK'  BY <1>2, <1>12 DEF SettingOK, setting
<1>14. Before'  BY <1>4, <1>12 DEF Before, decoder, setting, Zero
<1> QED  BY <1>9, <1>11, <1>13, <1>14 DEF ExactInv

\* The decoder's steps leave the encoder's side as it is.
LEMMA EncodedStays ==
  ASSUME NEW CONSTANT start, Encoded(start), SettingOK, ResidualsKept,
         UNCHANGED <<setting, given, preDataBytes, arrays>>
  PROVE  Encoded(start)' /\ SettingOK' /\ ResidualsKept'
<1>1. /\ bytes' = bytes /\ radExpo' = radExpo /\ reqExpo' = reqExpo
      /\ given' = given /\ preDataBytes' = preDataBytes
      /\ leadNum' = leadNum /\ exactMidBytes' = exactMidBytes /\ resiBits' = resiBits
  BY DEF setting, arrays
<1>2. reqBytesLength' = reqBytesLength /\ resiBitsLength' = resiBitsLength /\ Word8' = Word8
  BY <1>1 DEF reqBytesLength, resiBitsLength, reqLength, Word8
<1>3. \A i : Prev(i)' = Prev(i)  BY <1>1 DEF Prev, Zero
<1>4. \A i : Entry(i, start)' <=> Entry(i, start)  BY <1>1, <1>2, <1>3 DEF Entry
<1>5. Encoded(start)'  BY <1>1, <1>2, <1>3, <1>4 DEF Encoded
<1>6. ResidualsKept'  BY <1>1, <1>2 DEF ResidualsKept
<1> QED  BY <1>1, <1>5, <1>6 DEF SettingOK

LEMMA Finishes ==
  ASSUME ExactInv, Finish PROVE ExactInv'
<1>1. PICK start : Encoded(start) /\ (Before \/ Decoded(start))  BY DEF ExactInv
<1>2. SettingOK /\ ResidualsKept  BY DEF ExactInv
<1>3. packed = << >>  BY DEF Finish
<1>4. Before
  <2>1. ~ Decoded(start)  BY <1>3, RecordIsNotEmpty DEF Decoded
  <2> QED  BY <1>1, <2>1
<1>5. UNCHANGED <<setting, given, preDataBytes, arrays, decoder>>  BY DEF Finish
<1>6. Encoded(start)' /\ SettingOK' /\ ResidualsKept'
  BY <1>1, <1>2, <1>5, EncodedStays DEF Finish
<1>7. /\ packed' = [leadNumArray |-> PackLead(leadNum),
                    residualMidBits |-> PackResidual(resiBitsLength, resiBits)]
      /\ leadNum' = leadNum /\ resiBits' = resiBits /\ resiBitsLength' = resiBitsLength
      /\ given' = given
  BY <1>5 DEF Finish, arrays, setting, resiBitsLength, reqLength
<1>8. out' = << >> /\ k' = 0 /\ p' = 0 /\ curByteIndex' = 0 /\ preBytes' = Zero
  BY <1>4, <1>5 DEF Before, decoder
<1>9. given \in Seq(Word8) /\ start[0] = 0 /\ Len(given) \in Nat  BY <1>1 DEF Encoded
<1>10. Len(out') = 0 /\ out' \in Seq(Word8')  BY <1>8
<1>11. preBytes' = Truncated(Prev(0 + 1))'
  <2>1. Prev(0 + 1) = Zero  BY DEF Prev
  <2>2. Truncated(Prev(0 + 1)) = Zero  BY <2>1, <1>2, ZeroIs
  <2>3. Truncated(Prev(0 + 1))' = Truncated(Prev(0 + 1))
    BY <1>5 DEF setting, Truncated, Prev, Zero, reqLength
  <2> QED  BY <1>8, <2>2, <2>3
<1>12. BitsRead(0)' = 0
  <2>1. BitsRead(0) = 0  BY <1>2, <1>9, ResidualsRead
  <2>2. BitsRead(0)' = BitsRead(0)  BY <1>7 DEF BitsRead
  <2> QED  BY <2>1, <2>2
<1>13. Decoded(start)'
  <2>1. \A i \in 1 .. Len(out') : FALSE  BY <1>10
  <2>2. 0 \div 8 = 0  OBVIOUS
  <2> QED  BY <1>7, <1>8, <1>9, <1>10, <1>11, <1>12, <2>1, <2>2 DEF Decoded
<1> QED  BY <1>6, <1>13 DEF ExactInv

\* What the decoder finds in the two packed arrays.
LEMMA LeadFound ==
  ASSUME NEW start, Encoded(start), Decoded(start), Len(out) < Len(given)
  PROVE  LeadOf(Len(out)) = leadNum[Len(out) + 1] /\ leadNum[Len(out) + 1] \in 0 .. 3
<1>1. /\ leadNum \in Seq(0 .. 3) /\ Len(leadNum) = Len(given) /\ Len(out) \in Nat
      /\ packed.leadNumArray = PackLead(leadNum)
  BY DEF Encoded, Decoded
<1>2. Len(out) \in 0 .. Len(leadNum) - 1 /\ Len(out) + 1 \in 1 .. Len(leadNum)
  BY <1>1
<1>3. leadNum[Len(out) + 1] \in 0 .. 3  BY <1>1, <1>2, ElementOfSeq
<1> DEFINE l == Len(out)
<1> HIDE DEF l
<1>4. l \in 0 .. Len(leadNum) - 1 /\ l = Len(out)  BY <1>2 DEF l
<1>5. LeadOf(l) = leadNum[l + 1]
  BY ONLY <1>1, <1>4, LeadComesBack DEF LeadOf
<1> QED  BY <1>3, <1>4, <1>5

LEMMA BitsFound ==
  ASSUME SettingOK, ResidualsKept, NEW start, Encoded(start), Decoded(start),
         Len(out) < Len(given), resiBitsLength # 0
  PROVE  ResidualBits =
           given[Len(out) + 1][reqBytesLength + 1] \div Pow(8 - resiBitsLength)
<1> DEFINE r == resiBitsLength
           l == Len(out)
           w == PackResidual(r, resiBits)
<1>1. /\ given \in Seq(Word8) /\ out \in Seq(Word8) /\ k = BitsRead(l) /\ p = k \div 8
      /\ packed.residualMidBits = w
  BY DEF Encoded, Decoded
<1>2. l \in 0 .. Len(given) - 1 /\ l + 1 \in 1 .. Len(given)  BY <1>1
<1>3. ResidualBits = Fetch(r, w, k)
  BY <1>1 DEF ResidualBits, Over, Fetch, Pow
<1>4. Fetch(r, w, BitsRead(l)) = resiBits[l + 1]  BY <1>1, <1>2, ResidualsRead
<1>5. Len(resiBits) = Len(given)  BY DEF ResidualsKept
<1>6. resiBits[l + 1] = given[l + 1][reqBytesLength + 1] \div Pow(8 - r)
  BY <1>2, <1>5 DEF ResidualsKept
<1> QED  BY <1>1, <1>3, <1>4, <1>6

\* The bytes put together are those the encoder kept.
LEMMA BytesFound ==
  ASSUME SettingOK, ResidualsKept, NEW start, Encoded(start), Decoded(start),
         Len(out) < Len(given), NEW lead, lead = leadNum[Len(out) + 1], NEW i \in 1 .. bytes
  PROVE  (IF resiBitsLength # 0 /\ i = reqBytesLength + 1
            THEN (ResidualBits * 2 ^ (8 - resiBitsLength)) % 256
          ELSE IF i <= lead THEN preBytes[i]
          ELSE IF i <= reqBytesLength THEN At(exactMidBytes, curByteIndex + i - lead)
          ELSE 0) = Truncated(given[Len(out) + 1])[i]
<1> DEFINE B == reqBytesLength
           r == resiBitsLength
           l == Len(out)
           w == given[l + 1]
<1>1. /\ given \in Seq(Word8) /\ out \in Seq(Word8) /\ l \in Nat /\ Len(given) \in Nat
      /\ exactMidBytes \in Seq(0 .. 255) /\ Len(exactMidBytes) \in Nat
      /\ start \in [0 .. Len(given) -> Nat]
      /\ curByteIndex = start[l] /\ preBytes = Truncated(Prev(l + 1))
  BY DEF Encoded, Decoded
<1>2. l + 1 \in 1 .. Len(given) /\ (l + 1) - 1 = l /\ l \in 0 .. Len(given)
      /\ l + 1 \in 1 .. Len(given) + 1
  BY <1>1
<1>3. w \in Word8  BY <1>1, <1>2, ElementOfSeq
<1>4. Entry(l + 1, start)  BY <1>2 DEF Encoded
<1>5. lead \in 0 .. 3  BY LeadFound
<1>6. B \in 1 .. bytes /\ r \in 0 .. 7 /\ bytes \in Nat  BY LengthIs DEF SettingOK
<1>7. w[i] \in 0 .. 255 /\ Truncated(w)[i] = Cut(i, w[i]) /\ Cut(i, w[i]) \in 0 .. 255
  BY <1>3, TruncatedIs, CutIs DEF Word8
<1>8. Prev(l + 1) \in Word8  BY <1>2, PrevIs
<1> HIDE DEF B, r, w, l
<1>9. CASE r # 0 /\ i = B + 1
  <2>1. ResidualBits = w[B + 1] \div Pow(8 - r)  BY <1>9, BitsFound DEF B, r, w, l
  <2>2. Cut(i, w[i]) = (w[B + 1] \div Pow(8 - r)) * Pow(8 - r)  BY <1>7, <1>9, CutIs DEF B, r
  <2>3. (ResidualBits * 2 ^ (8 - r)) % 256 = Cut(i, w[i])
    <3>1. ResidualBits * 2 ^ (8 - r) = Cut(i, w[i])  BY <2>1, <2>2 DEF Pow
    <3>2. \A x \in 0 .. 255 : x % 256 = x  OBVIOUS
    <3> QED  BY ONLY <3>1, <3>2, <1>7, Zenon
  <2> QED  BY <2>3, <1>7, <1>9 DEF B, r, w, l
<1>10. CASE ~ (r # 0 /\ i = B + 1) /\ i <= lead
  <2>1. i \in 1 .. lead  BY <1>5, <1>6, <1>10
  <2>2. Prev(l + 1)[i] = w[i]  BY <1>4, <2>1 DEF Entry, w, l
  <2>3. preBytes[i] = Cut(i, Prev(l + 1)[i])  BY <1>1, <1>8, TruncatedIs DEF Word8
  <2> QED  BY <2>2, <2>3, <1>7, <1>10 DEF B, r, w, l
<1>11. CASE ~ (r # 0 /\ i = B + 1) /\ ~ i <= lead /\ i <= B
  <2>1. i \in lead + 1 .. B  BY <1>5, <1>6, <1>11
  <2> DEFINE x == start[l] + i - lead
  <2>2. exactMidBytes[x] = w[i]  BY <1>2, <1>4, <2>1 DEF Entry, w, l, B
  <2>3. start[l + 1] = start[l] + Greatest(0, B - lead) /\ start[l + 1] <= Len(exactMidBytes)
        /\ start[l] \in Nat
    BY <1>1, <1>2, <1>4 DEF Entry, B, l
  <2>4. x \in 1 .. Len(exactMidBytes)
    <3>1. Greatest(0, B - lead) = B - lead  BY <2>1, <1>5, <1>6 DEF Greatest
    <3>2. i \in Int /\ lead + 1 <= i /\ i <= B /\ B \in Int /\ lead \in Int  BY <2>1, <1>5, <1>6
    <3>3. start[l + 1] = start[l] + (B - lead)  BY <2>3, <3>1
    <3>4. x \in Int /\ 1 <= x /\ x <= start[l + 1] /\ start[l + 1] \in Int
      BY ONLY <2>3, <3>2, <3>3
    <3> HIDE DEF x
    <3> QED  BY ONLY <3>4, <2>3, <1>1
  <2>5. At(exactMidBytes, x) = w[i]
    <3>1. DOMAIN exactMidBytes = 1 .. Len(exactMidBytes)  BY <1>1, LenProperties
    <3> HIDE DEF x
    <3> QED  BY <2>2, <2>4, <3>1 DEF At
  <2>6. Cut(i, w[i]) = w[i]  BY <1>7, <1>11, CutIs DEF B
  <2> QED  BY <2>5, <2>6, <1>1, <1>7, <1>11 DEF B, r, w, l
<1>12. CASE ~ (r # 0 /\ i = B + 1) /\ ~ i <= lead /\ ~ i <= B
  <2>1. i > B /\ (i = B + 1 => r = 0)  BY <1>6, <1>12
  <2>2. Cut(i, w[i]) = 0  BY <1>7, <2>1, CutIs DEF B, r
  <2> QED  BY <2>2, <1>7, <1>12 DEF B, r, w, l
<1> QED  BY <1>9, <1>10, <1>11, <1>12 DEF B, r

\* One value more: both its bytes and the three cursors.
LEMMA Recovers ==
  ASSUME ExactInv, RecoverExact PROVE ExactInv'
<1>1. PICK start : Encoded(start) /\ (Before \/ Decoded(start))  BY DEF ExactInv
<1>2. SettingOK /\ ResidualsKept  BY DEF ExactInv
<1>3. packed # << >> /\ Len(out) < Len(given)  BY DEF RecoverExact
<1>4. Decoded(start)  BY <1>1, <1>3 DEF Before
<1>5. UNCHANGED <<setting, given, preDataBytes, arrays, packed>>  BY DEF RecoverExact
<1>6. Encoded(start)' /\ SettingOK' /\ ResidualsKept'
  BY <1>1, <1>2, <1>5, EncodedStays
<1> DEFINE l == Len(out)
           w == given[l + 1]
<1>7. /\ given \in Seq(Word8) /\ out \in Seq(Word8) /\ l \in Nat /\ Len(given) \in Nat
      /\ k = BitsRead(l) /\ p = k \div 8 /\ curByteIndex = start[l]
      /\ \A i \in 1 .. l : out[i] = Truncated(given[i])
  BY <1>1, <1>4 DEF Encoded, Decoded
<1>8. l + 1 \in 1 .. Len(given) /\ (l + 1) - 1 = l /\ l \in 0 .. Len(given) - 1
      /\ l \in 0 .. Len(given) /\ l + 1 \in 0 .. Len(given)
  BY <1>3, <1>7
<1>9. w \in Word8  BY <1>7, <1>8, ElementOfSeq
<1>10. LeadOf(l) = leadNum[l + 1]  BY <1>1, <1>3, <1>4, LeadFound
<1>11. out' = Append(out, Truncated(w)) /\ preBytes' = Truncated(w)
  <2> DEFINE lead == LeadOf(l)
             cur == [i \in 1 .. bytes |->
                      IF resiBitsLength # 0 /\ i = reqBytesLength + 1
                        THEN (ResidualBits * 2 ^ (8 - resiBitsLength)) % 256
                      ELSE IF i <= lead THEN preBytes[i]
                      ELSE IF i <= reqBytesLength THEN At(exactMidBytes, curByteIndex + i - lead)
                      ELSE 0]
  <2>1. out' = Append(out, cur) /\ preBytes' = cur  BY DEF RecoverExact
  <2>2. ASSUME NEW i \in 1 .. bytes PROVE cur[i] = Truncated(w)[i]
    <3> HIDE DEF lead
    <3>1. lead = leadNum[l + 1]  BY <1>10 DEF lead
    <3> QED  BY <3>1, <1>1, <1>2, <1>3, <1>4, BytesFound
  <2>3. Truncated(w) = [i \in 1 .. bytes |-> Truncated(w)[i]]
    <3>1. Truncated(w) \in Word8
      <4> HIDE DEF w
      <4> QED  BY <1>2, <1>9, TruncatedIs DEF Word8
    <3> HIDE DEF w
    <3> QED  BY <3>1 DEF Word8
  <2>4. cur = Truncated(w)
    <3>1. cur = [i \in 1 .. bytes |-> cur[i]]  OBVIOUS
    <3> HIDE DEF cur, w
    <3> QED  BY ONLY <2>2, <2>3, <3>1
  <2> QED  BY <2>1, <2>4
<1>12. curByteIndex' = start[l + 1]
  <2>1. Entry(l + 1, start)  BY <1>1, <1>8 DEF Encoded
  <2>2. start[l + 1] = start[l] + Greatest(0, reqBytesLength - leadNum[l + 1])
    BY <2>1, <1>8 DEF Entry
  <2>3. curByteIndex' = curByteIndex + Greatest(0, reqBytesLength - LeadOf(l))
    BY DEF RecoverExact
  <2> QED  BY <2>2, <2>3, <1>7, <1>10
<1>13. k' = BitsRead(l + 1) /\ k' = k + resiBitsLength /\ k \in Nat
  <2>1. k' = k + resiBitsLength  BY DEF RecoverExact
  <2>2. BitsRead(l + 1) = BitsRead(l) + resiBitsLength /\ BitsRead(l) \in Nat
    BY <1>2, <1>7, <1>8, ResidualsRead
  <2> QED  BY <2>1, <2>2, <1>7
<1>14. p' = k' \div 8
  <2>1. resiBitsLength \in 0 .. 7  BY <1>2, LengthIs
  <2>2. p' = p + Passed  BY DEF RecoverExact
  <2>3. \A x \in Nat, r \in 0 .. 7 :
          (x + r) \div 8 = x \div 8 + IF r # 0 /\ r - (8 - (x % 8)) >= 0 THEN 1 ELSE 0
    OBVIOUS
  <2> QED  BY <2>1, <2>2, <2>3, <1>7, <1>13 DEF Passed, Over
<1>15. /\ bytes' = bytes /\ reqExpo' = reqExpo /\ radExpo' = radExpo
       /\ given' = given /\ leadNum' = leadNum /\ resiBits' = resiBits /\ packed' = packed
  BY <1>5 DEF setting, arrays
<1>16. Word8' = Word8 /\ resiBitsLength' = resiBitsLength
       /\ \A i : Truncated(given[i])' = Truncated(given[i])
  BY <1>15 DEF Word8, resiBitsLength, reqLength, Truncated
<1> DEFINE t == Truncated(w)
<1>17. t \in Word8
  <2> HIDE DEF w
  <2> QED  BY <1>2, <1>9, TruncatedIs DEF Word8
<1> HIDE DEF t
<1>18. /\ out' \in Seq(Word8) /\ Len(out') = l + 1 /\ out'[l + 1] = t
       /\ \A i \in 1 .. l : out'[i] = out[i]
  BY <1>7, <1>11, <1>17 DEF t
<1>19. \A i \in 1 .. Len(out') : out'[i] = Truncated(given[i])'
  <2> SUFFICES ASSUME NEW i \in 1 .. l + 1 PROVE out'[i] = Truncated(given[i])
    BY <1>15, <1>16, <1>18
  <2>1. CASE i = l + 1  BY <2>1, <1>18 DEF t
  <2>2. CASE i # l + 1
    <3>1. i \in 1 .. l  BY <2>2, <1>7
    <3> QED  BY <3>1, <1>7, <1>18
  <2> QED  BY <2>1, <2>2
<1>20. preBytes' = Truncated(Prev(Len(out) + 1))'
  <2>1. (l + 1) + 1 # 1 /\ ((l + 1) + 1) - 1 = l + 1  BY <1>7
  <2>2. Prev(Len(out) + 1)' = w  BY <2>1, <1>15, <1>18 DEF Prev
  <2>3. Truncated(Prev(Len(out) + 1))' = Truncated(w)
    BY <2>2, <1>15 DEF Truncated, reqLength
  <2> QED  BY <2>3, <1>11
<1>21. BitsRead(Len(out))' = BitsRead(l + 1)
  BY <1>15, <1>16, <1>18 DEF BitsRead
<1>22. Len(out') <= Len(given')  BY <1>8, <1>15, <1>18
<1>23. Decoded(start)'
  <2>1. packed' = [leadNumArray |-> PackLead(leadNum'),
                   residualMidBits |-> PackResidual(resiBitsLength', resiBits')]
    BY <1>4, <1>15, <1>16 DEF Decoded
  <2> HIDE DEF l, w
  <2> QED
    BY <2>1, <1>12, <1>13, <1>14, <1>16, <1>18, <1>19, <1>20, <1>21, <1>22 DEF Decoded
<1> QED  BY <1>6, <1>23 DEF ExactInv

LEMMA ExactAlways == Spec => []ExactInv
<1>1. ExactInv /\ [Next]_vars => ExactInv'
  <2> SUFFICES ASSUME ExactInv, [Next]_vars PROVE ExactInv'  OBVIOUS
  <2>1. CASE \E w \in Words : CompressSingleValue(w)  BY <2>1, Compresses
  <2>2. CASE Finish  BY <2>2, Finishes
  <2>3. CASE RecoverExact  BY <2>3, Recovers
  <2>4. CASE UNCHANGED vars
    <3>1. PICK start : Encoded(start) /\ (Before \/ Decoded(start))  BY DEF ExactInv
    <3>2. SettingOK /\ ResidualsKept  BY DEF ExactInv
    <3>3. UNCHANGED <<setting, given, preDataBytes, arrays>> /\ UNCHANGED <<packed, decoder>>
      BY <2>4 DEF vars
    <3>4. Encoded(start)' /\ SettingOK' /\ ResidualsKept'
      BY <3>1, <3>2, <3>3, EncodedStays
    <3>5. CASE Before
      <4>1. Before'  BY <3>3, <3>5 DEF Before, decoder, setting, Zero
      <4> QED  BY <3>4, <4>1 DEF ExactInv
    <3>6. CASE Decoded(start)
      <4>1. /\ bytes' = bytes /\ reqExpo' = reqExpo /\ radExpo' = radExpo
            /\ given' = given /\ leadNum' = leadNum /\ resiBits' = resiBits /\ packed' = packed
            /\ out' = out /\ k' = k /\ p' = p /\ curByteIndex' = curByteIndex
            /\ preBytes' = preBytes
        BY <3>3 DEF setting, arrays, decoder
      <4>2. Word8' = Word8 /\ resiBitsLength' = resiBitsLength
            /\ (\A i : Truncated(given[i])' = Truncated(given[i]))
            /\ Truncated(Prev(Len(out) + 1))' = Truncated(Prev(Len(out) + 1))
        BY <4>1 DEF Word8, resiBitsLength, reqLength, Truncated, Prev, Zero
      <4>3. BitsRead(Len(out))' = BitsRead(Len(out))  BY <4>1, <4>2 DEF BitsRead
      <4>4. Decoded(start)'  BY <3>6, <4>1, <4>2, <4>3 DEF Decoded
      <4> QED  BY <3>4, <4>4 DEF ExactInv
    <3> QED  BY <3>1, <3>5, <3>6
  <2> QED  BY <2>1, <2>2, <2>3, <2>4 DEF Next
<1> QED  BY ExactInitially, <1>1, PTL DEF Spec

-----------------------------------------------------------------------------
(* Exact values: theorems                                                  *)

LEMMA ExactTypes == ExactInv => TypeOK
<1> SUFFICES ASSUME ExactInv PROVE TypeOK  OBVIOUS
<1>1. PICK start : Encoded(start) /\ (Before \/ Decoded(start))  BY DEF ExactInv
<1>2. SettingOK /\ ResidualsKept  BY DEF ExactInv
<1>3. /\ given \in Seq(Word8) /\ Len(given) \in Nat /\ preDataBytes = Prev(Len(given) + 1)
      /\ leadNum \in Seq(0 .. 3) /\ Len(leadNum) = Len(given)
  BY <1>1 DEF Encoded
<1>4. preDataBytes \in Word8
  <2>1. Len(given) + 1 \in 1 .. Len(given) + 1  BY <1>3
  <2> QED  BY <2>1, <1>1, <1>2, <1>3, PrevIs
<1>5. preBytes \in Word8 /\ Len(out) <= Len(given)
  <2>1. CASE Before
    <3>1. Len(out) = 0 /\ preBytes = Zero  BY <2>1 DEF Before
    <3> QED  BY <3>1, <1>2, <1>3, ZeroIs DEF Word8
  <2>2. CASE Decoded(start)
    <3>1. out \in Seq(Word8) /\ Len(out) <= Len(given) /\ preBytes = Truncated(Prev(Len(out) + 1))
      BY <2>2 DEF Decoded
    <3>2. Len(out) + 1 \in 1 .. Len(given) + 1  BY <3>1, <1>3
    <3>3. Prev(Len(out) + 1) \in Word8  BY <3>2, <1>1, <1>2, PrevIs
    <3> QED  BY <3>1, <3>3, <1>2, TruncatedIs DEF Word8
  <2> QED  BY <1>1, <2>1, <2>2
<1>6. \A w \in {preDataBytes, preBytes} : w \in [1 .. bytes -> Byte]
  BY <1>4, <1>5 DEF Word8, Byte
<1>7. \A i \in DOMAIN leadNum : leadNum[i] \in 0 .. 3  BY <1>3
<1>8. Len(resiBits) = (IF resiBitsLength = 0 THEN 0 ELSE Len(given))  BY <1>2 DEF ResidualsKept
<1>9. DOMAIN resiBits = 1 .. Len(resiBits)  BY <1>2, LenProperties DEF ResidualsKept
<1>10. \A i \in DOMAIN resiBits : resiBits[i] \in 0 .. 2 ^ resiBitsLength - 1
  <2>1. CASE resiBitsLength = 0  BY <2>1, <1>8, <1>9
  <2>2. CASE resiBitsLength # 0
    <3>1. \A i \in 1 .. Len(resiBits) : resiBits[i] \in 0 .. Pow(resiBitsLength) - 1
      BY <2>2, <1>2, <1>3, ResidualsBounded
    <3> QED  BY <3>1, <1>9 DEF Pow
  <2> QED  BY <2>1, <2>2
<1> QED  BY <1>3, <1>5, <1>6, <1>7, <1>8, <1>10 DEF TypeOK

\* The encoder's arrays grow together, and its and the decoder's last value are
\* values of the type (sz_float.c:546-568, szd_float.c:276-317).
THEOREM ExactTypeCorrect == Spec => []TypeOK
BY ExactAlways, ExactTypes, PTL

\* The decoder recovers, bit for bit, the value the encoder goes on from, from
\* the three arrays and the last value (dataCompression.c:454-477,
\* szd_float.c:276-317).
THEOREM Recovered == Spec => []SameForBoth
<1>1. ExactInv => SameForBoth
  <2> SUFFICES ASSUME ExactInv, NEW i \in DOMAIN out PROVE out[i] = Truncated(given[i])
    BY DEF SameForBoth
  <2>1. PICK start : Encoded(start) /\ (Before \/ Decoded(start))  BY DEF ExactInv
  <2>2. CASE Before
    <3>1. DOMAIN out = {}  BY <2>2 DEF Before
    <3> QED  BY <3>1
  <2>3. CASE Decoded(start)
    <3>1. DOMAIN out = 1 .. Len(out)  BY <2>3, LenProperties DEF Decoded
    <3> QED  BY <2>3, <3>1 DEF Decoded
  <2> QED  BY <2>1, <2>2, <2>3
<1> QED  BY ExactAlways, <1>1, PTL

\* After the last value each of the decoder's cursors is at the end of its array
\* (TypeManager.c:366-415, szd_float.c:278-311).
THEOREM AllRead == Spec => []UsedUp
<1>1. ExactInv => UsedUp
  <2> SUFFICES ASSUME ExactInv, packed # << >>, Len(out) = Len(given)
               PROVE  /\ curByteIndex = Len(exactMidBytes) /\ p = k \div 8
                      /\ Len(packed.residualMidBits) = (k + 7) \div 8
    BY DEF UsedUp
  <2>1. PICK start : Encoded(start) /\ (Before \/ Decoded(start))  BY DEF ExactInv
  <2>2. Decoded(start)  BY <2>1 DEF Before
  <2>3. curByteIndex = start[Len(given)] /\ p = k \div 8 /\ k = BitsRead(Len(given))
        /\ packed.residualMidBits = PackResidual(resiBitsLength, resiBits)
    BY <2>2 DEF Decoded
  <2>4. start[Len(given)] = Len(exactMidBytes) /\ given \in Seq(Word8)  BY <2>1 DEF Encoded
  <2>5. Len(PackResidual(resiBitsLength, resiBits)) = (BitsRead(Len(given)) + 7) \div 8
    BY <2>4, ResidualsRead DEF ExactInv
  <2> QED  BY <2>3, <2>4, <2>5
<1> QED  BY ExactAlways, <1>1, PTL

-----------------------------------------------------------------------------
(* Exact values: precision                                                 *)

\* Bit o of byte j, where less of the byte is kept.
LEMMA CutBit ==
  ASSUME SettingOK, NEW j \in 1 .. bytes, NEW x \in 0 .. 255, NEW o \in 0 .. 7,
         NEW c, c = Cut(j, x)
  PROVE  /\ 8 * (j - 1) + o < reqLength =>
              (c \div Pow(7 - o)) % 2 = (x \div Pow(7 - o)) % 2
         /\ 8 * (j - 1) + o >= reqLength => (c \div Pow(7 - o)) % 2 = 0
<1> DEFINE B == reqBytesLength
           r == resiBitsLength
<1>1. reqLength \in Nat /\ B \in Nat /\ r \in 0 .. 7 /\ reqLength = 8 * B + r /\ bytes \in Nat
  BY LengthIs DEF SettingOK
<1>2. 7 - o \in 0 .. 8 /\ Pow(7 - o) \in Nat \ {0}
  <2>1. 7 - o \in 0 .. 8  OBVIOUS
  <2> QED  BY <2>1, PowPos
<1>3. \A d \in Nat \ {0} : (0 \div d) % 2 = 0  OBVIOUS
<1>4. /\ j <= B => c = x
      /\ j = B + 1 => c = (x \div Pow(8 - r)) * Pow(8 - r)
      /\ j > B /\ (j = B + 1 => r = 0) => c = 0
  BY CutIs
<1>5. j \in Nat /\ o \in Nat /\ o <= 7  BY <1>1
<1> HIDE DEF B, r
<1>6. CASE j <= B
  <2>1. ~ 8 * (j - 1) + o >= reqLength  BY <1>1, <1>5, <1>6
  <2> QED  BY <1>4, <1>6, <2>1
<1>7. CASE j > B /\ (j = B + 1 => r = 0)
  <2>1. ~ 8 * (j - 1) + o < reqLength
    <3>1. CASE j = B + 1  BY <3>1, <1>1, <1>5, <1>7
    <3>2. CASE j # B + 1
      <4>1. j >= B + 2  BY <3>2, <1>1, <1>5, <1>7
      <4> QED  BY <4>1, <1>1, <1>5
    <3> QED  BY <3>1, <3>2
  <2> QED  BY <1>2, <1>3, <1>4, <1>7, <2>1
<1>8. CASE j = B + 1 /\ r # 0
  <2> DEFINE d == Pow(8 - r)
             q == x \div d
             y == x % d
  <2>1. 8 - r \in 0 .. 8 /\ d \in Nat \ {0}
    <3>1. 8 - r \in 0 .. 8  BY <1>1
    <3> QED  BY <3>1, PowPos
  <2>2. q \in Nat /\ y \in 0 .. d - 1 /\ x = q * d + y /\ 0 \in 0 .. d - 1
    <3>1. x \in Nat  OBVIOUS
    <3> HIDE DEF d
    <3>2. q \in Nat /\ y \in 0 .. d - 1 /\ x = d * q + y  BY <3>1, <2>1, DivMod
    <3> HIDE DEF q, y
    <3>3. d * q = q * d  BY <2>1, <3>2
    <3> QED  BY <2>1, <3>2, <3>3
  <2>3. c = q * d + 0
    <3>1. c = q * d  BY <1>4, <1>8
    <3>2. q * d \in Nat
      <4> HIDE DEF q, d
      <4> QED  BY <2>1, <2>2
    <3> HIDE DEF q, d
    <3> QED  BY <3>1, <3>2
  <2> HIDE DEF d, q, y
  <2>4. CASE o < r
    <3>1. ~ 8 * (j - 1) + o >= reqLength  BY <1>1, <1>5, <1>8, <2>4
    <3> DEFINE e == Pow(r - 1 - o)
    <3>2. r - 1 - o \in 0 .. 8 /\ (8 - r) + (r - 1 - o) = 7 - o /\ (8 - r) + (r - 1 - o) <= 8
      BY <1>1, <1>5, <2>4
    <3>3. e \in Nat \ {0}  BY ONLY <3>2, PowPos
    <3>4. Pow(7 - o) = d * e
      <4>1. Pow(8 - r) * Pow(r - 1 - o) = Pow((8 - r) + (r - 1 - o))
        BY ONLY <2>1, <3>2, PowSum
      <4> QED  BY <4>1, <3>2 DEF d
    <3> HIDE DEF e
    <3>5. (q * d + y) \div (d * e) = q \div e  BY ONLY <2>1, <2>2, <3>3, DivLow
    <3>6. (q * d + 0) \div (d * e) = q \div e  BY ONLY <2>1, <2>2, <3>3, DivLow
    <3>7. c \div Pow(7 - o) = x \div Pow(7 - o)
      BY ONLY <2>2, <2>3, <3>4, <3>5, <3>6, Zenon
    <3> QED  BY <3>1, <3>7
  <2>5. CASE o >= r
    <3>1. ~ 8 * (j - 1) + o < reqLength  BY <1>1, <1>5, <1>8, <2>5
    <3> DEFINE e == Pow(o - r)
               f == Pow(7 - o)
    <3>2. /\ o - r \in 0 .. 8 /\ 1 \in 0 .. 8 /\ 1 + (o - r) \in 0 .. 8 /\ 1 + (o - r) <= 8
          /\ (7 - o) + (1 + (o - r)) = 8 - r /\ (7 - o) + (1 + (o - r)) <= 8
      BY <1>1, <1>5, <2>5
    <3>3. e \in Nat \ {0} /\ Pow(1) = 2
      <4>1. e \in Nat \ {0}  BY ONLY <3>2, PowPos
      <4> QED  BY <4>1, Powers
    <3>4. Pow(1 + (o - r)) = 2 * e
      <4>1. Pow(1) * Pow(o - r) = Pow(1 + (o - r))  BY ONLY <3>2, PowSum
      <4> QED  BY <4>1, <3>3
    <3>5. d = f * (2 * e)
      <4>1. Pow(7 - o) * Pow(1 + (o - r)) = Pow((7 - o) + (1 + (o - r)))
        BY ONLY <1>2, <3>2, PowSum
      <4> QED  BY <4>1, <3>2, <3>4 DEF d
    <3>6. f \in Nat \ {0}  BY <1>2
    <3> HIDE DEF e, f
    <3>7. q * d + 0 = (2 * (q * e)) * f + 0
      <4>1. q * (f * (2 * e)) = (2 * (q * e)) * f  BY <2>2, <3>3, <3>6
      <4> QED  BY <4>1, <3>5
    <3>8. q * e \in Nat /\ 2 * (q * e) \in Nat /\ 0 \in 0 .. f - 1  BY <2>2, <3>3, <3>6
    <3>9. ((2 * (q * e)) * f + 0) \div f = 2 * (q * e)  BY ONLY <3>6, <3>8, PartsOf
    <3>10. \A n \in Nat : (2 * n) % 2 = 0  OBVIOUS
    <3>11. (c \div f) % 2 = 0  BY ONLY <2>3, <3>7, <3>8, <3>9, <3>10, Zenon
    <3> QED  BY <3>1, <3>11 DEF f
  <2> QED  BY <2>4, <2>5, <1>1, <1>5
<1> QED  BY <1>1, <1>5, <1>6, <1>7, <1>8

LEMMA BitKept ==
  ASSUME SettingOK, NEW w \in Word8, NEW i \in 0 .. 8 * bytes - 1
  PROVE  /\ i < reqLength => Bit(Truncated(w), i) = Bit(w, i)
         /\ i >= reqLength => Bit(Truncated(w), i) = 0
<1> DEFINE j == i \div 8 + 1
           o == i % 8
           c == Truncated(w)[j]
<1>1. j \in 1 .. bytes /\ o \in 0 .. 7 /\ 8 * (j - 1) + o = i
  <2>1. \A n \in Nat : n \div 8 \in Nat /\ n % 8 \in 0 .. 7 /\ n = 8 * (n \div 8) + (n % 8)
    OBVIOUS
  <2>2. i \in Nat /\ bytes \in Nat /\ i <= 8 * bytes - 1  BY DEF SettingOK
  <2>3. i \div 8 \in Nat /\ o \in 0 .. 7 /\ i = 8 * (i \div 8) + o  BY <2>1, <2>2
  <2> DEFINE n == i \div 8
  <2> HIDE DEF n, o
  <2>4. n \in Nat /\ o \in 0 .. 7 /\ i = 8 * n + o /\ j = n + 1  BY <2>3 DEF n
  <2> HIDE DEF j
  <2> QED  BY ONLY <2>2, <2>4
<1>2. Bit(w, i) = (w[j] \div Pow(7 - o)) % 2 /\ Bit(Truncated(w), i) = (c \div Pow(7 - o)) % 2
  BY DEF Bit, Pow
<1>3. w[j] \in 0 .. 255  BY <1>1 DEF Word8
<1>4. c = Cut(j, w[j])  BY <1>1, TruncatedIs DEF Word8
<1> HIDE DEF j, o, c
<1>5. /\ 8 * (j - 1) + o < reqLength => (c \div Pow(7 - o)) % 2 = (w[j] \div Pow(7 - o)) % 2
      /\ 8 * (j - 1) + o >= reqLength => (c \div Pow(7 - o)) % 2 = 0
  BY <1>1, <1>3, <1>4, CutBit
<1> QED  BY <1>1, <1>2, <1>5

LEMMA ExponentIs ==
  ASSUME SettingOK, NEW w \in Word8
  PROVE  Len(w) = bytes /\ Exponent(w) \in Int
<1>1. Len(w) = bytes
  <2>1. bytes \in Nat  BY DEF SettingOK
  <2> QED  BY <2>1, WordLength DEF Word8
<1>2. w[1] \in 0 .. 255 /\ w[2] \in 0 .. 255
  <2>1. 1 \in 1 .. bytes /\ 2 \in 1 .. bytes  BY DEF SettingOK
  <2> QED  BY <2>1 DEF Word8
<1>3. 2 ^ 1 = 2 /\ 2 ^ 7 = 128 /\ 2 ^ 4 = 16 /\ 2 ^ 10 = 1024  OBVIOUS
<1>4. CASE bytes = 4
  <2>1. SignBits(Len(w)) - 1 = 8 /\ 8 - 7 = 1 /\ 15 - 8 = 7 /\ 8 - 1 = 7  BY <1>1, <1>4 DEF SignBits
  <2>2. Exponent(w) = (w[1] % 128) * 2 + (w[2] \div 128) - (128 - 1)
    <3> DEFINE e == SignBits(Len(w)) - 1
    <3>1. Exponent(w) = (w[1] % 128) * 2 ^ (e - 7) + (w[2] \div 2 ^ (15 - e)) - (2 ^ (e - 1) - 1)
      BY DEF Exponent
    <3>2. e = 8  BY <2>1
    <3> HIDE DEF e
    <3> QED  BY ONLY <3>1, <3>2
  <2>3. w[1] % 128 \in Int /\ w[2] \div 128 \in Int  BY <1>2
  <2> QED  BY <1>1, <2>2, <2>3
<1>5. CASE bytes = 8
  <2>1. SignBits(Len(w)) - 1 = 11 /\ 11 - 7 = 4 /\ 15 - 11 = 4 /\ 11 - 1 = 10
    BY <1>1, <1>5 DEF SignBits
  <2>2. Exponent(w) = (w[1] % 128) * 16 + (w[2] \div 16) - (1024 - 1)
    <3> DEFINE e == SignBits(Len(w)) - 1
    <3>1. Exponent(w) = (w[1] % 128) * 2 ^ (e - 7) + (w[2] \div 2 ^ (15 - e)) - (2 ^ (e - 1) - 1)
      BY DEF Exponent
    <3>2. e = 11  BY <2>1
    <3> HIDE DEF e
    <3> QED  BY ONLY <3>1, <3>2
  <2>3. w[1] % 128 \in Int /\ w[2] \div 16 \in Int  BY <1>2
  <2> QED  BY <1>1, <2>2, <2>3
<1> QED  BY <1>4, <1>5 DEF SettingOK

\* The bits kept are enough for the precision.
LEMMA NearEnough ==
  ASSUME SettingOK, NEW w \in Word8, InRange(w)
  PROVE  NearWord(reqExpo, w, Truncated(w))
<1> DEFINE sign == SignBits(bytes)
           same == Least(8 * bytes, Greatest(sign, sign + Exponent(w) - reqExpo))
<1>1. Len(w) = bytes /\ Exponent(w) \in Int  BY ExponentIs
<1>2. bytes \in {4, 8} /\ radExpo \in Int /\ reqExpo \in Int  BY DEF SettingOK
<1>3. same \in Int /\ same <= 8 * bytes /\ sign \in Nat  BY <1>1, <1>2 DEF Least, Greatest, SignBits
<1>4. reqLength \in Nat /\ reqLength >= sign
  BY <1>2 DEF reqLength, Least, Greatest, SignBits, Extra
<1> SUFFICES ASSUME NEW i \in 0 .. same - 1 PROVE Bit(Truncated(w), i) = Bit(w, i)
  BY <1>1 DEF NearWord
<1>5. i \in 0 .. 8 * bytes - 1  BY <1>2, <1>3
<1>6. CASE i < reqLength  BY <1>5, <1>6, BitKept
<1>7. CASE i >= reqLength
  <2>1. ~ Exponent(w) <= radExpo
    <3>1. SUFFICES ASSUME Exponent(w) <= radExpo PROVE same <= reqLength
      BY <1>3, <1>4, <1>7
    <3> QED  BY <1>1, <1>2, <3>1 DEF reqLength, Least, Greatest, SignBits, Extra
  <2>2. \A n \in sign .. 8 * bytes - 1 : Bit(w, n) = 0  BY <2>1 DEF InRange
  <2>3. i \in sign .. 8 * bytes - 1
    <3> HIDE DEF sign, same
    <3> QED  BY <1>2, <1>3, <1>4, <1>5, <1>7
  <2>4. Bit(w, i) = 0  BY <2>2, <2>3
  <2> QED  BY <2>4, <1>5, <1>7, BitKept
<1> QED  BY <1>3, <1>4, <1>6, <1>7

-----------------------------------------------------------------------------
(* Exact values: the abstract store                                        *)

AllInRange == \A i \in 1 .. Len(given) : InRange(given[i])

LEMMA InRangeStays ==
  ASSUME ExactInv, AllInRange, [Next]_vars PROVE AllInRange'
<1>1. given \in Seq(Word8)  BY DEF ExactInv, Encoded
<1>2. ASSUME NEW w \in Words, CompressSingleValue(w) PROVE AllInRange'
  <2>1. InRange(w) /\ given' = Append(given, w) /\ UNCHANGED setting /\ SettingOK
    BY <1>2 DEF CompressSingleValue, addExactData, ExactInv
  <2>2. w \in Word8  BY <1>2, WordOf DEF CompressSingleValue, ExactInv
  <2>3. \A i : InRange(given[i])' <=> InRange(given'[i])
    BY <2>1 DEF InRange, setting, Exponent, SignBits, Bit
  <2> DEFINE n == Len(given)
  <2>4. /\ n \in Nat /\ Len(given') = n + 1 /\ given'[n + 1] = w
        /\ \A i \in 1 .. n : given'[i] = given[i]
    BY <1>1, <2>1, <2>2
  <2> SUFFICES ASSUME NEW i \in 1 .. n + 1 PROVE InRange(given'[i])
    BY <2>3, <2>4 DEF AllInRange
  <2>5. CASE i = n + 1  BY <2>1, <2>4, <2>5
  <2>6. CASE i # n + 1
    <3>1. i \in 1 .. n  BY <2>4, <2>6
    <3> QED  BY <3>1, <2>4 DEF AllInRange
  <2> QED  BY <2>5, <2>6
<1>3. ASSUME UNCHANGED <<setting, given>> PROVE AllInRange'
  <2>1. \A i : InRange(given[i])' <=> InRange(given[i])
    BY <1>3 DEF InRange, setting, Exponent, SignBits, Bit
  <2>2. given' = given  BY <1>3
  <2> QED  BY <2>1, <2>2 DEF AllInRange
<1>4. CASE Finish  BY <1>3, <1>4 DEF Finish
<1>5. CASE RecoverExact  BY <1>3, <1>5 DEF RecoverExact
<1>6. CASE UNCHANGED vars  BY <1>3, <1>6 DEF vars
<1> QED  BY <1>2, <1>4, <1>5, <1>6 DEF Next

\* A value recovered is taken from the store.
LEMMA RecoverTakes ==
  ASSUME ExactInv, AllInRange, RecoverExact, ExactInv' PROVE Store!Take
<1>1. PICK start : Encoded(start) /\ (Before \/ Decoded(start))  BY DEF ExactInv
<1>2. SettingOK  BY DEF ExactInv
<1>3. packed # << >> /\ Len(out) < Len(given) /\ given' = given /\ UNCHANGED setting
      /\ packed' = packed
  BY DEF RecoverExact
<1>4. Decoded(start)  BY <1>1, <1>3 DEF Before
<1> DEFINE l == Len(out)
           w == given[l + 1]
<1>5. given \in Seq(Word8) /\ out \in Seq(Word8) /\ l \in Nat /\ Len(given) \in Nat
  BY <1>1, <1>4 DEF Encoded, Decoded
<1>6. l + 1 \in 1 .. Len(given)  BY <1>3, <1>5
<1>7. w \in Word8 /\ InRange(w)  BY <1>5, <1>6, ElementOfSeq DEF AllInRange
<1>8. PICK x : out' = Append(out, x)  BY DEF RecoverExact
<1>9. PICK after : Encoded(after)' /\ (Before' \/ Decoded(after)')  BY DEF ExactInv
<1>10. Decoded(after)'  BY <1>3, <1>9 DEF Before
<1>11. out' \in Seq(Word8') /\ \A i \in 1 .. Len(out') : out'[i] = Truncated(given[i])'
  BY <1>10 DEF Decoded
<1>12. Len(out') = l + 1 /\ \A i \in 1 .. l : out'[i] = out[i]
  BY <1>5, <1>8
<1>13. out'[l + 1] = Truncated(w)
  <2>1. l + 1 \in 1 .. Len(out')  BY <1>5, <1>12
  <2>2. \A i : Truncated(given[i])' = Truncated(given[i])
    BY <1>3 DEF Truncated, reqLength, setting
  <2>3. \A i \in 1 .. Len(out') : out'[i] = Truncated(given[i])  BY <1>11, <2>2
  <2> QED  BY <2>1, <2>3
<1>14. SubSeq(out', 1, l) = out
  <2>1. Word8' = Word8  BY <1>3 DEF Word8, setting
  <2>2. out' \in Seq(Word8)  BY <1>11, <2>1
  <2> DEFINE s == SubSeq(out', 1, l)
  <2>3. \A i \in 1 .. l : out'[i] \in Word8  BY <1>5, <1>12, ElementOfSeq
  <2>4. s \in Seq(Word8) /\ Len(s) = l /\ \A i \in 1 .. l : s[i] = out'[i]
    <3>1. /\ s \in Seq(Word8) /\ Len(s) = (IF 1 <= l THEN l - 1 + 1 ELSE 0)
          /\ \A i \in 1 .. l - 1 + 1 : s[i] = out'[1 + i - 1]
      BY <1>5, <2>3, SubSeqProperties
    <3>2. l - 1 + 1 = l /\ (1 <= l \/ l = 0) /\ \A i \in 1 .. l : 1 + i - 1 = i  BY <1>5
    <3> HIDE DEF s
    <3> QED  BY <3>1, <3>2
  <2>5. \A i \in 1 .. l : s[i] = out[i]  BY <2>4, <1>12
  <2> HIDE DEF s, l
  <2>6. Len(s) = Len(out)  BY <2>4 DEF l
  <2>7. s = out  BY <2>4, <2>5, <2>6, <1>5, SeqEqual
  <2> QED  BY <2>7 DEF s
<1>15. NearWord(reqExpo, w, Truncated(w))  BY <1>2, <1>7, NearEnough
<1>16. given[Len(out')] = w /\ out'[Len(out')] = Truncated(w)  BY <1>12, <1>13
<1>17. reqExpo' = reqExpo  BY <1>3 DEF setting
<1> QED  BY <1>3, <1>12, <1>14, <1>15, <1>16, <1>17 DEF Store!Take

\* Values come back in the order they were stored in, each within the precision,
\* whatever values were before it: the storage implements ExactStore
\* (sz_float.c:546-568, szd_float.c:276-317).
THEOREM Implements == Spec => StoreImplemented
<1> DEFINE J == ExactInv /\ AllInRange
<1>1. Init => J /\ Store!Init
  <2> SUFFICES ASSUME Init PROVE J /\ Store!Init  OBVIOUS
  <2>1. given = << >> /\ out = << >>  BY DEF Init
  <2>2. AllInRange  BY <2>1 DEF AllInRange
  <2> QED  BY <2>1, <2>2, ExactInitially DEF Store!Init
<1>2. J /\ [Next]_vars /\ ExactInv' => J'  BY InRangeStays
<1>3. J /\ [Next]_vars /\ ExactInv' => [Store!Next]_(Store!vars)
  <2> SUFFICES ASSUME J, [Next]_vars, ExactInv' PROVE [Store!Next]_(Store!vars)  OBVIOUS
  <2>1. ASSUME NEW w \in Words, CompressSingleValue(w) PROVE Store!Put(w)
    <3>1. packed = << >> /\ given' = Append(given, w) /\ UNCHANGED <<setting, decoder>>
      BY <2>1 DEF CompressSingleValue, addExactData
    <3>2. PICK start : Before \/ Decoded(start)  BY DEF ExactInv
    <3>3. ~ Decoded(start)  BY <3>1, RecordIsNotEmpty DEF Decoded
    <3>4. out = << >>  BY <3>2, <3>3 DEF Before
    <3> QED  BY <3>1, <3>4 DEF Store!Put, setting, decoder
  <2>2. CASE Finish
    <3>1. UNCHANGED <<setting, given, decoder>>  BY <2>2 DEF Finish
    <3> QED  BY <3>1 DEF Store!vars, setting, decoder
  <2>3. CASE RecoverExact
    <3>1. Store!Take  BY <2>3, RecoverTakes
    <3> QED  BY <3>1 DEF Store!Next
  <2>4. CASE UNCHANGED vars
    BY <2>4 DEF Store!vars, vars, setting, decoder
  <2> QED  BY <2>1, <2>2, <2>3, <2>4 DEF Next, Store!Next
<1>4. Store!Init /\ [][Store!Next]_(Store!vars) => StoreImplemented
  BY DEF StoreImplemented, Store!Spec
<1> HIDE DEF J
<1> QED  BY <1>1, <1>2, <1>3, <1>4, ExactAlways, PTL DEF Spec
-----------------------------------------------------------------------------
(* Codes: classes                                                          *)

LEMMA SmallPowers ==
  /\ Pow(0) = 1 /\ Pow(1) = 2 /\ Pow(2) = 4 /\ Pow(3) = 8 /\ Pow(4) = 16 /\ Pow(5) = 32
  /\ Pow(6) = 64 /\ Pow(7) = 128 /\ Pow(8) = 256 /\ Pow(9) = 512 /\ Pow(10) = 1024
  /\ Pow(11) = 2048 /\ Pow(12) = 4096 /\ Pow(13) = 8192 /\ Pow(14) = 16384
  /\ Pow(15) = 32768 /\ Pow(16) = 65536
BY DEF Pow

LEMMA Doubles ==
  ASSUME NEW n \in 0 .. 15 PROVE Pow(n) \in Nat /\ 0 < Pow(n) /\ Pow(n + 1) = Pow(n) + Pow(n)
<1>1. \/ (n = 0 /\ n + 1 = 1) \/ (n = 1 /\ n + 1 = 2) \/ (n = 2 /\ n + 1 = 3)
      \/ (n = 3 /\ n + 1 = 4) \/ (n = 4 /\ n + 1 = 5) \/ (n = 5 /\ n + 1 = 6)
      \/ (n = 6 /\ n + 1 = 7) \/ (n = 7 /\ n + 1 = 8) \/ (n = 8 /\ n + 1 = 9)
      \/ (n = 9 /\ n + 1 = 10) \/ (n = 10 /\ n + 1 = 11) \/ (n = 11 /\ n + 1 = 12)
      \/ (n = 12 /\ n + 1 = 13) \/ (n = 13 /\ n + 1 = 14) \/ (n = 14 /\ n + 1 = 15)
      \/ (n = 15 /\ n + 1 = 16)
  OBVIOUS
<1> QED  BY <1>1, SmallPowers

\* Up to 24, a class begins where the one before it ends.
LEMMA SmallClasses ==
  ASSUME NEW c \in 0 .. 24
  PROVE  /\ Base(c) \in Nat /\ Width(c) \in 0 .. 4
         /\ Base(c + 1) = Base(c) + Pow(Width(c))
         /\ (Width(c) = 0) <=> (c < 16)
<1>1. CASE c < 15
  <2>1. Base(c) = c /\ Base(c + 1) = c + 1 /\ Width(c) = 0
    BY <1>1 DEF Base, Width, Positive, POSITIVE_CODE_NUM
  <2> QED  BY <2>1, <1>1, SmallPowers
<1>2. CASE c \in 15 .. 24
  <2>1. /\ Base(15) = 15 /\ Base(16) = 16 /\ Base(17) = 18 /\ Base(18) = 20 /\ Base(19) = 22
        /\ Base(20) = 24 /\ Base(21) = 28 /\ Base(22) = 32 /\ Base(23) = 40 /\ Base(24) = 48
        /\ Base(25) = 64
        /\ Width(15) = 0 /\ Width(16) = 1 /\ Width(17) = 1 /\ Width(18) = 1 /\ Width(19) = 1
        /\ Width(20) = 2 /\ Width(21) = 2 /\ Width(22) = 3 /\ Width(23) = 3 /\ Width(24) = 4
    BY SmallPowers DEF Base, Width, Positive, POSITIVE_CODE_NUM
  <2>2. \/ (c = 15 /\ c + 1 = 16) \/ (c = 16 /\ c + 1 = 17) \/ (c = 17 /\ c + 1 = 18)
        \/ (c = 18 /\ c + 1 = 19) \/ (c = 19 /\ c + 1 = 20) \/ (c = 20 /\ c + 1 = 21)
        \/ (c = 21 /\ c + 1 = 22) \/ (c = 22 /\ c + 1 = 23) \/ (c = 23 /\ c + 1 = 24)
        \/ (c = 24 /\ c + 1 = 25)
    BY <1>2
  <2> QED  BY <2>1, <2>2, SmallPowers
<1> QED  BY <1>1, <1>2

LEMMA LargeClasses ==
  ASSUME NEW n \in 6 .. 14
  PROVE  Base(19 + n) = Pow(n) /\ Width(19 + n) = n
<1>1. 19 + n \in 25 .. 33 /\ (19 + n) - 19 = n  OBVIOUS
<1> QED  BY <1>1 DEF Base, Width, Positive, POSITIVE_CODE_NUM, Pow

LEMMA Log2Is ==
  ASSUME NEW f \in Nat, 64 <= f, f < Pow(15)
  PROVE  Log2(f) \in 6 .. 14 /\ Pow(Log2(f)) <= f /\ f < Pow(Log2(f)) + Pow(Log2(f))
<1> DEFINE Between(m) == Pow(m) <= f /\ f < Pow(m + 1)
<1>1. /\ f < 128 => Between(6)
      /\ 128 <= f /\ f < 256 => Between(7)
      /\ 256 <= f /\ f < 512 => Between(8)
      /\ 512 <= f /\ f < 1024 => Between(9)
      /\ 1024 <= f /\ f < 2048 => Between(10)
      /\ 2048 <= f /\ f < 4096 => Between(11)
      /\ 4096 <= f /\ f < 8192 => Between(12)
      /\ 8192 <= f /\ f < 16384 => Between(13)
      /\ 16384 <= f => Between(14)
  BY SmallPowers DEF Pow
<1>2. /\ ~ Between(0) /\ ~ Between(1) /\ ~ Between(2) /\ ~ Between(3) /\ ~ Between(4)
      /\ ~ Between(5) /\ ~ Between(15) /\ ~ Between(16) /\ ~ Between(17) /\ ~ Between(18)
      /\ ~ Between(19) /\ ~ Between(20) /\ ~ Between(21) /\ ~ Between(22) /\ ~ Between(23)
      /\ ~ Between(24) /\ ~ Between(25) /\ ~ Between(26) /\ ~ Between(27) /\ ~ Between(28)
      /\ ~ Between(29) /\ ~ Between(30)
  BY SmallPowers DEF Pow
<1>3. Log2(f) = CHOOSE m \in 0 .. 30 : Between(m)  BY DEF Log2, Pow
<1>4. \A m \in 6 .. 14 : Between(m) => Pow(m) <= f /\ f < Pow(m) + Pow(m)
  <2> SUFFICES ASSUME NEW m \in 6 .. 14, Between(m)
               PROVE  Pow(m) <= f /\ f < Pow(m) + Pow(m)
    OBVIOUS
  <2>1. m \in 0 .. 15  OBVIOUS
  <2>2. Pow(m + 1) = Pow(m) + Pow(m)  BY <2>1, Doubles, Zenon
  <2> QED  BY <2>2
<1> HIDE DEF Between
<1>5. \E m \in 0 .. 30 : Between(m)
  <2>1. \/ Between(6) \/ Between(7) \/ Between(8) \/ Between(9) \/ Between(10) \/ Between(11)
        \/ Between(12) \/ Between(13) \/ Between(14)
    BY <1>1
  <2> QED  BY <2>1
<1>6. Log2(f) \in 0 .. 30 /\ Between(Log2(f))  BY <1>3, <1>5
<1>7. Log2(f) \in 6 .. 14
  <2>1. \A m \in 0 .. 30 : m \notin 6 .. 14 => ~ Between(m)  BY <1>2
  <2> QED  BY <2>1, <1>6
<1> QED  BY <1>4, <1>6, <1>7

\* The class of a factor, in which the offset fits the width.
LEMMA Int2codeIs ==
  ASSUME NEW f \in Nat, f < Pow(15)
  PROVE  /\ Int2code(f) \in 0 .. 33 /\ Base(Int2code(f)) \in Nat
         /\ Width(Int2code(f)) \in 0 .. 14
         /\ Base(Int2code(f)) <= f /\ f < Base(Int2code(f)) + Pow(Width(Int2code(f)))
         /\ f > 0 => Int2code(f) > 0
<1>1. CASE f > 63
  <2> DEFINE n == Log2(f)
  <2>1. Int2code(f) = 19 + n  BY <1>1 DEF Int2code
  <2>2. n \in 6 .. 14 /\ Pow(n) <= f /\ f < Pow(n) + Pow(n)  BY <1>1, Log2Is
  <2> HIDE DEF n
  <2>3. Base(19 + n) = Pow(n) /\ Width(19 + n) = n  BY <2>2, LargeClasses
  <2>4. Pow(n) \in Nat
    <3>1. n \in 0 .. 15  BY <2>2
    <3> QED  BY <3>1, Doubles, Zenon
  <2> QED  BY <2>1, <2>2, <2>3, <2>4
<1>2. CASE f <= 63
  <2> DEFINE Within(c) == Base(c) <= f /\ f < Base(c + 1)
             c0 == Int2code(f)
  <2>1. \E c \in 0 .. 24 : Within(c)
    <3>1. CASE f < 16
      <4>1. f \in 0 .. 15  BY <3>1
      <4>2. Base(f) = f  BY <4>1 DEF Base, Positive, POSITIVE_CODE_NUM
      <4>3. f + 1 <= 15 => Base(f + 1) = f + 1
        BY <4>1 DEF Base, Positive, POSITIVE_CODE_NUM
      <4>4. f = 15 => Base(f + 1) = 16
        BY DEF Base, Positive, POSITIVE_CODE_NUM
      <4>5. Within(f)  BY <4>1, <4>2, <4>3, <4>4
      <4> QED  BY <4>1, <4>5
    <3>2. CASE f >= 16
      <4>1. /\ Base(16) = 16 /\ Base(17) = 18 /\ Base(18) = 20 /\ Base(19) = 22
            /\ Base(20) = 24 /\ Base(21) = 28 /\ Base(22) = 32 /\ Base(23) = 40
            /\ Base(24) = 48 /\ Base(25) = 64
        BY SmallPowers DEF Base, Positive, POSITIVE_CODE_NUM, Pow
      <4>2. \/ Within(16) \/ Within(17) \/ Within(18) \/ Within(19) \/ Within(20)
            \/ Within(21) \/ Within(22) \/ Within(23) \/ Within(24)
        BY <4>1, <3>2, <1>2
      <4> HIDE DEF Within
      <4> QED  BY <4>2
    <3> QED  BY <3>1, <3>2
  <2>2. c0 = CHOOSE c \in 0 .. 24 : Within(c)  BY <1>2 DEF Int2code
  <2>3. c0 \in 0 .. 24 /\ Within(c0)
    <3> HIDE DEF Within, c0
    <3> QED  BY <2>1, <2>2
  <2> HIDE DEF c0
  <2>4. /\ Base(c0) \in Nat /\ Width(c0) \in 0 .. 4 /\ Base(c0 + 1) = Base(c0) + Pow(Width(c0))
    BY <2>3, SmallClasses
  <2>5. Base(1) = 1  BY DEF Base, Positive, POSITIVE_CODE_NUM
  <2>6. f > 0 => c0 > 0
    <3> SUFFICES ASSUME c0 = 0 PROVE f = 0  BY <2>3
    <3> QED  BY <2>3, <2>5
  <2> QED  BY <2>3, <2>4, <2>6 DEF c0
<1> QED  BY <1>1, <1>2

\* The classes reach the whole alphabet: the table of ADT-FSE ends at factors of
\* 32767.  Without it TypeStreamWide.cfg has a counterexample.
Reach == "adt-fse" \in EntropyTypes => Intervals <= 65536

LEMMA Middle ==
  Intervals \in Nat /\ md \in Nat \ {0} /\ Intervals = md + md
<1>1. PICK n \in 1 .. Intervals : Intervals = 2 * n  BY TypeStreamAssumption
<1>2. n \in Int /\ Intervals \in Int  BY <1>1
<1> QED  BY <1>1, <1>2 DEF md

\* Both sides of a code other than 0: its distance from the middle has a class,
\* and the width of what the class and the mirrored class are read with is one.
LEMMA Distance ==
  ASSUME Reach, "adt-fse" \in EntropyTypes, NEW t \in 1 .. Intervals - 1
  PROVE  /\ t >= md => t - md \in Nat /\ t - md < Pow(15)
         /\ t < md => md - t \in Nat /\ md - t < Pow(15) /\ md - t > 0
<1>1. Pow(15) = 32768  BY SmallPowers
<1> QED  BY <1>1, Middle DEF Reach

LEMMA Mirrored ==
  ASSUME NEW c \in 1 .. 33
  PROVE  /\ TOTAL_CODE_NUM - c \in 34 .. 66
         /\ Base(TOTAL_CODE_NUM - c) = -Base(c) /\ Width(TOTAL_CODE_NUM - c) = Width(c)
<1>1. /\ TOTAL_CODE_NUM - c \in 34 .. 66 /\ TOTAL_CODE_NUM - (TOTAL_CODE_NUM - c) = c
      /\ ~ TOTAL_CODE_NUM - c < POSITIVE_CODE_NUM /\ c < POSITIVE_CODE_NUM
  BY DEF TOTAL_CODE_NUM, POSITIVE_CODE_NUM
<1> QED  BY <1>1 DEF Base, Width

\* What DecodeFse makes of a class and an offset.
FromClass(c, d) == md + Base(c) + (IF c < POSITIVE_CODE_NUM THEN d ELSE -d)

\* A code other than 0 is split into a class and an offset that fits it, from
\* which it is put together again.
LEMMA SplitCode ==
  ASSUME Reach, "adt-fse" \in EntropyTypes, NEW t \in 1 .. Intervals - 1
  PROVE  /\ type2code(t) \in 0 .. 66 /\ Width(type2code(t)) \in 0 .. 14
         /\ diff(t) \in Nat /\ diff(t) < Pow(Width(type2code(t)))
         /\ FromClass(type2code(t), diff(t)) = t
<1>1. CASE t >= md
  <2> DEFINE f == t - md
             c == Int2code(f)
  <2>1. f \in Nat /\ f < Pow(15)  BY <1>1, Distance
  <2>2. type2code(t) = c /\ diff(t) = f - Base(c)  BY <1>1 DEF type2code, diff
  <2>3. f \in Int /\ md \in Int /\ t \in Int /\ md + f = t  BY <1>1, Middle
  <2> HIDE DEF f
  <2>4. /\ c \in 0 .. 33 /\ Base(c) \in Nat /\ Width(c) \in 0 .. 14
        /\ Base(c) <= f /\ f < Base(c) + Pow(Width(c))
    BY <2>1, Int2codeIs
  <2> HIDE DEF c
  <2>5. Pow(Width(c)) \in Nat
    <3>1. Width(c) \in 0 .. 15  BY <2>4
    <3> QED  BY <3>1, Doubles, Zenon
  <2>6. f - Base(c) \in Nat /\ f - Base(c) < Pow(Width(c))  BY <2>3, <2>4, <2>5
  <2>7. FromClass(c, f - Base(c)) = t
    BY <2>3, <2>4 DEF FromClass, POSITIVE_CODE_NUM
  <2>8. c \in 0 .. 66  BY <2>4
  <2> QED  BY <2>2, <2>4, <2>6, <2>7, <2>8
<1>2. CASE t < md
  <2> DEFINE f == md - t
             c == Int2code(f)
             m == TOTAL_CODE_NUM - c
  <2>1. f \in Nat /\ f < Pow(15) /\ f > 0  BY <1>2, Distance
  <2>2. type2code(t) = m /\ diff(t) = f - Base(c)
    BY <1>2, Middle DEF type2code, diff
  <2>3. f \in Int /\ md \in Int /\ t \in Int /\ md - f = t  BY <1>2, Middle
  <2> HIDE DEF f
  <2>4. /\ c \in 0 .. 33 /\ Base(c) \in Nat /\ Width(c) \in 0 .. 14
        /\ Base(c) <= f /\ f < Base(c) + Pow(Width(c)) /\ c > 0
    BY <2>1, Int2codeIs
  <2> HIDE DEF c
  <2>5. Pow(Width(c)) \in Nat
    <3>1. Width(c) \in 0 .. 15  BY <2>4
    <3> QED  BY <3>1, Doubles, Zenon
  <2>6. f - Base(c) \in Nat /\ f - Base(c) < Pow(Width(c))  BY <2>3, <2>4, <2>5
  <2>7. m \in 34 .. 66 /\ Base(m) = -Base(c) /\ Width(m) = Width(c)
    <3>1. c \in 1 .. 33  BY <2>4
    <3> QED  BY <3>1, Mirrored
  <2> HIDE DEF m
  <2>8. FromClass(m, f - Base(c)) = t
    BY <2>3, <2>4, <2>7 DEF FromClass, POSITIVE_CODE_NUM
  <2>9. m \in 0 .. 66  BY <2>7
  <2> QED  BY <2>2, <2>4, <2>6, <2>7, <2>8, <2>9
<1> QED  BY <1>1, <1>2, Middle

-----------------------------------------------------------------------------
(* Codes: where the offset of a code is                                    *)

Class(t) == IF t = 0 THEN TOTAL_CODE_NUM ELSE type2code(t)
Wide(t) == t # 0 /\ Width(type2code(t)) # 0
Offset(t) == [n |-> Width(type2code(t)), v |-> diff(t)]
Offsets == [n : 1 .. 14, v : Nat]

\* Of the codes ty, all but the last m have their offset in b, where cnt counts.
Placed(ty, b, m, cnt) ==
  /\ cnt \in [0 .. Len(ty) -> Nat] /\ cnt[0] = 0
  /\ \A i \in 1 .. Len(ty) : cnt[i] = cnt[i - 1] + (IF Wide(ty[i]) THEN 1 ELSE 0)
  /\ \A i \in 0 .. Len(ty) : cnt[i] <= cnt[Len(ty)]
  /\ \A i \in 1 .. Len(ty) : Wide(ty[i]) /\ cnt[i] <= Len(b) => b[cnt[i]] = Offset(ty[i])
  /\ Len(b) = cnt[Len(ty) - m]

\* One code more, with the offset it needs.
LEMMA PlaceNext ==
  ASSUME NEW ty \in Seq(Int), NEW b \in Seq(Offsets), NEW cnt, Placed(ty, b, 0, cnt),
         NEW t \in Int, NEW b2 \in Seq(Offsets),
         Wide(t) => b2 = Append(b, Offset(t)),
         ~ Wide(t) => b2 = b
  PROVE  \E cnt2 : Placed(Append(ty, t), b2, 0, cnt2)
<1> DEFINE L == Len(ty)
           more == IF Wide(t) THEN 1 ELSE 0
           cnt2 == [i \in 0 .. L + 1 |-> IF i <= L THEN cnt[i] ELSE cnt[L] + more]
           ty2 == Append(ty, t)
<1>1. L \in Nat /\ Len(ty2) = L + 1 /\ ty2[L + 1] = t /\ (\A i \in 1 .. L : ty2[i] = ty[i])
  OBVIOUS
<1>2. /\ cnt \in [0 .. L -> Nat] /\ cnt[0] = 0
      /\ \A i \in 1 .. L : cnt[i] = cnt[i - 1] + (IF Wide(ty[i]) THEN 1 ELSE 0)
      /\ \A i \in 0 .. L : cnt[i] <= cnt[L]
      /\ \A i \in 1 .. L : Wide(ty[i]) /\ cnt[i] <= Len(b) => b[cnt[i]] = Offset(ty[i])
      /\ Len(b) = cnt[L - 0]
  BY DEF Placed
<1>3. more \in {0, 1}  OBVIOUS
<1>4. Len(b2) = Len(b) + more /\ (\A i \in 1 .. Len(b) : b2[i] = b[i])
      /\ (Wide(t) => b2[Len(b) + 1] = Offset(t))
  <2>1. CASE Wide(t)
    <3>1. Offset(t) \in Offsets
      <4>1. b2 = Append(b, Offset(t))  BY <2>1
      <4>2. Len(b2) = Len(b) + 1 /\ b2[Len(b) + 1] = Offset(t)  BY <4>1
      <4>3. b2[Len(b) + 1] \in Offsets  BY <4>2
      <4> QED  BY <4>2, <4>3
    <3> QED  BY <3>1, <2>1
  <2>2. CASE ~ Wide(t)  BY <2>2
  <2> QED  BY <2>1, <2>2
<1>5. \A i \in 1 .. L : ty2[i] \in Int  BY <1>1
<1> HIDE DEF more, ty2
<1>6. /\ cnt2 \in [0 .. L + 1 -> Nat] /\ cnt2[0] = 0
      /\ cnt2[L + 1] = cnt[L] + more /\ (\A i \in 0 .. L : cnt2[i] = cnt[i])
  BY <1>1, <1>2, <1>3
<1> HIDE DEF cnt2
<1>7. \A i \in 1 .. L + 1 : cnt2[i] = cnt2[i - 1] + (IF Wide(ty2[i]) THEN 1 ELSE 0)
  <2> SUFFICES ASSUME NEW i \in 1 .. L + 1
               PROVE  cnt2[i] = cnt2[i - 1] + (IF Wide(ty2[i]) THEN 1 ELSE 0)
    OBVIOUS
  <2>1. CASE i = L + 1
    <3>1. i - 1 = L  BY <2>1, <1>1
    <3>2. cnt2[i - 1] = cnt[L] /\ ty2[i] = t  BY <3>1, <2>1, <1>1, <1>6
    <3> QED  BY <3>2, <2>1, <1>6 DEF more
  <2>2. CASE i # L + 1
    <3>1. i \in 1 .. L /\ i - 1 \in 0 .. L /\ i \in 0 .. L  BY <2>2, <1>1
    <3>2. cnt2[i] = cnt[i] /\ cnt2[i - 1] = cnt[i - 1] /\ ty2[i] = ty[i]  BY <3>1, <1>1, <1>6
    <3> QED  BY <3>1, <3>2, <1>2
  <2> QED  BY <2>1, <2>2
<1>8. \A i \in 0 .. L + 1 : cnt2[i] <= cnt2[L + 1]
  <2> SUFFICES ASSUME NEW i \in 0 .. L + 1 PROVE cnt2[i] <= cnt2[L + 1]  OBVIOUS
  <2>1. cnt[L] \in Nat  BY <1>1, <1>2
  <2>2. CASE i = L + 1  BY <2>1, <2>2, <1>3, <1>6
  <2>3. CASE i # L + 1
    <3>1. i \in 0 .. L  BY <2>3, <1>1
    <3>2. cnt2[i] = cnt[i] /\ cnt[i] <= cnt[L] /\ cnt[i] \in Nat  BY <3>1, <1>2, <1>6
    <3> QED  BY <3>2, <2>1, <1>3, <1>6
  <2> QED  BY <2>2, <2>3
<1>9. \A i \in 1 .. L + 1 : Wide(ty2[i]) /\ cnt2[i] <= Len(b2) => b2[cnt2[i]] = Offset(ty2[i])
  <2> SUFFICES ASSUME NEW i \in 1 .. L + 1, Wide(ty2[i])
               PROVE  b2[cnt2[i]] = Offset(ty2[i])
    OBVIOUS
  <2>1. CASE i = L + 1
    <3>1. ty2[i] = t /\ Wide(t)  BY <2>1, <1>1
    <3>2. cnt2[i] = Len(b) + 1  BY <2>1, <3>1, <1>1, <1>2, <1>6 DEF more
    <3> QED  BY <3>1, <3>2, <1>4
  <2>2. CASE i # L + 1
    <3>1. i \in 1 .. L /\ i - 1 \in 0 .. L /\ i \in 0 .. L /\ L - 0 = L  BY <2>2, <1>1
    <3>2. cnt2[i] = cnt[i] /\ ty2[i] = ty[i]  BY <3>1, <1>1, <1>6
    <3>3. cnt[i] = cnt[i - 1] + 1
      <4>1. Wide(ty[i])  BY ONLY <3>2, Wide(ty2[i]), Zenon
      <4>2. cnt[i] = cnt[i - 1] + (IF Wide(ty[i]) THEN 1 ELSE 0)  BY ONLY <3>1, <1>2
      <4> QED  BY ONLY <4>1, <4>2, Zenon
    <3>5. cnt[i - 1] \in Nat  BY ONLY <3>1, <1>2
    <3>6. cnt[i] <= Len(b) /\ Len(b) \in Nat
      <4>1. cnt[i] <= cnt[L] /\ Len(b) = cnt[L - 0] /\ cnt[L] \in Nat  BY ONLY <3>1, <1>1, <1>2
      <4> QED  BY ONLY <4>1, <3>1, Zenon
    <3>4. cnt[i] \in 1 .. Len(b)  BY ONLY <3>3, <3>5, <3>6
    <3> QED  BY <3>1, <3>2, <3>4, <1>2, <1>4
  <2> QED  BY <2>1, <2>2
<1>10. Len(b2) = cnt2[(L + 1) - 0]
  BY <1>1, <1>2, <1>4, <1>6
<1>11. Placed(ty2, b2, 0, cnt2)
  BY <1>1, <1>6, <1>7, <1>8, <1>9, <1>10 DEF Placed
<1> QED  BY <1>11 DEF ty2

\* A sequence without its last member.
LEMMA FrontIs ==
  ASSUME NEW S, NEW s \in Seq(S), s # << >>
  PROVE  /\ Front(s) \in Seq(S) /\ Len(Front(s)) = Len(s) - 1
         /\ \A i \in 1 .. Len(s) - 1 : Front(s)[i] = s[i]
<1> DEFINE r == SubSeq(s, 1, Len(s) - 1)
<1>1. Len(s) \in Nat \ {0} /\ \A i \in 1 .. Len(s) - 1 : s[i] \in S  OBVIOUS
<1>2. Front(s) = r  BY DEF Front
<1>3. /\ r \in Seq(S) /\ Len(r) = IF 1 <= Len(s) - 1 THEN Len(s) - 1 - 1 + 1 ELSE 0
      /\ \A i \in 1 .. Len(s) - 1 - 1 + 1 : r[i] = s[1 + i - 1]
  <2>1. 1 \in Int /\ Len(s) - 1 \in Int  BY <1>1
  <2> QED  BY <1>1, <2>1, SubSeqProperties
<1> HIDE DEF r
<1>4. Len(r) = Len(s) - 1
  <2>1. PICK n \in Nat \ {0} : n = Len(s)  BY <1>1
  <2>2. Len(r) = IF 1 <= n - 1 THEN n - 1 - 1 + 1 ELSE 0  BY <1>3, <2>1
  <2>3. Len(r) = n - 1  BY ONLY <2>2
  <2> QED  BY <2>1, <2>3
<1>5. ASSUME NEW i \in 1 .. Len(s) - 1 PROVE r[i] = s[i]
  <2>1. i \in 1 .. Len(s) - 1 - 1 + 1 /\ 1 + i - 1 = i  BY <1>1
  <2>2. r[i] = s[1 + i - 1]  BY <1>3, <2>1
  <2> QED  BY <2>1, <2>2
<1> QED  BY <1>2, <1>3, <1>4, <1>5

\* The last code that has its offset in b, and what is left when it is taken.
LEMMA TakeLast ==
  ASSUME NEW ty \in Seq(Int), NEW b \in Seq(Offsets), NEW m \in Nat, m < Len(ty),
         NEW cnt, Placed(ty, b, m, cnt)
  PROVE  LET t == ty[Len(ty) - m]
         IN /\ Wide(t) => /\ b # << >> /\ Last(b) = Offset(t)
                          /\ Placed(ty, Front(b), m + 1, cnt)
            /\ ~ Wide(t) => Placed(ty, b, m + 1, cnt)
<1> DEFINE L == Len(ty)
           i == L - m
<1>1. L \in Nat /\ i \in 1 .. L /\ i - 1 \in 0 .. L /\ i - 1 = L - (m + 1)  OBVIOUS
<1>2. /\ cnt \in [0 .. L -> Nat] /\ cnt[0] = 0
      /\ \A j \in 1 .. L : cnt[j] = cnt[j - 1] + (IF Wide(ty[j]) THEN 1 ELSE 0)
      /\ \A j \in 0 .. L : cnt[j] <= cnt[L]
      /\ \A j \in 1 .. L : Wide(ty[j]) /\ cnt[j] <= Len(b) => b[cnt[j]] = Offset(ty[j])
      /\ Len(b) = cnt[i]
  BY DEF Placed
<1>3. cnt[i] = cnt[i - 1] + (IF Wide(ty[i]) THEN 1 ELSE 0) /\ cnt[i - 1] \in Nat
  BY <1>1, <1>2
<1> HIDE DEF i
<1>4. ASSUME Wide(ty[i])
      PROVE  b # << >> /\ Last(b) = Offset(ty[i]) /\ Placed(ty, Front(b), m + 1, cnt)
  <2>1. Len(b) = cnt[i - 1] + 1  BY <1>2, <1>3, <1>4
  <2>2. b # << >>  BY <2>1, <1>3
  <2>3. Last(b) = Offset(ty[i])  BY <1>1, <1>2, <1>4, <2>1, <2>2 DEF Last
  <2>4. Len(Front(b)) = Len(b) - 1 /\ \A j \in 1 .. Len(b) - 1 : Front(b)[j] = b[j]
    BY <2>2, FrontIs
  <2>5. \A j \in 1 .. L : Wide(ty[j]) /\ cnt[j] <= Len(Front(b)) => Front(b)[cnt[j]] = Offset(ty[j])
    <3> SUFFICES ASSUME NEW j \in 1 .. L, Wide(ty[j]), cnt[j] <= Len(Front(b))
                 PROVE  Front(b)[cnt[j]] = Offset(ty[j])
      OBVIOUS
    <3>1. j - 1 \in 0 .. L  BY <1>1
    <3>2. cnt[j] = cnt[j - 1] + 1 /\ cnt[j - 1] \in Nat  BY <3>1, <1>2
    <3>3. cnt[j] \in 1 .. Len(b) - 1 /\ cnt[j] <= Len(b)
      <4>1. cnt[j] <= Len(b) - 1  BY ONLY <2>4, cnt[j] <= Len(Front(b)), Zenon
      <4>2. Len(b) \in Nat  BY ONLY <2>1, <1>3
      <4> QED  BY ONLY <4>1, <4>2, <3>2
    <3> QED  BY <3>3, <2>4, <1>2
  <2>6. Len(Front(b)) = cnt[L - (m + 1)]
    <3>1. Len(Front(b)) = cnt[i - 1]  BY ONLY <2>1, <2>4, <1>3
    <3> QED  BY ONLY <3>1, <1>1, Zenon
  <2>7. Placed(ty, Front(b), m + 1, cnt)  BY <1>2, <2>5, <2>6 DEF Placed
  <2> QED  BY <2>2, <2>3, <2>7
<1>5. ASSUME ~ Wide(ty[i]) PROVE Placed(ty, b, m + 1, cnt)
  <2>1. Len(b) = cnt[L - (m + 1)]  BY <1>1, <1>2, <1>3, <1>5
  <2> QED  BY <1>2, <2>1 DEF Placed
<1> QED  BY <1>4, <1>5 DEF i

-----------------------------------------------------------------------------
(* Codes: the invariant                                                    *)

\* The two coders that carry the codes in words.
Carried ==
  /\ tp_code = << >> /\ bits = << >> /\ fseSize = 0
  /\ words \in Seq(0 .. Intervals - 1) /\ Len(words) = Len(type)
  /\ \A i \in 1 .. Len(type) :
       words[i] = IF entropyType = "zstd" THEN type[i] % 2 ^ 16 ELSE type[i]
  /\ phase = "done" =>
       decoded = [i \in DOMAIN words |->
                IF entropyType = "zstd" THEN Short(words[i]) ELSE words[i]]

\* The decoder has the last codes right, and the offsets of the others are left.
Following ==
  /\ \A j \in 1 .. Len(decoded) : decoded[j] = type[Len(type) - Len(decoded) + j]
  /\ \E cnt : Placed(type, bits, Len(decoded), cnt)

\* ADT-FSE.
Split ==
  /\ words = << >>
  /\ tp_code \in Seq(0 .. TOTAL_CODE_NUM) /\ Len(tp_code) = Len(type)
  /\ \A i \in 1 .. Len(type) : tp_code[i] = Class(type[i])
  /\ phase = "decode" => Len(decoded) < Len(type)
  /\ phase # "done" \/ fseSize > 1 => Following
  /\ phase = "done" => Len(decoded) = Len(type)
  /\ phase = "done" /\ fseSize <= 1 => decoded = [i \in DOMAIN type |-> 0]

CodesInv ==
  /\ entropyType \in EntropyTypes /\ type \in Seq(Types)
  /\ phase \in {"encode", "decode", "done"} /\ fseSize \in 0 .. 2
  /\ bits \in Seq(Offsets) /\ \A i \in 1 .. Len(bits) : bits[i].v < Pow(bits[i].n)
  /\ decoded \in Seq(Int)
  /\ phase = "encode" => decoded = << >>
  /\ entropyType # "adt-fse" => Carried
  /\ entropyType = "adt-fse" => Split

LEMMA Codes ==
  ASSUME NEW t \in Types PROVE t \in 0 .. Intervals - 1 /\ t \in Int
  BY TypeStreamAssumption

LEMMA CodesAreInts == \A s : s \in Seq(Types) => s \in Seq(Int) /\ s \in Seq(0 .. Intervals - 1)
<1> SUFFICES ASSUME NEW s \in Seq(Types)
             PROVE  s \in Seq(Int) /\ s \in Seq(0 .. Intervals - 1)
  OBVIOUS
<1>1. Len(s) \in Nat /\ DOMAIN s = 1 .. Len(s) /\ s = [i \in 1 .. Len(s) |-> s[i]]
      /\ (\A i \in 1 .. Len(s) : s[i] \in Types)
  OBVIOUS
<1>2. \A i \in 1 .. Len(s) : s[i] \in Int  BY <1>1, Codes
<1>3. \A i \in 1 .. Len(s) : s[i] \in 0 .. Intervals - 1  BY <1>1, Codes
<1>4. s \in Seq(Int)  BY <1>1, <1>2
<1> DEFINE S == 0 .. Intervals - 1
<1>5. s \in Seq(S)
  <2>1. \A i \in 1 .. Len(s) : s[i] \in S  BY <1>3
  <2> HIDE DEF S
  <2> QED  BY <1>1, <2>1
<1> QED  BY <1>4, <1>5

LEMMA CodesInitially == TSInit => CodesInv
<1> SUFFICES ASSUME TSInit PROVE CodesInv  OBVIOUS
<1> USE DEF TSInit
<1>1. Carried  BY DEF Carried
<1>2. Split
  <2> DEFINE cnt == [i \in 0 .. 0 |-> 0]
  <2>1. Placed(type, bits, Len(decoded), cnt)  BY DEF Placed
  <2>2. Following  BY <2>1 DEF Following
  <2> QED  BY <2>2 DEF Split
<1> QED  BY <1>1, <1>2 DEF CodesInv

LEMMA EncodeCarries ==
  ASSUME CodesInv, NEW t \in Types, EncodeType(t), entropyType # "adt-fse" PROVE CodesInv'
<1>1. /\ phase = "encode" /\ type' = Append(type, t)
      /\ words' = Append(words, IF entropyType = "zstd" THEN t % 2 ^ 16 ELSE t)
      /\ entropyType \in {"huffman", "zstd"}
      /\ UNCHANGED <<entropyType, tp_code, bits, fseSize, phase, decoded>>
  BY TypeStreamAssumption DEF EncodeType, CodesInv
<1> DEFINE w == IF entropyType = "zstd" THEN t % 2 ^ 16 ELSE t
<1>2. w \in 0 .. Intervals - 1
  <2>1. t \in Nat /\ t < Intervals /\ Intervals \in Nat  BY Codes, Middle
  <2>2. t % 65536 \in Nat /\ t % 65536 <= t  BY <2>1
  <2>3. 2 ^ 16 = 65536  OBVIOUS
  <2> QED  BY <2>1, <2>2, <2>3
<1>3. Carried /\ type \in Seq(Types)  BY <1>1 DEF CodesInv
<1> HIDE DEF w
<1>4. words' = Append(words, w)  BY <1>1 DEF w
<1>5. words' \in Seq(0 .. Intervals - 1) /\ Len(words') = Len(type')
  BY <1>1, <1>2, <1>3, <1>4 DEF Carried
<1>6. \A i \in 1 .. Len(type') :
        words'[i] = IF entropyType' = "zstd" THEN type'[i] % 2 ^ 16 ELSE type'[i]
  <2> SUFFICES ASSUME NEW i \in 1 .. Len(type')
               PROVE  words'[i] = IF entropyType' = "zstd" THEN type'[i] % 2 ^ 16 ELSE type'[i]
    OBVIOUS
  <2>1. Len(type') = Len(type) + 1 /\ Len(words) = Len(type)  BY <1>1, <1>3 DEF Carried
  <2>2. CASE i = Len(type) + 1
    <3>1. words'[i] = w /\ type'[i] = t  BY <1>1, <1>3, <1>4, <2>1, <2>2 DEF Carried
    <3> QED  BY <3>1, <1>1 DEF w
  <2>3. CASE i # Len(type) + 1
    <3>1. i \in 1 .. Len(type)  BY <2>1, <2>3, <1>3
    <3>2. words'[i] = words[i] /\ type'[i] = type[i]  BY <1>3, <1>1, <1>4, <2>1, <3>1 DEF Carried
    <3> QED  BY <3>1, <3>2, <1>1, <1>3 DEF Carried
  <2> QED  BY <2>2, <2>3
<1>7. Carried'  BY <1>1, <1>3, <1>5, <1>6 DEF Carried
<1>8. type' \in Seq(Types)  BY <1>1, <1>3
<1> QED  BY <1>1, <1>7, <1>8 DEF CodesInv

LEMMA OffsetIs ==
  ASSUME Reach, "adt-fse" \in EntropyTypes, NEW t \in Types, Wide(t)
  PROVE  Offset(t) \in Offsets /\ Offset(t).v < Pow(Offset(t).n)
<1>1. t \in 1 .. Intervals - 1  BY Codes DEF Wide
<1>2. /\ Width(type2code(t)) \in 0 .. 14 /\ Width(type2code(t)) # 0
      /\ diff(t) \in Nat /\ diff(t) < Pow(Width(type2code(t)))
  BY <1>1, SplitCode DEF Wide
<1> QED  BY <1>2 DEF Offset, Offsets

LEMMA ClassIs ==
  ASSUME Reach, "adt-fse" \in EntropyTypes, NEW t \in Types
  PROVE  Class(t) \in 0 .. TOTAL_CODE_NUM /\ (Class(t) = TOTAL_CODE_NUM <=> t = 0)
<1>1. CASE t = 0  BY <1>1 DEF Class, TOTAL_CODE_NUM
<1>2. CASE t # 0
  <2>1. t \in 1 .. Intervals - 1  BY <1>2, Codes
  <2>2. type2code(t) \in 0 .. 66  BY <2>1, SplitCode
  <2> QED  BY <2>2, <1>2 DEF Class, TOTAL_CODE_NUM
<1> QED  BY <1>1, <1>2

LEMMA EncodeSplits ==
  ASSUME Reach, CodesInv, NEW t \in Types, EncodeType(t), entropyType = "adt-fse" PROVE CodesInv'
<1>1. /\ phase = "encode" /\ type' = Append(type, t)
      /\ tp_code' = Append(tp_code, Class(t))
      /\ bits' = IF t = 0 THEN bits ELSE Put(type2code(t), diff(t))
      /\ UNCHANGED <<entropyType, words, fseSize, phase, decoded>>
  BY DEF EncodeType, Class
<1>2. /\ Split /\ type \in Seq(Types) /\ "adt-fse" \in EntropyTypes /\ decoded = << >>
      /\ bits \in Seq(Offsets) /\ \A i \in 1 .. Len(bits) : bits[i].v < Pow(bits[i].n)
  BY <1>1 DEF CodesInv
<1>3. /\ Wide(t) => bits' = Append(bits, Offset(t))
      /\ ~ Wide(t) => bits' = bits
  BY <1>1 DEF Put, Wide, Offset
<1>4. bits' \in Seq(Offsets) /\ \A i \in 1 .. Len(bits') : bits'[i].v < Pow(bits'[i].n)
  <2>1. CASE Wide(t)
    <3>1. Offset(t) \in Offsets /\ Offset(t).v < Pow(Offset(t).n)  BY <1>2, <2>1, OffsetIs
    <3>2. bits' = Append(bits, Offset(t))  BY <1>3, <2>1
    <3> HIDE DEF Offsets
    <3>3. bits' \in Seq(Offsets) /\ Len(bits') = Len(bits) + 1  BY <3>1, <3>2, <1>2
    <3>4. ASSUME NEW i \in 1 .. Len(bits') PROVE bits'[i].v < Pow(bits'[i].n)
      <4>1. CASE i = Len(bits) + 1
        <5>1. bits'[i] = Offset(t)  BY <4>1, <3>2, <1>2
        <5> QED  BY <5>1, <3>1
      <4>2. CASE i # Len(bits) + 1
        <5>1. i \in 1 .. Len(bits)  BY <4>2, <3>3, <1>2
        <5>2. bits'[i] = bits[i]  BY <5>1, <3>2, <1>2
        <5> QED  BY <5>1, <5>2, <1>2
      <4> QED  BY <4>1, <4>2
    <3> QED  BY <3>3, <3>4
  <2>2. CASE ~ Wide(t)  BY <2>2, <1>2, <1>3
  <2> QED  BY <2>1, <2>2
<1>5. type' \in Seq(Types) /\ Len(type') = Len(type) + 1  BY <1>1, <1>2
<1>6. /\ tp_code' \in Seq(0 .. TOTAL_CODE_NUM) /\ Len(tp_code') = Len(type')
      /\ \A i \in 1 .. Len(type') : tp_code'[i] = Class(type'[i])
  <2>1. /\ tp_code \in Seq(0 .. TOTAL_CODE_NUM) /\ Len(tp_code) = Len(type)
        /\ \A i \in 1 .. Len(type) : tp_code[i] = Class(type[i])
    BY <1>2 DEF Split
  <2>2. Class(t) \in 0 .. TOTAL_CODE_NUM  BY <1>2, ClassIs
  <2>3. tp_code' \in Seq(0 .. TOTAL_CODE_NUM) /\ Len(tp_code') = Len(type')
    BY <2>1, <2>2, <1>1, <1>5
  <2>4. ASSUME NEW i \in 1 .. Len(type') PROVE tp_code'[i] = Class(type'[i])
    <3>1. CASE i = Len(type) + 1
      <4>1. tp_code'[i] = Class(t) /\ type'[i] = t  BY <3>1, <2>1, <1>1, <1>2
      <4> QED  BY <4>1
    <3>2. CASE i # Len(type) + 1
      <4>1. i \in 1 .. Len(type)  BY <3>2, <1>5, <1>2
      <4>2. tp_code'[i] = tp_code[i] /\ type'[i] = type[i]  BY <4>1, <2>1, <1>1, <1>2
      <4> QED  BY <4>1, <4>2, <2>1
    <3> QED  BY <3>1, <3>2
  <2> QED  BY <2>3, <2>4
<1>7. Following'
  <2>1. PICK cnt : Placed(type, bits, 0, cnt)
    BY <1>1, <1>2 DEF Split, Following
  <2>2. type \in Seq(Int) /\ t \in Int  BY <1>2, Codes, CodesAreInts
  <2>3. \E cnt2 : Placed(Append(type, t), bits', 0, cnt2)
    BY <2>1, <2>2, <1>2, <1>3, <1>4, PlaceNext
  <2>4. decoded' = << >> /\ Len(decoded') = 0  BY <1>1, <1>2
  <2> QED  BY <2>3, <2>4, <1>1 DEF Following
<1>8. Split'  BY <1>1, <1>2, <1>6, <1>7 DEF Split
<1> QED  BY <1>1, <1>2, <1>4, <1>5, <1>8 DEF CodesInv

LEMMA EncodeEnds == ASSUME CodesInv, EncodeEnd PROVE CodesInv'
<1>1. /\ phase = "encode" /\ Len(type) > 0 /\ phase' = "decode"
      /\ fseSize' \in IF entropyType = "adt-fse" THEN FSE_compress(tp_code) ELSE {0}
      /\ UNCHANGED <<entropyType, type, words, tp_code, bits, decoded>>
  BY DEF EncodeEnd
<1>2. fseSize' \in 0 .. 2 /\ (entropyType # "adt-fse" => fseSize' = 0)
  BY <1>1 DEF FSE_compress
<1>3. decoded = << >> /\ Len(decoded) = 0  BY <1>1 DEF CodesInv
<1>4. entropyType # "adt-fse" => Carried'  BY <1>1, <1>2 DEF CodesInv, Carried
<1>5. entropyType = "adt-fse" => Split'
  <2> SUFFICES ASSUME entropyType = "adt-fse" PROVE Split'  OBVIOUS
  <2>1. Split /\ Following  BY <1>1 DEF CodesInv, Split
  <2>2. Following'  BY <2>1, <1>1 DEF Following
  <2> QED  BY <2>1, <2>2, <1>1, <1>3 DEF Split
<1> QED  BY <1>1, <1>2, <1>4, <1>5 DEF CodesInv

LEMMA DecodesWords == ASSUME CodesInv, DecodeWords PROVE CodesInv'
<1>1. /\ phase = "decode" /\ entropyType # "adt-fse" /\ phase' = "done"
      /\ decoded' = [i \in DOMAIN words |->
                   IF entropyType = "zstd" THEN Short(words[i]) ELSE words[i]]
      /\ UNCHANGED <<entropyType, type, words, tp_code, bits, fseSize>>
  BY DEF DecodeWords
<1>2. Carried  BY <1>1 DEF CodesInv
<1>3. Carried'  BY <1>1, <1>2 DEF Carried
<1>4. decoded' \in Seq(Int)
  <2>1. Len(words) \in Nat /\ DOMAIN words = 1 .. Len(words)
        /\ \A i \in 1 .. Len(words) : words[i] \in Int
    BY <1>2, Middle DEF Carried
  <2>2. \A i \in 1 .. Len(words) : Short(words[i]) \in Int  BY <2>1 DEF Short
  <2>3. \A i \in 1 .. Len(words) :
          (IF entropyType = "zstd" THEN Short(words[i]) ELSE words[i]) \in Int
    BY <2>1, <2>2
  <2> QED  BY <2>1, <2>3, <1>1
<1> QED  BY <1>1, <1>3, <1>4 DEF CodesInv

LEMMA DecodesNoFse == ASSUME CodesInv, DecodeNoFse PROVE CodesInv'
<1>1. /\ phase = "decode" /\ entropyType = "adt-fse" /\ fseSize <= 1 /\ phase' = "done"
      /\ decoded' = [i \in DOMAIN type |-> 0]
      /\ UNCHANGED <<entropyType, type, words, tp_code, bits, fseSize>>
  BY DEF DecodeNoFse
<1>2. Split /\ type \in Seq(Types) /\ fseSize \in 0 .. 2  BY <1>1 DEF CodesInv
<1>3. decoded' \in Seq(Int) /\ Len(decoded') = Len(type)  BY <1>1, <1>2
<1>4. Split'  BY <1>1, <1>2, <1>3 DEF Split
<1> QED  BY <1>1, <1>3, <1>4 DEF CodesInv

\* One turn of the decoder finds the class of the code it has come to, and
\* reads the offset that was written with it.
LEMMA TurnDecodes ==
  ASSUME Reach, CodesInv, DecodeFse
  PROVE  LET t == type[Len(type) - Len(decoded)]
         IN /\ decoded' = <<t>> \o decoded
            /\ bits' = IF Wide(t) THEN Front(bits) ELSE bits
<1> DEFINE i == Len(type) - Len(decoded)
           t == type[i]
           c == tp_code[Len(tp_code) - Len(decoded)]
<1>1. /\ phase = "decode" /\ entropyType = "adt-fse" /\ fseSize > 1
      /\ \/ /\ c = TOTAL_CODE_NUM
            /\ decoded' = <<0>> \o decoded
            /\ UNCHANGED bits
         \/ /\ c # TOTAL_CODE_NUM
            /\ \E d \in ReadBits(Width(c)) : decoded' = <<FromClass(c, d)>> \o decoded
            /\ bits' = IF Width(c) = 0 \/ bits = << >> THEN bits ELSE Front(bits)
  BY DEF DecodeFse, FromClass
<1>2. /\ Split /\ Following /\ "adt-fse" \in EntropyTypes
      /\ type \in Seq(Types) /\ decoded \in Seq(Int) /\ bits \in Seq(Offsets)
  BY <1>1 DEF CodesInv, Split
<1>3. i \in 1 .. Len(type) /\ t \in Types /\ Len(decoded) \in Nat /\ Len(decoded) < Len(type)
  BY <1>1, <1>2 DEF Split
<1>4. c = Class(t)  BY <1>2, <1>3 DEF Split
<1>5. (c = TOTAL_CODE_NUM) <=> (t = 0)  BY <1>2, <1>3, <1>4, ClassIs
<1> HIDE DEF c, i
<1>6. CASE t = 0
  BY <1>1, <1>5, <1>6 DEF Wide, i
<1>7. CASE t # 0
  <2>1. PICK d \in ReadBits(Width(c)) : decoded' = <<FromClass(c, d)>> \o decoded
    BY <1>1, <1>5, <1>7
  <2>2. bits' = IF Width(c) = 0 \/ bits = << >> THEN bits ELSE Front(bits)
    BY <1>1, <1>5, <1>7
  <2>3. c = type2code(t)  BY <1>4, <1>7 DEF Class
  <2>4. t \in 1 .. Intervals - 1  BY <1>3, <1>7, Codes
  <2>5. /\ Width(c) \in 0 .. 14 /\ diff(t) \in Nat /\ diff(t) < Pow(Width(c))
        /\ FromClass(c, diff(t)) = t
    BY <1>2, <2>3, <2>4, SplitCode
  <2>6. PICK cnt : Placed(type, bits, Len(decoded), cnt)  BY <1>2 DEF Following
  <2>7. Wide(t) => bits # << >> /\ Last(bits) = Offset(t)
    BY <1>2, <1>3, <2>6, TakeLast, CodesAreInts DEF i
  <2>8. d = diff(t)
    <3>1. CASE Width(c) = 0
      <4>1. d = 0  BY <2>1, <3>1 DEF ReadBits
      <4>2. diff(t) < 1  BY <2>5, <3>1, SmallPowers
      <4> QED  BY <4>1, <4>2, <2>5
    <3>2. CASE Width(c) # 0
      <4>1. Wide(t)  BY <1>7, <2>3, <3>2 DEF Wide
      <4>2. bits # << >> /\ Last(bits).n = Width(c) /\ Last(bits).v = diff(t)
        BY <4>1, <2>3, <2>7 DEF Offset
      <4>3. ReadBits(Width(c)) = {diff(t)}  BY <3>2, <4>2 DEF ReadBits
      <4> QED  BY <4>3, <2>1
    <3> QED  BY <3>1, <3>2
  <2>9. bits' = IF Wide(t) THEN Front(bits) ELSE bits
    BY <1>7, <2>2, <2>3, <2>7 DEF Wide
  <2> QED  BY <2>1, <2>5, <2>8, <2>9 DEF i
<1> QED  BY <1>6, <1>7

LEMMA DecodesFse == ASSUME Reach, CodesInv, DecodeFse PROVE CodesInv'
<1> DEFINE i == Len(type) - Len(decoded)
           t == type[i]
<1>1. /\ phase = "decode" /\ entropyType = "adt-fse" /\ fseSize > 1
      /\ phase' = IF Len(decoded) + 1 = Len(tp_code) THEN "done" ELSE phase
      /\ UNCHANGED <<entropyType, type, words, tp_code, fseSize>>
  BY DEF DecodeFse
<1>2. /\ Split /\ Following /\ "adt-fse" \in EntropyTypes /\ fseSize \in 0 .. 2
      /\ type \in Seq(Types) /\ decoded \in Seq(Int) /\ bits \in Seq(Offsets)
      /\ \A j \in 1 .. Len(bits) : bits[j].v < Pow(bits[j].n)
  BY <1>1 DEF CodesInv, Split
<1>3. /\ i \in 1 .. Len(type) /\ t \in Types /\ t \in Int /\ Len(decoded) \in Nat
      /\ Len(decoded) < Len(type) /\ Len(type) \in Nat /\ Len(tp_code) = Len(type)
  BY <1>1, <1>2, Codes DEF Split
<1>4. decoded' = <<t>> \o decoded /\ bits' = IF Wide(t) THEN Front(bits) ELSE bits
  BY TurnDecodes
<1>5. /\ decoded' \in Seq(Int) /\ Len(decoded') = Len(decoded) + 1 /\ decoded'[1] = t
      /\ \A j \in 1 .. Len(decoded) : decoded'[j + 1] = decoded[j]
  BY <1>2, <1>3, <1>4
<1>6. PICK cnt : Placed(type, bits, Len(decoded), cnt)  BY <1>2 DEF Following
<1>7. type \in Seq(Int)  BY <1>2, CodesAreInts
<1>8. /\ Wide(t) => bits # << >> /\ Placed(type, Front(bits), Len(decoded) + 1, cnt)
      /\ ~ Wide(t) => Placed(type, bits, Len(decoded) + 1, cnt)
  BY <1>2, <1>3, <1>6, <1>7, TakeLast
<1>9. bits' \in Seq(Offsets) /\ \A j \in 1 .. Len(bits') : bits'[j].v < Pow(bits'[j].n)
  <2>1. CASE Wide(t)
    <3>1. bits # << >> /\ bits' = Front(bits)  BY <2>1, <1>4, <1>8
    <3> HIDE DEF Offsets
    <3>2. /\ bits' \in Seq(Offsets) /\ Len(bits') = Len(bits) - 1
          /\ \A j \in 1 .. Len(bits) - 1 : bits'[j] = bits[j]
      BY <3>1, <1>2, FrontIs
    <3>3. ASSUME NEW j \in 1 .. Len(bits') PROVE bits'[j].v < Pow(bits'[j].n)
      <4>1. j \in 1 .. Len(bits) - 1 /\ j \in 1 .. Len(bits)  BY <3>2, <1>2
      <4>2. bits'[j] = bits[j]  BY <3>2, <4>1
      <4> QED  BY <4>1, <4>2, <1>2
    <3> QED  BY <3>2, <3>3
  <2>2. CASE ~ Wide(t)  BY <2>2, <1>2, <1>4
  <2> QED  BY <2>1, <2>2
<1>10. Following'
  <2>1. \A j \in 1 .. Len(decoded') : decoded'[j] = type[Len(type) - Len(decoded') + j]
    <3> SUFFICES ASSUME NEW j \in 1 .. Len(decoded')
                 PROVE  decoded'[j] = type[Len(type) - Len(decoded') + j]
      OBVIOUS
    <3>1. CASE j = 1
      <4>1. Len(type) - Len(decoded') + j = i  BY <3>1, <1>3, <1>5
      <4> QED  BY <4>1, <3>1, <1>5
    <3>2. CASE j # 1
      <4>1. j - 1 \in 1 .. Len(decoded) /\ (j - 1) + 1 = j
            /\ Len(type) - Len(decoded') + j = Len(type) - Len(decoded) + (j - 1)
        BY <3>2, <1>3, <1>5
      <4>2. decoded'[j] = decoded[j - 1]  BY <4>1, <1>5
      <4> QED  BY <4>1, <4>2, <1>2 DEF Following
    <3> QED  BY <3>1, <3>2
  <2>2. Placed(type, bits', Len(decoded'), cnt)  BY <1>4, <1>5, <1>8
  <2> QED  BY <2>1, <2>2, <1>1 DEF Following
<1>11. Split'
  <2>1. phase' = "decode" => Len(decoded') < Len(type')  BY <1>1, <1>3, <1>5
  <2>2. phase' = "done" => Len(decoded') = Len(type')  BY <1>1, <1>3, <1>5
  <2>3. ~ fseSize' <= 1  BY <1>1, <1>2
  <2> QED  BY <1>1, <1>2, <1>10, <2>1, <2>2, <2>3 DEF Split
<1>12. phase' \in {"encode", "decode", "done"} /\ phase' # "encode"  BY <1>1
<1> QED  BY <1>1, <1>2, <1>5, <1>9, <1>11, <1>12 DEF CodesInv

LEMMA CodesStep == ASSUME Reach PROVE CodesInv /\ [TSNext]_tsvars => CodesInv'
<1> SUFFICES ASSUME CodesInv, [TSNext]_tsvars PROVE CodesInv'  OBVIOUS
<1>1. CASE UNCHANGED tsvars
  BY <1>1 DEF tsvars, CodesInv, Carried, Split, Following
<1>2. ASSUME NEW t \in Types, EncodeType(t) PROVE CodesInv'
  BY <1>2, EncodeCarries, EncodeSplits
<1>3. CASE EncodeEnd  BY <1>3, EncodeEnds
<1>4. CASE DecodeWords  BY <1>4, DecodesWords
<1>5. CASE DecodeNoFse  BY <1>5, DecodesNoFse
<1>6. CASE DecodeFse  BY <1>6, DecodesFse
<1> QED  BY <1>1, <1>2, <1>3, <1>4, <1>5, <1>6 DEF TSNext

LEMMA CodesAlways == ASSUME Reach PROVE TSSpec => []CodesInv
  BY CodesInitially, CodesStep, PTL DEF TSSpec

-----------------------------------------------------------------------------
(* Codes: the theorems                                                     *)

\* Codes, classes and words stay in their ranges, and an offset has 1 to 14 bits.
THEOREM CodesTypeCorrect == ASSUME Reach PROVE TSSpec => []TSTypeOK
<1>1. CodesInv => TSTypeOK
  <2> SUFFICES ASSUME CodesInv PROVE TSTypeOK  OBVIOUS
  <2>1. \A i \in DOMAIN bits : bits[i].n \in 1 .. 14 /\ bits[i].v \in Nat
    <3>1. bits \in Seq(Offsets)  BY DEF CodesInv
    <3>2. \A i \in DOMAIN bits : bits[i] \in Offsets
      <4> HIDE DEF Offsets
      <4> QED  BY <3>1
    <3> QED  BY <3>2 DEF Offsets
  <2>2. type \in Seq(0 .. Intervals - 1)  BY CodesAreInts DEF CodesInv
  <2>3. CASE entropyType # "adt-fse"
    BY <2>1, <2>2, <2>3 DEF CodesInv, Carried, TSTypeOK
  <2>4. CASE entropyType = "adt-fse"
    BY <2>1, <2>2, <2>4 DEF CodesInv, Split, TSTypeOK
  <2> QED  BY <2>3, <2>4
<1> QED  BY <1>1, CodesAlways, PTL

\* An offset never has more bits than its class gives it, so BIT_addBitsFast
\* gets a clean value (transcode.c:64-96).
THEOREM OffsetsAreClean == ASSUME Reach PROVE TSSpec => []OffsetsFit
<1>1. CodesInv => OffsetsFit
  BY DEF CodesInv, OffsetsFit, Pow
<1> QED  BY <1>1, CodesAlways, PTL

\* After the last class no offset is left over, whatever classes were in between
\* (transcode.c:83-96, 145-231).
THEOREM InStep == ASSUME Reach PROVE TSSpec => []BitsUsedUp
<1>1. CodesInv => BitsUsedUp
  <2> SUFFICES ASSUME CodesInv, phase = "done", fseSize > 1 PROVE bits = << >>
    BY DEF BitsUsedUp
  <2>1. CASE entropyType # "adt-fse"  BY <2>1 DEF CodesInv, Carried
  <2>2. CASE entropyType = "adt-fse"
    <3>1. Following /\ Len(decoded) = Len(type)  BY <2>2 DEF CodesInv, Split
    <3>2. PICK cnt : Placed(type, bits, Len(decoded), cnt)  BY <3>1 DEF Following
    <3>3. Len(type) \in Nat /\ bits \in Seq(Offsets)  BY DEF CodesInv
    <3>4. Len(bits) = 0  BY <3>1, <3>2, <3>3 DEF Placed
    <3> QED  BY <3>3, <3>4
  <2> QED  BY <2>1, <2>2
<1> QED  BY <1>1, CodesAlways, PTL

\* The codes fit a (short): SZ has them pass through one with Zstandard.  Without
\* it TypeStreamZstd.cfg has a counterexample.
Shorts == "zstd" \in EntropyTypes => Intervals <= 32768

\* The codes come back as they went in, with any of the three coders, whatever
\* the alphabet and however many there are, unless FSE produced nothing for a
\* stream of other codes than 0 (szd_float.c:232-250, transcode.c:83-231).
THEOREM CodesComeBack == ASSUME Reach, Shorts PROVE TSSpec => []RoundTripIfCoded
<1>1. CodesInv => RoundTripIfCoded
  <2> SUFFICES ASSUME CodesInv, FseCoded, phase = "done" PROVE decoded = type
    BY DEF RoundTripIfCoded, RoundTrip
  <2>1. type \in Seq(Types) /\ type \in Seq(Int)  BY CodesAreInts DEF CodesInv
  <2>2. CASE entropyType # "adt-fse"
    <3>1. /\ Len(words) = Len(type) /\ words \in Seq(0 .. Intervals - 1)
          /\ \A i \in 1 .. Len(type) :
               words[i] = IF entropyType = "zstd" THEN type[i] % 2 ^ 16 ELSE type[i]
          /\ decoded = [i \in DOMAIN words |->
                      IF entropyType = "zstd" THEN Short(words[i]) ELSE words[i]]
      BY <2>2 DEF CodesInv, Carried
    <3>2. DOMAIN words = 1 .. Len(type) /\ DOMAIN type = 1 .. Len(type)  BY <3>1, <2>1
    <3>3. ASSUME NEW i \in 1 .. Len(type) PROVE decoded[i] = type[i]
      <4>1. type[i] \in Types  BY <2>1
      <4>2. type[i] \in Int /\ 0 <= type[i] /\ type[i] < Intervals /\ Intervals \in Nat
        BY <4>1, Codes, Middle
      <4>3. CASE entropyType = "zstd"
        <5>1. Intervals <= 32768  BY <4>3 DEF CodesInv, Shorts
        <5>2. words[i] = type[i] % 2 ^ 16 /\ decoded[i] = Short(words[i])  BY <4>3, <3>1, <3>2
        <5>3. type[i] % 2 ^ 16 = type[i]  BY <4>2, <5>1
        <5>4. Short(type[i]) = type[i]  BY <4>2, <5>1 DEF Short
        <5> QED  BY <5>2, <5>3, <5>4
      <4>4. CASE entropyType # "zstd"  BY <4>4, <3>1, <3>2
      <4> QED  BY <4>3, <4>4
    <3> QED  BY <3>1, <3>2, <3>3, <2>1
  <2>3. CASE entropyType = "adt-fse" /\ fseSize > 1
    <3>1. Following /\ Len(decoded) = Len(type) /\ decoded \in Seq(Int)  BY <2>3 DEF CodesInv, Split
    <3>2. \A j \in 1 .. Len(type) : decoded[j] = type[j]
      BY <3>1, <2>1 DEF Following
    <3> QED  BY ONLY <3>1, <3>2, <2>1, SeqEqual, Zenon
  <2>4. CASE entropyType = "adt-fse" /\ ~ fseSize > 1
    <3>1. \A i \in DOMAIN type : type[i] = 0  BY <2>4 DEF FseCoded
    <3>2. decoded = [i \in DOMAIN type |-> 0]  BY <2>4 DEF CodesInv, Split
    <3> QED  BY <3>1, <3>2, <2>1
  <2> QED  BY <2>2, <2>3, <2>4
<1> QED  BY <1>1, CodesAlways, PTL
=============================================================================
