------------------------- MODULE IntegerCodecProofs -------------------------
(***************************************************************************)
(* The integer coders keep their promises for every width of a byte, every *)
(* bound, number of intervals and block: codes fit the alphabet, the       *)
(* reader follows the writer, and values come back within the bound.       *)
(*                                                                         *)
(* All three rest on one argument.  Either a type clamps, or its values    *)
(* stay in the middle quarter of it (Roomy), and then rebuilt values are   *)
(* in that quarter too, Lorenzo predictions within three quarters, and     *)
(* neither predictions nor errors wrap; so each code stands for a value    *)
(* near the one it was given.                                              *)
(***************************************************************************)
EXTENDS IntegerCodec, FiniteSetTheorems, SequenceTheorems,
        WellFoundedInduction, TLAPS

-----------------------------------------------------------------------------
(* Least and greatest                                                      *)

LEMMA LeastNat ==
  ASSUME NEW S \in SUBSET Nat, S # {}
  PROVE  \E m \in S : \A x \in S : m <= x
<1> DEFINE R == OpToRel(<, Nat)
<1>1. IsWellFoundedOn(R, Nat)  BY NatLessThanWellFounded
<1>2. \A x, y \in Nat : x < y => <<x, y>> \in R  BY DEF OpToRel
<1> HIDE DEF R
<1>3. PICK m \in S : \A y \in S : ~ (<<y, m>> \in R)  BY <1>1, WFMin
<1>4. ASSUME NEW x \in S PROVE m <= x
  <2>1. x \in Nat /\ m \in Nat  OBVIOUS
  <2>2. ~ (x < m)  BY <1>2, <1>3, <2>1, Zenon
  <2> QED  BY <2>1, <2>2
<1> QED  BY <1>4

\* A bounded set of integers has both.
LEMMA LeastInt ==
  ASSUME NEW a \in Int, NEW b \in Int, NEW S \in SUBSET (a .. b), S # {}
  PROVE  /\ Min(S) \in S /\ \A x \in S : Min(S) <= x
         /\ Max(S) \in S /\ \A x \in S : x <= Max(S)
<1>1. \E m \in S : \A x \in S : m <= x
  <2> DEFINE T == {x - a : x \in S}
  <2>1. T \in SUBSET Nat /\ T # {}
    <3>1. \A x \in S : x - a \in Nat  OBVIOUS
    <3>2. PICK z \in S : TRUE  OBVIOUS
    <3> QED  BY <3>1, <3>2
  <2>2. PICK m \in T : \A x \in T : m <= x  BY <2>1, LeastNat
  <2>3. PICK y \in S : m = y - a  BY <2>2
  <2>4. ASSUME NEW x \in S PROVE y <= x
    <3>1. x - a \in T  OBVIOUS
    <3>2. y - a <= x - a  BY <2>2, <2>3, <3>1
    <3>3. x \in Int /\ y \in Int  OBVIOUS
    <3> QED  BY <3>2, <3>3
  <2> QED  BY <2>4
<1>2. \E m \in S : \A x \in S : x <= m
  <2> DEFINE T == {b - x : x \in S}
  <2>1. T \in SUBSET Nat /\ T # {}
    <3>1. \A x \in S : b - x \in Nat  OBVIOUS
    <3>2. PICK z \in S : TRUE  OBVIOUS
    <3> QED  BY <3>1, <3>2
  <2>2. PICK m \in T : \A x \in T : m <= x  BY <2>1, LeastNat
  <2>3. PICK y \in S : m = b - y  BY <2>2
  <2>4. ASSUME NEW x \in S PROVE x <= y
    <3>1. b - x \in T  OBVIOUS
    <3>2. b - y <= b - x  BY <2>2, <2>3, <3>1
    <3>3. x \in Int /\ y \in Int  OBVIOUS
    <3> QED  BY <3>2, <3>3
  <2> QED  BY <2>4
<1>3. \E m \in S : \A x \in S : m =< x  BY <1>1
<1>4. \E m \in S : \A x \in S : m >= x
  <2>1. PICK m \in S : \A x \in S : x <= m  BY <1>2
  <2>2. \A x \in S : x \in Int /\ m \in Int  OBVIOUS
  <2> QED  BY <2>1, <2>2
<1>5. Min(S) \in S /\ \A x \in S : Min(S) =< x  BY <1>3, Zenon DEF Min
<1>6. Max(S) \in S /\ \A x \in S : Max(S) >= x  BY <1>4, Zenon DEF Max
<1> QED  BY <1>5, <1>6

-----------------------------------------------------------------------------
(* Division                                                                *)

LEMMA DivisionBound ==
  ASSUME NEW a \in Int, NEW b \in Nat \ {0}, NEW c \in Int, a < b * c
  PROVE  a \div b < c
<1>1. b * (a \div b) <= a  OBVIOUS
<1>2. a \div b \in Int  OBVIOUS
<1>3. SUFFICES ASSUME a \div b >= c PROVE FALSE  BY <1>2
<1>4. b * (a \div b) >= b * c  BY <1>2, <1>3
<1>5. b * c \in Int /\ b * (a \div b) \in Int  BY <1>2
<1> QED  BY <1>1, <1>4, <1>5

\* Truncation takes away less than the divisor, and nothing from a multiple.
LEMMA TruncNear ==
  ASSUME NEW y \in Int, NEW d \in Nat \ {0}
  PROVE  /\ Trunc(y, d) \in Int
         /\ Abs(Trunc(y, d) * d - y) < d
<1>1. \A z \in Nat : /\ z \div d \in Nat
                     /\ (z \div d) * d <= z
                     /\ z < (z \div d) * d + d
  OBVIOUS
<1>2. CASE y >= 0
  <2> DEFINE q == y \div d
  <2>1. q \in Nat /\ q * d <= y /\ y < q * d + d  BY <1>1, <1>2
  <2>2. Trunc(y, d) = q  BY <1>2 DEF Trunc
  <2> HIDE DEF q
  <2>3. q * d \in Int  BY <2>1
  <2> QED  BY <2>1, <2>2, <2>3 DEF Abs
<1>3. CASE y < 0
  <2> DEFINE q == (-y) \div d
  <2>0. -y \in Nat  BY <1>3
  <2>1. q \in Nat /\ q * d <= -y /\ -y < q * d + d  BY <1>1, <2>0
  <2>2. Trunc(y, d) = -q  BY <1>3 DEF Trunc
  <2> HIDE DEF q
  <2>3. q * d \in Int /\ (-q) * d = -(q * d)  BY <2>1
  <2> QED  BY <2>1, <2>2, <2>3 DEF Abs
<1> QED  BY <1>2, <1>3

LEMMA TruncExact ==
  ASSUME NEW m \in Int, NEW d \in Nat \ {0}
  PROVE  Trunc(d * m, d) = m
<1> DEFINE t == Trunc(d * m, d)
<1>1. d * m \in Int  OBVIOUS
<1>2. t \in Int /\ Abs(t * d - d * m) < d  BY <1>1, TruncNear
<1> HIDE DEF t
<1>3. t * d - d * m = (t - m) * d  BY <1>2
<1>4. t - m \in Int  BY <1>2
<1>5. CASE t - m >= 1
  <2>1. (t - m) * d >= d  BY <1>4, <1>5
  <2>2. (t - m) * d \in Int  BY <1>4
  <2> QED  BY <1>2, <1>3, <2>1, <2>2 DEF Abs
<1>6. CASE t - m <= -1
  <2>1. (t - m) * d <= -d  BY <1>4, <1>6
  <2>2. (t - m) * d \in Int  BY <1>4
  <2> QED  BY <1>2, <1>3, <2>1, <2>2 DEF Abs
<1>7. CASE t - m = 0  BY <1>2, <1>7 DEF t
<1> QED  BY <1>4, <1>5, <1>6, <1>7

-----------------------------------------------------------------------------
(* What is given                                                           *)

Given ==
  /\ \E x \in Inputs : type = x.type /\ cols = x.cols /\ data = x.data
  /\ num \in Nums /\ writerSat \in BOOLEAN /\ readerSat \in BOOLEAN

H == Half(type.bytes)

LEMMA PowerInt == \A b \in {1, 2, 4} : Half(b) \in Int
<1> SUFFICES ASSUME NEW b \in {1, 2, 4} PROVE Half(b) \in Int  OBVIOUS
<1>1. \A k \in Nat : 2 ^ k \in Int  OBVIOUS
<1>2. ByteBits * b - 1 \in Nat  BY IntegerAssumption
<1> QED  BY <1>1, <1>2 DEF Half

LEMMA Numeric ==
  ASSUME Given
  PROVE  /\ Den \in Nat \ {0} /\ num \in Nat \ {0}
         /\ intvRadius \in Nat \ {0} /\ Capacity = 2 * intvRadius
         /\ cols \in Nat \ {1}
<1>1. PICK r \in 1 .. 2 ^ 15 : Capacity = 2 * r  BY IntegerAssumption
<1>2. r \in Nat \ {0}  OBVIOUS
<1>3. (2 * r) \div 2 = r  BY <1>2
<1> QED  BY <1>1, <1>2, <1>3, IntegerAssumption DEF Given, intvRadius

LEMMA Typed ==
  ASSUME Given
  PROVE  /\ type.bytes \in {1, 2, 4} /\ type.signed \in BOOLEAN
         /\ type = [bytes |-> type.bytes, signed |-> type.signed]
         /\ H \in Nat \ {0}
         /\ Low = (IF type.signed THEN -H ELSE 0) /\ High = Low + 2 * H - 1
         /\ Low \in Int /\ High \in Int
         /\ data \in Seq(Low .. High) /\ Len(data) \in Nat /\ Len(data) >= 2
<1>1. PICK x \in Inputs : type = x.type /\ cols = x.cols /\ data = x.data
  BY DEF Given
<1>2. /\ type \in [bytes : {1, 2, 4}, signed : BOOLEAN]
      /\ data \in Seq(TypeRange(type)) /\ Len(data) >= 2
  BY <1>1, IntegerAssumption
<1>3. type.bytes \in {1, 2, 4} /\ type.signed \in BOOLEAN
  BY <1>2
<1>4. H \in Int  BY <1>3, PowerInt DEF H
<1>5. Low = (IF type.signed THEN -H ELSE 0) /\ High = Low + 2 * H - 1
  BY DEF Low, High, Lowest, Numbers, H
<1>6. TypeRange(type) = Low .. High
  BY DEF TypeRange, Low, High
<1>7. Low \in Int /\ High \in Int  BY <1>4, <1>5
<1>8. data \in Seq(Low .. High) /\ Len(data) \in Nat  BY <1>2, <1>6
<1>9. data[1] \in Low .. High
  <2>1. 1 \in 1 .. Len(data)  BY <1>2, <1>8
  <2> QED  BY <1>8, <2>1, ElementOfSeq
<1>10. H >= 1
  <2>1. Low <= High  BY <1>7, <1>9
  <2> QED  BY <1>4, <1>5, <1>7, <2>1
<1>11. type = [bytes |-> type.bytes, signed |-> type.signed]  BY <1>2
<1> QED  BY <1>2, <1>3, <1>4, <1>5, <1>7, <1>8, <1>10, <1>11

LEMMA DataAt ==
  ASSUME Given, NEW k \in 1 .. Len(data)
  PROVE  data[k] \in Low .. High /\ data[k] \in Int
<1>1. data \in Seq(Low .. High) /\ Low \in Int /\ High \in Int  BY Typed
<1>2. data[k] \in Low .. High  BY <1>1, ElementOfSeq
<1> QED  BY <1>1, <1>2

LEMMA Ranges ==
  ASSUME Given
  PROVE  /\ minValue \in Int /\ valueRangeSize \in Nat
         /\ valueRangeSize <= 2 * H - 1
         /\ \A k \in 1 .. Len(data) : data[k] - minValue \in 0 .. valueRangeSize
<1> DEFINE D == ToSet(data)
<1>1. /\ Low \in Int /\ High \in Int /\ High = Low + 2 * H - 1 /\ H \in Nat
      /\ data \in Seq(Low .. High) /\ Len(data) \in Nat /\ Len(data) >= 2
  BY Typed
<1>2. D = {data[k] : k \in 1 .. Len(data)}  BY <1>1 DEF ToSet
<1>3. \A k \in 1 .. Len(data) : data[k] \in D  BY <1>2
<1>4. D \in SUBSET (Low .. High)  BY <1>2, DataAt
<1>5. D # {}  BY <1>1, <1>3
<1> HIDE DEF D
<1>6. /\ Min(D) \in D /\ \A x \in D : Min(D) <= x
      /\ Max(D) \in D /\ \A x \in D : x <= Max(D)
  BY <1>1, <1>4, <1>5, LeastInt
<1>7. minValue = Min(D) /\ valueRangeSize = Max(D) - Min(D)
  BY DEF minValue, valueRangeSize, D
<1> DEFINE lo == Min(D)
           hi == Max(D)
<1>8. lo \in Low .. High /\ hi \in Low .. High /\ lo <= hi  BY <1>4, <1>6
<1>9. \A k \in 1 .. Len(data) : lo <= data[k] /\ data[k] <= hi /\ data[k] \in Int
  BY <1>3, <1>6, DataAt
<1> HIDE DEF lo, hi
<1>10. minValue = lo /\ valueRangeSize = hi - lo  BY <1>7 DEF lo, hi
<1>11. lo \in Int /\ hi \in Int /\ hi - lo <= 2 * H - 1  BY <1>1, <1>8
<1>12. hi - lo \in Nat  BY <1>8, <1>11
<1>13. ASSUME NEW k \in 1 .. Len(data) PROVE data[k] - lo \in 0 .. (hi - lo)
  BY <1>9, <1>11
<1> QED  BY <1>10, <1>11, <1>12, <1>13

\* An exact value is told from all others by the bytes it is given.
LEMMA ExactBytes ==
  ASSUME Given, Fits, NEW k \in 1 .. Len(data)
  PROVE  /\ data[k] - minValue \in Nat
         /\ (data[k] - minValue) % Width = data[k] - minValue
<1>1. type.bytes \in {1, 2, 4} /\ H \in Nat  BY Typed
<1>2. /\ minValue \in Int /\ valueRangeSize \in Nat
      /\ valueRangeSize <= 2 * H - 1
      /\ data[k] - minValue \in 0 .. valueRangeSize
  BY Ranges
<1>3. Width \in Int /\ valueRangeSize < Width
  <2>1. \A b \in {1, 2, 4} : Numbers(b) \in Int  BY PowerInt DEF Numbers
  <2>2. Numbers(type.bytes) = 2 * H  BY DEF Numbers, H
  <2>3. CASE valueRangeSize <= Numbers(1)
    <3>1. Width = Numbers(1)  BY <2>3 DEF Width, ByteSize
    <3> QED  BY <1>2, <2>1, <2>3, <3>1 DEF Fits
  <2>4. CASE ~ (valueRangeSize <= Numbers(1)) /\ valueRangeSize <= Numbers(2)
    <3>1. Width = Numbers(2)  BY <2>4 DEF Width, ByteSize
    <3> QED  BY <1>2, <2>1, <2>4, <3>1 DEF Fits
  <2>5. CASE ~ (valueRangeSize <= Numbers(1)) /\ ~ (valueRangeSize <= Numbers(2))
    <3>1. Width = Numbers(4)  BY <2>5 DEF Width, ByteSize
    <3>2. type.bytes = 4  BY <1>1, <1>2, <2>2, <2>5
    <3> QED  BY <1>1, <1>2, <2>1, <2>2, <3>1, <3>2
  <2> QED  BY <2>3, <2>4, <2>5
<1> DEFINE d == data[k] - minValue
<1>4. d \in Nat /\ d < Width  BY <1>2, <1>3
<1> HIDE DEF d
<1>5. d % Width = d  BY <1>3, <1>4
<1> QED  BY <1>4, <1>5 DEF d

-----------------------------------------------------------------------------
(* Conversions to the type                                                 *)

LEMMA WordIn ==
  ASSUME Given, NEW x \in Int
  PROVE  /\ Word(x) \in Low .. High
         /\ x \in Low .. High => Word(x) = x
<1>1. /\ Low \in Int /\ High = Low + 2 * H - 1 /\ H \in Nat \ {0}
      /\ Numbers(type.bytes) = 2 * H
  BY Typed DEF Numbers, H
<1>2. 2 * H \in Nat \ {0} /\ x - Low \in Int  BY <1>1
<1>3. (x - Low) % (2 * H) \in 0 .. 2 * H - 1  BY <1>2
<1>4. Word(x) = Low + ((x - Low) % (2 * H))  BY <1>1 DEF Word
<1>5. x \in Low .. High => (x - Low) % (2 * H) = x - Low
  <2>1. x \in Low .. High => x - Low \in 0 .. 2 * H - 1  BY <1>1
  <2>2. \A z \in 0 .. 2 * H - 1 : z % (2 * H) = z  BY <1>2
  <2> QED  BY <2>1, <2>2
<1> QED  BY <1>1, <1>3, <1>4, <1>5

LEMMA ClampIs ==
  ASSUME Given, NEW x \in Int
  PROVE  Clamp(x) = IF x < Low THEN Low ELSE IF x > High THEN High ELSE x
<1>1. Low \in Int /\ High \in Int /\ Low <= High
  <2>1. Low \in Int /\ High = Low + 2 * H - 1 /\ H \in Nat \ {0}  BY Typed
  <2> QED  BY <2>1
<1>2. Min({High, x}) = IF x > High THEN High ELSE x
  <2> DEFINE m == Min({High, x})
  <2>1. \E y \in {High, x} : \A z \in {High, x} : y =< z  BY <1>1
  <2>2. m \in {High, x} /\ \A z \in {High, x} : m =< z  BY <2>1, Zenon DEF Min
  <2> HIDE DEF m
  <2>3. m = IF x > High THEN High ELSE x  BY <1>1, <2>2
  <2> QED  BY <2>3 DEF m
<1>3. PICK y \in Int : y = Min({High, x})  BY <1>1, <1>2
<1>4. Max({Low, y}) = IF y < Low THEN Low ELSE y
  <2> DEFINE m == Max({Low, y})
  <2>1. \E w \in {Low, y} : \A z \in {Low, y} : w >= z  BY <1>1
  <2>2. m \in {Low, y} /\ \A z \in {Low, y} : m >= z  BY <2>1, Zenon DEF Max
  <2> HIDE DEF m
  <2>3. m = IF y < Low THEN Low ELSE y  BY <1>1, <2>2
  <2> QED  BY <2>3 DEF m
<1>5. Clamp(x) = Max({Low, y})  BY <1>3 DEF Clamp
<1> QED  BY <1>1, <1>2, <1>3, <1>4, <1>5

LEMMA RebuildIn ==
  ASSUME Given, NEW p \in Int, NEW s \in Int, NEW sat \in BOOLEAN
  PROVE  Rebuild(p, s, sat) \in Low .. High
<1> DEFINE x == Trunc(p * Den + 2 * s * num, Den)
<1>1. p * Den + 2 * s * num \in Int  BY Numeric
<1>2. x \in Int  BY <1>1, Numeric, TruncNear
<1> HIDE DEF x
<1>3. Low \in Int /\ High \in Int /\ Low <= High
  <2>1. Low \in Int /\ High = Low + 2 * H - 1 /\ H \in Nat \ {0}  BY Typed
  <2> QED  BY <2>1
<1>4. Clamp(x) \in Low .. High  BY <1>2, <1>3, ClampIs
<1>5. Convert(x, sat) \in Low .. High
  BY <1>2, <1>3, <1>4, WordIn DEF Convert
<1>6. Rebuild(p, s, sat) = IF clamps THEN Clamp(x) ELSE Convert(x, sat)
  BY DEF Rebuild, x
<1> QED  BY <1>4, <1>5, <1>6

-----------------------------------------------------------------------------
(* Codes                                                                   *)

\* A rebuilt value is within the bound, up to truncation.
Near(x, v) ==
  IF (2 * num) % Den = 0 THEN Abs(x - v) * Den <= num
  ELSE Abs(x - v) * Den < num + Den

LEMMA AbsNat == \A x \in Int : Abs(x) \in Nat
  BY DEF Abs

\* An error in range has a code of the alphabet, half a bound from it at most.
LEMMA StateBound ==
  ASSUME Given, NEW e \in Nat, InRange(e)
  PROVE  /\ State(e) \in 0 .. intvRadius - 1
         /\ Abs(e * Den - 2 * State(e) * num) <= num
<1>1. /\ Den \in Nat \ {0} /\ num \in Nat \ {0}
      /\ intvRadius \in Nat \ {0} /\ Capacity = 2 * intvRadius
  BY Numeric
<1> DEFINE b == 2 * num
           y == e * Den + num
           q == y \div b
<1>2. b \in Nat \ {0} /\ y \in Nat  BY <1>1
<1>3. State(e) = q  BY <1>2 DEF State, Trunc
<1>4. y < b * intvRadius
  <2>1. e * Den < (2 * intvRadius - 1) * num  BY <1>1 DEF InRange
  <2>2. (2 * intvRadius - 1) * num = b * intvRadius - num  BY <1>1
  <2>3. e * Den \in Int /\ b * intvRadius \in Int  BY <1>1
  <2> QED  BY <1>1, <2>1, <2>2, <2>3
<1>5. q < intvRadius
  <2> HIDE DEF y, b
  <2> QED  BY <1>1, <1>2, <1>4, DivisionBound
<1>6. q \in Nat /\ q * b <= y /\ y < q * b + b
  <2> HIDE DEF y, b
  <2> QED  BY <1>2
<1> HIDE DEF q
<1>7. q * b = 2 * q * num  BY <1>1, <1>6
<1>8. e * Den \in Int /\ 2 * q * num \in Int  BY <1>1, <1>6
<1>9. 2 * q * num <= e * Den + num /\ e * Den + num < 2 * q * num + 2 * num
  BY <1>6, <1>7
<1>10. Abs(e * Den - 2 * q * num) <= num
  BY <1>1, <1>8, <1>9 DEF Abs
<1> QED  BY <1>1, <1>3, <1>5, <1>6, <1>10

\* What a code near enough stands for is near, before it is converted.
LEMMA RebuildNear ==
  ASSUME Given, NEW p \in Int, NEW s \in Int, NEW v \in Int,
         Abs(v * Den - (p * Den + 2 * s * num)) <= num
  PROVE  Near(Trunc(p * Den + 2 * s * num, Den), v)
<1>1. Den \in Nat \ {0} /\ num \in Nat \ {0}  BY Numeric
<1> DEFINE y == p * Den + 2 * s * num
           x == Trunc(y, Den)
<1>2. y \in Int  BY <1>1
<1>3. x \in Int /\ Abs(x * Den - y) < Den  BY <1>1, <1>2, TruncNear
<1>4. CASE (2 * num) % Den = 0
  <2> DEFINE m == (2 * num) \div Den
  <2>1. m \in Int /\ 2 * num = Den * m
    <3>1. \A z \in Nat : z % Den = 0 => z \div Den \in Int /\ z = Den * (z \div Den)
      BY <1>1
    <3>2. 2 * num \in Nat  BY <1>1
    <3> QED  BY <1>4, <3>1, <3>2
  <2> HIDE DEF m
  <2>2. y = Den * (p + s * m)
    <3>1. 2 * s * num = s * (2 * num)  BY <1>1
    <3>2. s * (Den * m) = Den * (s * m)  BY <1>1, <2>1
    <3>3. Den * (p + s * m) = p * Den + Den * (s * m)
      <4>1. s * m \in Int  BY <2>1
      <4> QED  BY <1>1, <4>1
    <3> QED  BY <2>1, <3>1, <3>2, <3>3
  <2>3. p + s * m \in Int  BY <2>1
  <2>4. x = p + s * m  BY <1>1, <2>2, <2>3, TruncExact
  <2>5. y = x * Den  BY <1>1, <2>2, <2>3, <2>4
  <2>6. Abs(v * Den - x * Den) <= num  BY <2>5
  <2> HIDE DEF x, y
  <2>7. Abs(x - v) * Den = Abs(v * Den - x * Den)
    <3>1. CASE x >= v
      <4>1. (x - v) * Den = x * Den - v * Den /\ (x - v) * Den >= 0
        BY <1>1, <1>3, <3>1
      <4>2. x * Den \in Int /\ v * Den \in Int  BY <1>1, <1>3
      <4> QED  BY <1>3, <3>1, <4>1, <4>2 DEF Abs
    <3>2. CASE x < v
      <4>1. (v - x) * Den = v * Den - x * Den /\ (v - x) * Den >= 0
        BY <1>1, <1>3, <3>2
      <4>2. x * Den \in Int /\ v * Den \in Int  BY <1>1, <1>3
      <4> QED  BY <1>3, <3>2, <4>1, <4>2 DEF Abs
    <3> QED  BY <1>3, <3>1, <3>2
  <2> QED  BY <1>4, <2>6, <2>7 DEF Near, x, y
<1>5. CASE (2 * num) % Den # 0
  <2> HIDE DEF x, y
  <2>1. Abs(v * Den - y) <= num  BY DEF y
  <2>2. x * Den \in Int /\ v * Den \in Int  BY <1>1, <1>3
  <2>3. x * Den - v * Den < num + Den /\ v * Den - x * Den < num + Den
    BY <1>1, <1>2, <1>3, <2>1, <2>2 DEF Abs
  <2>4. (x - v) * Den = x * Den - v * Den /\ (v - x) * Den = v * Den - x * Den
    BY <1>1, <1>3
  <2>5. Abs(x - v) * Den < num + Den  BY <1>3, <2>3, <2>4 DEF Abs
  <2> QED  BY <1>5, <2>5 DEF Near, x, y
<1> QED  BY <1>4, <1>5

LEMMA Closer ==
  ASSUME Given, NEW x \in Int, NEW y \in Int, NEW v \in Int,
         Near(x, v), Abs(y - v) <= Abs(x - v)
  PROVE  Near(y, v)
<1>1. Den \in Nat \ {0} /\ num \in Nat \ {0}  BY Numeric
<1>2. Abs(x - v) \in Nat /\ Abs(y - v) \in Nat  BY AbsNat
<1>3. Abs(y - v) * Den <= Abs(x - v) * Den  BY <1>1, <1>2
<1>4. Abs(y - v) * Den \in Nat /\ Abs(x - v) * Den \in Nat  BY <1>1, <1>2
<1> QED  BY <1>1, <1>3, <1>4 DEF Near

LEMMA ClampCloser ==
  ASSUME Given, NEW x \in Int, NEW v \in Low .. High
  PROVE  Clamp(x) \in Int /\ Abs(Clamp(x) - v) <= Abs(x - v)
<1>1. Low \in Int /\ High \in Int  BY Typed
<1>2. Clamp(x) = IF x < Low THEN Low ELSE IF x > High THEN High ELSE x  BY ClampIs
<1> QED  BY <1>1, <1>2 DEF Abs

-----------------------------------------------------------------------------
(* The middle of a type that does not clamp                                *)

Middle(x) == 4 * Abs(x - Centre) < H

LEMMA CentreIs ==
  ASSUME Given
  PROVE  Centre = Low + H /\ Centre \in Int
  BY Typed DEF Centre, H

LEMMA NearBound ==
  ASSUME Given, NEW x \in Int, NEW v \in Int, Near(x, v)
  PROVE  Abs(x - v) * Den < num + Den
<1>1. Den \in Nat \ {0} /\ num \in Nat \ {0}  BY Numeric
<1>2. Abs(x - v) \in Nat  BY AbsNat
<1>3. Abs(x - v) * Den \in Nat  BY <1>1, <1>2
<1> QED  BY <1>1, <1>3 DEF Near

LEMMA RoomyMiddle ==
  ASSUME Given, Roomy, ~ clamps, NEW k \in 1 .. Len(data), NEW x \in Int,
         Near(x, data[k])
  PROVE  Middle(x) /\ 4 * Abs(data[k] - Centre) < H
<1>1. /\ Den \in Nat \ {0} /\ num \in Nat \ {0} /\ H \in Nat \ {0}
      /\ Centre \in Int /\ data[k] \in Int
  BY Numeric, Typed, CentreIs, DataAt
<1> DEFINE a == Abs(data[k] - Centre)
           b == Abs(x - data[k])
           c == Abs(x - Centre)
<1>2. a \in Nat /\ b \in Nat /\ c \in Nat /\ c <= a + b  BY <1>1 DEF Abs
<1>3. b * Den < num + Den  BY <1>1, NearBound
<1>4. 4 * (a * Den + num + Den) < Den * H
  <2>1. k \in DOMAIN data  BY Typed
  <2> QED  BY <2>1 DEF Roomy, H
<1> HIDE DEF a, b, c
<1>5. a * Den \in Nat /\ b * Den \in Nat /\ Den * H \in Nat  BY <1>1, <1>2
<1>6. 4 * (a * Den + b * Den) < Den * H  BY <1>1, <1>3, <1>4, <1>5
<1>7. (4 * (a + b)) * Den < H * Den
  <2>1. (4 * (a + b)) * Den = 4 * (a * Den + b * Den)  BY <1>1, <1>2
  <2>2. H * Den = Den * H  BY <1>1
  <2> QED  BY <1>6, <2>1, <2>2
<1>8. 4 * (a + b) < H
  <2>1. SUFFICES ASSUME 4 * (a + b) >= H PROVE FALSE  BY <1>1, <1>2
  <2>2. (4 * (a + b)) * Den >= H * Den  BY <1>1, <1>2, <2>1
  <2>3. (4 * (a + b)) * Den \in Nat /\ H * Den \in Nat  BY <1>1, <1>2
  <2> QED  BY <1>7, <2>2, <2>3
<1> QED  BY <1>1, <1>2, <1>8 DEF a, b, c, Middle

\* Values, their errors and predictions there are numbers of the type.
LEMMA MiddleIn ==
  ASSUME Given, NEW x \in Int, Abs(x - Centre) < H
  PROVE  x \in Low .. High
<1>1. Centre = Low + H /\ Low \in Int /\ High = Low + 2 * H - 1 /\ H \in Nat
  BY CentreIs, Typed
<1> QED  BY <1>1 DEF Abs

-----------------------------------------------------------------------------
(* Predictions                                                             *)

\* The sum that predicts a value, before it is converted to the type.
Sum(x) == IF clamps THEN x ELSE Word(x)

\* A value that may be predicted is predicted from three before it.
LEMMA Neighbours ==
  ASSUME Given, NEW k \in Nat \ {0}, ~ Forced(k)
  PROVE  \E a, b, c \in 1 .. k - 1 :
           \A d : (\A j \in 1 .. k - 1 : d[j] \in Int) =>
                   Predict(d, k) = Sum(d[a] + d[b] - d[c])
<1>1. cols \in Nat \ {1}  BY Numeric
<1>2. CASE cols = 0 \/ k = 2
  <2>1. k - 1 \in 1 .. k - 1  BY <1>1, <1>2 DEF Forced
  <2>2. ASSUME NEW d, \A j \in 1 .. k - 1 : d[j] \in Int
        PROVE  Predict(d, k) = Sum(d[k - 1] + d[k - 1] - d[k - 1])
    <3>1. d[k - 1] + d[k - 1] - d[k - 1] = d[k - 1]  BY <2>1, <2>2
    <3> QED  BY <1>2, <3>1 DEF Predict, Sum
  <2> QED  BY <2>1, <2>2
<1>3. CASE ~ (cols = 0 \/ k = 2) /\ k <= cols
  <2>1. k - 1 \in 1 .. k - 1 /\ k - 2 \in 1 .. k - 1
    BY <1>1, <1>3 DEF Forced
  <2>2. ASSUME NEW d, \A j \in 1 .. k - 1 : d[j] \in Int
        PROVE  Predict(d, k) = Sum(d[k - 1] + d[k - 1] - d[k - 2])
    <3>1. 2 * d[k - 1] - d[k - 2] = d[k - 1] + d[k - 1] - d[k - 2]
      BY <2>1, <2>2
    <3> QED  BY <1>3, <3>1 DEF Predict, Sum
  <2> QED  BY <2>1, <2>2
<1>4. CASE ~ (cols = 0 \/ k = 2) /\ ~ (k <= cols) /\ k % cols = 1
  <2>1. k - cols \in 1 .. k - 1  BY <1>1, <1>4
  <2>2. ASSUME NEW d, \A j \in 1 .. k - 1 : d[j] \in Int
        PROVE  Predict(d, k) = Sum(d[k - cols] + d[k - cols] - d[k - cols])
    <3>1. d[k - cols] + d[k - cols] - d[k - cols] = d[k - cols]  BY <2>1, <2>2
    <3> QED  BY <1>4, <3>1 DEF Predict, Sum
  <2> QED  BY <2>1, <2>2
<1>5. CASE ~ (cols = 0 \/ k = 2) /\ ~ (k <= cols) /\ k % cols # 1
  <2>1. \A c \in Nat \ {0, 1} : (c + 1) % c = 1  OBVIOUS
  <2>2. k # cols + 1  BY <1>1, <1>5, <2>1
  <2>3. k - 1 \in 1 .. k - 1 /\ k - cols \in 1 .. k - 1 /\ k - cols - 1 \in 1 .. k - 1
    BY <1>1, <1>5, <2>2
  <2>4. ASSUME NEW d, \A j \in 1 .. k - 1 : d[j] \in Int
        PROVE  Predict(d, k) = Sum(d[k - 1] + d[k - cols] - d[k - cols - 1])
    BY <1>5 DEF Predict, Sum
  <2> QED  BY <2>3, <2>4
<1> QED  BY <1>2, <1>3, <1>4, <1>5

LEMMA PredictInt ==
  ASSUME Given, NEW k \in Nat \ {0}, ~ Forced(k),
         NEW d, \A j \in 1 .. k - 1 : d[j] \in Int
  PROVE  Predict(d, k) \in Int
<1>1. PICK a, b, c \in 1 .. k - 1 : Predict(d, k) = Sum(d[a] + d[b] - d[c])
  BY Neighbours
<1>2. d[a] + d[b] - d[c] \in Int  OBVIOUS
<1>3. Low \in Int /\ High \in Int  BY Typed
<1> QED  BY <1>1, <1>2, <1>3, WordIn DEF Sum

\* Writer and reader predict the same from the same values.
LEMMA PredictSame ==
  ASSUME Given, NEW k \in Nat \ {0}, ~ Forced(k),
         NEW d, \A j \in 1 .. k - 1 : d[j] \in Int,
         NEW e, \A j \in 1 .. k - 1 : e[j] = d[j]
  PROVE  Predict(e, k) = Predict(d, k)
<1>1. PICK a, b, c \in 1 .. k - 1 :
        \A f : (\A j \in 1 .. k - 1 : f[j] \in Int) =>
                Predict(f, k) = Sum(f[a] + f[b] - f[c])
  BY Neighbours
<1>2. Predict(d, k) = Sum(d[a] + d[b] - d[c])  BY <1>1
<1>3. Predict(e, k) = Sum(e[a] + e[b] - e[c])  BY <1>1
<1>4. e[a] = d[a] /\ e[b] = d[b] /\ e[c] = d[c]  OBVIOUS
<1> QED  BY <1>2, <1>3, <1>4

\* From the middle of a type predictions do not wrap, nor do their errors.
LEMMA PredictMiddle ==
  ASSUME Given, ~ clamps, NEW k \in Nat \ {0}, ~ Forced(k),
         NEW d, \A j \in 1 .. k - 1 : d[j] \in Int /\ Middle(d[j]),
         NEW v \in Int, Middle(v)
  PROVE  /\ Diff(v, Predict(d, k)) = v - Predict(d, k)
         /\ PredAbsErr(v, Predict(d, k)) = Abs(v - Predict(d, k))
<1>1. PICK a, b, c \in 1 .. k - 1 : Predict(d, k) = Sum(d[a] + d[b] - d[c])
  BY Neighbours
<1>2. PICK p \in Int : p = d[a] + d[b] - d[c]  OBVIOUS
<1>3. /\ Centre \in Int /\ Centre = Low + H /\ H \in Nat \ {0}
      /\ Low = (IF type.signed THEN -H ELSE 0) /\ Low \in Int /\ High \in Int
      /\ High = Low + 2 * H - 1
  BY CentreIs, Typed
<1>4. 4 * Abs(p - Centre) < 3 * H
  <2>1. PICK x, y, z \in Int : x = d[a] /\ y = d[b] /\ z = d[c]  OBVIOUS
  <2>2. /\ 4 * Abs(x - Centre) < H /\ 4 * Abs(y - Centre) < H
        /\ 4 * Abs(z - Centre) < H
    BY <2>1 DEF Middle
  <2> QED  BY <1>2, <1>3, <2>1, <2>2 DEF Abs
<1>5. Abs(p - Centre) < H  BY <1>3, <1>4 DEF Abs
<1>6. Predict(d, k) = p
  <2>1. Word(p) = p  BY <1>5, MiddleIn, WordIn
  <2> QED  BY <1>1, <1>2, <2>1 DEF Sum
<1>7. Abs(v - p) < H  BY <1>3, <1>4 DEF Middle, Abs
<1>8. CASE type.signed
  <2>1. Low = -H /\ High = H - 1  BY <1>3, <1>8
  <2>2. v - p \in Int /\ v - p \in Low .. High  BY <1>3, <1>7, <2>1 DEF Abs
  <2>3. Abs(v - p) \in Int /\ Abs(v - p) \in Low .. High  BY <1>3, <1>7, <2>1 DEF Abs
  <2>4. Word(v - p) = v - p /\ Word(Abs(v - p)) = Abs(v - p)
    BY <2>2, <2>3, WordIn
  <2> QED  BY <1>6, <2>4 DEF Diff, PredAbsErr
<1>9. CASE ~ type.signed
  BY <1>6, <1>9 DEF Diff, PredAbsErr
<1> QED  BY <1>8, <1>9

\* An error that fits is a natural number, that of the difference.
LEMMA ErrorNat ==
  ASSUME Given, NEW p \in Int, NEW v \in Int,
         clamps \/ ~ type.signed \/ cols # 0
  PROVE  Diff(v, p) \in Int /\ PredAbsErr(v, p) \in Nat
<1>1. Word(v - p) \in Int
  <2>1. Low \in Int /\ High \in Int  BY Typed
  <2> QED  BY <2>1, WordIn
<1>2. Diff(v, p) \in Int  BY <1>1 DEF Diff
<1>3. ~ (type = [bytes |-> 4, signed |-> TRUE] /\ cols = 0)
  <2>1. SUFFICES ASSUME type = [bytes |-> 4, signed |-> TRUE], cols = 0 PROVE FALSE
    OBVIOUS
  <2>2. type.bytes = 4 /\ type.signed = TRUE  BY <2>1
  <2> QED  BY <2>1, <2>2 DEF clamps
<1>4. PredAbsErr(v, p) = Abs(Diff(v, p))  BY <1>3 DEF PredAbsErr
<1> QED  BY <1>2, <1>4, AbsNat

LEMMA ErrorClamps ==
  ASSUME Given, clamps, NEW p \in Int, NEW v \in Int
  PROVE  Diff(v, p) = v - p /\ PredAbsErr(v, p) = Abs(v - p)
<1>1. type # [bytes |-> 4, signed |-> TRUE]
  <2>1. SUFFICES ASSUME type = [bytes |-> 4, signed |-> TRUE] PROVE FALSE  OBVIOUS
  <2>2. type.bytes = 4  BY <2>1
  <2> QED  BY <2>2 DEF clamps
<1> QED  BY <1>1 DEF Diff, PredAbsErr

\* What an error in range is coded as stands for a value near the one given,
\* for writer and reader alike.
LEMMA Quantized ==
  ASSUME Given, ErrorFits, NEW k \in 1 .. Len(data), ~ Forced(k),
         NEW d, \A j \in 1 .. k - 1 : d[j] \in Int,
         Roomy => \A j \in 1 .. k - 1 : Near(d[j], data[j]),
         NEW p, p = Predict(d, k), InRange(PredAbsErr(data[k], p)),
         NEW s, s = IF Diff(data[k], p) >= 0 THEN State(PredAbsErr(data[k], p))
                    ELSE -State(PredAbsErr(data[k], p))
  PROVE  /\ p \in Int /\ s \in Int
         /\ intvRadius + s \in 1 .. Capacity - 1
         /\ Roomy => \A sat \in BOOLEAN :
                       /\ Near(Rebuild(p, s, sat), data[k])
                       /\ Rebuild(p, s, sat) = Rebuild(p, s, writerSat)
<1>1. /\ Den \in Nat \ {0} /\ num \in Nat \ {0} /\ intvRadius \in Nat \ {0}
      /\ Capacity = 2 * intvRadius /\ k \in Nat \ {0} /\ Len(data) \in Nat
  <2>1. Len(data) \in Nat  BY Typed
  <2>2. k \in Nat \ {0}  BY <2>1
  <2> QED  BY <2>1, <2>2, Numeric
<1>2. p \in Int  BY <1>1, PredictInt
<1>3. data[k] \in Int /\ data[k] \in Low .. High  BY DataAt
<1>4. ~ clamps /\ Roomy => /\ Middle(data[k])
                          /\ \A j \in 1 .. k - 1 : d[j] \in Int /\ Middle(d[j])
  <2>1. SUFFICES ASSUME ~ clamps, Roomy
                 PROVE  /\ Middle(data[k])
                        /\ \A j \in 1 .. k - 1 : d[j] \in Int /\ Middle(d[j])
    OBVIOUS
  <2>2. Near(data[k], data[k])
    <3>1. Abs(data[k] - data[k]) = 0  BY <1>3 DEF Abs
    <3> QED  BY <1>1, <3>1 DEF Near
  <2>3. Middle(data[k])  BY <1>3, <2>1, <2>2, RoomyMiddle
  <2>4. ASSUME NEW j \in 1 .. k - 1 PROVE d[j] \in Int /\ Middle(d[j])
    <3>1. j \in 1 .. Len(data)  BY <1>1
    <3>2. d[j] \in Int /\ Near(d[j], data[j])  BY <2>1
    <3> QED  BY <2>1, <3>1, <3>2, RoomyMiddle
  <2> QED  BY <2>3, <2>4
<1>5. Roomy => /\ Diff(data[k], p) = data[k] - p
               /\ PredAbsErr(data[k], p) = Abs(data[k] - p)
  <2>1. CASE clamps  BY <1>2, <1>3, <2>1, ErrorClamps
  <2>2. CASE ~ clamps  BY <1>1, <1>3, <1>4, <2>2, PredictMiddle
  <2> QED  BY <2>1, <2>2
<1> DEFINE v == data[k]
           e == PredAbsErr(v, p)
           f == Diff(v, p)
<1>6. f \in Int /\ e \in Nat
  <2>1. CASE Roomy
    <3>1. f = v - p /\ e = Abs(v - p)  BY <1>5, <2>1
    <3>2. \A z \in Int : z - p \in Int /\ Abs(z - p) \in Nat
      <4> TAKE z \in Int
      <4>1. z - p \in Int  BY <1>2
      <4> QED  BY <4>1, AbsNat
    <3>3. v \in Int  BY <1>3
    <3> HIDE DEF v, f, e
    <3> QED  BY <3>1, <3>2, <3>3
  <2>2. CASE ~ Roomy
    <3>1. ~ type.signed \/ cols # 0  BY <2>2 DEF ErrorFits
    <3> QED  BY <1>2, <1>3, <3>1, ErrorNat
  <2> QED  BY <2>1, <2>2
<1>7. v \in Int /\ InRange(e) /\ s = IF f >= 0 THEN State(e) ELSE -State(e)
  BY <1>3
<1>8. Roomy => f = v - p /\ e = Abs(v - p)  BY <1>5
<1> HIDE DEF v, e, f
<1>9. State(e) \in 0 .. intvRadius - 1 /\ Abs(e * Den - 2 * State(e) * num) <= num
  BY <1>6, <1>7, StateBound
<1>10. s \in Int /\ intvRadius + s \in 1 .. Capacity - 1
  BY <1>1, <1>6, <1>7, <1>9
<1>11. ASSUME Roomy, NEW sat \in BOOLEAN
       PROVE  /\ Near(Rebuild(p, s, sat), v)
              /\ Rebuild(p, s, sat) = Rebuild(p, s, writerSat)
  <2> DEFINE x == Trunc(p * Den + 2 * s * num, Den)
  <2>1. f = v - p /\ e = Abs(v - p)  BY <1>8, <1>11
  <2>2. Abs(v * Den - (p * Den + 2 * s * num)) <= num
    <3>1. PICK q \in Int : q = State(e)  BY <1>1, <1>9
    <3>2. CASE v - p >= 0
      <4>1. s = q /\ e = v - p  BY <1>2, <1>7, <2>1, <3>1, <3>2 DEF Abs
      <4>2. e * Den = v * Den - p * Den  BY <1>1, <1>2, <1>7, <4>1
      <4>3. v * Den \in Int /\ p * Den \in Int /\ 2 * q * num \in Int
        BY <1>1, <1>2, <1>7, <3>1
      <4>4. v * Den - (p * Den + 2 * q * num) = e * Den - 2 * q * num
        BY <4>2, <4>3
      <4> QED  BY <1>9, <3>1, <4>1, <4>4
    <3>3. CASE ~ (v - p >= 0)
      <4>1. s = -q /\ e = p - v  BY <1>2, <1>7, <2>1, <3>1, <3>3 DEF Abs
      <4>2. e * Den = p * Den - v * Den  BY <1>1, <1>2, <1>7, <4>1
      <4>3. v * Den \in Int /\ p * Den \in Int /\ 2 * q * num \in Int
        BY <1>1, <1>2, <1>7, <3>1
      <4>4. 2 * s * num = -(2 * q * num)  BY <1>1, <3>1, <4>1
      <4>5. v * Den - (p * Den + 2 * s * num) = -(e * Den - 2 * q * num)
        BY <4>2, <4>3, <4>4
      <4>6. Abs(e * Den - 2 * q * num) <= num  BY <1>9, <3>1
      <4>7. e * Den - 2 * q * num \in Int  BY <4>2, <4>3
      <4> QED  BY <1>1, <4>5, <4>6, <4>7 DEF Abs
    <3> QED  BY <3>2, <3>3
  <2>3. Near(x, v)  BY <1>2, <1>7, <1>10, <2>2, RebuildNear
  <2>4. x \in Int
    <3>1. p * Den + 2 * s * num \in Int  BY <1>1, <1>2, <1>10
    <3> QED  BY <1>1, <3>1, TruncNear
  <2> HIDE DEF x
  <2>5. \A t \in BOOLEAN :
          Rebuild(p, s, t) = IF clamps THEN Clamp(x) ELSE Convert(x, t)
    BY DEF Rebuild, x
  <2>6. CASE clamps
    <3>1. Clamp(x) \in Int /\ Abs(Clamp(x) - v) <= Abs(x - v)
      BY <1>3, <2>4, ClampCloser DEF v
    <3>2. Near(Clamp(x), v)  BY <1>7, <2>3, <2>4, <3>1, Closer
    <3> QED  BY <2>5, <2>6, <3>2 DEF Given
  <2>7. CASE ~ clamps
    <3>1. Middle(x)  BY <1>11, <2>3, <2>4, <2>7, RoomyMiddle DEF v
    <3>2. Abs(x - Centre) < H
      <4>1. H \in Nat /\ Centre \in Int  BY Typed, CentreIs
      <4> QED  BY <2>4, <3>1, <4>1 DEF Middle, Abs
    <3>3. x \in Low .. High  BY <2>4, <3>2, MiddleIn
    <3>4. \A t \in BOOLEAN : Rebuild(p, s, t) = x
      BY <2>5, <2>7, <3>3 DEF Convert
    <3> QED  BY <2>3, <3>4 DEF Given
  <2> QED  BY <2>6, <2>7
<1> QED  BY <1>2, <1>10, <1>11 DEF v

-----------------------------------------------------------------------------
(* The inductive invariant                                                 *)

Zeros(s, k) == Cardinality({j \in 1 .. k : s[j] = 0})

\* Predictable, from any values r before.
PredictableFrom(r, k) ==
  IF Forced(k) THEN FALSE ELSE InRange(PredAbsErr(data[k], Predict(r, k)))

\* Codes c say what r was rebuilt from, in a way that the reader can follow.
CodedIn(c, r) ==
  ErrorFits => \A j \in 1 .. Len(c) :
    IF c[j] = 0 THEN r[j] = data[j] /\ ~ PredictableFrom(r, j)
    ELSE /\ c[j] \in 1 .. Capacity - 1 /\ ~ Forced(j) /\ PredictableFrom(r, j)
         /\ \A sat \in BOOLEAN : (sat = writerSat \/ Roomy) =>
              r[j] = Rebuild(Predict(r, j), c[j] - intvRadius, sat)

NearIn(r) == Roomy => \A j \in 1 .. Len(r) : Near(r[j], data[j])

\* The exact values are where the zeros among the codes count them.
ExactIn(c, e) ==
  Fits /\ ErrorFits =>
    /\ e \in Seq(Nat) /\ Len(e) = Zeros(c, Len(c))
    /\ \A j \in 1 .. Len(c) : (c[j] = 0 => e[Zeros(c, j)] = data[j] - minValue)

\* What was read so far, if the reader can follow at all.
OutIn(f, r, o) ==
  Fits /\ ErrorFits /\ (writerSat = readerSat \/ Roomy) =>
    /\ o \in Seq(Int) /\ Len(o) <= Len(data)
    /\ f \in {"new", "coding"} => o = << >>
    /\ \A j \in 1 .. Len(o) : (f = "coded" => o[j] = r[j])
                             /\ (f = "constant" => o[j] = data[1])
                             /\ (f = "raw" => o[j] = data[j])

IInv ==
  /\ Given
  /\ form \in {"new", "coding", "constant", "coded", "raw"}
  /\ form = "new" => codes = << >> /\ exact = << >> /\ rebuilt = << >>
  /\ form = "coded" => Len(rebuilt) = Len(data)
  /\ form = "constant" => valueRangeSize * Den <= num
  /\ form = "raw" => \A j \in 1 .. Len(data) : stored[j] = data[j]
  /\ codes \in Seq(Int) /\ rebuilt \in Seq(Int)
  /\ Len(codes) = Len(rebuilt) /\ Len(rebuilt) <= Len(data)
  /\ CodedIn(codes, rebuilt) /\ NearIn(rebuilt)
  /\ ExactIn(codes, exact) /\ OutIn(form, rebuilt, out)

\* What the steps leave alone.
LEMMA Stays ==
  ASSUME UNCHANGED given
  PROVE  /\ Given' <=> Given
         /\ data' = data /\ num' = num /\ valueRangeSize' = valueRangeSize
         /\ \A c, r : CodedIn(c, r)' <=> CodedIn(c, r)
         /\ \A r : NearIn(r)' <=> NearIn(r)
         /\ \A c, e : ExactIn(c, e)' <=> ExactIn(c, e)
         /\ \A f, r, o : OutIn(f, r, o)' <=> OutIn(f, r, o)
<1>1. /\ type' = type /\ cols' = cols /\ data' = data /\ num' = num
      /\ writerSat' = writerSat /\ readerSat' = readerSat
  BY DEF given
<1>2. Given' <=> Given  BY <1>1 DEF Given
<1>3. Low' = Low /\ High' = High /\ (clamps' <=> clamps)
  BY <1>1 DEF Low, High, clamps
<1>4. \A x : Word(x)' = Word(x) /\ Clamp(x)' = Clamp(x)
  BY <1>1, <1>3 DEF Word, Clamp
<1>5. \A d, k : Predict(d, k)' = Predict(d, k)
  BY <1>1, <1>3, <1>4 DEF Predict
<1>6. \A x, sat : Convert(x, sat)' = Convert(x, sat)
  BY <1>1, <1>3, <1>4 DEF Convert
<1>7. \A q, t, sat : Rebuild(q, t, sat)' = Rebuild(q, t, sat)
  BY <1>1, <1>3, <1>4, <1>6 DEF Rebuild
<1>8. minValue' = minValue /\ valueRangeSize' = valueRangeSize
  BY <1>1 DEF minValue, valueRangeSize
<1>9. (Fits' <=> Fits)  BY <1>8 DEF Fits, Width
<1>10. (Roomy' <=> Roomy)  BY <1>1, <1>3 DEF Roomy, Centre
<1>11. (ErrorFits' <=> ErrorFits)  BY <1>1, <1>10 DEF ErrorFits
<1>12. \A j : Forced(j)' <=> Forced(j)  BY <1>1 DEF Forced
<1>17. \A r, k : PredictableFrom(r, k)' <=> PredictableFrom(r, k)
  <2>1. \A v, q : PredAbsErr(v, q)' = PredAbsErr(v, q)
    BY <1>1, <1>4 DEF PredAbsErr, Diff
  <2>2. \A e : InRange(e)' <=> InRange(e)  BY <1>1 DEF InRange
  <2> QED  BY <1>1, <1>5, <1>12, <2>1, <2>2 DEF PredictableFrom
<1>13. \A c, r : CodedIn(c, r)' <=> CodedIn(c, r)
  BY <1>1, <1>5, <1>7, <1>10, <1>11, <1>12, <1>17 DEF CodedIn
<1>14. \A r : NearIn(r)' <=> NearIn(r)
  BY <1>1, <1>10 DEF NearIn, Near
<1>15. \A c, e : ExactIn(c, e)' <=> ExactIn(c, e)
  BY <1>1, <1>8, <1>9, <1>11 DEF ExactIn
<1>16. \A f, r, o : OutIn(f, r, o)' <=> OutIn(f, r, o)
  BY <1>1, <1>9, <1>10, <1>11 DEF OutIn
<1> QED  BY <1>1, <1>2, <1>8, <1>13, <1>14, <1>15, <1>16

-----------------------------------------------------------------------------
(* Counting zeros, and sequences that grow                                 *)

LEMMA ZerosNat ==
  ASSUME NEW s, NEW k \in Nat
  PROVE  Zeros(s, k) \in Nat /\ IsFiniteSet({j \in 1 .. k : s[j] = 0})
<1> DEFINE Z == {j \in 1 .. k : s[j] = 0}
<1>1. IsFiniteSet(1 .. k)  BY FS_Interval
<1>2. Z \in SUBSET (1 .. k)  OBVIOUS
<1>3. IsFiniteSet(Z)  BY <1>1, <1>2, FS_Subset
<1> QED  BY <1>3, FS_CardinalityType DEF Zeros

LEMMA ZerosNone == ASSUME NEW s PROVE Zeros(s, 0) = 0
<1>1. {j \in 1 .. 0 : s[j] = 0} = {}  OBVIOUS
<1> QED  BY <1>1, FS_EmptySet DEF Zeros

LEMMA ZerosStep ==
  ASSUME NEW s, NEW k \in Nat
  PROVE  Zeros(s, k + 1) = IF s[k + 1] = 0 THEN Zeros(s, k) + 1 ELSE Zeros(s, k)
<1> DEFINE Z == {j \in 1 .. k : s[j] = 0}
           Y == {j \in 1 .. (k + 1) : s[j] = 0}
<1>1. IsFiniteSet(Z)  BY ZerosNat
<1>2. 1 .. (k + 1) = (1 .. k) \cup {k + 1}  OBVIOUS
<1>3. CASE s[k + 1] = 0
  <2>1. Y = Z \cup {k + 1}  BY <1>2, <1>3
  <2>2. k + 1 \notin Z  OBVIOUS
  <2>3. Cardinality(Y) = Cardinality(Z) + 1  BY <1>1, <2>1, <2>2, FS_AddElement
  <2> QED  BY <1>3, <2>3 DEF Zeros
<1>4. CASE s[k + 1] # 0
  <2>1. Y = Z  BY <1>2, <1>4
  <2> QED  BY <1>4, <2>1 DEF Zeros
<1> QED  BY <1>3, <1>4

LEMMA ZerosMonotonic ==
  ASSUME NEW s, NEW j \in Nat, NEW k \in Nat, j <= k
  PROVE  Zeros(s, j) <= Zeros(s, k)
<1> DEFINE Z(m) == {x \in 1 .. m : s[x] = 0}
<1>1. IsFiniteSet(Z(k))  BY ZerosNat
<1>2. Z(j) \in SUBSET Z(k)  OBVIOUS
<1> QED  BY <1>1, <1>2, FS_Subset DEF Zeros

LEMMA ZerosAppend ==
  ASSUME NEW s \in Seq(Int), NEW t \in Int, NEW k \in 0 .. Len(s)
  PROVE  Zeros(Append(s, t), k) = Zeros(s, k)
<1>1. \A j \in 1 .. k : Append(s, t)[j] = s[j]  BY AppendProperties
<1>2. {j \in 1 .. k : Append(s, t)[j] = 0} = {j \in 1 .. k : s[j] = 0}  BY <1>1
<1> QED  BY <1>2 DEF Zeros

\* Everything the steps below need to know of Append.
LEMMA AppendAt ==
  ASSUME NEW S, NEW s \in Seq(S), NEW x \in S
  PROVE  /\ Append(s, x) \in Seq(S) /\ Len(s) \in Nat
         /\ Len(Append(s, x)) = Len(s) + 1
         /\ Append(s, x)[Len(s) + 1] = x
         /\ \A j \in 1 .. Len(s) : Append(s, x)[j] = s[j] /\ s[j] \in S
  BY AppendProperties, ElementOfSeq

-----------------------------------------------------------------------------
(* The writer                                                              *)

\* What a value must be coded as for the reader to follow.
Sound(t, y) ==
  ErrorFits =>
    IF t = 0 THEN y = data[i] /\ ~ PredictableFrom(rebuilt, i)
    ELSE /\ t \in 1 .. Capacity - 1 /\ ~ Forced(i) /\ PredictableFrom(rebuilt, i)
         /\ \A sat \in BOOLEAN : (sat = writerSat \/ Roomy) =>
              y = Rebuild(Predict(rebuilt, i), t - intvRadius, sat)

LEMMA CodedAppend ==
  ASSUME IInv, NEW t \in Int, NEW y \in Int, Sound(t, y)
  PROVE  CodedIn(Append(codes, t), Append(rebuilt, y))
<1> DEFINE c == Append(codes, t)
           r == Append(rebuilt, y)
           m == Len(rebuilt)
<1>1. /\ m \in Nat /\ Len(codes) = m /\ Len(c) = m + 1
      /\ c[m + 1] = t /\ r[m + 1] = y
      /\ \A j \in 1 .. m : /\ c[j] = codes[j] /\ r[j] = rebuilt[j]
                          /\ rebuilt[j] \in Int
  BY AppendAt DEF IInv
<1>2. Given /\ CodedIn(codes, rebuilt) /\ i = m + 1  BY DEF IInv, i
<1>3. ASSUME NEW j \in 1 .. m + 1, ~ Forced(j)
      PROVE  Predict(r, j) = Predict(rebuilt, j)
  <2>1. j \in Nat \ {0}  BY <1>1
  <2>2. \A k \in 1 .. j - 1 : rebuilt[k] \in Int /\ r[k] = rebuilt[k]
    BY <1>1
  <2> HIDE DEF r, m
  <2> QED  BY <1>2, <1>3, <2>1, <2>2, PredictSame
<1> HIDE DEF c, r, m
<1>6. ASSUME NEW j \in 1 .. m + 1
      PROVE  PredictableFrom(r, j) <=> PredictableFrom(rebuilt, j)
  BY <1>3 DEF PredictableFrom
<1>4. ASSUME ErrorFits, NEW j \in 1 .. m + 1
      PROVE  IF c[j] = 0 THEN r[j] = data[j] /\ ~ PredictableFrom(r, j)
             ELSE /\ c[j] \in 1 .. Capacity - 1 /\ ~ Forced(j) /\ PredictableFrom(r, j)
                  /\ \A sat \in BOOLEAN : (sat = writerSat \/ Roomy) =>
                       r[j] = Rebuild(Predict(r, j), c[j] - intvRadius, sat)
  <2>1. CASE j = m + 1
    <3>1. c[j] = t /\ r[j] = y /\ i = j  BY <1>1, <1>2, <2>1
    <3>2. ~ Forced(j) => Predict(r, j) = Predict(rebuilt, j)  BY <1>3
    <3> QED  BY <1>4, <1>6, <3>1, <3>2 DEF Sound
  <2>2. CASE j # m + 1
    <3>1. j \in 1 .. m  BY <1>1, <2>2
    <3>2. c[j] = codes[j] /\ r[j] = rebuilt[j] /\ j \in 1 .. Len(codes)
      BY <1>1, <3>1
    <3>3. ~ Forced(j) => Predict(r, j) = Predict(rebuilt, j)  BY <1>3
    <3> QED  BY <1>2, <1>4, <1>6, <3>2, <3>3 DEF CodedIn
  <2> QED  BY <2>1, <2>2
<1>5. CodedIn(c, r)  BY <1>1, <1>4 DEF CodedIn
<1> QED  BY <1>5 DEF c, r

LEMMA NearAppend ==
  ASSUME IInv, NEW y \in Int, Roomy => Near(y, data[i])
  PROVE  NearIn(Append(rebuilt, y))
<1>1. /\ Len(rebuilt) \in Nat /\ i = Len(rebuilt) + 1
      /\ Len(Append(rebuilt, y)) = i /\ Append(rebuilt, y)[i] = y
      /\ \A j \in 1 .. Len(rebuilt) : Append(rebuilt, y)[j] = rebuilt[j]
  BY AppendAt DEF IInv, i
<1>2. ASSUME Roomy, NEW j \in 1 .. i PROVE Near(Append(rebuilt, y)[j], data[j])
  <2>1. CASE j = i  BY <1>1, <1>2, <2>1
  <2>2. CASE j # i
    <3>1. j \in 1 .. Len(rebuilt)  BY <1>1, <2>2
    <3> QED  BY <1>1, <1>2, <3>1 DEF IInv, NearIn
  <2> QED  BY <2>1, <2>2
<1> QED  BY <1>1, <1>2 DEF NearIn

LEMMA ExactAppend ==
  ASSUME IInv, NEW t \in Int, NEW e,
         Fits /\ ErrorFits =>
           IF t = 0 THEN /\ data[i] - minValue \in Nat
                         /\ e = Append(exact, data[i] - minValue)
           ELSE e = exact
  PROVE  ExactIn(Append(codes, t), e)
<1> SUFFICES ASSUME Fits, ErrorFits
             PROVE  /\ e \in Seq(Nat) /\ Len(e) = Zeros(Append(codes, t), Len(Append(codes, t)))
                    /\ \A j \in 1 .. Len(Append(codes, t)) :
                         Append(codes, t)[j] = 0 =>
                           e[Zeros(Append(codes, t), j)] = data[j] - minValue
  BY DEF ExactIn
<1> DEFINE c == Append(codes, t)
           m == Len(codes)
<1>1. /\ m \in Nat /\ i = m + 1 /\ Len(c) = m + 1 /\ c[m + 1] = t
      /\ \A j \in 1 .. m : c[j] = codes[j]
  BY AppendAt DEF IInv, i
<1>2. /\ exact \in Seq(Nat) /\ Len(exact) = Zeros(codes, m)
      /\ \A j \in 1 .. m : codes[j] = 0 => exact[Zeros(codes, j)] = data[j] - minValue
  BY DEF IInv, ExactIn
<1>3. \A j \in 0 .. m : Zeros(c, j) = Zeros(codes, j)
  BY ZerosAppend DEF IInv
<1>4. Zeros(c, m) = Len(exact)  BY <1>1, <1>2, <1>3
<1> HIDE DEF c, m
<1>5. \A j \in 1 .. m : c[j] = 0 => Zeros(c, j) \in 1 .. Len(exact)
  <2> TAKE j \in 1 .. m
  <2> HAVE c[j] = 0
  <2>1. j \in Nat /\ j <= m /\ j - 1 \in Nat /\ j - 1 + 1 = j  BY <1>1
  <2>2. Zeros(c, j) = Zeros(c, j - 1) + 1  BY <2>1, ZerosStep
  <2>3. Zeros(c, j - 1) \in Nat /\ Zeros(c, j) <= Zeros(c, m) /\ Zeros(c, m) \in Nat
    BY <1>1, <2>1, ZerosNat, ZerosMonotonic
  <2> QED  BY <1>4, <2>2, <2>3
<1>6. Zeros(c, m + 1) = IF t = 0 THEN Len(exact) + 1 ELSE Len(exact)
  BY <1>1, <1>4, ZerosStep
<1>7. CASE t = 0
  <2>1. /\ e \in Seq(Nat) /\ Len(e) = Len(exact) + 1 /\ Len(exact) \in Nat
        /\ e[Len(exact) + 1] = data[i] - minValue
        /\ \A j \in 1 .. Len(exact) : e[j] = exact[j]
    BY <1>2, <1>7, AppendAt
  <2>2. ASSUME NEW j \in 1 .. m + 1, c[j] = 0
        PROVE  e[Zeros(c, j)] = data[j] - minValue
    <3>1. CASE j = m + 1  BY <1>1, <1>6, <1>7, <2>1, <3>1
    <3>2. CASE j # m + 1
      <4>1. j \in 1 .. m  BY <1>1, <3>2
      <4>2. Zeros(c, j) \in 1 .. Len(exact)  BY <1>5, <2>2, <4>1
      <4>3. codes[j] = 0 /\ Zeros(c, j) = Zeros(codes, j)
        BY <1>1, <1>3, <2>2, <4>1
      <4> QED  BY <1>2, <2>1, <4>1, <4>2, <4>3
    <3> QED  BY <3>1, <3>2
  <2> QED  BY <1>1, <1>6, <1>7, <2>1, <2>2 DEF c
<1>8. CASE t # 0
  <2>1. e = exact  BY <1>8
  <2>2. ASSUME NEW j \in 1 .. m + 1, c[j] = 0
        PROVE  e[Zeros(c, j)] = data[j] - minValue
    <3>1. j # m + 1  BY <1>1, <1>8, <2>2
    <3>2. j \in 1 .. m  BY <1>1, <3>1
    <3>3. codes[j] = 0 /\ Zeros(c, j) = Zeros(codes, j)
      BY <1>1, <1>3, <2>2, <3>2
    <3> QED  BY <1>2, <2>1, <3>2, <3>3
  <2> QED  BY <1>1, <1>2, <1>6, <1>8, <2>1, <2>2 DEF c
<1> QED  BY <1>7, <1>8

LEMMA InitHolds == Init => IInv
<1> SUFFICES ASSUME Init PROVE IInv  OBVIOUS
<1>1. Given  BY DEF Init, Given
<1>2. /\ form = "new" /\ codes = << >> /\ exact = << >> /\ rebuilt = << >> /\ out = << >>
      /\ codes \in Seq(Int) /\ rebuilt \in Seq(Int) /\ out \in Seq(Int)
      /\ exact \in Seq(Nat)
      /\ Len(codes) = 0 /\ Len(rebuilt) = 0 /\ Len(out) = 0 /\ Len(exact) = 0
  BY DEF Init
<1>3. Len(data) \in Nat  BY <1>1, Typed
<1>4. CodedIn(codes, rebuilt) /\ NearIn(rebuilt)  BY <1>2 DEF CodedIn, NearIn
<1>5. ExactIn(codes, exact)  BY <1>2, ZerosNone DEF ExactIn
<1>6. OutIn(form, rebuilt, out)  BY <1>2, <1>3 DEF OutIn
<1> QED  BY <1>1, <1>2, <1>3, <1>4, <1>5, <1>6 DEF IInv

\* A step that changes the form of the block alone.
LEMMA FormHolds ==
  ASSUME IInv, UNCHANGED <<given, codes, exact, rebuilt, out>>,
         form \in {"new", "coding"}, form' \in {"coding", "constant", "coded", "raw"},
         form' = "raw" => \A j \in 1 .. Len(data) : stored'[j] = data[j],
         form' = "constant" => valueRangeSize * Den <= num,
         form' = "coded" => Len(rebuilt) = Len(data)
  PROVE  IInv'
<1>1. UNCHANGED given /\ codes' = codes /\ exact' = exact /\ rebuilt' = rebuilt /\ out' = out
  OBVIOUS
<1>2. OutIn(form', rebuilt, out)
  <2>1. SUFFICES ASSUME Fits, ErrorFits, writerSat = readerSat \/ Roomy
                 PROVE  out = << >> /\ out \in Seq(Int) /\ Len(out) <= Len(data)
    BY DEF OutIn
  <2> QED  BY <2>1 DEF IInv, OutIn
<1> QED  BY <1>1, <1>2, Stays DEF IInv

\* A step of the writer.
LEMMA EncodeHolds ==
  ASSUME IInv, UNCHANGED <<given, form, out>>, form = "coding", i <= Len(data),
         NEW t \in Int, NEW y \in Int,
         codes' = Append(codes, t), rebuilt' = Append(rebuilt, y),
         Sound(t, y), Roomy => Near(y, data[i]),
         Fits /\ ErrorFits =>
           IF t = 0 THEN /\ data[i] - minValue \in Nat
                         /\ exact' = Append(exact, data[i] - minValue)
           ELSE exact' = exact
  PROVE  IInv'
<1>1. UNCHANGED given /\ form' = form /\ out' = out  OBVIOUS
<1>2. /\ codes' \in Seq(Int) /\ rebuilt' \in Seq(Int)
      /\ Len(codes') = Len(codes) + 1 /\ Len(rebuilt') = Len(rebuilt) + 1
      /\ Len(rebuilt') = i
  BY AppendAt DEF IInv, i
<1>3. CodedIn(codes', rebuilt')  BY CodedAppend
<1>4. NearIn(rebuilt')  BY NearAppend
<1>5. ExactIn(codes', exact')  BY ExactAppend
<1>6. OutIn(form', rebuilt', out')
  <2>1. SUFFICES ASSUME Fits, ErrorFits, writerSat = readerSat \/ Roomy
                 PROVE  out = << >> /\ out \in Seq(Int) /\ Len(out) <= Len(data)
    BY <1>1 DEF OutIn
  <2> QED  BY <2>1 DEF IInv, OutIn
<1> QED  BY <1>1, <1>2, <1>3, <1>4, <1>5, <1>6, Stays DEF IInv

\* The value at hand.
LEMMA Current ==
  ASSUME IInv, i <= Len(data)
  PROVE  i \in 1 .. Len(data) /\ data[i] \in Int
<1>1. Given /\ Len(rebuilt) \in Nat /\ i = Len(rebuilt) + 1
  BY DEF IInv, i
<1>2. Len(data) \in Nat  BY <1>1, Typed
<1>3. i \in 1 .. Len(data)  BY <1>1, <1>2
<1> QED  BY <1>1, <1>3, DataAt

LEMMA EncodeExactHolds == IInv /\ EncodeExact => IInv'
<1> SUFFICES ASSUME IInv, EncodeExact PROVE IInv'  OBVIOUS
<1>1. /\ form = "coding" /\ i <= Len(data) /\ UNCHANGED <<given, form, out>>
      /\ codes' = Append(codes, 0) /\ rebuilt' = Append(rebuilt, data[i])
      /\ exact' = Append(exact, (data[i] - minValue) % Width)
  BY DEF EncodeExact
<1>2. Given /\ i \in 1 .. Len(data) /\ data[i] \in Int  BY <1>1, Current DEF IInv
<1>3. Sound(0, data[i])
  <2>1. ~ PredictableFrom(rebuilt, i)
    BY DEF EncodeExact, Predictable, PredictableFrom
  <2> QED  BY <2>1 DEF Sound
<1>4. Near(data[i], data[i])
  <2>1. Den \in Nat \ {0} /\ num \in Nat \ {0}  BY <1>2, Numeric
  <2>2. Abs(data[i] - data[i]) = 0  BY <1>2 DEF Abs
  <2> QED  BY <2>1, <2>2 DEF Near
<1>5. Fits => /\ data[i] - minValue \in Nat
              /\ exact' = Append(exact, data[i] - minValue)
  BY <1>1, <1>2, ExactBytes
<1> QED  BY <1>1, <1>2, <1>3, <1>4, <1>5, EncodeHolds

LEMMA EncodePredictedHolds == IInv /\ EncodePredicted => IInv'
<1> SUFFICES ASSUME IInv, EncodePredicted PROVE IInv'  OBVIOUS
<1> DEFINE p == Predict(rebuilt, i)
           e == PredAbsErr(data[i], p)
           s == IF Diff(data[i], p) >= 0 THEN State(e) ELSE -State(e)
           y == Rebuild(p, s, writerSat)
<1>1. /\ form = "coding" /\ i <= Len(data) /\ UNCHANGED <<given, form, out>>
      /\ exact' = exact /\ ~ Forced(i) /\ InRange(e)
      /\ codes' = Append(codes, intvRadius + s) /\ rebuilt' = Append(rebuilt, y)
  BY DEF EncodePredicted, Predictable
<1>2. /\ Given /\ i \in 1 .. Len(data) /\ data[i] \in Int
      /\ Len(rebuilt) = i - 1 /\ writerSat \in BOOLEAN
      /\ \A j \in 1 .. i - 1 : rebuilt[j] \in Int
  <2>1. Given /\ i \in 1 .. Len(data) /\ data[i] \in Int  BY <1>1, Current DEF IInv
  <2>2. rebuilt \in Seq(Int) /\ i = Len(rebuilt) + 1  BY DEF IInv, i
  <2> QED  BY <2>1, <2>2 DEF Given
<1>3. Roomy => \A j \in 1 .. i - 1 : Near(rebuilt[j], data[j])
  BY <1>2 DEF IInv, NearIn
<1>4. /\ Den \in Nat \ {0} /\ num \in Nat \ {0} /\ intvRadius \in Nat \ {0}
      /\ Low \in Int /\ High \in Int /\ i \in Nat \ {0}
  <2>1. Len(data) \in Nat /\ Low \in Int /\ High \in Int  BY <1>2, Typed
  <2> QED  BY <1>2, <2>1, Numeric
<1>5. p \in Int  BY <1>1, <1>2, <1>4, PredictInt
<1>6. s \in Int
  <2>1. \A x \in Int : State(x) \in Int
    <3> TAKE x \in Int
    <3>1. x * Den + num \in Int /\ 2 * num \in Nat \ {0}  BY <1>4
    <3> QED  BY <3>1, TruncNear DEF State
  <2>2. \A x \in Int : Word(x) \in Int /\ Abs(x) \in Int
    <3> TAKE x \in Int
    <3>1. Word(x) \in Low .. High  BY <1>2, WordIn
    <3> QED  BY <1>4, <3>1 DEF Abs
  <2>3. data[i] - p \in Int  BY <1>2, <1>5
  <2>4. Diff(data[i], p) \in Int  BY <2>2, <2>3 DEF Diff
  <2>5. e \in Int  BY <2>2, <2>3, <2>4 DEF PredAbsErr
  <2> HIDE DEF e
  <2> QED  BY <2>1, <2>4, <2>5
<1>7. y \in Int
  <2>1. y \in Low .. High
    <3> HIDE DEF p, s
    <3> QED  BY <1>2, <1>5, <1>6, RebuildIn
  <2> QED  BY <1>4, <2>1
<1>8. ErrorFits => /\ intvRadius + s \in 1 .. Capacity - 1
                   /\ Roomy => \A sat \in BOOLEAN :
                                 /\ Near(Rebuild(p, s, sat), data[i])
                                 /\ Rebuild(p, s, sat) = Rebuild(p, s, writerSat)
  BY <1>1, <1>2, <1>3, Quantized
<1>9. Roomy => ErrorFits  BY DEF ErrorFits
<1>15. PredictableFrom(rebuilt, i)  BY <1>1 DEF PredictableFrom
<1> HIDE DEF p, e, s
<1>10. PICK t \in Int : t = intvRadius + s /\ s = t - intvRadius  BY <1>4, <1>6
<1>11. Sound(t, y)
  <2>1. SUFFICES ASSUME ErrorFits
        PROVE  /\ t # 0 /\ t \in 1 .. Capacity - 1
               /\ \A sat \in BOOLEAN : (sat = writerSat \/ Roomy) =>
                    y = Rebuild(p, t - intvRadius, sat)
    BY <1>1, <1>15 DEF Sound, p
  <2>2. t \in 1 .. Capacity - 1  BY <1>8, <1>10, <2>1
  <2>3. t # 0  BY <2>2
  <2>4. ASSUME NEW sat \in BOOLEAN, sat = writerSat \/ Roomy
        PROVE  y = Rebuild(p, t - intvRadius, sat)
    BY <1>8, <1>10, <2>1, <2>4
  <2> QED  BY <2>2, <2>3, <2>4
<1>12. Roomy => Near(y, data[i])  BY <1>2, <1>8, <1>9
<1>13. ErrorFits => t # 0 /\ exact' = exact  BY <1>1, <1>8, <1>10
<1>14. codes' = Append(codes, t) /\ rebuilt' = Append(rebuilt, y)
  BY <1>1, <1>10
<1> HIDE DEF y
<1> QED  BY <1>1, <1>7, <1>11, <1>12, <1>13, <1>14, EncodeHolds

-----------------------------------------------------------------------------
(* The reader                                                              *)

Follow == Fits /\ ErrorFits /\ (writerSat = readerSat \/ Roomy)

LEMMA DecodeHolds ==
  ASSUME IInv, UNCHANGED <<given, form, codes, exact, stored, rebuilt>>, n <= Len(data),
         form \notin {"new", "coding"}, NEW z, out' = Append(out, z),
         Follow => /\ z \in Int
                   /\ form = "coded" => z = rebuilt[n]
                   /\ form = "constant" => z = data[1]
                   /\ form = "raw" => z = data[n]
  PROVE  IInv'
<1>1. /\ UNCHANGED given /\ form' = form /\ codes' = codes /\ exact' = exact
      /\ stored' = stored /\ rebuilt' = rebuilt
  OBVIOUS
<1>2. OutIn(form, rebuilt, out')
  <2>1. SUFFICES ASSUME Follow
        PROVE  /\ out' \in Seq(Int) /\ Len(out') <= Len(data)
               /\ \A j \in 1 .. Len(out') :
                    /\ form = "coded" => out'[j] = rebuilt[j]
                    /\ form = "constant" => out'[j] = data[1]
                    /\ form = "raw" => out'[j] = data[j]
    BY DEF OutIn, Follow
  <2>2. /\ out \in Seq(Int)
        /\ \A j \in 1 .. Len(out) : /\ (form = "coded" => out[j] = rebuilt[j])
                                   /\ (form = "constant" => out[j] = data[1])
                                   /\ (form = "raw" => out[j] = data[j])
    BY <2>1 DEF IInv, OutIn, Follow
  <2>3. z \in Int  BY <2>1
  <2>4. /\ out' \in Seq(Int) /\ Len(out) \in Nat /\ Len(out') = Len(out) + 1
        /\ out'[Len(out) + 1] = z /\ n = Len(out) + 1
        /\ \A j \in 1 .. Len(out) : out'[j] = out[j]
    BY <2>2, <2>3, AppendAt DEF n
  <2>5. ASSUME NEW j \in 1 .. Len(out')
        PROVE  /\ (form = "coded" => out'[j] = rebuilt[j])
               /\ (form = "constant" => out'[j] = data[1])
               /\ (form = "raw" => out'[j] = data[j])
    <3>1. CASE j = n  BY <2>1, <2>4, <3>1
    <3>2. CASE j # n
      <4>1. j \in 1 .. Len(out)  BY <2>4, <3>2
      <4> QED  BY <2>2, <2>4, <4>1
    <3> QED  BY <3>1, <3>2
  <2> QED  BY <2>4, <2>5
<1> QED  BY <1>1, <1>2, Stays DEF IInv

\* What is known of the next position, if the reader follows.
LEMMA NextAt ==
  ASSUME IInv, Follow, n <= Len(data)
  PROVE  /\ n \in 1 .. Len(data) /\ n \in Nat \ {0} /\ Len(out) = n - 1
         /\ data[n] \in Int /\ data[n] \in Low .. High
         /\ data[1] \in Int
<1>1. Given /\ out \in Seq(Int)  BY DEF IInv, OutIn, Follow
<1>2. Len(out) \in Nat /\ n = Len(out) + 1  BY <1>1 DEF n
<1>3. Len(data) \in Nat /\ Len(data) >= 2  BY <1>1, Typed
<1>4. n \in 1 .. Len(data) /\ 1 \in 1 .. Len(data)  BY <1>2, <1>3
<1> QED  BY <1>1, <1>2, <1>4, DataAt

LEMMA DecodeUncodedHolds == IInv /\ DecodeUncoded => IInv'
<1> SUFFICES ASSUME IInv, DecodeUncoded PROVE IInv'  OBVIOUS
<1> DEFINE z == IF form = "constant" THEN data[1] ELSE stored[n]
<1>1. /\ UNCHANGED <<given, form, codes, exact, stored, rebuilt>> /\ n <= Len(data)
      /\ form \in {"constant", "raw"} /\ out' = Append(out, z)
  BY DEF DecodeUncoded
<1>2. Follow => /\ z \in Int
                /\ form = "coded" => z = rebuilt[n]
                /\ form = "constant" => z = data[1]
                /\ form = "raw" => z = data[n]
  <2> SUFFICES ASSUME Follow PROVE /\ z \in Int
                                   /\ form = "coded" => z = rebuilt[n]
                                   /\ form = "constant" => z = data[1]
                                   /\ form = "raw" => z = data[n]
    OBVIOUS
  <2>1. n \in 1 .. Len(data) /\ data[n] \in Int /\ data[1] \in Int
    BY <1>1, NextAt
  <2>2. form = "raw" => stored[n] = data[n]  BY <2>1 DEF IInv
  <2> QED  BY <1>1, <2>1, <2>2
<1> HIDE DEF z
<1> QED  BY <1>1, <1>2, DecodeHolds

\* An exact value is read where it was written.
LEMMA DecodeExactHolds == IInv /\ DecodeExact => IInv'
<1> SUFFICES ASSUME IInv, DecodeExact PROVE IInv'  OBVIOUS
<1>1. PICK entry \in ExactAt(n) : out' = Append(out, Word(minValue + entry))
  BY DEF DecodeExact
<1>2. /\ UNCHANGED <<given, form, codes, exact, stored, rebuilt>> /\ n <= Len(data)
      /\ form = "coded" /\ codes[n] = 0
  BY DEF DecodeExact
<1>3. ASSUME Follow PROVE Word(minValue + entry) \in Int /\ Word(minValue + entry) = rebuilt[n]
  <2>1. /\ n \in 1 .. Len(data) /\ n \in Nat \ {0} /\ data[n] \in Int
        /\ data[n] \in Low .. High
    BY <1>2, <1>3, NextAt
  <2>2. /\ Given /\ Len(codes) = Len(data) /\ CodedIn(codes, rebuilt)
        /\ ExactIn(codes, exact)
    BY <1>2 DEF IInv
  <2>3. n \in 1 .. Len(codes) /\ Len(codes) \in Nat /\ n <= Len(codes)
    <3>1. Len(data) \in Nat  BY <2>2, Typed
    <3> QED  BY <2>1, <2>2, <3>1
  <2>4. rebuilt[n] = data[n]  BY <1>2, <1>3, <2>2, <2>3 DEF CodedIn, Follow
  <2>5. /\ Len(exact) = Zeros(codes, Len(codes))
        /\ exact[Zeros(codes, n)] = data[n] - minValue
    BY <1>2, <1>3, <2>2, <2>3 DEF ExactIn, Follow
  <2>6. Zeros(codes, n) <= Len(exact)
    BY <2>1, <2>3, <2>5, ZerosMonotonic
  <2>7. ExactAt(n) = {exact[Zeros(codes, n)]}
    BY <2>6 DEF ExactAt, Zeros
  <2>8. entry = data[n] - minValue  BY <1>1, <2>5, <2>7
  <2>9. minValue \in Int  BY <2>2, Ranges
  <2>10. minValue + entry = data[n]  BY <2>1, <2>8, <2>9
  <2> QED  BY <2>1, <2>2, <2>4, <2>10, WordIn
<1> QED  BY <1>1, <1>2, <1>3, DecodeHolds

\* A predicted value is rebuilt from what the writer rebuilt it from.
LEMMA DecodePredictedHolds == IInv /\ DecodePredicted => IInv'
<1> SUFFICES ASSUME IInv, DecodePredicted PROVE IInv'  OBVIOUS
<1> DEFINE z == Rebuild(Predict(out, n), codes[n] - intvRadius, readerSat)
<1>1. /\ UNCHANGED <<given, form, codes, exact, stored, rebuilt>> /\ n <= Len(data)
      /\ form = "coded" /\ codes[n] # 0 /\ out' = Append(out, z)
  BY DEF DecodePredicted
<1>2. ASSUME Follow PROVE z \in Int /\ z = rebuilt[n]
  <2>1. n \in 1 .. Len(data) /\ n \in Nat \ {0} /\ Len(out) = n - 1
    BY <1>1, <1>2, NextAt
  <2>2. /\ Given /\ Len(codes) = Len(data) /\ Len(rebuilt) = Len(data)
        /\ CodedIn(codes, rebuilt) /\ rebuilt \in Seq(Int)
        /\ readerSat \in BOOLEAN
    BY <1>1 DEF IInv, Given
  <2>3. Len(data) \in Nat /\ n <= Len(data)
    <3>1. Len(data) \in Nat  BY <2>2, Typed
    <3> QED  BY <2>1, <3>1
  <2>4. \A j \in 1 .. n : rebuilt[j] \in Int
    <3> TAKE j \in 1 .. n
    <3>1. j \in 1 .. Len(rebuilt)  BY <2>1, <2>2, <2>3
    <3> QED  BY <2>2, <3>1, ElementOfSeq
  <2>5. \A j \in 1 .. n - 1 : out[j] = rebuilt[j]
    BY <1>1, <1>2, <2>1 DEF IInv, OutIn, Follow
  <2>6. n \in 1 .. Len(codes)  BY <2>1, <2>2
  <2>7. /\ ~ Forced(n)
        /\ rebuilt[n] = Rebuild(Predict(rebuilt, n), codes[n] - intvRadius, readerSat)
    BY <1>1, <1>2, <2>2, <2>6 DEF CodedIn, Follow
  <2>8. Predict(out, n) = Predict(rebuilt, n)
    <3>1. \A j \in 1 .. n - 1 : rebuilt[j] \in Int  BY <2>1, <2>4
    <3> QED  BY <2>1, <2>2, <2>5, <2>7, <3>1, PredictSame
  <2>9. rebuilt[n] \in Int  BY <2>1, <2>4
  <2> QED  BY <2>7, <2>8, <2>9
<1> HIDE DEF z
<1> QED  BY <1>1, <1>2, DecodeHolds

-----------------------------------------------------------------------------
(* The theorems                                                            *)

LEMMA NextHolds == IInv /\ [Next]_vars => IInv'
<1> SUFFICES ASSUME IInv, [Next]_vars PROVE IInv'  OBVIOUS
<1>1. CASE WithinRange
  BY <1>1, FormHolds DEF WithinRange
<1>2. CASE Begin
  BY <1>2, FormHolds DEF Begin
<1>3. CASE EncodePredicted  BY <1>3, EncodePredictedHolds
<1>4. CASE EncodeExact  BY <1>4, EncodeExactHolds
<1>5. CASE EncodeEnd
  <2>1. /\ form = "coding" /\ i > Len(data) /\ form' \in {"coded", "raw"}
        /\ UNCHANGED <<given, codes, exact, rebuilt, out>>
    BY <1>5 DEF EncodeEnd
  <2>3. form' = "raw" => \A j \in 1 .. Len(data) : stored'[j] = data[j]
    <3> SUFFICES ASSUME form' = "raw" PROVE \A j \in 1 .. Len(data) : stored'[j] = data[j]
      OBVIOUS
    <3>1. PICK tail \in Behind : stored' = data \o (IF cols = 0 THEN tail ELSE << >>)
      BY <1>5 DEF EncodeEnd
    <3> DEFINE t == IF cols = 0 THEN tail ELSE << >>
    <3>2. t \in Seq(Int) /\ stored' = data \o t
      <4>1. tail \in Seq(Int) /\ << >> \in Seq(Int)  BY IntegerAssumption
      <4> QED  BY <3>1, <4>1
    <3> HIDE DEF t
    <3>3. data \in Seq(Int) /\ Len(data) \in Nat
      <4>1. Len(data) \in Nat /\ \A j \in 1 .. Len(data) : data[j] \in Int
        BY Typed, DataAt DEF IInv
      <4>2. data \in Seq(TypeRange(type))
        BY IntegerAssumption DEF IInv, Given
      <4> DEFINE m == Len(data)
      <4>3. m \in Nat /\ data \in [1 .. m -> TypeRange(type)]
        BY <4>1, <4>2, LenProperties
      <4> HIDE DEF m
      <4>4. data \in [1 .. m -> Int]  BY <4>1, <4>3 DEF m
      <4> QED  BY <4>1, <4>3, <4>4, SeqDef
    <3> QED  BY <3>2, <3>3, ConcatProperties
  <2>2. Len(rebuilt) = Len(data)
    <3>1. Len(data) \in Nat  BY Typed DEF IInv
    <3>2. Len(rebuilt) \in Nat /\ i = Len(rebuilt) + 1 /\ Len(rebuilt) <= Len(data)
      BY DEF IInv, i
    <3> QED  BY <2>1, <3>1, <3>2
  <2> QED  BY <2>1, <2>2, <2>3, FormHolds
<1>6. CASE DecodeUncoded  BY <1>6, DecodeUncodedHolds
<1>7. CASE DecodeExact  BY <1>7, DecodeExactHolds
<1>8. CASE DecodePredicted  BY <1>8, DecodePredictedHolds
<1>9. CASE UNCHANGED vars
  <2>1. /\ UNCHANGED given /\ form' = form /\ codes' = codes /\ exact' = exact
        /\ stored' = stored /\ rebuilt' = rebuilt /\ out' = out
    BY <1>9 DEF vars
  <2> QED  BY <2>1, Stays DEF IInv
<1> QED
  BY <1>1, <1>2, <1>3, <1>4, <1>5, <1>6, <1>7, <1>8, <1>9 DEF Next

LEMMA Always == Spec => []IInv
  BY InitHolds, NextHolds, PTL DEF Spec

\* Codes have room in the alphabet of the Huffman tree, and code 0 belongs to
\* the values stored exactly and to no value that was predicted, for every type, block, bound and number of intervals, if the
\* error of an int32_t has 31 bits.
THEOREM Alphabet == Spec => []CodesInAlphabet
<1>1. IInv => CodesInAlphabet
  <2> SUFFICES ASSUME IInv, ErrorFits, NEW j \in DOMAIN codes
               PROVE  /\ codes[j] \in 0 .. Capacity - 1
                      /\ codes[j] = 0 <=> ~ Predictable(j)
    BY DEF CodesInAlphabet
  <2>1. j \in 1 .. Len(codes) /\ CodedIn(codes, rebuilt)  BY DEF IInv
  <2>2. intvRadius \in Nat \ {0} /\ Capacity = 2 * intvRadius
    BY Numeric DEF IInv
  <2>3. /\ codes[j] # 0 => codes[j] \in 1 .. Capacity - 1
        /\ codes[j] = 0 <=> ~ PredictableFrom(rebuilt, j)
    BY <2>1 DEF CodedIn
  <2>4. Predictable(j) <=> PredictableFrom(rebuilt, j)
    BY DEF Predictable, PredictableFrom
  <2> QED  BY <2>2, <2>3, <2>4
<1> QED  BY <1>1, Always, PTL

\* The reader rebuilds what the writer predicted from, if both convert doubles
\* alike and the range has a byte for each of its values.
THEOREM Synchronised == Spec => []InSync
<1>1. IInv => InSync
  <2> SUFFICES ASSUME IInv, Fits, ErrorFits, form = "coded", writerSat = readerSat
               PROVE  IsPrefix(out, rebuilt)
    BY DEF InSync, Follows
  <2>1. /\ out \in Seq(Int) /\ Len(out) <= Len(data) /\ rebuilt \in Seq(Int)
        /\ Len(rebuilt) = Len(data) /\ \A j \in 1 .. Len(out) : out[j] = rebuilt[j]
    BY DEF IInv, OutIn
  <2>2. Len(out) \in Nat /\ Len(rebuilt) \in Nat /\ Len(out) <= Len(rebuilt)
    BY <2>1
  <2> DEFINE m == Len(out)
  <2>3. /\ SubSeq(out, 1, m) \in Seq(Int) /\ Len(SubSeq(out, 1, m)) = m
        /\ \A j \in 1 .. m : SubSeq(out, 1, m)[j] = out[j]
    <3>1. \A j \in 1 .. m : out[j] \in Int  BY <2>1, ElementOfSeq
    <3> QED  BY <2>1, <2>2, <3>1, SubSeqProperties
  <2>4. /\ SubSeq(rebuilt, 1, m) \in Seq(Int) /\ Len(SubSeq(rebuilt, 1, m)) = m
        /\ \A j \in 1 .. m : SubSeq(rebuilt, 1, m)[j] = rebuilt[j]
    <3>1. \A j \in 1 .. m : rebuilt[j] \in Int
      <4> TAKE j \in 1 .. m
      <4>1. j \in 1 .. Len(rebuilt)  BY <2>2
      <4> QED  BY <2>1, <4>1, ElementOfSeq
    <3> QED  BY <2>1, <2>2, <3>1, SubSeqProperties
  <2>5. SubSeq(out, 1, m) = SubSeq(rebuilt, 1, m)
    BY <2>1, <2>3, <2>4, SeqEqual
  <2> QED  BY <2>2, <2>5 DEF IsPrefix
<1> QED  BY <1>1, Always, PTL

\* Every value of a type that clamps comes back within the bound, up to
\* truncation, and of 32 bits those of blocks away from the ends; here it does
\* not matter how doubles are converted.
THEOREM ErrorBound == Spec => []BoundKeptUnlessNarrow
<1>1. IInv => BoundKeptUnlessNarrow
  <2> SUFFICES ASSUME IInv, Roomy, Fits, NEW j \in DOMAIN out
               PROVE  Near(out[j], data[j])
    BY DEF BoundKeptUnlessNarrow, Near, Error
  <2>1. ErrorFits  BY DEF ErrorFits
  <2>2. /\ out \in Seq(Int) /\ Len(out) <= Len(data)
        /\ form \in {"new", "coding"} => out = << >>
        /\ j \in 1 .. Len(out)
        /\ (form = "coded" => out[j] = rebuilt[j])
        /\ (form = "constant" => out[j] = data[1])
        /\ (form = "raw" => out[j] = data[j])
    <3>1. OutIn(form, rebuilt, out)  BY DEF IInv
    <3> QED  BY <2>1, <3>1 DEF OutIn
  <2>3. Given /\ Len(data) \in Nat /\ Len(data) >= 2  BY Typed DEF IInv
  <2>4. j \in 1 .. Len(data) /\ 1 \in 1 .. Len(data)
    <3>1. Len(out) \in Nat  BY <2>2
    <3> QED  BY <2>2, <2>3, <3>1
  <2>5. /\ Den \in Nat \ {0} /\ num \in Nat \ {0}
        /\ data[j] \in Int /\ data[1] \in Int
    BY <2>3, <2>4, Numeric, DataAt
  <2>6. CASE form = "coded"
    BY <2>2, <2>4, <2>6 DEF IInv, NearIn
  <2>7. CASE form = "raw"
    <3>1. Abs(data[j] - data[j]) = 0  BY <2>5 DEF Abs
    <3> QED  BY <2>2, <2>5, <2>7, <3>1 DEF Near
  <2>8. CASE form = "constant"
    <3> DEFINE a == Abs(data[1] - data[j])
    <3>1. a \in Nat /\ a <= valueRangeSize
      <4>1. /\ minValue \in Int /\ valueRangeSize \in Nat
            /\ data[1] - minValue \in 0 .. valueRangeSize
            /\ data[j] - minValue \in 0 .. valueRangeSize
        BY <2>3, <2>4, Ranges
      <4> QED  BY <2>5, <4>1 DEF Abs
    <3>2. valueRangeSize \in Nat /\ valueRangeSize * Den <= num
      BY <2>3, <2>8, Ranges DEF IInv
    <3> HIDE DEF a
    <3>3. a * Den <= valueRangeSize * Den /\ a * Den \in Nat
          /\ valueRangeSize * Den \in Nat
      BY <2>5, <3>1, <3>2
    <3>4. a * Den <= num /\ a * Den < num + Den  BY <2>5, <3>2, <3>3
    <3> QED  BY <2>2, <2>8, <3>4 DEF Near, a
  <2>9. form \notin {"new", "coding"}
    <3>1. Len(out) \in Nat /\ Len(out) # 0  BY <2>2
    <3> QED  BY <2>2, <3>1
  <2> QED  BY <2>6, <2>7, <2>8, <2>9 DEF IInv
<1> QED  BY <1>1, Always, PTL
=============================================================================
