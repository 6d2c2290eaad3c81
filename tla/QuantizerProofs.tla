--------------------------- MODULE QuantizerProofs ---------------------------
(***************************************************************************)
(* For every error bound, radius, predictor and block length: the two      *)
(* streams stay aligned, every code fits the alphabet, the decompressor    *)
(* rebuilds what the compressor predicted from, and the bound is kept:     *)
(* always where the code is taken from the number that was tested, and for *)
(* every other coder as long as no value comes near the edge of the range. *)
(***************************************************************************)
EXTENDS Quantizer, SequenceTheorems, FiniteSetTheorems, TLAPS

-----------------------------------------------------------------------------
(* The inductive invariant                                                 *)

\* What is in range has a code in range: the strict test is made on the number
\* the code is taken from, or no value so far has come near the edge.
Safe == (Inclusive = FALSE /\ OneQuotient) \/ EdgeFree

\* What the two streams say of position i.
Described(i) ==
  /\ types[i] \in 0 .. Intervals - 1
  /\ Abs(recon[i] - data[i]) <= Eb
  /\ types[i] = 0 => exact[Zeros(types, i)] = recon[i]
  /\ types[i] # 0 =>
       /\ ~Forced(i - 1)
       /\ recon[i] = Reconstruct(Predict(Before(recon, i), hist[i]), types[i])

\* The decompressor has rebuilt a prefix and consumed its share of exact.
Following ==
  /\ \A i \in 1 .. Len(out) : out[i] = recon[i]
  /\ next = Zeros(types, Len(out))

\* There is an exact entry for each code 0.
Balanced == Zeros(types, Len(types)) = Len(exact)

Sound ==
  /\ \A i \in 1 .. Len(types) : Described(i)
  /\ Balanced
  /\ Following

IInv ==
  /\ TypeOK
  /\ phase = "encode" => out = << >> /\ next = 0
  /\ \A i \in 1 .. Len(types) : Forced(i - 1) => types[i] = 0
  /\ Safe => Sound

-----------------------------------------------------------------------------
(* Arithmetic                                                              *)

LEMMA AbsInt == \A x \in Int : Abs(x) \in Nat
  BY DEF Abs

LEMMA RoundInt == \A x \in Int : Round(x) \in Int
<1>1. Ulp \in Nat \ {0} /\ Mantissa \in Nat  BY QuantizerAssumption
<1>2. TAKE x \in Int
<1>3. Ulp \div 2 \in Int  BY <1>1
<1>4. (x + (Ulp \div 2)) \div Ulp \in Int  BY <1>1, <1>3
<1>5. ((x + (Ulp \div 2)) \div Ulp) * Ulp \in Int  BY <1>1, <1>4
<1> QED  BY <1>5 DEF Round

\* Division by a positive number undoes multiplication, rounding down.
LEMMA DivisionBound ==
  ASSUME NEW a \in Int, NEW b \in Nat \ {0}, NEW c \in Int, a < b * c
  PROVE  a \div b < c
<1>1. b * (a \div b) <= a  OBVIOUS
<1>2. a \div b \in Int  OBVIOUS
<1>3. SUFFICES ASSUME a \div b >= c PROVE FALSE  BY <1>2
<1>4. b * (a \div b) >= b * c  BY <1>2, <1>3
<1>5. b * c \in Int /\ b * (a \div b) \in Int  BY <1>2
<1> QED  BY <1>1, <1>4, <1>5

LEMMA CheckRadiusInt == CheckRadius \in Int /\ Intervals \in Nat
  BY QuantizerAssumption DEF CheckRadius, Intervals

\* A distance below the check radius is at most Radius - 1 codes away.
LEMMA StateBound ==
  ASSUME NEW d \in Nat, d < CheckRadius
  PROVE  State(d) \in 0 .. (Radius - 1)
<1> USE QuantizerAssumption
<1>1. d < (2 * Radius - 1) * Eb  BY DEF CheckRadius, Intervals
<1>2. (2 * Radius - 1) * Eb + Eb = (2 * Eb) * Radius  OBVIOUS
<1>3. d + Eb < (2 * Eb) * Radius  BY <1>1, <1>2
<1>4. 2 * Eb \in Nat \ {0}  OBVIOUS
<1>5. (d + Eb) \div (2 * Eb) < Radius  BY <1>3, <1>4, DivisionBound
<1>6. (d + Eb) \div (2 * Eb) \in Nat  BY <1>4
<1> QED  BY <1>5, <1>6 DEF State

LEMMA StateInt == \A d \in Int : State(d) \in Int
  BY QuantizerAssumption DEF State

\* Below the check radius the code is one of the alphabet and is not 0.
LEMMA CodeBound ==
  ASSUME NEW v \in Int, NEW p \in Int, NEW q \in Nat, q < CheckRadius
  PROVE  Quantize(v, p, q) \in 1 .. Intervals - 1
<1>1. State(q) \in 0 .. (Radius - 1)  BY StateBound
<1> QED  BY <1>1, QuantizerAssumption DEF Quantize, Intervals

LEMMA QuantizeInt == \A v \in Int, p \in Int, q \in Int : Quantize(v, p, q) \in Int
<1>1. TAKE v \in Int, p \in Int, q \in Int
<1>2. State(q) \in Int  BY StateInt
<1> QED  BY <1>2, QuantizerAssumption DEF Quantize

\* The distance as it is seen is a distance, and near the true one.
LEMMA SeenNear ==
  ASSUME NEW d \in Nat, NEW q \in Seen(d)
  PROVE  q \in Nat /\ Abs(q - d) <= RoundOff
<1> USE QuantizerAssumption
<1>1. CASE d <= Mantissa  BY <1>1 DEF Seen, Abs
<1>2. CASE ~(d <= Mantissa)
  <2>1. q \in (d - RoundOff) .. (d + RoundOff)  BY <1>2 DEF Seen
  <2> QED  BY <1>2, <2>1 DEF Abs
<1> QED  BY <1>1, <1>2

LEMMA CodesInt ==
  ASSUME NEW v \in Int, NEW p \in Int, NEW t \in Codes(v, p)
  PROVE  t \in Int
<1>1. PICK q \in Seen(Abs(v - p)) : t = Quantize(v, p, q)  BY DEF Codes
<1>2. Abs(v - p) \in Nat  BY AbsInt
<1>3. q \in Int  BY <1>1, <1>2, SeenNear
<1> QED  BY <1>1, <1>3, QuantizeInt

\* A code of the alphabet other than 0, when the test was made on the number
\* it is taken from.
LEMMA TestedCodeBound ==
  ASSUME NEW v \in Int, NEW p \in Int, NEW t \in Codes(v, p),
         Inclusive = FALSE, OneQuotient
  PROVE  t \in 1 .. Intervals - 1
<1>1. PICK q \in Seen(Abs(v - p)) :
         /\ t = Quantize(v, p, q)
         /\ \E d \in Seen(Abs(v - p)) : InRange(d) /\ (OneQuotient => q = d)
  BY DEF Codes
<1>2. Abs(v - p) \in Nat  BY AbsInt
<1>3. q \in Nat  BY <1>1, <1>2, SeenNear
<1>4. q < CheckRadius  BY <1>1 DEF InRange
<1> QED  BY <1>1, <1>3, <1>4, CodeBound

\* The same away from the edge, where seeing a distance in range and taking
\* it for one out of range would take an error of more than RoundOff.
LEMMA InnerCodeBound ==
  ASSUME NEW v \in Int, NEW p \in Int, NEW t \in Codes(v, p),
         Abs(Abs(v - p) - CheckRadius) > RoundOff
  PROVE  t \in 1 .. Intervals - 1
<1>1. PICK q \in Seen(Abs(v - p)) :
         /\ t = Quantize(v, p, q)
         /\ \E d \in Seen(Abs(v - p)) : InRange(d)
  BY DEF Codes
<1>2. PICK d \in Seen(Abs(v - p)) : InRange(d)  BY <1>1
<1> DEFINE e == Abs(v - p)
           c == CheckRadius
<1>3. e \in Nat /\ c \in Int /\ RoundOff \in Nat
  BY AbsInt, CheckRadiusInt, QuantizerAssumption
<1>4. q \in Nat /\ Abs(q - e) <= RoundOff  BY <1>1, <1>3, SeenNear
<1>5. d \in Nat /\ Abs(d - e) <= RoundOff  BY <1>2, <1>3, SeenNear
<1>6. d <= c  BY <1>2, <1>3, <1>5, QuantizerAssumption DEF InRange
<1>7. Abs(e - c) > RoundOff  OBVIOUS
<1> HIDE DEF e, c
<1>8. q < c  BY <1>3, <1>4, <1>5, <1>6, <1>7 DEF Abs
<1> QED  BY <1>1, <1>4, <1>8, CodeBound DEF c

LEMMA ReconstructInt == \A p \in Int, t \in Int : Reconstruct(p, t) \in Int
<1>1. TAKE p \in Int, t \in Int
<1>2. p + (t - Radius) * 2 * Eb \in Int  BY QuantizerAssumption
<1> QED  BY <1>2, RoundInt DEF Reconstruct

\* Past the forced positions every predictor finds its neighbours.
LEMMA PredictInt ==
  ASSUME NEW s \in Seq(Int), NEW h \in Int, ~Forced(Len(s))
  PROVE  Predict(s, h) \in Int
<1> SUFFICES ASSUME NEW i \in Nat, i = Len(s) PROVE Predict(s, h) \in Int
  OBVIOUS
<1>1. i \in Nat /\ \A j \in 1 .. i : s[j] \in Int  OBVIOUS
<1>2. i >= 1  BY <1>1, QuantizerAssumption DEF Forced
<1>3. CASE Predictor = "last"  BY <1>1, <1>2, <1>3 DEF Predict
<1>4. CASE Predictor = "hist"  BY <1>4 DEF Predict
<1>5. CASE Predictor = "lorenzo2D"
  <2> SUFFICES Lorenzo2D(s) \in Int  BY <1>5 DEF Predict
  <2>0. Width \in Nat \ {0, 1}  BY QuantizerAssumption
  <2>1. CASE i < Width
    <3>1. CASE i = 1
      <4>1. 1 \in 1 .. i  BY <3>1
      <4>2. s[1] \in Int  BY <1>1, <4>1
      <4>3. Lorenzo2D(s) = s[1]  BY <2>1, <3>1 DEF Lorenzo2D
      <4> QED  BY <4>2, <4>3
    <3>2. CASE i # 1
      <4>1. i \in Nat /\ i >= 2  BY <1>2, <3>2
      <4>2. 2 * s[i] - s[i - 1] \in Int
        <5>1. i - 1 \in 1 .. i /\ i \in 1 .. i  BY <4>1
        <5> QED  BY <1>1, <5>1
      <4>3. Lorenzo2D(s) = Round(2 * s[i] - s[i - 1])
        BY <2>1, <3>2 DEF Lorenzo2D
      <4> QED  BY <4>2, <4>3, RoundInt
    <3> QED  BY <3>1, <3>2
  <2>2. CASE i >= Width
    <3> DEFINE north == s[i + 1 - Width]
    <3>1. north \in Int  BY <1>1, <2>0, <2>2
    <3>2. CASE i % Width = 0  BY <1>1, <2>0, <2>2, <3>1, <3>2 DEF Lorenzo2D
    <3>3. CASE i % Width # 0
      <4>1. i # Width  BY <2>0, <3>3
      <4>2. i - Width \in 1 .. i /\ i \in 1 .. i  BY <1>1, <1>2, <2>0, <2>2, <4>1
      <4>3. s[i] + north - s[i - Width] \in Int  BY <1>1, <3>1, <4>2
      <4>4. Lorenzo2D(s) = Round(s[i] + north - s[i - Width])
        BY <1>1, <2>0, <2>2, <3>3 DEF Lorenzo2D
      <4> QED  BY <4>3, <4>4, RoundInt
    <3> QED  BY <3>2, <3>3
  <2> QED  BY <1>1, <2>0, <2>1, <2>2
<1> QED  BY <1>3, <1>4, <1>5, QuantizerAssumption

-----------------------------------------------------------------------------
(* Counting the codes 0                                                    *)

LEMMA ZerosNat ==
  ASSUME NEW s, NEW n \in Nat
  PROVE  Zeros(s, n) \in Nat /\ IsFiniteSet({i \in 1 .. n : s[i] = 0})
<1> DEFINE Z == {i \in 1 .. n : s[i] = 0}
<1>1. IsFiniteSet(1 .. n)  BY FS_Interval
<1>2. Z \in SUBSET (1 .. n)  OBVIOUS
<1>3. IsFiniteSet(Z)  BY <1>1, <1>2, FS_Subset
<1> QED  BY <1>3, FS_CardinalityType DEF Zeros

LEMMA ZerosNone == ASSUME NEW s PROVE Zeros(s, 0) = 0
<1>1. {i \in 1 .. 0 : s[i] = 0} = {}  OBVIOUS
<1> QED  BY <1>1, FS_EmptySet DEF Zeros

LEMMA ZerosStep ==
  ASSUME NEW s, NEW n \in Nat
  PROVE  Zeros(s, n + 1) = IF s[n + 1] = 0 THEN Zeros(s, n) + 1 ELSE Zeros(s, n)
<1> DEFINE Z == {i \in 1 .. n : s[i] = 0}
           Y == {i \in 1 .. (n + 1) : s[i] = 0}
<1>1. IsFiniteSet(Z)  BY ZerosNat
<1>2. 1 .. (n + 1) = (1 .. n) \cup {n + 1}  OBVIOUS
<1>3. CASE s[n + 1] = 0
  <2>1. Y = Z \cup {n + 1}  BY <1>2, <1>3
  <2>2. n + 1 \notin Z  OBVIOUS
  <2>3. Cardinality(Y) = Cardinality(Z) + 1  BY <1>1, <2>1, <2>2, FS_AddElement
  <2> QED  BY <1>3, <2>3 DEF Zeros
<1>4. CASE s[n + 1] # 0
  <2>1. Y = Z  BY <1>2, <1>4
  <2> QED  BY <1>4, <2>1 DEF Zeros
<1> QED  BY <1>3, <1>4

LEMMA ZerosMonotonic ==
  ASSUME NEW s, NEW m \in Nat, NEW n \in Nat, m <= n
  PROVE  Zeros(s, m) <= Zeros(s, n)
<1> DEFINE Z(k) == {i \in 1 .. k : s[i] = 0}
<1>1. IsFiniteSet(Z(n))  BY ZerosNat
<1>2. Z(m) \in SUBSET Z(n)  OBVIOUS
<1> QED  BY <1>1, <1>2, FS_Subset DEF Zeros

\* Appending a code leaves the counts before it alone.
LEMMA ZerosAppend ==
  ASSUME NEW s \in Seq(Int), NEW t \in Int, NEW n \in 0 .. Len(s)
  PROVE  Zeros(Append(s, t), n) = Zeros(s, n)
<1>1. \A i \in 1 .. n : Append(s, t)[i] = s[i]  BY AppendProperties
<1>2. {i \in 1 .. n : Append(s, t)[i] = 0} = {i \in 1 .. n : s[i] = 0}  BY <1>1
<1> QED  BY <1>2 DEF Zeros

\* Appending a value leaves what lies before position i alone.
LEMMA BeforeAppend ==
  ASSUME NEW s \in Seq(Int), NEW x \in Int, NEW i \in 1 .. Len(s) + 1
  PROVE  /\ Before(Append(s, x), i) = Before(s, i)
         /\ Before(s, i) \in Seq(Int)
         /\ Len(Before(s, i)) = i - 1
<1> DEFINE a == Append(s, x)
<1>1. \A j \in 1 .. (i - 1) : a[j] \in Int /\ s[j] \in Int /\ a[j] = s[j]
  BY AppendProperties
<1>2. /\ SubSeq(a, 1, i - 1) \in Seq(Int)
      /\ Len(SubSeq(a, 1, i - 1)) = i - 1
      /\ \A j \in 1 .. (i - 1) : SubSeq(a, 1, i - 1)[j] = a[j]
  BY <1>1, SubSeqProperties
<1>3. /\ SubSeq(s, 1, i - 1) \in Seq(Int)
      /\ Len(SubSeq(s, 1, i - 1)) = i - 1
      /\ \A j \in 1 .. (i - 1) : SubSeq(s, 1, i - 1)[j] = s[j]
  BY <1>1, SubSeqProperties
<1>4. SubSeq(a, 1, i - 1) = SubSeq(s, 1, i - 1)  BY <1>1, <1>2, <1>3, SeqEqual
<1> QED  BY <1>3, <1>4 DEF Before

\* A sequence that agrees with s up to its own length is what lies before
\* the next position of s.
LEMMA BeforeEqual ==
  ASSUME NEW s \in Seq(Int), NEW o \in Seq(Int), Len(o) < Len(s),
         \A i \in 1 .. Len(o) : o[i] = s[i]
  PROVE  Before(s, Len(o) + 1) = o
<1> DEFINE n == Len(o)
<1>1. n \in Nat /\ \A i \in 1 .. n : s[i] \in Int  OBVIOUS
<1>2. /\ SubSeq(s, 1, n) \in Seq(Int)
      /\ Len(SubSeq(s, 1, n)) = n
      /\ \A i \in 1 .. n : SubSeq(s, 1, n)[i] = s[i]
  BY <1>1, SubSeqProperties
<1>3. SubSeq(s, 1, n) = o  BY <1>2, SeqEqual
<1>4. n + 1 - 1 = n  BY <1>1
<1> QED  BY <1>3, <1>4 DEF Before

\* Everything the steps below need to know of Append.
LEMMA AppendAt ==
  ASSUME NEW s \in Seq(Int), NEW x \in Int, NEW n \in Nat, Len(s) = n
  PROVE  /\ Append(s, x) \in Seq(Int)
         /\ Len(Append(s, x)) = n + 1
         /\ Append(s, x)[n + 1] = x
         /\ \A i \in 1 .. n : Append(s, x)[i] = s[i]
  BY AppendProperties

-----------------------------------------------------------------------------
(* The shape of an encoding step                                           *)

\* A step of the compressor appends v, its code t and its rebuilt value x;
\* x is stored when t was not computed from the prediction.
Kept(v, h, x, t) ==
  /\ exact' = exact
  /\ ~Forced(Len(data))
  /\ t \in Codes(v, Predict(recon, h))
  /\ x = Reconstruct(Predict(recon, h), t)

Appended(v, h, x, t) ==
  /\ phase = "encode"
  /\ data' = Append(data, v) /\ hist' = Append(hist, h)
  /\ recon' = Append(recon, x) /\ types' = Append(types, t)
  /\ Abs(x - v) <= Eb
  /\ \/ t = 0 /\ exact' = Append(exact, x)
     \/ Kept(v, h, x, t)
  /\ UNCHANGED <<phase, out, next>>

LEMMA ShapeOfStored ==
  ASSUME NEW v \in Int, NEW h \in Int, Read(v, h), StoreExact(v),
         UNCHANGED <<phase, out, next>>
  PROVE  \E x \in Int, t \in Int : Appended(v, h, x, t)
<1>1. PICK x \in (v - Eb) .. (v + Eb) :
         types' = Append(types, 0) /\ exact' = Append(exact, x) /\ recon' = Append(recon, x)
  BY DEF StoreExact
<1>2. x \in Int /\ Abs(x - v) <= Eb  BY <1>1, QuantizerAssumption DEF Abs
<1>3. Appended(v, h, x, 0)  BY <1>1, <1>2 DEF Appended, Read
<1> QED  BY <1>2, <1>3

LEMMA ShapeOfEncode ==
  ASSUME TypeOK, NEW v \in Int, NEW h \in Int, Encode(v, h)
  PROVE  \E x \in Int, t \in Int : Appended(v, h, x, t)
<1>1. CASE EncodeForced(v, h)  BY <1>1, ShapeOfStored DEF EncodeForced
<1>2. CASE EncodeUnpredictable(v, h)  BY <1>2, ShapeOfStored DEF EncodeUnpredictable
<1>3. CASE EncodeRoundingFailed(v, h)  BY <1>3, ShapeOfStored DEF EncodeRoundingFailed
<1>4. CASE EncodeQuantized(v, h)
  <2> DEFINE p == Predict(recon, h)
  <2>1. p \in Int  BY <1>4, PredictInt DEF EncodeQuantized, TypeOK
  <2>2. PICK t \in Codes(v, p) :
          /\ Abs(v - Reconstruct(p, t)) <= Eb
          /\ types' = Append(types, t)
          /\ recon' = Append(recon, Reconstruct(p, t))
          /\ exact' = exact
    BY <1>4 DEF EncodeQuantized
  <2> DEFINE x == Reconstruct(p, t)
  <2>3. t \in Int  BY <2>1, <2>2, CodesInt
  <2>4. x \in Int  BY <2>1, <2>3, ReconstructInt
  <2>5. Abs(x - v) <= Eb
    <3>1. Abs(v - x) <= Eb  BY <2>2
    <3> HIDE DEF x
    <3> QED  BY <2>4, <3>1 DEF Abs
  <2>6. Kept(v, h, x, t)  BY <1>4, <2>2 DEF EncodeQuantized, Kept
  <2>7. Appended(v, h, x, t)
    BY <1>4, <2>2, <2>5, <2>6 DEF EncodeQuantized, Read, Appended
  <2> QED  BY <2>3, <2>4, <2>7
<1> QED  BY <1>1, <1>2, <1>3, <1>4 DEF Encode

-----------------------------------------------------------------------------
(* The invariant is kept while the block is compressed                     *)

LEMMA AppendedTypeOK ==
  ASSUME TypeOK, phase = "encode" => out = << >> /\ next = 0,
         NEW v \in Int, NEW h \in Int, NEW x \in Int, NEW t \in Int,
         Appended(v, h, x, t)
  PROVE  TypeOK'
<1>1. data' \in Seq(Int) /\ Len(data') = Len(data) + 1
  BY AppendProperties DEF TypeOK, Appended
<1>2. hist' \in Seq(Int) /\ Len(hist') = Len(hist) + 1
  BY AppendProperties DEF TypeOK, Appended
<1>3. recon' \in Seq(Int) /\ Len(recon') = Len(recon) + 1
  BY AppendProperties DEF TypeOK, Appended
<1>4. types' \in Seq(Int) /\ Len(types') = Len(types) + 1
  BY AppendProperties DEF TypeOK, Appended
<1>5. exact' \in Seq(Int)
  <2>1. exact \in Seq(Int)  BY DEF TypeOK
  <2>2. Append(exact, x) \in Seq(Int)  BY <2>1, AppendProperties
  <2> QED  BY <2>1, <2>2 DEF Appended, Kept
<1>6. out' = << >> /\ out' \in Seq(Int) /\ Len(out') = 0  BY DEF Appended
<1>7. Len(types) \in Nat  BY LenProperties DEF TypeOK
<1> QED  BY <1>1, <1>2, <1>3, <1>4, <1>5, <1>6, <1>7 DEF TypeOK, Appended

\* A tie stays a tie: what is safe after the step was safe before it, and the
\* value just quantised was strictly inside the range.
LEMMA AppendedSafe ==
  ASSUME TypeOK,
         NEW v \in Int, NEW h \in Int, NEW x \in Int, NEW t \in Int,
         Appended(v, h, x, t), Safe'
  PROVE  /\ Safe
         /\ Kept(v, h, x, t) => t \in 1 .. Intervals - 1
<1>0. Len(data) \in Nat /\ Len(recon) = Len(data) /\ Len(hist) = Len(data)
  BY LenProperties DEF TypeOK
<1>1. Len(data') = Len(data) + 1  BY AppendProperties DEF TypeOK, Appended
<1>2. ASSUME NEW i \in 1 .. Len(data)
      PROVE  data'[i] = data[i] /\ hist'[i] = hist[i]
             /\ Before(recon', i) = Before(recon, i)
  <2>1. data'[i] = data[i]  BY AppendProperties DEF TypeOK, Appended
  <2>2. hist'[i] = hist[i]  BY <1>0, AppendProperties DEF TypeOK, Appended
  <2>3. i \in 1 .. Len(recon) + 1  BY <1>0
  <2>4. Before(recon', i) = Before(recon, i)
    BY <2>3, BeforeAppend DEF TypeOK, Appended
  <2> QED  BY <2>1, <2>2, <2>4
<1>3. EdgeFree' => EdgeFree
  <2> SUFFICES ASSUME EdgeFree', NEW i \in 1 .. Len(data), ~Forced(i - 1)
               PROVE  Abs(Abs(data[i] - Predict(Before(recon, i), hist[i])) - CheckRadius)
                        > RoundOff
    BY DEF EdgeFree
  <2>1. i \in 1 .. Len(data')  BY <1>0, <1>1
  <2>2. Abs(Abs(data'[i] - Predict(Before(recon', i), hist'[i])) - CheckRadius) > RoundOff
    BY <2>1 DEF EdgeFree
  <2> QED  BY <1>2, <2>2
<1>4. Safe  BY <1>3 DEF Safe
<1>5. ASSUME Kept(v, h, x, t) PROVE t \in 1 .. Intervals - 1
  <2> DEFINE p == Predict(recon, h)
             n == Len(data)
  <2>1. p \in Int  BY <1>0, <1>5, PredictInt DEF Kept, TypeOK
  <2>2. t \in Codes(v, p)  BY <1>5 DEF Kept
  <2>3. CASE Inclusive = FALSE /\ OneQuotient
    BY <2>1, <2>2, <2>3, TestedCodeBound
  <2>4. CASE EdgeFree'
    <3>1. data'[n + 1] = v  BY AppendProperties DEF TypeOK, Appended
    <3>2. hist'[n + 1] = h  BY <1>0, AppendProperties DEF TypeOK, Appended
    <3>3. Before(recon', n + 1) = recon
      <4>1. recon' \in Seq(Int) /\ Len(recon') = n + 1 /\ Len(recon) < Len(recon')
            /\ \A j \in 1 .. Len(recon) : recon[j] = recon'[j]
        BY <1>0, AppendProperties DEF TypeOK, Appended
      <4> QED  BY <1>0, <4>1, BeforeEqual DEF TypeOK
    <3>4. ~Forced(n + 1 - 1)
      <4>1. n + 1 - 1 = n  BY <1>0
      <4> QED  BY <1>5, <4>1 DEF Kept
    <3>5. n + 1 \in 1 .. Len(data')  BY <1>0, <1>1
    <3>6. Abs(Abs(v - p) - CheckRadius) > RoundOff
      BY <2>4, <3>1, <3>2, <3>3, <3>4, <3>5 DEF EdgeFree
    <3> HIDE DEF p
    <3> QED  BY <2>1, <2>2, <3>6, InnerCodeBound
  <2> QED  BY <2>3, <2>4 DEF Safe
<1> QED  BY <1>4, <1>5

\* Positions described before the step still are, and so is the new one.
LEMMA AppendedSound ==
  ASSUME IInv,
         NEW v \in Int, NEW h \in Int, NEW x \in Int, NEW t \in Int,
         Appended(v, h, x, t), Safe'
  PROVE  Sound'
<1> SUFFICES ASSUME NEW n \in Nat, n = Len(types) PROVE Sound'
  BY LenProperties DEF IInv, TypeOK
<1>0. /\ TypeOK /\ TypeOK'
      /\ n \in Nat /\ Len(data) = n /\ Len(hist) = n /\ Len(recon) = n
      /\ Len(types') = n + 1
  <2>1. TypeOK  BY DEF IInv
  <2>2. TypeOK'  BY <2>1, AppendedTypeOK DEF IInv
  <2>3. Len(types') = n + 1  BY <2>1, AppendProperties DEF TypeOK, Appended
  <2> QED  BY <2>1, <2>2, <2>3, LenProperties DEF TypeOK
<1>1. Sound /\ (Kept(v, h, x, t) => t \in 1 .. Intervals - 1)
  BY <1>0, AppendedSafe DEF IInv
<1>2. ASSUME NEW i \in 0 .. n PROVE Zeros(types', i) = Zeros(types, i)
  BY ZerosAppend DEF TypeOK, IInv, Appended
<1>at. /\ types'[n + 1] = t /\ \A i \in 1 .. n : types'[i] = types[i]
       /\ recon'[n + 1] = x /\ \A i \in 1 .. n : recon'[i] = recon[i]
       /\ data'[n + 1] = v /\ \A i \in 1 .. n : data'[i] = data[i]
       /\ hist'[n + 1] = h /\ \A i \in 1 .. n : hist'[i] = hist[i]
  <2>1. types \in Seq(Int) /\ recon \in Seq(Int) /\ data \in Seq(Int) /\ hist \in Seq(Int)
    BY <1>0 DEF TypeOK
  <2>2. types'[n + 1] = t /\ \A i \in 1 .. n : types'[i] = types[i]
    BY <1>0, <2>1, AppendAt DEF Appended
  <2>3. recon'[n + 1] = x /\ \A i \in 1 .. n : recon'[i] = recon[i]
    BY <1>0, <2>1, AppendAt DEF Appended
  <2>4. data'[n + 1] = v /\ \A i \in 1 .. n : data'[i] = data[i]
    BY <1>0, <2>1, AppendAt DEF Appended
  <2>5. hist'[n + 1] = h /\ \A i \in 1 .. n : hist'[i] = hist[i]
    BY <1>0, <2>1, AppendAt DEF Appended
  <2> QED  BY <2>2, <2>3, <2>4, <2>5
<1>3. types'[n + 1] = t /\ recon'[n + 1] = x /\ data'[n + 1] = v /\ hist'[n + 1] = h
  BY <1>at
<1>4. n + 1 \in Nat /\ Zeros(types', n + 1) =
           IF types'[n + 1] = 0 THEN Zeros(types', n) + 1 ELSE Zeros(types', n)
  BY <1>0, ZerosStep
<1>5. Zeros(types', n) = Len(exact)  BY <1>0, <1>1, <1>2 DEF Sound, Balanced
<1>6. Len(exact) \in Nat  BY <1>0, LenProperties DEF TypeOK
<1>7. Balanced'
  <2>1. CASE t = 0 /\ exact' = Append(exact, x)
    <3>1. Len(exact') = Len(exact) + 1  BY <1>0, <2>1, AppendProperties DEF TypeOK
    <3> QED  BY <1>0, <1>3, <1>4, <1>5, <2>1, <3>1 DEF Balanced
  <2>2. CASE Kept(v, h, x, t)
    <3>1. t # 0 /\ exact' = exact  BY <1>1, <2>2 DEF Kept
    <3> QED  BY <1>0, <1>3, <1>4, <1>5, <3>1 DEF Balanced
  <2> QED  BY <2>1, <2>2 DEF Appended
<1>8. ASSUME NEW i \in 1 .. n PROVE Described(i)'
  <2>1. Described(i)  BY <1>1 DEF Sound
  <2>2. /\ types'[i] = types[i] /\ recon'[i] = recon[i]
        /\ data'[i] = data[i] /\ hist'[i] = hist[i]
    BY <1>at
  <2>3. Before(recon', i) = Before(recon, i)
    <3>1. i \in 1 .. Len(recon) + 1  BY <1>0
    <3> QED  BY <1>0, <3>1, BeforeAppend DEF TypeOK, Appended
  <2>4. Zeros(types', i) = Zeros(types, i)  BY <1>2
  <2>5. types[i] = 0 => exact'[Zeros(types, i)] = exact[Zeros(types, i)]
    <3> SUFFICES ASSUME types[i] = 0
                 PROVE  exact'[Zeros(types, i)] = exact[Zeros(types, i)]
      OBVIOUS
    <3>1. i - 1 \in Nat /\ i \in Nat /\ i - 1 + 1 = i  BY <1>0
    <3>2. Zeros(types, i) = Zeros(types, i - 1) + 1  BY <3>1, ZerosStep
    <3>3. Zeros(types, i - 1) \in Nat  BY <3>1, ZerosNat
    <3>4. Zeros(types, i) <= Zeros(types, n)  BY <1>0, <3>1, ZerosMonotonic
    <3>5. Zeros(types, n) = Len(exact)  BY <1>1 DEF Sound, Balanced
    <3>6. Zeros(types, i) \in 1 .. Len(exact)
      BY <1>6, <3>2, <3>3, <3>4, <3>5
    <3>7. exact' = Append(exact, x) \/ exact' = exact  BY DEF Appended, Kept
    <3>8. exact \in Seq(Int)  BY <1>0 DEF TypeOK
    <3> QED  BY <3>6, <3>7, <3>8, AppendProperties
  <2> QED  BY <2>1, <2>2, <2>3, <2>4, <2>5 DEF Described
<1>9. Described(n + 1)'
  <2>1. Abs(recon'[n + 1] - data'[n + 1]) <= Eb  BY <1>3 DEF Appended
  <2>2. Before(recon', n + 1) = recon
    <3>1. recon' \in Seq(Int) /\ Len(recon') = n + 1 /\ Len(recon) < Len(recon')
          /\ \A j \in 1 .. Len(recon) : recon[j] = recon'[j]
      BY <1>0, AppendProperties DEF TypeOK, Appended
    <3> QED  BY <1>0, <3>1, BeforeEqual DEF TypeOK
  <2>3. n + 1 - 1 = n /\ Len(data) = n  BY <1>0
  <2>4. CASE t = 0 /\ exact' = Append(exact, x)
    <3>1. exact'[Len(exact) + 1] = x  BY <1>0, <2>4, AppendProperties DEF TypeOK
    <3>2. exact'[Zeros(types', n + 1)] = recon'[n + 1]
      BY <1>3, <1>4, <1>5, <2>4, <3>1
    <3>3. t \in 0 .. Intervals - 1
      BY <2>4, QuantizerAssumption DEF Intervals
    <3> QED  BY <1>3, <2>1, <2>4, <3>2, <3>3 DEF Described
  <2>5. CASE Kept(v, h, x, t)
    <3>1. t \in 1 .. Intervals - 1 /\ Intervals \in Nat
      BY <1>1, <2>5, CheckRadiusInt
    <3>2. t # 0 /\ t \in 0 .. Intervals - 1  BY <3>1
    <3>3. ~Forced(n)  BY <2>3, <2>5 DEF Kept
    <3>4. x = Reconstruct(Predict(recon, h), t)  BY <2>5 DEF Kept
    <3> QED  BY <1>3, <2>1, <2>2, <2>3, <3>2, <3>3, <3>4 DEF Described
  <2> QED  BY <2>4, <2>5 DEF Appended
<1>10. Following'
  <2>1. out' = << >> /\ next' = 0  BY DEF IInv, Appended
  <2>2. Len(out') = 0  BY <2>1
  <2>3. Zeros(types', 0) = 0  BY ZerosNone
  <2> QED  BY <2>1, <2>2, <2>3 DEF Following
<1>11. \A i \in 1 .. Len(types') : Described(i)'
  <2>1. 1 .. (n + 1) = (1 .. n) \cup {n + 1}  BY <1>0
  <2> QED  BY <1>0, <1>8, <1>9, <2>1
<1> QED  BY <1>7, <1>10, <1>11 DEF Sound

LEMMA EncodeIInv ==
  ASSUME IInv, NEW v \in Values, NEW h \in HistValues, Encode(v, h)
  PROVE  IInv'
<1>1. v \in Int /\ h \in Int  BY QuantizerAssumption
<1>2. TypeOK  BY DEF IInv
<1>3. PICK x \in Int, t \in Int : Appended(v, h, x, t)  BY <1>1, <1>2, ShapeOfEncode
<1>4. TypeOK'  BY <1>1, <1>2, <1>3, AppendedTypeOK DEF IInv
<1>5. (phase = "encode" => out = << >> /\ next = 0)'  BY <1>3 DEF IInv, Appended
<1>6. (\A i \in 1 .. Len(types) : Forced(i - 1) => types[i] = 0)'
  <2> DEFINE n == Len(types)
  <2>1. n \in Nat /\ Len(types') = n + 1 /\ types'[n + 1] = t
        /\ \A i \in 1 .. n : types'[i] = types[i]
    BY <1>2, <1>3, AppendProperties, LenProperties DEF TypeOK, Appended
  <2>2. Forced(n) => t = 0  BY <1>2, <1>3 DEF Appended, Kept, TypeOK
  <2>3. n + 1 - 1 = n /\ 1 .. (n + 1) = (1 .. n) \cup {n + 1}  BY <2>1
  <2>4. \A i \in 1 .. n : Forced(i - 1) => types[i] = 0  BY DEF IInv
  <2> QED  BY <2>1, <2>2, <2>3, <2>4
<1>7. Safe' => Sound'  BY <1>1, <1>3, AppendedSound
<1> QED  BY <1>4, <1>5, <1>6, <1>7 DEF IInv

-----------------------------------------------------------------------------
(* The invariant is kept while the block is decompressed                   *)

\* What the decompressor does not change stays true.
LEMMA DecodeFrame ==
  ASSUME IInv, UNCHANGED encoder, phase = "decode", UNCHANGED phase,
         NEW x \in Int, out' = Append(out, x), next' \in 0 .. Len(out) + 1,
         Len(out) < Len(types),
         Safe => x = recon[Len(out) + 1] /\ next' = Zeros(types, Len(out) + 1)
  PROVE  IInv'
<1> SUFFICES ASSUME NEW n \in Nat, n = Len(out) PROVE IInv'
  BY LenProperties DEF IInv, TypeOK
<1>1. /\ out' \in Seq(Int) /\ Len(out') = n + 1 /\ out'[n + 1] = x
      /\ \A i \in 1 .. n : out'[i] = out[i]
  BY AppendAt DEF IInv, TypeOK
<1>2. TypeOK'  BY <1>1, LenProperties DEF IInv, TypeOK, encoder
<1>3. Safe' => Safe  BY DEF Safe, EdgeFree, encoder
<1>4. ASSUME Safe' PROVE Sound'
  <2>1. Sound  BY <1>3, <1>4 DEF IInv
  <2>2. \A i \in 1 .. Len(types') : Described(i)'
    BY <2>1 DEF Sound, Described, encoder
  <2>3. Balanced'  BY <2>1 DEF Sound, Balanced, encoder
  <2>4. \A i \in 1 .. n : out[i] = recon[i]  BY <2>1 DEF Sound, Following
  <2>5. 1 .. (n + 1) = (1 .. n) \cup {n + 1}  OBVIOUS
  <2>6. \A i \in 1 .. (n + 1) : out'[i] = recon'[i]
    BY <1>1, <1>3, <1>4, <2>4, <2>5 DEF encoder
  <2>7. Following'  BY <1>1, <1>3, <1>4, <2>6 DEF Following, encoder
  <2> QED  BY <2>2, <2>3, <2>7 DEF Sound
<1> QED  BY <1>2, <1>4 DEF IInv, encoder

LEMMA DecodeExactIInv == IInv /\ DecodeExact => IInv'
<1> SUFFICES ASSUME IInv, DecodeExact PROVE IInv'
  OBVIOUS
<1> SUFFICES ASSUME NEW n \in Nat, n = Len(out), NEW m \in Nat, m = Len(types)
             PROVE  IInv'
  BY LenProperties DEF IInv, TypeOK
<1>1. TypeOK /\ n < m /\ types[n + 1] = 0  BY DEF IInv, DecodeExact
<1>2. PICK x \in ExactEntry(next + 1) : out' = Append(out, x)  BY DEF DecodeExact
<1>3. next \in Nat /\ next' = next + 1 /\ next' \in 0 .. n + 1
  BY <1>1 DEF TypeOK, DecodeExact
<1>4. x \in Int
  <2>1. CASE next + 1 <= Len(exact)
    <3>1. next + 1 \in 1 .. Len(exact)  BY <1>1, <1>3, <2>1, LenProperties DEF TypeOK
    <3>2. exact[next + 1] \in Int  BY <1>1, <3>1, ElementOfSeq DEF TypeOK
    <3> QED  BY <1>2, <2>1, <3>2 DEF ExactEntry
  <2>2. CASE ~(next + 1 <= Len(exact))  BY <1>2, <2>2, QuantizerAssumption DEF ExactEntry
  <2> QED  BY <2>1, <2>2
<1>5. ASSUME Safe PROVE x = recon[n + 1] /\ next' = Zeros(types, n + 1)
  <2>1. Sound  BY <1>5 DEF IInv
  <2>2. next = Zeros(types, n)  BY <2>1 DEF Sound, Following
  <2>3. Zeros(types, n + 1) = next + 1  BY <1>1, <2>2, ZerosStep
  <2>4. Zeros(types, m) = Len(exact)  BY <2>1 DEF Sound, Balanced
  <2>5. n + 1 \in Nat /\ n + 1 <= m /\ n + 1 \in 1 .. m  BY <1>1
  <2>6. Zeros(types, n + 1) <= Zeros(types, m)  BY <2>5, ZerosMonotonic
  <2>7. x = exact[next + 1]  BY <1>2, <2>3, <2>4, <2>6 DEF ExactEntry
  <2>8. exact[Zeros(types, n + 1)] = recon[n + 1]
    BY <1>1, <2>1, <2>5 DEF Sound, Described
  <2> QED  BY <1>3, <2>3, <2>7, <2>8
<1>6. UNCHANGED encoder /\ phase = "decode" /\ UNCHANGED phase
  BY DEF DecodeExact, encoder
<1> QED  BY <1>1, <1>2, <1>3, <1>4, <1>5, <1>6, DecodeFrame

LEMMA DecodeQuantizedIInv == IInv /\ DecodeQuantized => IInv'
<1> SUFFICES ASSUME IInv, DecodeQuantized PROVE IInv'
  OBVIOUS
<1> SUFFICES ASSUME NEW n \in Nat, n = Len(out), NEW m \in Nat, m = Len(types)
             PROVE  IInv'
  BY LenProperties DEF IInv, TypeOK
<1> DEFINE x == Reconstruct(Predict(out, hist[n + 1]), types[n + 1])
<1>1. TypeOK /\ n < m /\ types[n + 1] # 0 /\ out' = Append(out, x)
  BY DEF IInv, DecodeQuantized
<1>2. n + 1 \in 1 .. m /\ n + 1 - 1 = n  BY <1>1
<1>3. ~Forced(n)  BY <1>1, <1>2 DEF IInv
<1>4. types[n + 1] \in Int /\ hist[n + 1] \in Int
  BY <1>1, <1>2, ElementOfSeq DEF TypeOK
<1>5. Predict(out, hist[n + 1]) \in Int  BY <1>1, <1>3, <1>4, PredictInt DEF TypeOK
<1>6. x \in Int  BY <1>4, <1>5, ReconstructInt
<1>7. next \in Nat /\ next' = next /\ next' \in 0 .. n + 1
  BY <1>1 DEF TypeOK, DecodeQuantized
<1>8. ASSUME Safe PROVE x = recon[n + 1] /\ next' = Zeros(types, n + 1)
  <2>1. Sound  BY <1>8 DEF IInv
  <2>2. Zeros(types, n + 1) = next
    <3>1. next = Zeros(types, n)  BY <2>1 DEF Sound, Following
    <3> QED  BY <1>1, <3>1, ZerosStep
  <2>3. \A i \in 1 .. n : out[i] = recon[i]  BY <2>1 DEF Sound, Following
  <2>4. Before(recon, n + 1) = out  BY <1>1, <2>3, BeforeEqual DEF TypeOK
  <2>5. recon[n + 1] = Reconstruct(Predict(Before(recon, n + 1), hist[n + 1]), types[n + 1])
    BY <1>1, <1>2, <2>1 DEF Sound, Described
  <2> QED  BY <1>7, <2>2, <2>4, <2>5
<1>9. UNCHANGED encoder /\ phase = "decode" /\ UNCHANGED phase
  BY DEF DecodeQuantized, encoder
<1> HIDE DEF x
<1> QED  BY <1>1, <1>6, <1>7, <1>8, <1>9, DecodeFrame

-----------------------------------------------------------------------------
(* The theorems                                                            *)

LEMMA InitIInv == Init => IInv
<1> SUFFICES ASSUME Init PROVE IInv
  OBVIOUS
<1>1. TypeOK  BY EmptySeq DEF Init, TypeOK
<1>2. Len(types) = 0 /\ Len(out) = 0 /\ Len(exact) = 0  BY EmptySeq DEF Init
<1>3. Balanced  BY <1>2, ZerosNone DEF Balanced
<1>4. Following  BY <1>2, ZerosNone DEF Following, Init
<1>5. Sound  BY <1>2, <1>3, <1>4 DEF Sound
<1> QED  BY <1>1, <1>2, <1>5 DEF IInv, Init

LEMMA FinishIInv == IInv /\ Finish => IInv'
<1> SUFFICES ASSUME IInv, Finish PROVE IInv'
  OBVIOUS
<1>1. TypeOK'  BY DEF IInv, TypeOK, Finish
<1>2. Safe' => Safe  BY DEF Safe, EdgeFree, Finish
<1>3. Sound => Sound'
  BY DEF Sound, Described, Balanced, Following, Finish
<1> QED  BY <1>1, <1>2, <1>3 DEF IInv, Finish

LEMMA StutterIInv == IInv /\ UNCHANGED vars => IInv'
<1> SUFFICES ASSUME IInv, UNCHANGED vars PROVE IInv'
  OBVIOUS
<1>1. TypeOK'  BY DEF IInv, TypeOK, vars
<1>2. Safe' => Safe  BY DEF Safe, EdgeFree, vars
<1>3. Sound => Sound'
  BY DEF Sound, Described, Balanced, Following, vars
<1> QED  BY <1>1, <1>2, <1>3 DEF IInv, vars

\* The compressor and the decompressor keep the inductive invariant
\* (sz_float.c:490-673, szd_float.c:213-337).
THEOREM Invariant == Spec => []IInv
<1>1. ASSUME IInv, Next PROVE IInv'
  <2>1. CASE \E v \in Values, h \in HistValues : Encode(v, h)  BY <1>1, <2>1, EncodeIInv
  <2>2. CASE Finish  BY <1>1, <2>2, FinishIInv
  <2>3. CASE DecodeExact  BY <1>1, <2>3, DecodeExactIInv
  <2>4. CASE DecodeQuantized  BY <1>1, <2>4, DecodeQuantizedIInv
  <2> QED  BY <1>1, <2>1, <2>2, <2>3, <2>4 DEF Next
<1>2. IInv /\ [Next]_vars => IInv'  BY <1>1, StutterIInv
<1> QED  BY InitIInv, <1>2, PTL DEF Spec

\* Every variable keeps its type in every behaviour of every coder.
THEOREM TypeCorrect == Spec => []TypeOK
<1>1. IInv => TypeOK  BY DEF IInv
<1> QED  BY Invariant, <1>1, PTL

\* The cursor is the number of codes 0 among the values rebuilt, of which
\* there are no more than among all.
LEMMA SoundAligned == TypeOK /\ Sound => StreamsAligned
<1> SUFFICES ASSUME TypeOK, Sound, NEW n \in Nat, n = Len(out),
                    NEW m \in Nat, m = Len(types)
             PROVE  StreamsAligned
  BY LenProperties DEF TypeOK
<1>1. n <= m  BY DEF TypeOK
<1>2. next = Zeros(types, n) /\ Zeros(types, m) = Len(exact)
  BY DEF Sound, Following, Balanced
<1>3. Zeros(types, n) <= Zeros(types, m)  BY <1>1, ZerosMonotonic
<1> QED  BY <1>2, <1>3 DEF StreamsAligned, Balanced, Sound

\* Where the code is taken from the number tested, the two streams hold the
\* same number of unpredictable values (sz_float.c:838-866, 879-905), and the
\* decompressor reads the exact entries to the last and no further.
THEOREM Alignment ==
  ASSUME Inclusive = FALSE, OneQuotient
  PROVE  Spec => []StreamsAligned
<1>1. IInv => StreamsAligned  BY SoundAligned DEF IInv, Safe
<1> QED  BY Invariant, <1>1, PTL

\* There, every code fits the entropy coder's alphabet.
THEOREM Alphabet ==
  ASSUME Inclusive = FALSE, OneQuotient
  PROVE  Spec => []CodesInAlphabet
<1>1. IInv => CodesInAlphabet  BY DEF IInv, Safe, Sound, Described, CodesInAlphabet
<1> QED  BY Invariant, <1>1, PTL

\* There, the decompressor rebuilds what the compressor predicted from.
THEOREM Synchronised ==
  ASSUME Inclusive = FALSE, OneQuotient
  PROVE  Spec => []InSync
<1>1. IInv => InSync  BY DEF IInv, Safe, Sound, Following, InSync
<1> QED  BY Invariant, <1>1, PTL

LEMMA SoundWithinBound == TypeOK /\ Sound => BoundKept
<1> SUFFICES ASSUME TypeOK, Sound, NEW i \in 1 .. Len(out)
             PROVE  Abs(out[i] - data[i]) <= Eb
  BY DEF BoundKept
<1>1. i \in 1 .. Len(types)  BY LenProperties DEF TypeOK
<1>2. out[i] = recon[i]  BY DEF Sound, Following
<1> QED  BY <1>1, <1>2 DEF Sound, Described

\* There, every value comes back within the bound.
THEOREM ErrorBound ==
  ASSUME Inclusive = FALSE, OneQuotient
  PROVE  Spec => []BoundKept
<1>1. IInv => BoundKept  BY SoundWithinBound DEF IInv, Safe
<1> QED  BY Invariant, <1>1, PTL

\* With any coder a block with no value near the edge of the range comes back
\* within the bound, from streams that are aligned and used up: that edge is
\* the only thing wrong with the inclusive test of sz_float_ts.c:144 and with
\* the two roundings of sz_float.c:574-597.
THEOREM SoundnessUnlessEdge == Spec => []SoundUnlessEdge
<1>1. IInv => SoundUnlessEdge
  BY SoundAligned, SoundWithinBound DEF IInv, Safe, SoundUnlessEdge
<1> QED  BY Invariant, <1>1, PTL

-----------------------------------------------------------------------------
(* The refinement                                                          *)

LEMMA EncodeRefines ==
  ASSUME TypeOK, NEW v \in Values, NEW h \in HistValues, Encode(v, h)
  PROVE  Promise!Accept(v)
<1>1. v \in Int /\ h \in Int  BY QuantizerAssumption
<1>2. PICK x \in Int, t \in Int : Appended(v, h, x, t)  BY <1>1, ShapeOfEncode
<1>3. Len(data) < MaxLen
  BY DEF Encode, EncodeForced, EncodeUnpredictable, EncodeQuantized, EncodeRoundingFailed, Read
<1> QED  BY <1>2, <1>3 DEF Appended, Promise!Accept

LEMMA DecodeRefines ==
  ASSUME IInv, IInv', Safe, DecodeExact \/ DecodeQuantized
  PROVE  Promise!Return
<1> SUFFICES ASSUME NEW n \in Nat, n = Len(out) PROVE Promise!Return
  BY LenProperties DEF IInv, TypeOK
<1>1. phase = "decode" /\ UNCHANGED <<data, phase>> /\ UNCHANGED encoder
      /\ n < Len(types)
  BY DEF DecodeExact, DecodeQuantized, encoder
<1>2. \E x : out' = Append(out, x)  BY DEF DecodeExact, DecodeQuantized
<1>3. PICK x : out' = Append(out, x)  BY <1>2
<1>4. Safe'  BY <1>1 DEF Safe, EdgeFree, encoder
<1>5. Len(out') = n + 1 /\ out'[n + 1] = x /\ x \in Int
  BY <1>3, LenProperties DEF IInv, TypeOK
<1>6. BoundKept'  BY <1>4, SoundWithinBound, PTL DEF IInv
<1>7. n + 1 \in 1 .. (n + 1)  OBVIOUS
<1>8. Abs(x - data[n + 1]) <= Eb  BY <1>1, <1>5, <1>6, <1>7 DEF BoundKept
<1>9. data[n + 1] \in Int /\ Len(data) = Len(types)
  BY <1>1, <1>7, LenProperties, ElementOfSeq DEF IInv, TypeOK
<1>10. x \in (data[n + 1] - Eb) .. (data[n + 1] + Eb)
  BY <1>5, <1>8, <1>9, QuantizerAssumption DEF Abs
<1> QED  BY <1>1, <1>3, <1>9, <1>10 DEF Promise!Return

\* Where the code is taken from the number tested, compressor and decompressor
\* implement the abstract promise: every step is one of its steps or a stutter.
THEOREM Refinement ==
  ASSUME Inclusive = FALSE, OneQuotient
  PROVE  Spec => PromiseKept
<1>1. Init => Promise!Init  BY DEF Init, Promise!Init
<1>2. ASSUME IInv, IInv', [Next]_vars PROVE [Promise!Next]_(Promise!vars)
  <2>1. CASE \E v \in Values, h \in HistValues : Encode(v, h)
    BY <1>2, <2>1, EncodeRefines DEF IInv, Promise!Next
  <2>2. CASE Finish  BY <2>2 DEF Finish, Promise!Seal, Promise!Next
  <2>3. CASE DecodeExact \/ DecodeQuantized
    BY <1>2, <2>3, DecodeRefines DEF Safe, Promise!Next
  <2>4. CASE UNCHANGED vars  BY <2>4 DEF vars, Promise!vars
  <2> QED  BY <1>2, <2>1, <2>2, <2>3, <2>4 DEF Next
<1> QED  BY Invariant, <1>1, <1>2, PTL DEF Spec, PromiseKept, Promise!Spec
=============================================================================
