------------------------------ MODULE Quantizer ------------------------------
(***************************************************************************)
(* The prediction and linear-scaling quantisation at the heart of every SZ *)
(* codec, and the decompressor that undoes it.                             *)
(*                                                                         *)
(* The compressor turns a block into two streams.  `types` has one code    *)
(* per value: 0 for "unpredictable", else Radius + k for a value that is   *)
(* about 2*k*Eb away from its prediction.  `exact` has one entry for each  *)
(* unpredictable value.  The decompressor repeats the predictions on what  *)
(* it has rebuilt and takes the next entry of `exact` at each 0, so the    *)
(* two streams must stay aligned and both sides must predict from the same *)
(* numbers.  Numbers are integers on a floating-point-like grid: exact up  *)
(* to Mantissa, multiples of Ulp above.  The distance of a value from its  *)
(* prediction, as a multiple of Eb, is a float as well: beyond Mantissa it *)
(* is off by up to RoundOff.                                               *)
(***************************************************************************)
EXTENDS Integers, Sequences, FiniteSets

CONSTANTS
  Values,     \* numbers the caller's array may hold
  HistValues, \* numbers the previous time step may have left at a position
  Eb,         \* realPrecision, the absolute error bound
  Radius,     \* intvRadius, half of quantization_intervals
  MaxLen,     \* bound: the most values in a block
  Predictor,  \* "last" (1D), "lorenzo2D" (2D), "hist" (1D, temporal frames)
  Width,      \* r2, the row length of a 2D block
  Inclusive,  \* the range test is <= (sz_float_ts.c) instead of <
  Mantissa,   \* integers up to this magnitude are representable
  Ulp,        \* above it, only multiples of this are
  RoundOff    \* what the float operations on a distance can be off by

ASSUME QuantizerAssumption ==
  /\ Values \subseteq Int /\ HistValues \subseteq Int
  /\ Eb \in Nat \ {0} /\ Radius \in Nat \ {0} /\ MaxLen \in Nat
  /\ Predictor \in {"last", "lorenzo2D", "hist"}
  /\ Width \in Nat \ {0, 1}
  /\ Inclusive \in BOOLEAN
  /\ Mantissa \in Nat /\ Ulp \in Nat \ {0}
  /\ RoundOff \in 0 .. Mantissa

VARIABLES
  data,   \* spaceFillingValue, as far as the compressor has read it
  hist,   \* multisteps->hist_data at the positions read so far
  types,  \* type[]
  exact,  \* the entries added by addExactData
  recon,  \* the values the compressor knows the decompressor will rebuild
  phase,  \* "encode", then "decode"
  out,    \* (*data)[] of the decompressor
  next    \* l: exact entries the decompressor has consumed

encoder == <<data, hist, types, exact, recon>>
vars == <<data, hist, types, exact, recon, phase, out, next>>

Abs(x) == IF x < 0 THEN -x ELSE x
Intervals == 2 * Radius
CheckRadius == (Intervals - 1) * Eb

\* A float result: the nearest representable number.
Round(x) == IF Abs(x) <= Mantissa THEN x ELSE ((x + (Ulp \div 2)) \div Ulp) * Ulp
Representable(x) == Round(x) = x

-----------------------------------------------------------------------------
\* The 2D Lorenzo predictor for the position after the rebuilt prefix s.
Lorenzo2D(s) ==
  LET i == Len(s) IN
  IF i < Width
  THEN IF i = 1 THEN s[1] ELSE Round(2 * s[i] - s[i - 1])
  ELSE LET north == s[i + 1 - Width]
       IN IF i % Width = 0 THEN north ELSE Round(s[i] + north - s[i - Width])

\* The prediction of the value that follows the rebuilt prefix s, where the
\* previous time step had h.
Predict(s, h) ==
  CASE Predictor = "last" -> s[Len(s)]
    [] Predictor = "hist" -> h
    [] Predictor = "lorenzo2D" -> Lorenzo2D(s)

\* The first positions are stored exactly whatever they are.
Forced(i) == i < (IF Predictor = "lorenzo2D" THEN 1 ELSE 2)

\* The distance d as float operations give it.
Seen(d) == IF d <= Mantissa THEN {d} ELSE (d - RoundOff) .. (d + RoundOff)

\* The 2D coders test itvNum and take the code from it.  The 1D coders compare
\* the distance with checkRadius and take the code from another quotient, so
\* that the two are rounded each for itself.
OneQuotient == Predictor = "lorenzo2D"

\* Mutant of InRange: the edge counts as in range.
InRangeToEdge(d) == d <= CheckRadius

\* The range test; at d = CheckRadius the two codecs differ.
InRange(d) == IF Inclusive THEN d <= CheckRadius ELSE d < CheckRadius

State(d) == (d + Eb) \div (2 * Eb)

\* The code of v predicted as p, when its distance is taken for q.
Quantize(v, p, q) == IF v >= p THEN Radius + State(q) ELSE Radius - State(q)

\* The codes that v can get: none when it is taken for out of range.
Codes(v, p) ==
  {Quantize(v, p, q) : q \in
     {q \in Seen(Abs(v - p)) :
        \E d \in Seen(Abs(v - p)) : InRange(d) /\ (OneQuotient => q = d)}}

Reconstruct(p, t) == Round(p + (t - Radius) * 2 * Eb)

-----------------------------------------------------------------------------
Init ==
  /\ data = << >> /\ hist = << >> /\ types = << >> /\ exact = << >>
  /\ recon = << >> /\ phase = "encode" /\ out = << >> /\ next = 0

Read(v, h) ==
  /\ phase = "encode"
  /\ Len(data) < MaxLen
  /\ Representable(v) /\ Representable(h)
  /\ data' = Append(data, v)
  /\ hist' = Append(hist, h)

\* Mutant of StoreExact: type[i] = 0 is forgotten.
StoreExactUntyped(v) ==
  \E x \in (v - Eb) .. (v + Eb) :
    /\ Representable(x)
    /\ exact' = Append(exact, x)
    /\ recon' = Append(recon, x)
    /\ types' = types

\* Mutant of StoreExact: prediction continues from the caller's number.
StoreExactOriginal(v) ==
  \E x \in (v - Eb) .. (v + Eb) :
    /\ Representable(x)
    /\ types' = Append(types, 0)
    /\ exact' = Append(exact, x)
    /\ recon' = Append(recon, v)

\* compressSingleFloatValue keeps some number within the bound of v.
StoreExact(v) ==
  \E x \in (v - Eb) .. (v + Eb) :
    /\ Representable(x)
    /\ types' = Append(types, 0)
    /\ exact' = Append(exact, x)
    /\ recon' = Append(recon, x)

EncodeForced(v, h) ==
  /\ Forced(Len(data))
  /\ Read(v, h)
  /\ StoreExact(v)
  /\ UNCHANGED <<phase, out, next>>

EncodeUnpredictable(v, h) ==
  /\ ~Forced(Len(data))
  /\ Read(v, h)
  /\ \E d \in Seen(Abs(v - Predict(recon, h))) : ~InRange(d)
  /\ StoreExact(v)
  /\ UNCHANGED <<phase, out, next>>

\* Mutant of EncodeQuantized: no double-check after the quantisation.
EncodeUnchecked(v, h) ==
  /\ ~Forced(Len(data))
  /\ Read(v, h)
  /\ LET p == Predict(recon, h)
     IN \E t \in Codes(v, p) :
        /\ types' = Append(types, t)
        /\ recon' = Append(recon, Reconstruct(p, t))
        /\ exact' = exact
  /\ UNCHANGED <<phase, out, next>>

\* In range: the code is kept only if rounding did not break the bound.
EncodeQuantized(v, h) ==
  /\ ~Forced(Len(data))
  /\ Read(v, h)
  /\ LET p == Predict(recon, h)
     IN \E t \in Codes(v, p) :
        /\ Abs(v - Reconstruct(p, t)) <= Eb
        /\ types' = Append(types, t)
        /\ recon' = Append(recon, Reconstruct(p, t))
        /\ exact' = exact
  /\ UNCHANGED <<phase, out, next>>

\* Mutant of EncodeRoundingFailed: the code is cleared, nothing is stored.
EncodeClearedOnly(v, h) ==
  /\ ~Forced(Len(data))
  /\ Read(v, h)
  /\ LET p == Predict(recon, h)
     IN \E t \in Codes(v, p) : Abs(v - Reconstruct(p, t)) > Eb
  /\ types' = Append(types, 0)
  /\ recon' = Append(recon, v)
  /\ exact' = exact
  /\ UNCHANGED <<phase, out, next>>

EncodeRoundingFailed(v, h) ==
  /\ ~Forced(Len(data))
  /\ Read(v, h)
  /\ LET p == Predict(recon, h)
     IN \E t \in Codes(v, p) : Abs(v - Reconstruct(p, t)) > Eb
  /\ StoreExact(v)
  /\ UNCHANGED <<phase, out, next>>

\* A block has at least its forced values: smaller arrays are not coded.
Finish ==
  /\ phase = "encode"
  /\ ~Forced(Len(data))
  /\ phase' = "decode"
  /\ UNCHANGED <<data, hist, types, exact, recon, out, next>>

-----------------------------------------------------------------------------
\* Reading past the last entry of the exact stream returns anything.
ExactEntry(l) == IF l <= Len(exact) THEN {exact[l]} ELSE Values

\* Mutant of DecodeExact: l is not advanced.
DecodeExactStuck ==
  /\ phase = "decode" /\ Len(out) < Len(types)
  /\ types[Len(out) + 1] = 0
  /\ \E x \in ExactEntry(next + 1) : out' = Append(out, x)
  /\ UNCHANGED <<data, hist, types, exact, recon, phase, next>>

DecodeExact ==
  /\ phase = "decode" /\ Len(out) < Len(types)
  /\ types[Len(out) + 1] = 0
  /\ next' = next + 1
  /\ \E x \in ExactEntry(next + 1) : out' = Append(out, x)
  /\ UNCHANGED <<data, hist, types, exact, recon, phase>>

\* Mutant of DecodeQuantized: every frame is rebuilt from the previous value.
DecodeFromLast ==
  /\ phase = "decode" /\ 0 < Len(out) /\ Len(out) < Len(types)
  /\ types[Len(out) + 1] # 0
  /\ out' = Append(out, Reconstruct(out[Len(out)], types[Len(out) + 1]))
  /\ UNCHANGED <<data, hist, types, exact, recon, phase, next>>

DecodeQuantized ==
  /\ phase = "decode" /\ Len(out) < Len(types)
  /\ LET i == Len(out) + 1
     IN /\ types[i] # 0
        /\ out' = Append(out, Reconstruct(Predict(out, hist[i]), types[i]))
  /\ UNCHANGED <<data, hist, types, exact, recon, phase, next>>

Encode(v, h) ==
  \/ EncodeForced(v, h)
  \/ EncodeUnpredictable(v, h)
  \/ EncodeQuantized(v, h)
  \/ EncodeRoundingFailed(v, h)

Next ==
  \/ \E v \in Values, h \in HistValues : Encode(v, h)
  \/ Finish
  \/ DecodeExact
  \/ DecodeQuantized

Spec == Init /\ [][Next]_vars

-----------------------------------------------------------------------------
(* Properties                                                              *)

\* Every variable has its type, and the arrays of a block have its length.
TypeOK ==
  /\ data \in Seq(Int) /\ hist \in Seq(Int) /\ recon \in Seq(Int)
  /\ types \in Seq(Int) /\ exact \in Seq(Int) /\ out \in Seq(Int)
  /\ Len(hist) = Len(data) /\ Len(types) = Len(data) /\ Len(recon) = Len(data)
  /\ Len(out) <= Len(types)
  /\ phase \in {"encode", "decode"}
  /\ next \in 0 .. Len(out)

\* Every code fits the alphabet of Intervals symbols that the entropy coders
\* are built for (sz_float.c:838-866).
CodesInAlphabet == \A i \in 1 .. Len(types) : types[i] \in 0 .. Intervals - 1

\* exact holds one entry for each code 0 and no other: exactDataNum, which
\* the compressor takes from exactLeadNumArray->size (sz_float.c:1011).  So the
\* decompressor, which does not test its cursor l, never reads behind the last
\* entry and has read them all when the block is rebuilt (szd_float.c:303-317).
Zeros(s, n) == Cardinality({i \in 1 .. n : s[i] = 0})
StreamsAligned ==
  /\ Zeros(types, Len(types)) = Len(exact)
  /\ next <= Len(exact)
  /\ phase = "decode" /\ Len(out) = Len(types) => next = Len(exact)

\* The decompressor rebuilds exactly the numbers the compressor predicted
\* from; the coders keep these in hist_data for the next time step without
\* ever decompressing (sz_float.c:760-764, 868-871).
InSync == \A i \in 1 .. Len(out) : out[i] = recon[i]

\* absErrBound: no value is returned further than Eb from the one given
\* (README.md; sz_float.c:847).
BoundKept == \A i \in 1 .. Len(out) : Abs(out[i] - data[i]) <= Eb

\* No value so far is so near the edge of the range that rounding, or the
\* inclusive test, can take it for one inside and give it a code outside.
Before(s, i) == SubSeq(s, 1, i - 1)
EdgeFree ==
  \A i \in 1 .. Len(data) :
    \/ Forced(i - 1)
    \/ Abs(Abs(data[i] - Predict(Before(recon, i), hist[i])) - CheckRadius) > RoundOff

\* Away from that edge every coder keeps the bound and both streams aligned,
\* with either test and whatever the roundings of checkRadius and
\* recip_precision: the code of a value in range is then not the code 0 of an
\* exact value (sz_float.c:574-597, sz_float_ts.c:144-158).
SoundUnlessEdge == EdgeFree => StreamsAligned /\ BoundKept

\* The promise to the caller, with the compressor's streams hidden.
Promise == INSTANCE ErrorBounded WITH sealed <- (phase = "decode")
PromiseKept == Promise!Spec
=============================================================================
