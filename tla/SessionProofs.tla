---------------------------- MODULE SessionProofs ----------------------------
(***************************************************************************)
(* What Session.tla keeps for every set of bounds, ranges, capacities and  *)
(* streams.  Everything rests on TInv, which says what is in the two       *)
(* global records; each theorem adds what its own property needs.          *)
(***************************************************************************)
EXTENDS Session, TLAPS

AnyMode == {"ABS", "REL", "ABS_AND_REL", "ABS_OR_REL", "PSNR"}
AnyBounds == [mode : AnyMode, abs : Nat, rel : Nat]
CprType == [bounds : AnyBounds, temporal : BOOLEAN, maxRangeRadius : Nat]
ExeType == [intvCapacity : Nat, optQuantMode : 0 .. 1]

-----------------------------------------------------------------------------
(* What the helpers return                                                 *)

LEMMA NotNull == \A e \in ExeType : e # NULL
  BY DEF ExeType, NULL

LEMMA BoundsType == Bounds \subseteq AnyBounds
  BY SessionAssumption DEF Bounds, AnyBounds, AnyMode

LEMMA ConfigTypes ==
  \A c \in Config \cup {DefaultConfig} :
    /\ c.bounds \in AnyBounds
    /\ ConfigCpr(c) \in CprType /\ ConfigExe(c) \in ExeType
    /\ ParamsCpr(c) \in CprType
<1> USE SessionAssumption, BoundsType
<1>1. TAKE c \in Config \cup {DefaultConfig}
<1>2. c.bounds \in AnyBounds /\ c.quantization_intervals \in Nat
  <2>1. CASE c \in Config
    <3>1. c.bounds \in Bounds /\ c.quantization_intervals \in Intervals
      BY <2>1 DEF Config
    <3> QED  BY <3>1
  <2>2. CASE c = DefaultConfig
    BY <2>2 DEF DefaultConfig, AnyBounds, AnyMode
  <2> QED  BY <2>1, <2>2
<1>3. MaxIntervals \div 2 \in Nat  OBVIOUS
<1>4. ConfigCpr(c) \in CprType /\ ParamsCpr(c) \in CprType
  BY <1>2, <1>3 DEF ConfigCpr, ParamsCpr, CprType
<1>5. ConfigExe(c) \in ExeType  BY <1>2 DEF ConfigExe, ExeType
<1> QED  BY <1>2, <1>4, <1>5

LEMMA PercentNat == \A p, r \in Nat : (p * r) \div 100 \in Nat
<1>1. TAKE p, r \in Nat
<1>2. p * r \in Nat  OBVIOUS
<1> QED  BY <1>2

LEMMA PrecisionNat ==
  ASSUME NEW b \in AnyBounds, NEW range \in Nat
  PROVE  RealPrecision(b, range) \in Nat
<1>1. (b.rel * range) \div 100 \in Nat /\ b.abs \in Nat /\ b.mode \in AnyMode
  BY PercentNat DEF AnyBounds
<1>2. (PsnrPercent * range) \div 100 \in Nat  BY PercentNat, SessionAssumption
<1> QED  BY <1>1, <1>2 DEF RealPrecision, AnyMode, Least, Greatest

LEMMA AfterType ==
  ASSUME NEW cp \in CprType, NEW b \in AnyBounds, NEW range \in Nat
  PROVE  /\ AfterCompression(cp, b, range) \in CprType
         /\ AfterCompression(cp, b, range).temporal = cp.temporal
         /\ AfterCompression(cp, b, range).maxRangeRadius = cp.maxRangeRadius
         /\ AfterCompression(cp, b, range).bounds =
              [mode |-> IF b.mode = "PSNR" THEN "ABS" ELSE b.mode,
               abs |-> RealPrecision(b, range), rel |-> cp.bounds.rel]
<1>1. RealPrecision(b, range) \in Nat  BY PrecisionNat
<1>2. cp.bounds.rel \in Nat  BY DEF CprType, AnyBounds
<1>3. [mode |-> IF b.mode = "PSNR" THEN "ABS" ELSE b.mode,
       abs |-> RealPrecision(b, range), rel |-> cp.bounds.rel] \in AnyBounds
  BY <1>1, <1>2 DEF AnyBounds, AnyMode
<1> QED  BY <1>3 DEF AfterCompression, CprType

LEMMA RepairedType ==
  ASSUME NEW cp \in CprType, NEW ex \in ExeType
  PROVE  Repaired(cp, ex) \in ExeType
  BY DEF CprType, ExeType, Repaired

LEMMA CompressFloatType ==
  ASSUME NEW cp \in CprType, NEW ex \in ExeType, NEW b \in AnyBounds,
         NEW range \in Nat, NEW timeStep \in BOOLEAN, NEW call, NEW given,
         CompressFloat(call, given, cp, ex, b, range, timeStep)
  PROVE  /\ confparams_cpr' = AfterCompression(cp, b, range)
         /\ confparams_cpr' \in CprType
         /\ exe_params' \in ExeType
         /\ crashed' \in BOOLEAN
<1>1. confparams_cpr' = AfterCompression(cp, b, range)  BY DEF CompressFloat
<1>2. exe_params' \in ExeType
  <2>1. \/ exe_params' = ex
        \/ exe_params' = [ex EXCEPT !.intvCapacity = MaxIntervals]
    BY DEF CompressFloat
  <2> QED  BY <2>1, SessionAssumption DEF ExeType
<1>3. crashed' \in BOOLEAN  BY DEF CompressFloat
<1> QED  BY <1>1, <1>2, <1>3, AfterType

-----------------------------------------------------------------------------
(* What is in the two records                                              *)

TInv ==
  /\ confparams_cpr # NULL =>
       /\ exe_params # NULL
       /\ confparams_cpr \in CprType
       /\ confparams_cpr.bounds.mode \in Modes \cup {"ABS", "PSNR"}
  /\ exe_params # NULL => exe_params \in ExeType
  /\ since \subseteq {"args", "ts", "foreign"}
  /\ crashed \in BOOLEAN

\* A compression leaves settings with a mode that the caller can have chosen.
LEMMA CompressFloatTInv ==
  ASSUME NEW cp \in CprType, NEW ex \in ExeType, NEW b \in AnyBounds,
         NEW range \in Nat, NEW timeStep \in BOOLEAN, NEW call, NEW given,
         b.mode \in Modes \cup {"ABS", "PSNR"},
         since' \subseteq {"args", "ts", "foreign"},
         CompressFloat(call, given, cp, ex, b, range, timeStep)
  PROVE  TInv'
<1>1. /\ confparams_cpr' = AfterCompression(cp, b, range)
      /\ confparams_cpr' \in CprType /\ exe_params' \in ExeType
      /\ crashed' \in BOOLEAN
  BY CompressFloatType
<1>2. confparams_cpr'.bounds =
        [mode |-> IF b.mode = "PSNR" THEN "ABS" ELSE b.mode,
         abs |-> RealPrecision(b, range), rel |-> cp.bounds.rel]
  BY <1>1, AfterType
<1>3. confparams_cpr'.bounds.mode \in Modes \cup {"ABS", "PSNR"}  BY <1>2
<1>4. exe_params' # NULL  BY <1>1, NotNull
<1> QED  BY <1>1, <1>3, <1>4 DEF TInv

LEMMA TInvStep == TInv /\ [Next]_vars => TInv'
<1> USE SessionAssumption
<1>1. SUFFICES ASSUME TInv, [Next]_vars PROVE TInv'  OBVIOUS
<1>2. ASSUME NEW c \in Config, SZ_Init(c) PROVE TInv'
  <2>1. ConfigCpr(c) \in CprType /\ ConfigExe(c) \in ExeType  BY ConfigTypes
  <2>2. ConfigCpr(c).bounds.mode \in Modes  BY DEF ConfigCpr, Config, Bounds
  <2>3. ConfigExe(c) # NULL  BY <2>1, NotNull
  <2> QED  BY <1>1, <1>2, <2>1, <2>2, <2>3 DEF SZ_Init, TInv
<1>3. ASSUME NEW c \in Config, SZ_Init_Params(c) PROVE TInv'
  <2>1. ParamsCpr(c) \in CprType /\ ConfigExe(DefaultConfig) \in ExeType
    BY ConfigTypes
  <2>2. ParamsCpr(c).bounds.mode \in Modes  BY DEF ParamsCpr, Config, Bounds
  <2>3. ConfigExe(DefaultConfig) # NULL  BY <2>1, NotNull
  <2> QED  BY <1>1, <1>3, <2>1, <2>2, <2>3 DEF SZ_Init_Params, TInv
<1>4. ASSUME NEW r \in Ranges, SZ_compress(r) PROVE TInv'
  <2>1. confparams_cpr \in CprType /\ exe_params \in ExeType
    BY <1>1, <1>4 DEF SZ_compress, TInv
  <2>2. Repaired(confparams_cpr, exe_params) \in ExeType  BY <2>1, RepairedType
  <2>3. /\ confparams_cpr.bounds \in AnyBounds /\ r \in Nat
        /\ confparams_cpr.bounds.mode \in Modes \cup {"ABS", "PSNR"}
    BY <1>1, <1>4, <2>1 DEF SZ_compress, TInv, CprType
  <2>4. since' \subseteq {"args", "ts", "foreign"}
    BY <1>1, <1>4 DEF SZ_compress, TInv
  <2> QED  BY <1>4, <2>1, <2>2, <2>3, <2>4, CompressFloatTInv DEF SZ_compress
<1>5. ASSUME NEW b \in Bounds, NEW r \in Ranges, SZ_compress_args(b, r) PROVE TInv'
  <2> DEFINE fresh == confparams_cpr = NULL
             cp == IF fresh THEN ConfigCpr(DefaultConfig) ELSE confparams_cpr
             ex == IF fresh THEN ConfigExe(DefaultConfig) ELSE exe_params
  <2>1. cp \in CprType /\ ex \in ExeType  BY <1>1, ConfigTypes DEF TInv
  <2>2. CompressFloat("SZ_compress_args", b, cp, Repaired(cp, ex), b, r, FALSE)
    BY <1>5 DEF SZ_compress_args
  <2>3. b \in AnyBounds /\ b.mode \in Modes /\ r \in Nat
    BY BoundsType DEF Bounds
  <2>4. since' \subseteq {"args", "ts", "foreign"}
    BY <1>1, <1>5 DEF SZ_compress_args, TInv
  <2> HIDE DEF cp, ex
  <2> QED  BY <2>1, <2>2, <2>3, <2>4, RepairedType, CompressFloatTInv
<1>6. ASSUME NEW b \in Bounds, NEW r \in Ranges, SZ_compress_ts(b, r) PROVE TInv'
  <2>1. confparams_cpr \in CprType /\ exe_params \in ExeType
    BY <1>1, <1>6 DEF SZ_compress_ts, TInv
  <2>2. [confparams_cpr EXCEPT !.temporal = TRUE] \in CprType
    BY <2>1 DEF CprType
  <2>3. b \in AnyBounds /\ b.mode \in Modes /\ r \in Nat
    BY BoundsType DEF Bounds
  <2>4. since' \subseteq {"args", "ts", "foreign"}
    BY <1>1, <1>6 DEF SZ_compress_ts, TInv
  <2> QED  BY <1>6, <2>1, <2>2, <2>3, <2>4, CompressFloatTInv DEF SZ_compress_ts
<1>7. ASSUME NEW s \in Streams, SZ_decompress(s) PROVE TInv'
  <2>1. s.intervals \in Nat /\ s.optQuantMode \in 0 .. 1  BY DEF StreamRecord
  <2>2. exe_params' \in ExeType  BY <1>7, <2>1 DEF SZ_decompress, ExeType
  <2>3. exe_params' # NULL  BY <2>2, NotNull
  <2> QED  BY <1>1, <1>7, <2>2, <2>3 DEF SZ_decompress, TInv
<1>8. ASSUME SZ_Finalize PROVE TInv'
  BY <1>1, <1>8 DEF SZ_Finalize, TInv
<1>9. CASE UNCHANGED vars
  BY <1>1, <1>9 DEF vars, TInv
<1> QED
  BY <1>1, <1>2, <1>3, <1>4, <1>5, <1>6, <1>7, <1>8, <1>9 DEF Next

LEMMA TInvariant == Spec => []TInv
<1>1. Init => TInv  BY DEF Init, TInv
<1> QED  BY <1>1, TInvStep, PTL DEF Spec

\* Settings exist only together with a quantization state, and both are well
\* formed, whatever calls were made in whatever order.
THEOREM TypeCorrect == Spec => []TypeOK
<1>1. TInv => TypeOK  BY DEF TInv, TypeOK, CprType, ExeType, AnyBounds
<1> QED  BY <1>1, TInvariant, PTL

-----------------------------------------------------------------------------
(* The number of quantization intervals                                    *)

\* As long as search is what everybody asks for, search is in exe_params.
Alone == Searching /\ "foreign" \notin since
OInv ==
  /\ TInv
  /\ exe_params # NULL /\ Alone => exe_params.optQuantMode = 1
  /\ last # NoCall /\ Alone => last.searched

LEMMA CompressFloatOInv ==
  ASSUME TInv', NEW cp, NEW ex \in ExeType, NEW b, NEW range,
         NEW timeStep, NEW call, NEW given,
         Alone' => ex.optQuantMode = 1,
         CompressFloat(call, given, cp, ex, b, range, timeStep)
  PROVE  OInv'
<1>1. Alone' => exe_params'.optQuantMode = 1
  <2>1. \/ exe_params' = ex
        \/ exe_params' = [ex EXCEPT !.intvCapacity = MaxIntervals]
    BY DEF CompressFloat
  <2>2. [ex EXCEPT !.intvCapacity = MaxIntervals].optQuantMode = ex.optQuantMode
    BY DEF ExeType
  <2> QED  BY <2>1, <2>2
<1>2. Alone' => last'.searched  BY DEF CompressFloat
<1> QED  BY <1>1, <1>2 DEF OInv

LEMMA OInvStep == OInv /\ [Next]_vars => OInv'
<1> USE SessionAssumption
<1>1. SUFFICES ASSUME OInv, [Next]_vars PROVE OInv'  OBVIOUS
<1>2. TInv /\ TInv'  BY <1>1, TInvStep DEF OInv
<1>3. ASSUME NEW c \in Config \cup {DefaultConfig}, c.quantization_intervals = 0
      PROVE  ConfigExe(c).optQuantMode = 1
  BY <1>3 DEF ConfigExe
<1>4. ConfigExe(DefaultConfig).optQuantMode = 1
  BY <1>3 DEF DefaultConfig
<1>5. ASSUME NEW c \in Config, SZ_Init(c) \/ SZ_Init_Params(c) PROVE OInv'
  <2>1. Alone' => exe_params'.optQuantMode = 1
    BY <1>3, <1>4, <1>5 DEF SZ_Init, SZ_Init_Params, Alone, Searching
  <2>2. last' = NoCall  BY <1>5 DEF SZ_Init, SZ_Init_Params
  <2> QED  BY <1>2, <2>1, <2>2 DEF OInv
<1>6. ASSUME NEW r \in Ranges, SZ_compress(r) PROVE OInv'
  <2> DEFINE ex == Repaired(confparams_cpr, exe_params)
  <2>1. /\ confparams_cpr \in CprType
        /\ exe_params \in ExeType /\ exe_params # NULL
    BY <1>2, <1>6 DEF SZ_compress, TInv
  <2>2. Alone' => exe_params.optQuantMode = 1
    BY <1>1, <1>6, <2>1 DEF SZ_compress, OInv, Alone, Searching
  <2>3. ex \in ExeType /\ (Alone' => ex.optQuantMode = 1)
    BY <2>1, <2>2, RepairedType DEF Repaired
  <2>4. CompressFloat("SZ_compress", asked.bounds, confparams_cpr, ex,
                      confparams_cpr.bounds, r, FALSE)
    BY <1>6 DEF SZ_compress
  <2> HIDE DEF ex
  <2> QED  BY <1>2, <2>3, <2>4, CompressFloatOInv
<1>7. ASSUME NEW b \in Bounds, NEW r \in Ranges, SZ_compress_args(b, r) PROVE OInv'
  <2> DEFINE fresh == confparams_cpr = NULL
             cp == IF fresh THEN ConfigCpr(DefaultConfig) ELSE confparams_cpr
             ex == IF fresh THEN ConfigExe(DefaultConfig) ELSE exe_params
             ex2 == Repaired(cp, ex)
  <2>1. cp \in CprType /\ ex \in ExeType  BY <1>2, ConfigTypes DEF TInv
  <2>2. Alone' => ex.optQuantMode = 1
    <3>1. CASE fresh  BY <1>4, <3>1
    <3>2. CASE ~fresh
      <4>1. exe_params # NULL  BY <1>2, <3>2 DEF TInv
      <4>2. Alone' => Alone
        BY <1>7, <3>2 DEF SZ_compress_args, Alone, Searching
      <4> QED  BY <1>1, <3>2, <4>1, <4>2 DEF OInv
    <3> QED  BY <3>1, <3>2
  <2>3. CompressFloat("SZ_compress_args", b, cp, ex2, b, r, FALSE)
    BY <1>7 DEF SZ_compress_args
  <2> HIDE DEF cp, ex
  <2>4. ex2 \in ExeType /\ (Alone' => ex2.optQuantMode = 1)
    BY <2>1, <2>2, RepairedType DEF Repaired
  <2> HIDE DEF ex2
  <2> QED  BY <1>2, <2>3, <2>4, CompressFloatOInv
<1>8. ASSUME NEW b \in Bounds, NEW r \in Ranges, SZ_compress_ts(b, r) PROVE OInv'
  <2>1. exe_params \in ExeType /\ exe_params # NULL
    BY <1>2, <1>8 DEF SZ_compress_ts, TInv
  <2>2. Alone' => exe_params.optQuantMode = 1
    BY <1>1, <1>8, <2>1 DEF SZ_compress_ts, OInv, Alone, Searching
  <2> QED  BY <1>2, <1>8, <2>1, <2>2, CompressFloatOInv DEF SZ_compress_ts
<1>9. ASSUME NEW s \in Streams, SZ_decompress(s) PROVE OInv'
  <2>1. s.optQuantMode \in 0 .. 1  BY DEF StreamRecord
  <2>2. exe_params'.optQuantMode = s.optQuantMode  BY <1>9 DEF SZ_decompress
  <2>3. Alone' => Alone /\ s.optQuantMode = 1
    BY <1>9, <2>1 DEF SZ_decompress, Foreign, Alone, Searching
  <2> QED  BY <1>1, <1>2, <1>9, <2>2, <2>3 DEF SZ_decompress, OInv
<1>10. ASSUME SZ_Finalize PROVE OInv'
  BY <1>1, <1>2, <1>10 DEF SZ_Finalize, OInv
<1>11. CASE UNCHANGED vars
  BY <1>1, <1>2, <1>11 DEF vars, OInv, Alone, Searching
<1> QED
  BY <1>1, <1>5, <1>6, <1>7, <1>8, <1>9, <1>10, <1>11 DEF Next

LEMMA OInit == Init => OInv
<1>1. Init => TInv  BY DEF Init, TInv
<1> QED  BY <1>1, Zenon DEF Init, OInv

LEMMA OInvariant == Spec => []OInv
  BY OInit, OInvStep, PTL DEF Spec

\* As long as this compressor and those of the streams it decompressed search
\* for their intervals, decompressing never changes how it finds them.
THEOREM IntervalsOwned == Spec => []OwnIntervals
<1>1. OInv => OwnIntervals
  BY Zenon DEF OInv, OwnIntervals, OwnIntervalsAlone, OwnIntervalsAlways,
               Alone, Searching
<1> QED  BY <1>1, OInvariant, PTL

-----------------------------------------------------------------------------
(* Calls that kill the process                                             *)

\* With a search, the table it fills is never empty; settings are temporal
\* only after a time step; and a capacity of zero without a search, which only
\* the stream of another compressor leaves, is repaired in all calls but
\* SZ_compress_ts.
CInv ==
  /\ OInv
  /\ confparams_cpr # NULL /\ Searching => confparams_cpr.maxRangeRadius # 0
  /\ confparams_cpr # NULL /\ confparams_cpr.temporal => "ts" \in since
  /\ CrashesOnlyAfterTimeStep

LEMMA CprNotNull == \A cp \in CprType : cp # NULL
  BY DEF CprType, NULL

LEMMA CompressFloatCInv ==
  ASSUME OInv', NEW cp \in CprType, NEW ex \in ExeType, NEW b \in AnyBounds,
         NEW range \in Nat, NEW timeStep \in BOOLEAN, NEW call, NEW given,
         Searching' => cp.maxRangeRadius # 0,
         cp.temporal => "ts" \in since',
         timeStep => "ts" \in since' /\ (Alone' => ex.optQuantMode = 1),
         ~timeStep => /\ call # "SZ_compress_ts"
                      /\ ex.optQuantMode = 0 => ex.intvCapacity # 0,
         CompressFloat(call, given, cp, ex, b, range, timeStep)
  PROVE  CInv'
<1>1. /\ confparams_cpr' \in CprType
      /\ confparams_cpr'.temporal = cp.temporal
      /\ confparams_cpr'.maxRangeRadius = cp.maxRangeRadius
  <2>1. confparams_cpr' = AfterCompression(cp, b, range)  BY CompressFloatType
  <2> QED  BY <2>1, AfterType
<1>2. crashed' => \/ cp.temporal /\ ~timeStep
                  \/ ex.optQuantMode = 1 /\ cp.maxRangeRadius = 0
                  \/ ex.optQuantMode = 0 /\ ex.intvCapacity = 0
  BY DEF CompressFloat
<1>3. last'.call = call  BY DEF CompressFloat
<1>4. CrashesOnlyAfterTimeStep'
  <2> SUFFICES ASSUME Searching', crashed'
               PROVE  /\ "ts" \in since'
                      /\ call = "SZ_compress_ts" => "foreign" \in since'
    BY <1>3 DEF CrashesOnlyAfterTimeStep, CrashNeedsTimeStep
  <2>1. \/ cp.temporal /\ ~timeStep
        \/ ex.optQuantMode = 0 /\ ex.intvCapacity = 0
    BY <1>2
  <2>2. CASE timeStep
    <3>1. ex.optQuantMode = 0  BY <2>1, <2>2
    <3>2. ~Alone'  BY <2>2, <3>1
    <3> QED  BY <2>2, <3>2 DEF Alone
  <2>3. CASE ~timeStep
    BY <2>1, <2>3
  <2> QED  BY <2>2, <2>3
<1> QED  BY <1>1, <1>4 DEF CInv

\* The capacity that goes with a given number of intervals is not zero.
LEMMA RepairedSafe ==
  ASSUME NEW cp \in CprType, NEW ex \in ExeType
  PROVE  Repaired(cp, ex).optQuantMode = 0 => Repaired(cp, ex).intvCapacity # 0
  BY DEF Repaired

LEMMA CInvStep ==
  ASSUME MaxIntervals >= 2
  PROVE  CInv /\ [Next]_vars => CInv'
<1> USE SessionAssumption
<1>1. SUFFICES ASSUME CInv, [Next]_vars PROVE CInv'  OBVIOUS
<1>2. TInv /\ TInv' /\ OInv /\ OInv'  BY <1>1, OInvStep DEF CInv, OInv
<1>3. MaxIntervals \div 2 # 0
  <2>1. MaxIntervals \in Nat /\ MaxIntervals >= 2  OBVIOUS
  <2> HIDE SessionAssumption
  <2> QED  BY <2>1
<1>4. ASSUME NEW c \in Config \cup {DefaultConfig}
      PROVE  /\ c.quantization_intervals = 0 => ConfigCpr(c).maxRangeRadius # 0
             /\ ConfigCpr(c).temporal = FALSE
             /\ ParamsCpr(c).maxRangeRadius # 0 /\ ParamsCpr(c).temporal = FALSE
  BY <1>3 DEF ConfigCpr, ParamsCpr
<1>5. ASSUME NEW c \in Config, SZ_Init(c) \/ SZ_Init_Params(c) PROVE CInv'
  <2>1. Searching' => c.quantization_intervals = 0
    BY <1>5 DEF SZ_Init, SZ_Init_Params, Searching
  <2>2. /\ Searching' => confparams_cpr'.maxRangeRadius # 0
        /\ confparams_cpr'.temporal = FALSE
    BY <1>4, <1>5, <2>1 DEF SZ_Init, SZ_Init_Params
  <2>3. ~crashed'  BY <1>2, <1>5 DEF SZ_Init, SZ_Init_Params
  <2> QED
    BY <1>2, <2>2, <2>3 DEF CInv, CrashesOnlyAfterTimeStep, CrashNeedsTimeStep
<1>6. ASSUME NEW r \in Ranges, SZ_compress(r) PROVE CInv'
  <2>1. confparams_cpr \in CprType /\ exe_params \in ExeType
    BY <1>2, <1>6 DEF SZ_compress, TInv
  <2>2. confparams_cpr.bounds \in AnyBounds /\ r \in Nat
    BY <2>1 DEF CprType
  <2>3. /\ Searching' => confparams_cpr.maxRangeRadius # 0
        /\ confparams_cpr.temporal => "ts" \in since'
    BY <1>1, <1>6 DEF SZ_compress, CInv, Searching
  <2> DEFINE call == "SZ_compress"
             timeStep == FALSE
             ex == Repaired(confparams_cpr, exe_params)
  <2>4. ex \in ExeType  BY <2>1, RepairedType
  <2>5. CompressFloat(call, asked.bounds, confparams_cpr, ex,
                      confparams_cpr.bounds, r, timeStep)
    BY <1>6 DEF SZ_compress
  <2>6. /\ timeStep \in BOOLEAN /\ ~timeStep /\ call # "SZ_compress_ts"
        /\ ex.optQuantMode = 0 => ex.intvCapacity # 0
    BY <2>1, RepairedSafe
  <2> HIDE DEF call, timeStep, ex
  <2> QED  BY <1>2, <2>1, <2>2, <2>4, <2>3, <2>5, <2>6, CompressFloatCInv
<1>7. ASSUME NEW b \in Bounds, NEW r \in Ranges, SZ_compress_args(b, r) PROVE CInv'
  <2> DEFINE fresh == confparams_cpr = NULL
             cp == IF fresh THEN ConfigCpr(DefaultConfig) ELSE confparams_cpr
             ex == IF fresh THEN ConfigExe(DefaultConfig) ELSE exe_params
             call == "SZ_compress_args"
             timeStep == FALSE
  <2>1. cp \in CprType /\ ex \in ExeType  BY <1>2, ConfigTypes DEF TInv
  <2>2. Searching' => cp.maxRangeRadius # 0
    <3>1. CASE fresh
      <4>1. DefaultConfig.quantization_intervals = 0  BY DEF DefaultConfig
      <4> QED  BY <3>1, <4>1, <1>4
    <3>2. CASE ~fresh
      BY <1>1, <1>7, <3>2 DEF CInv, Searching, SZ_compress_args
    <3> QED  BY <3>1, <3>2
  <2>3. cp.temporal => "ts" \in since'
    BY <1>1, <1>4, <1>7 DEF CInv, SZ_compress_args
  <2>4. CompressFloat(call, b, cp, Repaired(cp, ex), b, r, timeStep)
    BY <1>7 DEF SZ_compress_args
  <2>5. b \in AnyBounds /\ r \in Nat  BY BoundsType
  <2>6. timeStep \in BOOLEAN /\ ~timeStep /\ call # "SZ_compress_ts"  OBVIOUS
  <2> DEFINE ex2 == Repaired(cp, ex)
  <2> HIDE DEF cp, ex, call, timeStep
  <2>7. ex2 \in ExeType /\ (ex2.optQuantMode = 0 => ex2.intvCapacity # 0)
    BY <2>1, RepairedType, RepairedSafe
  <2> HIDE DEF ex2
  <2>8. CompressFloat(call, b, cp, ex2, b, r, timeStep)  BY <2>4 DEF ex2
  <2> QED  BY <1>2, <2>1, <2>2, <2>3, <2>5, <2>6, <2>7, <2>8, CompressFloatCInv
<1>8. ASSUME NEW b \in Bounds, NEW r \in Ranges, SZ_compress_ts(b, r) PROVE CInv'
  <2> DEFINE cp == [confparams_cpr EXCEPT !.temporal = TRUE]
  <2>1. confparams_cpr \in CprType /\ exe_params \in ExeType
    BY <1>2, <1>8 DEF SZ_compress_ts, TInv
  <2>2. cp \in CprType  BY <2>1 DEF CprType
  <2>3. Searching' => cp.maxRangeRadius # 0
    BY <1>1, <1>8, <2>1 DEF SZ_compress_ts, CInv, CprType, Searching
  <2>4. cp.temporal => "ts" \in since'  BY <1>8 DEF SZ_compress_ts
  <2>5. CompressFloat("SZ_compress_ts", b, cp, exe_params, b, r, TRUE)
    BY <1>8 DEF SZ_compress_ts
  <2>6. b \in AnyBounds /\ r \in Nat  BY BoundsType
  <2>7. "ts" \in since' /\ (Alone' => exe_params.optQuantMode = 1)
    <3>1. exe_params # NULL  BY <1>2, <1>8 DEF SZ_compress_ts, TInv
    <3>2. Alone' => Alone  BY <1>8 DEF SZ_compress_ts, Alone, Searching
    <3>3. "ts" \in since'  BY <1>8 DEF SZ_compress_ts
    <3> QED  BY <1>2, <3>1, <3>2, <3>3 DEF OInv
  <2> DEFINE timeStep == TRUE
             call == "SZ_compress_ts"
  <2>8. CompressFloat(call, b, cp, exe_params, b, r, timeStep)  BY <2>5
  <2>9. timeStep \in BOOLEAN /\ timeStep  OBVIOUS
  <2> HIDE DEF cp, timeStep, call
  <2> QED
    BY <1>2, <2>1, <2>2, <2>3, <2>4, <2>6, <2>7, <2>8, <2>9, CompressFloatCInv
<1>9. ASSUME NEW s \in Streams, SZ_decompress(s) PROVE CInv'
  BY <1>1, <1>2, <1>9
  DEF SZ_decompress, CInv, CrashesOnlyAfterTimeStep, CrashNeedsTimeStep, Searching
<1>10. ASSUME SZ_Finalize PROVE CInv'
  BY <1>1, <1>2, <1>10
  DEF SZ_Finalize, CInv, CrashesOnlyAfterTimeStep, CrashNeedsTimeStep, Searching
<1>11. CASE UNCHANGED vars
  BY <1>1, <1>2, <1>11
  DEF vars, CInv, CrashesOnlyAfterTimeStep, CrashNeedsTimeStep, Searching
<1> QED
  BY <1>1, <1>5, <1>6, <1>7, <1>8, <1>9, <1>10, <1>11 DEF Next

LEMMA CInvariant ==
  ASSUME MaxIntervals >= 2
  PROVE  Spec => []CInv
<1>1. Init => CInv
  BY OInit DEF Init, CInv, CrashesOnlyAfterTimeStep, CrashNeedsTimeStep
<1>2. CInv /\ [Next]_vars => CInv'  BY CInvStep
<1> QED  BY <1>1, <1>2, PTL DEF Spec

\* With the number of intervals left to the search, only two things kill the
\* process: a plain compression after a time step, and a time step after the
\* stream of a compressor that was given its number of intervals.
THEOREM CrashesAfterTimeStep ==
  ASSUME MaxIntervals >= 2
  PROVE  Spec => []CrashesOnlyAfterTimeStep
<1>1. CInv => CrashesOnlyAfterTimeStep  BY DEF CInv
<1> QED  BY <1>1, CInvariant, PTL

\* So a process that compresses no time steps survives any sequence of calls.
THEOREM Survives ==
  ASSUME MaxIntervals >= 2
  PROVE  Spec => [](Searching /\ "ts" \notin since => NeverCrashes)
<1>1. CInv => (Searching /\ "ts" \notin since => NeverCrashes)
  BY DEF CInv, CrashesOnlyAfterTimeStep, CrashNeedsTimeStep, NeverCrashes
<1> QED  BY <1>1, CInvariant, PTL

-----------------------------------------------------------------------------
(* The error bound                                                         *)

\* Bounds b no looser than a: of the same mode, with the same ratio, and an
\* absolute bound that compressions can only have made smaller.
Tighter(b, a) ==
  /\ b.mode = a.mode /\ b.rel = a.rel
  /\ a.mode \in PlainModes
  /\ a.mode # "REL" => b.abs <= a.abs

LEMMA RelativeBound ==
  ASSUME NEW p \in Nat, NEW r \in Nat
  PROVE  100 * ((p * r) \div 100) <= p * r
<1>1. \A x \in Nat : 100 * (x \div 100) <= x  OBVIOUS
<1>2. p * r \in Nat  OBVIOUS
<1> QED  BY <1>1, <1>2

\* The precision of tighter bounds is within the bounds asked for, and as an
\* absolute bound it is tighter still.
LEMMA TighterWithin ==
  ASSUME NEW b \in AnyBounds, NEW a \in AnyBounds, NEW range \in Nat,
         Tighter(b, a)
  PROVE  /\ Within(RealPrecision(b, range), a, range)
         /\ a.mode # "REL" => RealPrecision(b, range) <= a.abs
<1> DEFINE relative == (b.rel * range) \div 100
<1>1. relative \in Nat  BY PercentNat DEF AnyBounds
<1>2. 100 * relative <= a.rel * range
  BY RelativeBound DEF AnyBounds, Tighter
<1>3. a.abs \in Nat /\ b.abs \in Nat /\ a.rel * range \in Nat  BY DEF AnyBounds
<1> HIDE DEF relative
<1>4. CASE a.mode = "ABS"
  <2>1. RealPrecision(b, range) = b.abs /\ b.abs <= a.abs
    BY <1>4 DEF RealPrecision, Tighter
  <2> QED  BY <1>3, <1>4, <2>1 DEF Within
<1>5. CASE a.mode = "REL"
  <2>1. RealPrecision(b, range) = relative
    BY <1>5 DEF RealPrecision, Tighter, relative
  <2> QED  BY <1>2, <1>5, <2>1 DEF Within
<1>6. CASE a.mode = "ABS_AND_REL"
  <2>1. RealPrecision(b, range) = Least(b.abs, relative) /\ b.abs <= a.abs
    BY <1>6 DEF RealPrecision, Tighter, relative
  <2>2. Least(b.abs, relative) <= a.abs /\ 100 * Least(b.abs, relative) <= a.rel * range
    BY <1>1, <1>2, <1>3, <2>1 DEF Least
  <2> QED  BY <1>6, <2>1, <2>2 DEF Within
<1> QED  BY <1>4, <1>5, <1>6 DEF Tighter, PlainModes

BInv ==
  /\ TInv
  /\ confparams_cpr # NULL /\ OwnBounds /\ asked.bounds.mode \in PlainModes =>
       asked.bounds \in AnyBounds /\ Tighter(confparams_cpr.bounds, asked.bounds)
  /\ BoundNotLooser

LEMMA BInvStep == BInv /\ [Next]_vars => BInv'
<1> USE SessionAssumption
<1>1. SUFFICES ASSUME BInv, [Next]_vars PROVE BInv'  OBVIOUS
<1>2. TInv /\ TInv'  BY <1>1, TInvStep DEF BInv
<1>3. ASSUME NEW c \in Config, SZ_Init(c) \/ SZ_Init_Params(c) PROVE BInv'
  <2>1. c.bounds \in AnyBounds  BY ConfigTypes
  <2>2. confparams_cpr'.bounds = c.bounds
    BY <1>3 DEF SZ_Init, SZ_Init_Params, ConfigCpr, ParamsCpr
  <2>3. asked'.bounds = c.bounds /\ last' = NoCall
    BY <1>3 DEF SZ_Init, SZ_Init_Params
  <2>4. c.bounds.mode \in PlainModes => Tighter(c.bounds, c.bounds)
    BY <2>1 DEF Tighter, AnyBounds
  <2> QED
    BY <1>2, <2>1, <2>2, <2>3, <2>4 DEF BInv, BoundNotLooser, BoundNeverLooser
<1>4. ASSUME NEW r \in Ranges, SZ_compress(r) PROVE BInv'
  <2> SUFFICES ASSUME OwnBounds', (asked.bounds.mode \in PlainModes)' PROVE BInv'
    BY <1>2 DEF BInv, BoundNotLooser
  <2> DEFINE b == confparams_cpr.bounds
             a == asked.bounds
  <2>10. asked' = asked /\ OwnBounds  BY <1>4 DEF SZ_compress, OwnBounds
  <2>1. /\ confparams_cpr \in CprType /\ exe_params \in ExeType
        /\ a \in AnyBounds /\ Tighter(b, a)
    BY <1>1, <1>2, <1>4, <2>10 DEF SZ_compress, TInv, BInv
  <2>2. b \in AnyBounds /\ r \in Nat  BY <2>1 DEF CprType
  <2>3. Repaired(confparams_cpr, exe_params) \in ExeType  BY <2>1, RepairedType
  <2>4. CompressFloat("SZ_compress", a, confparams_cpr,
                      Repaired(confparams_cpr, exe_params), b, r, FALSE)
    BY <1>4 DEF SZ_compress
  <2>5. last'.given = a /\ last'.range = r /\ last'.bound = RealPrecision(b, r)
    BY <2>4 DEF CompressFloat
  <2>6. /\ Within(RealPrecision(b, r), a, r)
        /\ a.mode # "REL" => RealPrecision(b, r) <= a.abs
    BY <2>1, <2>2, TighterWithin
  <2>7. confparams_cpr' = AfterCompression(confparams_cpr, b, r)
    BY <2>4 DEF CompressFloat
  <2>8. confparams_cpr'.bounds =
          [mode |-> IF b.mode = "PSNR" THEN "ABS" ELSE b.mode,
           abs |-> RealPrecision(b, r), rel |-> b.rel]
    BY <2>1, <2>2, <2>7, AfterType
  <2>9. b.mode = a.mode /\ b.mode # "PSNR" /\ b.rel = a.rel /\ a.mode \in PlainModes
    BY <2>1 DEF Tighter, PlainModes
  <2>11. Tighter(confparams_cpr'.bounds, asked'.bounds)
    BY <2>6, <2>8, <2>9, <2>10 DEF Tighter
  <2>12. BoundNotLooser'  BY <2>5, <2>6 DEF BoundNotLooser, BoundNeverLooser
  <2> QED  BY <1>2, <2>1, <2>10, <2>11, <2>12 DEF BInv
<1>5. ASSUME NEW b \in Bounds, NEW r \in Ranges,
             SZ_compress_args(b, r) \/ SZ_compress_ts(b, r)
      PROVE  BInv'
  <2>1. ~OwnBounds'  BY <1>5 DEF SZ_compress_args, SZ_compress_ts, OwnBounds
  <2> QED  BY <1>2, <2>1 DEF BInv, BoundNotLooser
<1>6. ASSUME NEW s \in Streams, SZ_decompress(s) PROVE BInv'
  <2>1. OwnBounds' => OwnBounds  BY <1>6 DEF SZ_decompress, OwnBounds
  <2> QED
    BY <1>1, <1>2, <1>6, <2>1
    DEF SZ_decompress, BInv, BoundNotLooser, BoundNeverLooser
<1>7. ASSUME SZ_Finalize PROVE BInv'
  BY <1>1, <1>2, <1>7 DEF SZ_Finalize, BInv, BoundNotLooser, BoundNeverLooser
<1>8. CASE UNCHANGED vars
  BY <1>1, <1>2, <1>8
  DEF vars, BInv, BoundNotLooser, BoundNeverLooser, OwnBounds
<1> QED
  BY <1>1, <1>3, <1>4, <1>5, <1>6, <1>7, <1>8 DEF Next

\* In the modes ABS, REL and ABS_AND_REL, set by the initialisation, no data
\* set is ever compressed with a looser bound than that asks for, however many
\* went before and whatever was decompressed in between.
THEOREM BoundHolds == Spec => []BoundNotLooser
<1>1. Init => BInv
  <2>1. Init => TInv  BY DEF Init, TInv
  <2> QED  BY <2>1 DEF Init, BInv, BoundNotLooser, BoundNeverLooser
<1>2. BInv /\ [Next]_vars => BInv'  BY BInvStep
<1>3. BInv => BoundNotLooser  BY DEF BInv
<1> QED  BY <1>1, <1>2, <1>3, PTL DEF Spec
=============================================================================
