------------------------------- MODULE Session -------------------------------
(***************************************************************************)
(* The two global records every call of the library works on:              *)
(* confparams_cpr, the settings of the compressor, and exe_params, the     *)
(* quantization state, which compression and decompression share.  One     *)
(* action per call of the interface, in any order a caller may choose.     *)
(*                                                                         *)
(* The data are one-dimensional floats, more than twenty of them, known by *)
(* the size of their value range.  Relative bounds are in percent of it.   *)
(***************************************************************************)
EXTENDS Integers

CONSTANTS
  Modes,         \* error-bounding modes callers choose from
  AbsBounds,     \* values of absErrBound
  Percents,      \* values of relBoundRatio
  PsnrPercent,   \* the bound the default PSNR amounts to
  Intervals,     \* values of quantization_intervals; 0: search for them
  MaxIntervals,  \* max_quant_intervals
  Ranges,        \* value ranges of the data sets
  Streams        \* streams to decompress, see StreamRecord

StreamRecord ==
  [optQuantMode : 0 .. 1, intervals : Nat, codec : {"snapshot", "integer"}]

ASSUME SessionAssumption ==
  /\ Modes \subseteq {"ABS", "REL", "ABS_AND_REL", "ABS_OR_REL", "PSNR"}
  /\ AbsBounds \subseteq Nat /\ Percents \subseteq Nat /\ PsnrPercent \in Nat
  /\ Intervals \subseteq Nat /\ MaxIntervals \in Nat /\ Ranges \subseteq Nat
  /\ Streams \subseteq StreamRecord

VARIABLES
  confparams_cpr,  \* settings of the compressor, or NULL
  exe_params,      \* quantization state, or NULL
  asked,           \* history: the settings the last initialisation asked for
  since,           \* history: what has come after that initialisation, of
                   \* "args", "ts" (compressions with bounds of their own) and
                   \* "foreign" (decompressions of streams of other settings)
  last,            \* history: what the last compression did, or NoCall
  crashed          \* history: the process was killed

vars == <<confparams_cpr, exe_params, asked, since, last, crashed>>

NULL == [null |-> TRUE]
NoCall == [call |-> "none"]
Bounds == [mode : Modes, abs : AbsBounds, rel : Percents]
Config == [bounds : Bounds, quantization_intervals : Intervals]

-----------------------------------------------------------------------------
Least(a, b) == IF a <= b THEN a ELSE b
Greatest(a, b) == IF a <= b THEN b ELSE a

\* Mutant of RealPrecision: the larger bound for both combined modes.
RealPrecisionLoose(b, range) ==
  LET relative == (b.rel * range) \div 100
  IN CASE b.mode = "ABS" -> b.abs
       [] b.mode = "REL" -> relative
       [] b.mode = "PSNR" -> (PsnrPercent * range) \div 100
       [] OTHER -> Greatest(b.abs, relative)

\* getRealPrecision_float, and computeABSErrBoundFromPSNR, which is linear in
\* the range.
RealPrecision(b, range) ==
  LET relative == (b.rel * range) \div 100
  IN CASE b.mode = "ABS" -> b.abs
       [] b.mode = "REL" -> relative
       [] b.mode = "ABS_AND_REL" -> Least(b.abs, relative)
       [] b.mode = "ABS_OR_REL" -> Greatest(b.abs, relative)
       [] b.mode = "PSNR" -> (PsnrPercent * range) \div 100

\* SZ_ReadConf: with a number of intervals given, maxRangeRadius stays zero.
ConfigCpr(c) ==
  [bounds |-> c.bounds, temporal |-> FALSE,
   maxRangeRadius |-> IF c.quantization_intervals > 0 THEN 0 ELSE MaxIntervals \div 2]
ConfigExe(c) ==
  IF c.quantization_intervals > 0
  THEN [intvCapacity |-> c.quantization_intervals, optQuantMode |-> 0]
  ELSE [intvCapacity |-> MaxIntervals, optQuantMode |-> 1]

\* SZ_ReadConf(NULL)
DefaultConfig ==
  [bounds |-> [mode |-> "PSNR", abs |-> 0, rel |-> 0], quantization_intervals |-> 0]

Init ==
  /\ confparams_cpr = NULL
  /\ exe_params = NULL
  /\ asked = DefaultConfig
  /\ since = {}
  /\ last = NoCall
  /\ crashed = FALSE

SZ_Init(c) ==
  /\ ~crashed
  /\ confparams_cpr' = ConfigCpr(c)
  /\ exe_params' = ConfigExe(c)
  /\ asked' = c
  /\ since' = {}
  /\ last' = NoCall
  /\ UNCHANGED crashed

\* Mutant of ParamsCpr: the radius is left as the caller's structure has it.
ParamsCprNoRadius(c) ==
  [bounds |-> c.bounds, temporal |-> FALSE, maxRangeRadius |-> 0]

\* The parameters of SZ_Init_Params over the defaults of SZ_Init(NULL).
ParamsCpr(c) ==
  [bounds |-> c.bounds, temporal |-> FALSE, maxRangeRadius |-> MaxIntervals \div 2]

SZ_Init_Params(c) ==
  /\ ~crashed
  /\ confparams_cpr' = ParamsCpr(c)
  /\ exe_params' = ConfigExe(DefaultConfig)
  /\ asked' = c
  /\ since' = {}
  /\ last' = NoCall
  /\ UNCHANGED crashed

-----------------------------------------------------------------------------
(* Compression                                                             *)

\* What a compression of data of this range does to the settings cp: the
\* bound it worked with is the absErrBound of the next one.
AfterCompression(cp, b, range) ==
  [cp EXCEPT !.bounds = [mode |-> IF b.mode = "PSNR" THEN "ABS" ELSE b.mode,
                         abs |-> RealPrecision(b, range),
                         rel |-> cp.bounds.rel]]

\* SZ_compress_args_float down to the 1D coders.  Without a kind of time step
\* (cmprType -1) the temporal mode makes no stream and the null pointer is
\* used.  A search over an empty table, or a Huffman tree of no states, writes
\* outside what was allocated: the process goes on or is killed.  A time step
\* is predicted from the one before, and sets the capacity it found, or is a
\* snapshot and leaves exe_params alone.  b is what the code works with, given
\* what the caller means.
CompressFloat(call, given, cp, ex, b, range, timeStep) ==
  LET real == RealPrecision(b, range)
      constant == range <= real
      noStream == cp.temporal /\ ~timeStep
      outside == \/ ex.optQuantMode = 1 /\ cp.maxRangeRadius = 0
                 \/ ex.optQuantMode = 0 /\ ex.intvCapacity = 0
  IN /\ confparams_cpr' = AfterCompression(cp, b, range)
     /\ exe_params' \in IF timeStep /\ ~constant /\ ex.optQuantMode = 1
                        THEN {ex, [ex EXCEPT !.intvCapacity = MaxIntervals]}
                        ELSE {ex}
     /\ last' = [call |-> call, given |-> given, range |-> range, bound |-> real,
                 constant |-> constant, searched |-> ex.optQuantMode = 1,
                 intervals |-> ex.intvCapacity]
     /\ crashed' \in CASE constant -> {FALSE}
                       [] ~constant /\ noStream -> {TRUE}
                       [] ~constant /\ ~noStream /\ outside -> BOOLEAN
                       [] OTHER -> {FALSE}

\* SZ_compress_args, and only it: a capacity of zero, which a decompression
\* left, is replaced.
Repaired(cp, ex) ==
  IF ex.intvCapacity = 0
  THEN [intvCapacity |-> cp.maxRangeRadius * 2, optQuantMode |-> 1] ELSE ex

SZ_compress(range) ==
  /\ ~crashed
  /\ confparams_cpr # NULL
  /\ CompressFloat("SZ_compress", asked.bounds, confparams_cpr,
                   Repaired(confparams_cpr, exe_params), confparams_cpr.bounds,
                   range, FALSE)
  /\ UNCHANGED <<asked, since>>

SZ_compress_args(b, range) ==
  LET fresh == confparams_cpr = NULL
      cp == IF fresh THEN ConfigCpr(DefaultConfig) ELSE confparams_cpr
      ex == IF fresh THEN ConfigExe(DefaultConfig) ELSE exe_params
  IN /\ ~crashed
     /\ CompressFloat("SZ_compress_args", b, cp, Repaired(cp, ex), b, range, FALSE)
     /\ asked' = IF fresh THEN DefaultConfig ELSE asked
     /\ since' = (IF fresh THEN {} ELSE since) \cup {"args"}

\* SZ_compress_ts of a variable registered with bounds b.
SZ_compress_ts(b, range) ==
  /\ ~crashed
  /\ confparams_cpr # NULL
  /\ CompressFloat("SZ_compress_ts", b, [confparams_cpr EXCEPT !.temporal = TRUE],
                   exe_params, b, range, TRUE)
  /\ since' = since \cup {"ts"}
  /\ UNCHANGED asked

-----------------------------------------------------------------------------
\* The compressor of the stream did not search for its intervals.
Foreign(s) == s.optQuantMode = 0

\* Mutant of SZ_decompress: the mode is not taken back from the stream.
SZ_decompressUnread(s) ==
  /\ ~crashed
  /\ exe_params' = [intvCapacity |-> IF s.codec = "integer" THEN s.intervals ELSE 0,
                    optQuantMode |-> 0]
  /\ since' = IF Foreign(s) THEN since \cup {"foreign"} ELSE since
  /\ UNCHANGED <<confparams_cpr, asked, last, crashed>>

\* exe_params is cleared; the parameter block of the stream sets the mode, and
\* the coders of integers and of time steps the capacity.
SZ_decompress(s) ==
  /\ ~crashed
  /\ exe_params' = [intvCapacity |-> IF s.codec = "integer" THEN s.intervals ELSE 0,
                    optQuantMode |-> s.optQuantMode]
  /\ since' = IF Foreign(s) THEN since \cup {"foreign"} ELSE since
  /\ UNCHANGED <<confparams_cpr, asked, last, crashed>>

\* Mutant of SZ_Finalize: the settings are kept.
SZ_FinalizePartly ==
  /\ ~crashed
  /\ exe_params' = NULL
  /\ last' = NoCall
  /\ UNCHANGED <<confparams_cpr, asked, since, crashed>>

SZ_Finalize ==
  /\ ~crashed
  /\ confparams_cpr' = NULL
  /\ exe_params' = NULL
  /\ last' = NoCall
  /\ UNCHANGED <<asked, since, crashed>>

Next ==
  \/ \E c \in Config : SZ_Init(c) \/ SZ_Init_Params(c)
  \/ \E r \in Ranges : \/ SZ_compress(r)
                       \/ \E b \in Bounds : SZ_compress_args(b, r) \/ SZ_compress_ts(b, r)
  \/ \E s \in Streams : SZ_decompress(s)
  \/ SZ_Finalize

Spec == Init /\ [][Next]_vars

-----------------------------------------------------------------------------
(* Properties                                                              *)

\* Settings exist only together with a quantization state.
TypeOK ==
  /\ confparams_cpr # NULL =>
       /\ exe_params # NULL
       /\ confparams_cpr.bounds.abs \in Nat
       /\ confparams_cpr.bounds.mode \in Modes \cup {"ABS", "PSNR"}
       /\ confparams_cpr.maxRangeRadius \in Nat
  /\ exe_params # NULL => /\ exe_params.intvCapacity \in Nat
                          /\ exe_params.optQuantMode \in 0 .. 1
  /\ since \subseteq {"args", "ts", "foreign"}
  /\ crashed \in BOOLEAN

\* A bound within what the mode asks for on data of this range.
Within(bound, b, range) ==
  LET absMet == bound <= b.abs
      relMet == 100 * bound <= b.rel * range
  IN CASE b.mode = "ABS" -> absMet
       [] b.mode = "REL" -> relMet
       [] b.mode = "ABS_AND_REL" -> absMet /\ relMet
       [] b.mode = "ABS_OR_REL" -> absMet \/ relMet
       [] b.mode = "PSNR" -> 100 * bound <= PsnrPercent * range

\* No compression works with a looser bound than its caller asked for on this
\* data, by the initialisation or by the call, however many data sets were
\* compressed before (README.md:96-105, sz.c:436-441, sz_float.c:3545-3598).
BoundNeverLooser == last # NoCall => Within(last.bound, last.given, last.range)

\* The same as long as every compression since the initialisation took its
\* bounds from there, in any mode.
OwnBounds == since \cap {"args", "ts"} = {}
BoundNotLooserAnyMode == OwnBounds => BoundNeverLooser

\* The same in the modes where a bound written back can only be tighter.
PlainModes == {"ABS", "REL", "ABS_AND_REL"}
BoundNotLooser ==
  OwnBounds /\ asked.bounds.mode \in PlainModes => BoundNeverLooser

\* The quantization intervals are searched for, or the number asked for is
\* used, as the settings of the compressor say, whatever was decompressed in
\* between (sz.c:38, 304-309, 486-494).
OwnIntervalsAlways ==
  last # NoCall /\ ~last.constant =>
    /\ last.searched <=> asked.quantization_intervals = 0
    /\ ~last.searched => last.intervals = asked.quantization_intervals

\* The same as long as the compressors of all streams decompressed since the
\* initialisation searched for theirs.
OwnIntervalsAlone == "foreign" \notin since => OwnIntervalsAlways

\* The same with the search asked for.
Searching == asked.quantization_intervals = 0
OwnIntervals == Searching => OwnIntervalsAlone

\* No sequence of calls brings the process down (sz.c:290: NULL if any errors).
NeverCrashes == ~crashed

\* It takes a time step to do so: a plain compression after one finds no kind
\* of time step to make (sz_float.c:716-741), and a time step after the stream
\* of a compressor with a number of intervals of its own finds none of its own
\* (sz_float_ts.c:79-84; only sz.c:304-309 puts them back).
CrashNeedsTimeStep ==
  crashed => /\ "ts" \in since
             /\ last.call = "SZ_compress_ts" => "foreign" \in since

\* The same with the number of intervals left to the search.
CrashesOnlyAfterTimeStep == Searching => CrashNeedsTimeStep
=============================================================================
