----------------------------- MODULE TimeSeries -----------------------------
(***************************************************************************)
(* Compression of a time series: SZ_compress_ts writes one frame per step  *)
(* and, somewhere else, SZ_decompress_ts reads frames back.                *)
(*                                                                         *)
(* In a snapshot frame a variable is predicted from itself, in a temporal  *)
(* frame from hist_data, what the previous step was rebuilt as.  Encoder   *)
(* and decoder each keep a hist_data and nothing in a frame says which one *)
(* it was made from, so the two must move in step, over frames that are    *)
(* constant, frames whose codes were dropped for the raw numbers, frames   *)
(* with some of the variables only, and frames the reader never decodes.   *)
(*                                                                         *)
(* An array is represented by the number of the frame it was given to the  *)
(* encoder for: hist_data is k after frame k, 0 when still all zero.       *)
(***************************************************************************)
EXTENDS Integers, Sequences

CONSTANTS
  Vars,             \* variables registered with the encoder
  DecoderVars,      \* variables registered with the decoder
  CmprTypes,        \* cmprType arguments: "SNAPSHOT", "TEMPORAL", "PERIO"
  snapshotCmprStep, \* the period of "PERIO"
  EntropyType,      \* entropy_type of the encoder: "huffman", "zstd", "adt-fse"
  MaxFrames,        \* bound: frames written
  MaxDecoded,       \* bound: frames read by one decoder process
  MaxBreaks         \* bound: restarts, new registrations and readings at the encoder

ASSUME TimeSeriesAssumption ==
  /\ DecoderVars \subseteq Vars
  /\ CmprTypes \subseteq {"SNAPSHOT", "TEMPORAL", "PERIO"}
  /\ snapshotCmprStep \in Nat \ {0}
  /\ EntropyType \in {"huffman", "zstd", "adt-fse"}
  /\ MaxFrames \in Nat /\ MaxDecoded \in Nat /\ MaxBreaks \in Nat

VARIABLES
  currentStep, \* sz_tsc->currentStep of the encoder
  encHist,     \* multisteps->hist_data of the encoder
  encType,     \* multisteps->compressionType of the encoder
  breaks,      \* restarts, new registrations and readings at the encoder so
               \* far; the next three are history, numbers of breaks
  started,     \* the break that started the encoder's process
  born,        \* the break that registered a variable
  readAt,      \* the break at which this process last read a frame itself
  frames,      \* the frames written: the step, and the entries, with the
               \* cmprType asked for, the base, the history the entry was
               \* made from, born, started and readAt as history
  decHist,     \* multisteps->hist_data of the decoder
  data,        \* v->data of the decoder
  log,         \* for each variable, the frames this decoder rebuilt it from
  crashed      \* the decoder followed a NULL pointer

encoder == <<currentStep, encHist, encType, breaks, started, born, readAt, frames>>
decoder == <<decHist, data, log, crashed>>
vars == <<encoder, decoder>>

\* What a decoder rebuilds from the wrong history or with the wrong decoder.
Garbage == -1

\* A frame holds a variable as the constant it is, as codes, or as the raw
\* numbers when the codes would be longer (StoreOriData).
Forms == {"constant", "coded", "stored"}

-----------------------------------------------------------------------------
Init ==
  /\ currentStep = 0 /\ frames = << >> /\ breaks = 0
  /\ started = 0 /\ born = [v \in Vars |-> 0] /\ readAt = 0
  /\ encHist = [v \in Vars |-> 0] /\ encType = [v \in Vars |-> 0]
  /\ decHist = [v \in DecoderVars |-> 0] /\ data = [v \in DecoderVars |-> 0]
  /\ log = [v \in DecoderVars |-> << >>]
  /\ crashed = FALSE

\* Mutant of CodedAs: the argument itself, of which PERIO is number 2.
CodedAsGiven(cmprType) ==
  CASE cmprType = "SNAPSHOT" -> 0 [] cmprType = "TEMPORAL" -> 1 [] cmprType = "PERIO" -> 2

\* Mutant of CodedAs: a snapshot at the step of that number only.
CodedAsOnce(cmprType) ==
  IF \/ cmprType = "TEMPORAL"
     \/ cmprType = "PERIO" /\ currentStep # snapshotCmprStep
  THEN 1 ELSE 0

\* compressionType of what is coded at this step: 1 temporal, 0 snapshot.
CodedAs(cmprType) ==
  IF \/ cmprType = "TEMPORAL"
     \/ cmprType = "PERIO" /\ currentStep % snapshotCmprStep # 0
  THEN 1 ELSE 0

\* Coding overwrites hist_data value by value, before it is known whether the
\* raw numbers will be stored instead; the constant path does not touch it.
HistAfter(v, form) == IF form = "constant" THEN encHist[v] ELSE Len(frames) + 1

\* SZ_compress_ts, or SZ_compress_ts_select_var with a part of the variables.
Compress(S, cmprType, form) ==
  /\ Len(frames) < MaxFrames
  /\ encHist' = [v \in Vars |-> IF v \in S THEN HistAfter(v, form[v]) ELSE encHist[v]]
  /\ encType' = [v \in Vars |-> IF v \in S /\ form[v] # "constant"
                                THEN CodedAs(cmprType) ELSE encType[v]]
  /\ frames' = Append(frames,
       [step |-> currentStep,
        entries |-> [v \in S |-> [form |-> form[v], type |-> encType'[v],
                                 asked |-> cmprType, base |-> encHist[v],
                                 started |-> started, born |-> born[v],
                                 readAt |-> readAt]]])
  /\ currentStep' = currentStep + 1
  /\ UNCHANGED <<breaks, started, born, readAt, decoder>>

Break == breaks < MaxBreaks /\ breaks' = breaks + 1

\* The writer's process ends and another one goes on with the series.
RestartEncoder ==
  /\ Break
  /\ currentStep' = 0
  /\ encHist' = [v \in Vars |-> 0] /\ encType' = [v \in Vars |-> 0]
  /\ started' = breaks' /\ born' = [v \in Vars |-> breaks'] /\ readAt' = breaks'
  /\ UNCHANGED <<frames, decoder>>

\* SZ_deregisterVar and SZ_registerVar: the variable gets a new, zero
\* history, in the middle of the series.
RegisterAnew(v) ==
  /\ Break
  /\ encHist' = [encHist EXCEPT ![v] = 0] /\ encType' = [encType EXCEPT ![v] = 0]
  /\ born' = [born EXCEPT ![v] = breaks']
  /\ UNCHANGED <<currentStep, started, readAt, frames, decoder>>

\* SZ_decompress_args_float of the entry for v in frame k with the history
\* hist.  A temporal entry is always decoded as Huffman codes.
Rebuild(v, k, hist) ==
  LET entry == frames[k].entries[v]
  IN IF /\ entry.form = "coded" /\ entry.type = 1
        /\ hist[v] # entry.base \/ EntropyType # "huffman"
     THEN Garbage
     ELSE k

\* Mutant of DecHistAfter: whatever was rebuilt is remembered.
DecHistAfterAny(v, k, hist) == Rebuild(v, k, hist)

\* A reader's hist_data is written where codes are decoded, only there.
DecHistAfter(v, k, hist) ==
  IF frames[k].entries[v].form = "coded" THEN Rebuild(v, k, hist) ELSE hist[v]

\* SZ_decompress_ts, or SZ_decompress_ts_select_var with a selection, of frame
\* k.  Every entry's variable is looked up and its multisteps written, the
\* ones not selected too, before the lookup's result is tested.
Decompress(k, selected) ==
  LET S == DOMAIN frames[k].entries \cap selected IN
  /\ ~crashed
  /\ \A v \in S \cap DecoderVars : Len(log[v]) < MaxDecoded
  /\ IF DOMAIN frames[k].entries \subseteq DecoderVars
     THEN /\ data' = [v \in DecoderVars |->
                        IF v \in S THEN Rebuild(v, k, decHist) ELSE data[v]]
          /\ decHist' = [v \in DecoderVars |->
                           IF v \in S THEN DecHistAfter(v, k, decHist) ELSE decHist[v]]
          /\ log' = [v \in DecoderVars |->
                       IF v \in S THEN Append(log[v], k) ELSE log[v]]
          /\ UNCHANGED crashed
     ELSE /\ crashed' = TRUE
          /\ UNCHANGED <<data, decHist, log>>
  /\ UNCHANGED encoder

\* The same calls made by the writer's process, where hist_data, the kind of
\* the last frame and currentStep are those that compression goes on with.
DecompressHere(k, selected) ==
  LET read == DOMAIN frames[k].entries
      S == read \cap selected
  IN /\ Break
     /\ encHist' = [v \in Vars |->
                      IF v \in S THEN DecHistAfter(v, k, encHist) ELSE encHist[v]]
     /\ encType' = [v \in Vars |->
                      IF v \in read THEN frames[k].entries[v].type ELSE encType[v]]
     /\ currentStep' = frames[k].step
     /\ readAt' = breaks'
     /\ UNCHANGED <<started, born, frames, decoder>>

\* The reader's process ends and another one registers the variables anew.
RestartDecoder ==
  /\ decHist' = [v \in DecoderVars |-> 0] /\ data' = [v \in DecoderVars |-> 0]
  /\ log' = [v \in DecoderVars |-> << >>]
  /\ crashed' = FALSE
  /\ UNCHANGED encoder

Next ==
  \/ \E S \in SUBSET Vars, cmprType \in CmprTypes :
       \E form \in [S -> Forms] : Compress(S, cmprType, form)
  \/ \E k \in DOMAIN frames, selected \in SUBSET Vars :
       Decompress(k, selected) \/ DecompressHere(k, selected)
  \/ RestartEncoder
  \/ \E v \in Vars : RegisterAnew(v)
  \/ RestartDecoder

Spec == Init /\ [][Next]_vars

-----------------------------------------------------------------------------
(* Properties                                                              *)

\* Histories name frames, and an entry is a snapshot or temporal.
TypeOK ==
  /\ currentStep \in 0 .. MaxFrames
  /\ encHist \in [Vars -> -1 .. MaxFrames] /\ encType \in [Vars -> {0, 1}]
  /\ breaks \in 0 .. MaxBreaks /\ started \in 0 .. breaks
  /\ born \in [Vars -> started .. breaks] /\ readAt \in started .. breaks
  /\ \A k \in DOMAIN frames : \A v \in DOMAIN frames[k].entries :
       frames[k].entries[v] \in
         [form : Forms, type : {0, 1}, asked : CmprTypes, base : -1 .. MaxFrames,
          started : 0 .. breaks, born : 0 .. breaks, readAt : 0 .. breaks]
  /\ decHist \in [DecoderVars -> -1 .. MaxFrames]
  /\ data \in [DecoderVars -> -1 .. MaxFrames]
  /\ log \in [DecoderVars -> Seq(1 .. MaxFrames)]
  /\ crashed \in BOOLEAN

\* The frames up to k whose coding of v moved the encoder's history since it
\* was last all zero, from the last snapshot on: what frame k depends on.
Entry(v, j) == frames[j].entries[v]
Carries(v, j) == v \in DOMAIN frames[j].entries /\ Entry(v, j).form # "constant"
Carriers(v, k) == {j \in 1 .. k : Carries(v, j) /\ Entry(v, j).born = Entry(v, k).born}
Snapshots(v, k) == {j \in Carriers(v, k) : Entry(v, j).type = 0}
Needed(v, k) ==
  {j \in Carriers(v, k) : \A s \in Snapshots(v, k) : s <= j}

\* From some point on, up to its n-th reading, the reader rebuilt v from exactly
\* the frames that the last one depends on, in their order; before that it may
\* have read anything, or nothing that counts if there is no snapshot.
HasChain(v, n) ==
  LET k == log[v][n]
  IN \E from \in 1 .. n + 1 :
       LET read == {i \in from .. n : Carries(v, log[v][i])}
       IN /\ {log[v][i] : i \in read} = Needed(v, k)
          /\ \A i, j \in read : i < j => log[v][i] < log[v][j]
          /\ Snapshots(v, k) = {} => \A i \in 1 .. from - 1 : ~Carries(v, log[v][i])

\* A reader that decodes a snapshot and the frames after it gets the data of
\* each step back (szd_float.c:65: hist_data is "the data in previous time
\* step"), wherever it started and whatever it decoded before.
ChainSuffices ==
  \A v \in DecoderVars :
    LET n == Len(log[v]) IN n > 0 /\ HasChain(v, n) => data[v] = log[v][n]

\* The same, unless a frame before the last one was stored raw, or the writer
\* read frames in its own process while it wrote them.
StoredBefore(v, k) == \E j \in Needed(v, k) \ {k} : Entry(v, j).form = "stored"
ReadBetween(v, k) ==
  \/ \E j \in Needed(v, k) : Entry(v, j).readAt # Entry(v, k).readAt
  \/ Snapshots(v, k) = {} /\ Entry(v, k).readAt > Entry(v, k).born
ChainSufficesUnlessStored ==
  \A v \in DecoderVars :
    LET n == Len(log[v])
    IN /\ n > 0 /\ HasChain(v, n)
       /\ ~StoredBefore(v, log[v][n]) /\ ~ReadBetween(v, log[v][n])
       => data[v] = log[v][n]

\* Among periodic frames, a reader that starts anywhere is right again at the
\* latest after snapshotCmprStep consecutive coded ones (sz.config:24, "the
\* period of spatial-compression during the time-based compression"), whether
\* or not the writer was restarted meanwhile.
Consecutive(s) == \A i \in DOMAIN s : s[i] = s[1] + (i - 1)
PeriodRead(v, n) ==
  LET recent == SubSeq(log[v], n - snapshotCmprStep + 1, n)
  IN /\ n >= snapshotCmprStep
     /\ Consecutive(recent)
     /\ \A i \in DOMAIN recent : /\ Entry(v, recent[i]).form = "coded"
                                /\ Entry(v, recent[i]).asked = "PERIO"
RightWithinPeriodAlways ==
  \A v \in DecoderVars :
    LET n == Len(log[v]) IN PeriodRead(v, n) => data[v] = log[v][n]

\* The same, unless among these frames the writer registered v anew, where
\* currentStep goes on and the history starts from zero at any point of the
\* period, or read frames, where currentStep goes back.
Unbroken(v, n) ==
  \A i \in n - snapshotCmprStep + 1 .. n : \A j \in i .. n :
    LET a == Entry(v, log[v][i])
        b == Entry(v, log[v][j])
    IN IF a.started = b.started THEN a.born = b.born /\ a.readAt = b.readAt
                                ELSE b.born = b.started /\ b.readAt = b.started
RightWithinPeriod ==
  \A v \in DecoderVars :
    LET n == Len(log[v])
    IN PeriodRead(v, n) /\ Unbroken(v, n) => data[v] = log[v][n]

\* "p==NULL means the variable was not registered during compression"
\* (sz.c:1250) is a case the decoder is meant to survive.
SurvivesUnknownVariable == ~crashed
=============================================================================
