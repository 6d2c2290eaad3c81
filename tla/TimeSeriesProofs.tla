-------------------------- MODULE TimeSeriesProofs --------------------------
(***************************************************************************)
(* What a reader can count on, whatever the period, wherever it starts and *)
(* with restarts of the writer: periodic frames are right again after one  *)
(* period, and a whole chain of frames is right from its snapshot on.      *)
(*                                                                         *)
(* Writer says what the entries of a variable tell about each other and    *)
(* about the encoder's present state: steps are counted without a gap      *)
(* within a process and from zero in a new one, and an entry's base is the *)
(* entry before it.  Reader says that from a snapshot on the reader has    *)
(* kept up.  The first theorem then finds a snapshot in every period.      *)
(*                                                                         *)
(* For chains with gaps, Sourced says which frame an entry's base is, and  *)
(* Kept what the reader's history is after each chain that ends so far.    *)
(***************************************************************************)
EXTENDS TimeSeries, SequenceTheorems, WellFoundedInduction, TLAPS

EntrySet ==
  [form : Forms, type : {0, 1}, asked : CmprTypes, base : -1 .. MaxFrames,
   started : Nat, born : Nat, readAt : Nat]
Frame == [step : Nat, entries : UNION {[S -> EntrySet] : S \in SUBSET Vars}]
Has(v, k) == k \in DOMAIN frames /\ v \in DOMAIN frames[k].entries

-----------------------------------------------------------------------------
(* The inductive invariant                                                 *)

Shape ==
  /\ frames \in Seq(Frame) /\ Len(frames) <= MaxFrames
  /\ currentStep \in 0 .. Len(frames)
  /\ \A k \in DOMAIN frames : frames[k].step < k
  /\ encHist \in [Vars -> -1 .. MaxFrames] /\ encType \in [Vars -> {0, 1}]
  /\ breaks \in 0 .. MaxBreaks /\ started \in 0 .. breaks
  /\ born \in [Vars -> started .. breaks] /\ readAt \in started .. breaks
  /\ \A k \in DOMAIN frames : \A v \in DOMAIN frames[k].entries :
       /\ Entry(v, k).started \in 0 .. breaks
       /\ Entry(v, k).born \in 0 .. breaks /\ Entry(v, k).readAt \in 0 .. breaks

ReaderShape ==
  /\ decHist \in [DecoderVars -> -1 .. MaxFrames]
  /\ data \in [DecoderVars -> -1 .. MaxFrames]
  /\ log \in [DecoderVars -> Seq(1 .. MaxFrames)]
  /\ crashed \in BOOLEAN
  /\ \A v \in DecoderVars : \A i \in DOMAIN log[v] : Has(v, log[v][i])

\* Within a process that does not read, steps count frames.
Counted ==
  /\ \A j, k \in DOMAIN frames : \A v \in Vars :
       /\ j < k /\ Has(v, j) /\ Has(v, k)
       /\ Entry(v, j).started = Entry(v, k).started
       /\ Entry(v, j).readAt = Entry(v, k).readAt
       => frames[k].step - frames[j].step = k - j
  /\ \A j \in DOMAIN frames : \A v \in Vars :
       /\ Has(v, j)
       /\ Entry(v, j).started = started /\ Entry(v, j).readAt = readAt
       => currentStep - frames[j].step = Len(frames) + 1 - j

\* A process that does not read counts from zero.
FromZero ==
  /\ \A j, k \in DOMAIN frames : \A v \in Vars :
       /\ j < k /\ Has(v, j) /\ Has(v, k)
       /\ Entry(v, j).started # Entry(v, k).started
       /\ Entry(v, k).readAt = Entry(v, k).started
       => frames[k].step < k - j
  /\ \A j \in DOMAIN frames : \A v \in Vars :
       /\ Has(v, j)
       /\ Entry(v, j).started # started /\ readAt = started
       => currentStep <= Len(frames) - j

\* The form of a periodic entry depends on its step alone.
Periodic ==
  \A k \in DOMAIN frames : \A v \in Vars :
    Has(v, k) /\ Entry(v, k).form = "coded" /\ Entry(v, k).asked = "PERIO" =>
      (Entry(v, k).type = 0 <=> frames[k].step % snapshotCmprStep = 0)

\* An entry is predicted from the one before it.
Based ==
  /\ \A k \in DOMAIN frames : \A v \in Vars :
       /\ Has(v, k) /\ k > 1 /\ Has(v, k - 1)
       /\ Entry(v, k - 1).form = "coded"
       /\ Entry(v, k - 1).started = Entry(v, k).started
       /\ Entry(v, k - 1).born = Entry(v, k).born
       /\ Entry(v, k - 1).readAt = Entry(v, k).readAt
       => Entry(v, k).base = k - 1
  /\ \A v \in Vars :
       /\ Len(frames) > 0 /\ Has(v, Len(frames))
       /\ Entry(v, Len(frames)).form = "coded"
       /\ Entry(v, Len(frames)).started = started
       /\ Entry(v, Len(frames)).born = born[v]
       /\ Entry(v, Len(frames)).readAt = readAt
       => encHist[v] = Len(frames)

Writer == Counted /\ FromZero /\ Periodic /\ Based

\* Frames log[v][i] .. log[v][n] are consecutive, coded, periodic, unbroken.
Linked(v, j, k) ==
  LET a == Entry(v, j)
      b == Entry(v, k)
  IN IF a.started = b.started THEN a.born = b.born /\ a.readAt = b.readAt
                              ELSE b.born = b.started /\ b.readAt = b.started
Window(v, i, n) ==
  /\ \A j \in i .. n : /\ log[v][j] = log[v][i] + (j - i)
                       /\ Entry(v, log[v][j]).form = "coded"
                       /\ Entry(v, log[v][j]).asked = "PERIO"
  /\ \A j \in i .. n : \A k \in j .. n : Linked(v, log[v][j], log[v][k])

\* From a snapshot on the reader keeps up.
Reader ==
  \A v \in DecoderVars : \A i \in 1 .. Len(log[v]) :
    Window(v, i, Len(log[v])) /\ Entry(v, log[v][i]).type = 0 =>
      decHist[v] = log[v][Len(log[v])] /\ data[v] = log[v][Len(log[v])]

WInv == Shape /\ Writer
IInv == WInv /\ ReaderShape /\ Reader

-----------------------------------------------------------------------------
(* The initial state, and the steps of the writer                          *)

LEMMA InitHolds == Init => IInv
<1> SUFFICES ASSUME Init PROVE IInv  OBVIOUS
<1> USE TimeSeriesAssumption
<1>1. frames = << >> /\ DOMAIN frames = {} /\ Len(frames) = 0
  BY DEF Init
<1>2. Shape
  <2>1. encHist \in [Vars -> -1 .. MaxFrames] /\ encType \in [Vars -> {0, 1}]
    BY DEF Init
  <2>2. born \in [Vars -> started .. breaks] /\ readAt \in started .. breaks
    BY DEF Init
  <2>3. frames \in Seq(Frame) /\ currentStep \in 0 .. Len(frames)
    BY <1>1 DEF Init
  <2>4. breaks \in 0 .. MaxBreaks /\ started \in 0 .. breaks
    BY DEF Init
  <2> QED  BY <1>1, <2>1, <2>2, <2>3, <2>4 DEF Shape
<1>3. Writer  BY <1>1 DEF Writer, Counted, FromZero, Periodic, Based
<1>4. ReaderShape /\ Reader
  <2>0. Len(<< >>) = 0 /\ DOMAIN << >> = {}  OBVIOUS
  <2>1. \A v \in DecoderVars : log[v] = << >> /\ Len(log[v]) = 0 /\ DOMAIN log[v] = {}
    BY <2>0 DEF Init
  <2>2. Reader  BY <2>1 DEF Reader
  <2>3. ReaderShape
    <3>1. decHist \in [DecoderVars -> -1 .. MaxFrames] /\ data \in [DecoderVars -> -1 .. MaxFrames]
      BY DEF Init
    <3>2. log \in [DecoderVars -> Seq(1 .. MaxFrames)]
      <4>1. << >> \in Seq(1 .. MaxFrames)  OBVIOUS
      <4>2. log = [v \in DecoderVars |-> << >>]  BY DEF Init
      <4> QED  BY <4>1, <4>2
    <3>3. crashed \in BOOLEAN  BY DEF Init
    <3> QED  BY <2>1, <3>1, <3>2, <3>3 DEF ReaderShape
  <2> QED  BY <2>2, <2>3
<1> QED  BY <1>2, <1>3, <1>4 DEF IInv, WInv

\* What Compress adds to the frames.
LEMMA Written ==
  ASSUME Shape, NEW S \in SUBSET Vars, NEW t \in CmprTypes,
         NEW form \in [S -> Forms], Compress(S, t, form)
  PROVE  /\ Len(frames') = Len(frames) + 1 /\ Len(frames) \in Nat
         /\ DOMAIN frames = 1 .. Len(frames) /\ DOMAIN frames' = 1 .. Len(frames) + 1
         /\ \A k \in DOMAIN frames : frames'[k] = frames[k]
         /\ frames'[Len(frames) + 1].step = currentStep
         /\ DOMAIN frames'[Len(frames) + 1].entries = S
         /\ \A v \in S :
              frames'[Len(frames) + 1].entries[v] =
                [form |-> form[v], type |-> encType'[v], asked |-> t,
                 base |-> encHist[v], started |-> started, born |-> born[v],
                 readAt |-> readAt]
<1> DEFINE f == [step |-> currentStep,
                 entries |-> [v \in S |-> [form |-> form[v], type |-> encType'[v],
                                 asked |-> t, base |-> encHist[v],
                                 started |-> started, born |-> born[v],
                                 readAt |-> readAt]]]
<1>1. frames' = Append(frames, f)  BY DEF Compress
<1>2. frames \in Seq(Frame)  BY DEF Shape
<1>3. /\ f.step = currentStep /\ DOMAIN f.entries = S
      /\ \A v \in S : f.entries[v] =
           [form |-> form[v], type |-> encType'[v], asked |-> t,
            base |-> encHist[v], started |-> started, born |-> born[v],
            readAt |-> readAt]
  OBVIOUS
<1> HIDE DEF f
<1>4. /\ Len(frames') = Len(frames) + 1 /\ Len(frames) \in Nat
      /\ DOMAIN frames = 1 .. Len(frames) /\ DOMAIN frames' = 1 .. Len(frames) + 1
      /\ \A k \in DOMAIN frames : frames'[k] = frames[k]
      /\ frames'[Len(frames) + 1] = f
  <2>1. \A F \in Seq(Frame) : /\ Len(F) \in Nat /\ DOMAIN F = 1 .. Len(F)
                              /\ Append(F, f) \in Seq(Frame \cup {f})
                              /\ Len(Append(F, f)) = Len(F) + 1
                              /\ DOMAIN Append(F, f) = 1 .. Len(F) + 1
                              /\ \A k \in 1 .. Len(F) : Append(F, f)[k] = F[k]
                              /\ Append(F, f)[Len(F) + 1] = f
    OBVIOUS
  <2> QED  BY <1>1, <1>2, <2>1
<1> QED  BY <1>3, <1>4

LEMMA CodedAsType == ASSUME NEW t \in CmprTypes PROVE CodedAs(t) \in {0, 1}
  BY DEF CodedAs

LEMMA CompressShape ==
  ASSUME Shape, NEW S \in SUBSET Vars, NEW t \in CmprTypes,
         NEW form \in [S -> Forms], Compress(S, t, form)
  PROVE  Shape'
<1> USE TimeSeriesAssumption
<1> DEFINE n == Len(frames) + 1
           e(v) == [form |-> form[v], type |-> encType'[v], asked |-> t,
                    base |-> encHist[v], started |-> started, born |-> born[v],
                    readAt |-> readAt]
           f == [step |-> currentStep, entries |-> [v \in S |-> e(v)]]
<1>1. /\ encHist \in [Vars -> -1 .. MaxFrames] /\ encType \in [Vars -> {0, 1}]
      /\ breaks \in 0 .. MaxBreaks /\ started \in 0 .. breaks
      /\ born \in [Vars -> started .. breaks] /\ readAt \in started .. breaks
      /\ currentStep \in 0 .. Len(frames) /\ frames \in Seq(Frame)
      /\ Len(frames) \in Nat /\ Len(frames) < MaxFrames
  BY DEF Shape, Compress
<1>2. encType' \in [Vars -> {0, 1}]
  <2>1. encType' = [v \in Vars |-> IF v \in S /\ form[v] # "constant"
                                   THEN CodedAs(t) ELSE encType[v]]
    BY DEF Compress
  <2>2. CodedAs(t) \in {0, 1}  BY CodedAsType
  <2> HIDE DEF n, f
  <2> QED  BY <1>1, <2>1, <2>2
<1>3. encHist' \in [Vars -> -1 .. MaxFrames]
  <2>1. encHist' = [v \in Vars |-> IF v \in S THEN HistAfter(v, form[v]) ELSE encHist[v]]
    BY DEF Compress
  <2>2. \A v \in Vars : HistAfter(v, form[v]) \in -1 .. MaxFrames
    BY <1>1 DEF HistAfter
  <2> QED  BY <1>1, <2>1, <2>2
<1>4. \A v \in S : e(v) \in EntrySet
  <2> TAKE v \in S
  <2>1. encHist[v] \in -1 .. MaxFrames /\ encType'[v] \in {0, 1} /\ form[v] \in Forms
    BY <1>1, <1>2
  <2>2. started \in Nat /\ born[v] \in Nat /\ readAt \in Nat
    <3>1. born[v] \in started .. breaks  BY <1>1
    <3> QED  BY <1>1, <3>1
  <2> QED  BY <2>1, <2>2 DEF EntrySet
<1>5. frames' \in Seq(Frame)
  <2>1. f \in Frame
    <3>1. [v \in S |-> e(v)] \in [S -> EntrySet]
      <4> HIDE DEF e
      <4> QED  BY <1>4
    <3>2. [v \in S |-> e(v)] \in UNION {[T -> EntrySet] : T \in SUBSET Vars}
      BY <3>1
    <3> HIDE DEF e
    <3> QED  BY <3>2, <1>1 DEF Frame
  <2>2. frames' = Append(frames, f)  BY DEF Compress
  <2> HIDE DEF f
  <2> QED  BY <1>1, <2>1, <2>2
<1>6. /\ currentStep' = currentStep + 1 /\ breaks' = breaks /\ started' = started
      /\ born' = born /\ readAt' = readAt
  BY DEF Compress
<1>7. Len(frames') = n /\ DOMAIN frames' = 1 .. n /\ DOMAIN frames = 1 .. Len(frames)
  BY Written
<1>8. \A k \in DOMAIN frames' : frames'[k].step < k
  <2> TAKE k \in DOMAIN frames'
  <2>1. CASE k = n
    <3>1. frames'[k].step = currentStep  BY Written, <2>1
    <3> QED  BY <3>1, <1>1, <2>1
  <2>2. CASE k # n
    <3>1. k \in DOMAIN frames  BY <1>1, <1>7, <2>2
    <3>2. frames'[k] = frames[k]  BY <3>1, Written
    <3> QED  BY <3>1, <3>2 DEF Shape
  <2> QED  BY <2>1, <2>2
<1>9. \A k \in DOMAIN frames' : \A v \in DOMAIN frames'[k].entries :
        /\ frames'[k].entries[v].started \in 0 .. breaks
        /\ frames'[k].entries[v].born \in 0 .. breaks
        /\ frames'[k].entries[v].readAt \in 0 .. breaks
  <2> TAKE k \in DOMAIN frames'
  <2> TAKE v \in DOMAIN frames'[k].entries
  <2>1. CASE k = n
    <3>1. v \in S  BY Written, <2>1
    <3>a. frames'[k].entries[v] = e(v)  BY Written, <2>1, <3>1
    <3>2. /\ frames'[k].entries[v].started = started
          /\ frames'[k].entries[v].born = born[v]
          /\ frames'[k].entries[v].readAt = readAt
      BY <3>a
    <3>3. born[v] \in started .. breaks  BY <1>1, <3>1
    <3> QED  BY <3>2, <3>3, <1>1
  <2>2. CASE k # n
    <3>1. k \in DOMAIN frames  BY <1>1, <1>7, <2>2
    <3>2. frames'[k] = frames[k]  BY <3>1, Written
    <3> QED  BY <3>1, <3>2 DEF Shape, Entry
  <2> QED  BY <2>1, <2>2
<1> HIDE DEF n, f, e
<1>10. currentStep' \in 0 .. Len(frames') /\ Len(frames') <= MaxFrames
  BY <1>1, <1>6, <1>7 DEF n
<1> QED  BY <1>1, <1>2, <1>3, <1>5, <1>6, <1>8, <1>9, <1>10 DEF Shape, Entry

\* The frames after Compress, field by field.
Extended(S, t, form) ==
  /\ Len(frames) \in Nat /\ Len(frames') = Len(frames) + 1
  /\ \A k \in DOMAIN frames' : /\ k \in Nat /\ k >= 1 /\ k <= Len(frames) + 1
                              /\ k # Len(frames) + 1 =>
                                   k \in DOMAIN frames /\ frames'[k] = frames[k]
  /\ frames'[Len(frames) + 1].step = currentStep
  /\ DOMAIN frames'[Len(frames) + 1].entries = S
  /\ \A v \in S : /\ frames'[Len(frames) + 1].entries[v].form = form[v]
                  /\ frames'[Len(frames) + 1].entries[v].type = encType'[v]
                  /\ frames'[Len(frames) + 1].entries[v].asked = t
                  /\ frames'[Len(frames) + 1].entries[v].base = encHist[v]
                  /\ frames'[Len(frames) + 1].entries[v].started = started
                  /\ frames'[Len(frames) + 1].entries[v].born = born[v]
                  /\ frames'[Len(frames) + 1].entries[v].readAt = readAt

LEMMA Grown ==
  ASSUME Shape, NEW S \in SUBSET Vars, NEW t \in CmprTypes,
         NEW form \in [S -> Forms], Compress(S, t, form)
  PROVE  Extended(S, t, form)
<1> DEFINE n == Len(frames) + 1
           e(v) == [form |-> form[v], type |-> encType'[v], asked |-> t,
                    base |-> encHist[v], started |-> started, born |-> born[v],
                    readAt |-> readAt]
<1>1. /\ Len(frames) \in Nat /\ Len(frames') = Len(frames) + 1
      /\ DOMAIN frames = 1 .. Len(frames) /\ DOMAIN frames' = 1 .. Len(frames) + 1
      /\ \A k \in DOMAIN frames : frames'[k] = frames[k]
      /\ frames'[Len(frames) + 1].step = currentStep
      /\ DOMAIN frames'[Len(frames) + 1].entries = S
      /\ \A v \in S : frames'[Len(frames) + 1].entries[v] = e(v)
  BY Written
<1>2. \A v \in S : /\ e(v).form = form[v] /\ e(v).type = encType'[v] /\ e(v).asked = t
                  /\ e(v).base = encHist[v] /\ e(v).started = started
                  /\ e(v).born = born[v] /\ e(v).readAt = readAt
  OBVIOUS
<1> HIDE DEF e
<1>3. \A k \in DOMAIN frames' : /\ k \in Nat /\ k >= 1 /\ k <= Len(frames) + 1
                              /\ k # Len(frames) + 1 => k \in DOMAIN frames
  BY <1>1
<1> QED  BY <1>1, <1>2, <1>3 DEF Extended

\* What is said of the frames before is still true of them.
LEMMA NumbersOf ==
  ASSUME Shape
  PROVE  /\ currentStep \in Nat /\ Len(frames) \in Nat /\ DOMAIN frames = 1 .. Len(frames)
         /\ started \in Nat /\ readAt \in Nat /\ breaks \in Nat
         /\ \A k \in DOMAIN frames : k \in Nat /\ k >= 1 /\ frames[k].step \in Nat
<1>1. currentStep \in 0 .. Len(frames) /\ frames \in Seq(Frame)
      /\ started \in 0 .. breaks /\ readAt \in started .. breaks /\ breaks \in 0 .. MaxBreaks
  BY DEF Shape
<1>2. Len(frames) \in Nat /\ DOMAIN frames = 1 .. Len(frames)  BY <1>1
<1>3. \A k \in DOMAIN frames : frames[k] \in Frame  BY <1>1
<1>4. \A f \in Frame : f.step \in Nat  BY DEF Frame
<1>5. breaks \in Nat  BY <1>1, TimeSeriesAssumption
<1> QED  BY <1>1, <1>2, <1>3, <1>4, <1>5

LEMMA CompressCounted ==
  ASSUME Shape, Counted, NEW S \in SUBSET Vars, NEW t \in CmprTypes,
         NEW form \in [S -> Forms], Compress(S, t, form)
  PROVE  Counted'
<1> DEFINE n == Len(frames) + 1
<1>g. Extended(S, t, form)  BY Grown
<1>1. started' = started /\ readAt' = readAt /\ currentStep' = currentStep + 1
  BY DEF Compress
<1>2. ASSUME NEW j \in DOMAIN frames', NEW k \in DOMAIN frames', NEW v \in Vars,
             j < k, Has(v, j)', Has(v, k)',
             Entry(v, j)'.started = Entry(v, k)'.started,
             Entry(v, j)'.readAt = Entry(v, k)'.readAt
      PROVE  frames'[k].step - frames'[j].step = k - j
  <2>1. /\ j \in DOMAIN frames /\ frames'[j].step = frames[j].step
        /\ Has(v, j) /\ Entry(v, j)' = Entry(v, j)
    <3>1. j # n  BY <1>g, <1>2 DEF Extended, Has, Entry
    <3> QED  BY <3>1, <1>2, <1>g DEF Extended, Has, Entry
  <2>2. CASE k = n
    <3>1. /\ frames'[k].step = currentStep /\ Entry(v, k)'.started = started
          /\ Entry(v, k)'.readAt = readAt
      BY <2>2, <1>2, <1>g DEF Extended, Has, Entry
    <3>2. currentStep - frames[j].step = Len(frames) + 1 - j
      BY <3>1, <2>1, <1>2 DEF Counted
    <3> QED  BY <3>1, <3>2, <2>1, <2>2
  <2>3. CASE k # n
    <3>1. /\ k \in DOMAIN frames /\ frames'[k].step = frames[k].step
          /\ Has(v, k) /\ Entry(v, k)' = Entry(v, k)
      BY <2>3, <1>2, <1>g DEF Extended, Has, Entry
    <3> QED  BY <3>1, <2>1, <1>2 DEF Counted
  <2> QED  BY <2>2, <2>3
<1>3. ASSUME NEW j \in DOMAIN frames', NEW v \in Vars, Has(v, j)',
             Entry(v, j)'.started = started', Entry(v, j)'.readAt = readAt'
      PROVE  currentStep' - frames'[j].step = Len(frames') + 1 - j
  <2>1. Len(frames) \in Nat /\ Len(frames') = n /\ j \in Nat  BY <1>g DEF Extended, Has, Entry
  <2>2. CASE j = n
    <3>1. frames'[j].step = currentStep  BY <1>g, <2>2 DEF Extended, Has, Entry
    <3> QED  BY <3>1, <2>1, <2>2, <1>1, NumbersOf
  <2>3. CASE j # n
    <3>1. /\ j \in DOMAIN frames /\ frames'[j].step = frames[j].step
          /\ Has(v, j) /\ Entry(v, j)' = Entry(v, j)
      BY <2>3, <1>3, <1>g DEF Extended, Has, Entry
    <3>2. currentStep - frames[j].step = Len(frames) + 1 - j
      BY <3>1, <1>1, <1>3 DEF Counted
    <3> QED  BY <3>1, <3>2, <2>1, <1>1, NumbersOf
  <2> QED  BY <2>2, <2>3
<1> QED  BY <1>2, <1>3 DEF Counted

LEMMA CompressFromZero ==
  ASSUME Shape, FromZero, NEW S \in SUBSET Vars, NEW t \in CmprTypes,
         NEW form \in [S -> Forms], Compress(S, t, form)
  PROVE  FromZero'
<1> DEFINE n == Len(frames) + 1
<1>g. Extended(S, t, form)  BY Grown
<1>1. started' = started /\ readAt' = readAt /\ currentStep' = currentStep + 1
  BY DEF Compress
<1>2. ASSUME NEW j \in DOMAIN frames', NEW k \in DOMAIN frames', NEW v \in Vars,
             j < k, Has(v, j)', Has(v, k)',
             Entry(v, j)'.started # Entry(v, k)'.started,
             Entry(v, k)'.readAt = Entry(v, k)'.started
      PROVE  frames'[k].step < k - j
  <2>1. /\ j \in DOMAIN frames /\ Has(v, j) /\ Entry(v, j)' = Entry(v, j)
    <3>1. j # n  BY <1>g, <1>2 DEF Extended, Has, Entry
    <3> QED  BY <3>1, <1>2, <1>g DEF Extended, Has, Entry
  <2>2. CASE k = n
    <3>1. /\ frames'[k].step = currentStep /\ Entry(v, k)'.started = started
          /\ Entry(v, k)'.readAt = readAt
      BY <2>2, <1>2, <1>g DEF Extended, Has, Entry
    <3>2. currentStep <= Len(frames) - j
      BY <3>1, <2>1, <1>2 DEF FromZero
    <3> QED  BY <3>1, <3>2, <2>1, <2>2, NumbersOf
  <2>3. CASE k # n
    <3>1. /\ k \in DOMAIN frames /\ frames'[k].step = frames[k].step
          /\ Has(v, k) /\ Entry(v, k)' = Entry(v, k)
      BY <2>3, <1>2, <1>g DEF Extended, Has, Entry
    <3> QED  BY <3>1, <2>1, <1>2 DEF FromZero
  <2> QED  BY <2>2, <2>3
<1>3. ASSUME NEW j \in DOMAIN frames', NEW v \in Vars, Has(v, j)',
             Entry(v, j)'.started # started', readAt' = started'
      PROVE  currentStep' <= Len(frames') - j
  <2>1. Len(frames) \in Nat /\ Len(frames') = n /\ j \in Nat  BY <1>g DEF Extended, Has, Entry
  <2>2. j # n  BY <1>g, <1>1, <1>3 DEF Extended, Has, Entry
  <2>3. /\ j \in DOMAIN frames /\ Has(v, j) /\ Entry(v, j)' = Entry(v, j)
    BY <2>2, <1>3, <1>g DEF Extended, Has, Entry
  <2>4. currentStep <= Len(frames) - j  BY <2>3, <1>1, <1>3 DEF FromZero
  <2> QED  BY <2>1, <2>4, <1>1, NumbersOf
<1> QED  BY <1>2, <1>3 DEF FromZero

LEMMA CompressPeriodic ==
  ASSUME Shape, Periodic, NEW S \in SUBSET Vars, NEW t \in CmprTypes,
         NEW form \in [S -> Forms], Compress(S, t, form)
  PROVE  Periodic'
<1> DEFINE n == Len(frames) + 1
<1>g. Extended(S, t, form)  BY Grown
<1>1. SUFFICES ASSUME NEW k \in DOMAIN frames', NEW v \in Vars, Has(v, k)',
                      Entry(v, k)'.form = "coded", Entry(v, k)'.asked = "PERIO"
               PROVE  Entry(v, k)'.type = 0 <=> frames'[k].step % snapshotCmprStep = 0
  BY DEF Periodic
<1>2. CASE k = n
  <2>1. /\ v \in S /\ form[v] = "coded" /\ t = "PERIO"
        /\ Entry(v, k)'.type = encType'[v] /\ frames'[k].step = currentStep
    BY <1>1, <1>2, <1>g DEF Extended, Has, Entry
  <2>2. encType'[v] = CodedAs(t)  BY <2>1 DEF Compress
  <2>3. CodedAs(t) = 0 <=> currentStep % snapshotCmprStep = 0
    BY <2>1 DEF CodedAs
  <2> QED  BY <2>1, <2>2, <2>3
<1>3. CASE k # n
  <2>1. /\ k \in DOMAIN frames /\ frames'[k].step = frames[k].step
        /\ Has(v, k) /\ Entry(v, k)' = Entry(v, k)
    BY <1>1, <1>3, <1>g DEF Extended, Has, Entry
  <2> QED  BY <2>1, <1>1 DEF Periodic
<1> QED  BY <1>2, <1>3

LEMMA CompressBased ==
  ASSUME Shape, Based, NEW S \in SUBSET Vars, NEW t \in CmprTypes,
         NEW form \in [S -> Forms], Compress(S, t, form)
  PROVE  Based'
<1> DEFINE n == Len(frames) + 1
<1>g. Extended(S, t, form)  BY Grown
<1>1. started' = started /\ readAt' = readAt /\ born' = born  BY DEF Compress
<1>2. ASSUME NEW k \in DOMAIN frames', NEW v \in Vars,
             Has(v, k)', k > 1, Has(v, k - 1)',
             Entry(v, k - 1)'.form = "coded",
             Entry(v, k - 1)'.started = Entry(v, k)'.started,
             Entry(v, k - 1)'.born = Entry(v, k)'.born,
             Entry(v, k - 1)'.readAt = Entry(v, k)'.readAt
      PROVE  Entry(v, k)'.base = k - 1
  <2>0. k - 1 \in DOMAIN frames'  BY <1>2 DEF Has
  <2>1. Len(frames) \in Nat /\ k \in Nat /\ k <= n  BY <1>g DEF Extended, Has, Entry
  <2>2. /\ k - 1 \in DOMAIN frames /\ Has(v, k - 1) /\ Entry(v, k - 1)' = Entry(v, k - 1)
    <3>1. k - 1 # n  BY <2>1
    <3> QED  BY <3>1, <2>0, <1>2, <1>g DEF Extended, Has, Entry
  <2>3. CASE k = n
    <3>1. /\ Entry(v, k)'.base = encHist[v] /\ Entry(v, k)'.started = started
          /\ Entry(v, k)'.born = born[v] /\ Entry(v, k)'.readAt = readAt
      BY <2>3, <1>2, <1>g DEF Extended, Has, Entry
    <3>2. k - 1 = Len(frames)  BY <2>1, <2>3
    <3> QED  BY <3>1, <3>2, <2>1, <2>2, <1>2 DEF Based
  <2>4. CASE k # n
    <3>1. k \in DOMAIN frames /\ Has(v, k) /\ Entry(v, k)' = Entry(v, k)
      BY <2>4, <1>2, <1>g DEF Extended, Has, Entry
    <3> QED  BY <3>1, <2>2, <1>2 DEF Based
  <2> QED  BY <2>3, <2>4
<1>3. ASSUME NEW v \in Vars, Len(frames') > 0, Has(v, Len(frames))',
             Entry(v, Len(frames))'.form = "coded"
      PROVE  encHist'[v] = Len(frames')
  <2>1. Len(frames') = n  BY <1>g DEF Extended
  <2>2. v \in DOMAIN frames'[n].entries /\ frames'[n].entries[v].form = "coded"
    BY <1>3, <2>1 DEF Has, Entry
  <2>3. v \in S /\ form[v] = "coded"  BY <2>2, <1>g DEF Extended
  <2>4. encHist'[v] = HistAfter(v, form[v])  BY <2>3 DEF Compress
  <2> QED  BY <2>1, <2>3, <2>4 DEF HistAfter
<1> QED  BY <1>2, <1>3 DEF Based

LEMMA CompressWriter ==
  ASSUME WInv, NEW S \in SUBSET Vars, NEW t \in CmprTypes,
         NEW form \in [S -> Forms], Compress(S, t, form)
  PROVE  WInv'
<1>1. Shape /\ Counted /\ FromZero /\ Periodic /\ Based  BY DEF WInv, Writer
<1>2. Shape'  BY <1>1, CompressShape
<1>3. Counted'  BY <1>1, CompressCounted
<1>4. FromZero'  BY <1>1, CompressFromZero
<1>5. Periodic'  BY <1>1, CompressPeriodic
<1>6. Based'  BY <1>1, CompressBased
<1> QED  BY <1>2, <1>3, <1>4, <1>5, <1>6 DEF WInv, Writer

\* What the other steps of the writer leave alone.  No entry tells of a break
\* still to come, so after one the entries say nothing of the encoder.
LEMMA OldFrames ==
  ASSUME WInv, frames' = frames
  PROVE  /\ Periodic'
         /\ \A k \in DOMAIN frames : frames[k].step < k
         /\ \A j, k \in DOMAIN frames : \A v \in Vars :
              /\ j < k /\ Has(v, j) /\ Has(v, k)
              /\ Entry(v, j).started = Entry(v, k).started
              /\ Entry(v, j).readAt = Entry(v, k).readAt
              => frames[k].step - frames[j].step = k - j
<1> QED  BY DEF WInv, Writer, Periodic, Counted, Shape, Has, Entry

LEMMA Earlier ==
  ASSUME Shape, NEW k \in DOMAIN frames, NEW v, Has(v, k)
  PROVE  /\ Entry(v, k).started \in 0 .. breaks
         /\ Entry(v, k).born \in 0 .. breaks /\ Entry(v, k).readAt \in 0 .. breaks
         /\ Entry(v, k).started # breaks + 1
         /\ Entry(v, k).born # breaks + 1 /\ Entry(v, k).readAt # breaks + 1
<1>1. /\ Entry(v, k).started \in 0 .. breaks
      /\ Entry(v, k).born \in 0 .. breaks /\ Entry(v, k).readAt \in 0 .. breaks
  BY DEF Shape, Has
<1>2. breaks \in Nat  BY NumbersOf
<1> QED  BY <1>1, <1>2

\* Shape does not depend on anything else of the frames.
LEMMA BreakShape ==
  ASSUME Shape, Break, frames' = frames,
         currentStep' \in 0 .. Len(frames),
         encHist' \in [Vars -> -1 .. MaxFrames], encType' \in [Vars -> {0, 1}],
         started' \in 0 .. breaks',
         born' \in [Vars -> started' .. breaks'], readAt' \in started' .. breaks'
  PROVE  Shape'
<1> USE TimeSeriesAssumption
<1>1. breaks \in Nat /\ breaks' = breaks + 1 /\ breaks' \in 0 .. MaxBreaks
  BY NumbersOf DEF Break
<1>2. \A k \in DOMAIN frames : \A v \in DOMAIN frames[k].entries :
        /\ frames[k].entries[v].started \in 0 .. breaks'
        /\ frames[k].entries[v].born \in 0 .. breaks'
        /\ frames[k].entries[v].readAt \in 0 .. breaks'
  <2> TAKE k \in DOMAIN frames
  <2> TAKE v \in DOMAIN frames[k].entries
  <2>1. /\ frames[k].entries[v].started \in 0 .. breaks
        /\ frames[k].entries[v].born \in 0 .. breaks
        /\ frames[k].entries[v].readAt \in 0 .. breaks
    BY DEF Shape, Entry
  <2> QED  BY <2>1, <1>1
<1>3. /\ frames \in Seq(Frame) /\ Len(frames) <= MaxFrames
      /\ \A k \in DOMAIN frames : frames[k].step < k
  BY DEF Shape
<1> QED  BY <1>1, <1>2, <1>3 DEF Shape, Entry

LEMMA RestartEncoderWriter == ASSUME WInv, RestartEncoder PROVE WInv'
<1>1. /\ Shape /\ Break /\ frames' = frames /\ currentStep' = 0
      /\ encHist' = [v \in Vars |-> 0] /\ encType' = [v \in Vars |-> 0]
      /\ started' = breaks' /\ born' = [v \in Vars |-> breaks'] /\ readAt' = breaks'
  BY DEF WInv, RestartEncoder
<1>2. breaks \in Nat /\ breaks' = breaks + 1 /\ breaks' \in breaks' .. breaks'
      /\ Len(frames) \in Nat
  BY <1>1, NumbersOf DEF Break
<1>3. Shape'
  <2>1. 0 \in -1 .. MaxFrames /\ 0 \in 0 .. Len(frames) /\ breaks' \in 0 .. breaks'
    BY <1>2, TimeSeriesAssumption
  <2>2. /\ encHist' \in [Vars -> -1 .. MaxFrames] /\ encType' \in [Vars -> {0, 1}]
        /\ born' \in [Vars -> started' .. breaks']
    BY <2>1, <1>1, <1>2
  <2>3. started' \in 0 .. breaks' /\ readAt' \in started' .. breaks'
        /\ currentStep' \in 0 .. Len(frames)
    BY <2>1, <1>1, <1>2
  <2> QED  BY <1>1, <2>2, <2>3, BreakShape
<1>4. \A j \in DOMAIN frames : \A v : Has(v, j) => Entry(v, j).started # started'
  BY <1>1, <1>2, Earlier
<1>5. \A j \in DOMAIN frames : currentStep' <= Len(frames) - j
  BY <1>1, NumbersOf
<1>6. Counted' /\ FromZero'
  BY <1>1, <1>4, <1>5 DEF WInv, Writer, Counted, FromZero, Has, Entry
<1>7. Based'
  BY <1>1, <1>4 DEF WInv, Writer, Based, Has, Entry
<1> QED  BY <1>1, <1>3, <1>6, <1>7, OldFrames DEF WInv, Writer

LEMMA RegisterAnewWriter ==
  ASSUME WInv, NEW w \in Vars, RegisterAnew(w) PROVE WInv'
<1>1. /\ Shape /\ Break /\ frames' = frames /\ currentStep' = currentStep
      /\ encHist' = [encHist EXCEPT ![w] = 0] /\ encType' = [encType EXCEPT ![w] = 0]
      /\ started' = started /\ born' = [born EXCEPT ![w] = breaks'] /\ readAt' = readAt
  BY DEF WInv, RegisterAnew
<1>2. /\ encHist \in [Vars -> -1 .. MaxFrames] /\ encType \in [Vars -> {0, 1}]
      /\ started \in 0 .. breaks /\ born \in [Vars -> started .. breaks]
      /\ readAt \in started .. breaks /\ currentStep \in 0 .. Len(frames)
  BY <1>1 DEF Shape
<1>3. breaks \in Nat /\ breaks' = breaks + 1 /\ Len(frames) \in Nat /\ started \in Nat
  BY <1>1, NumbersOf DEF Break
<1>4. Shape'
  <2>1. encHist' \in [Vars -> -1 .. MaxFrames]
    BY <1>1, <1>2, TimeSeriesAssumption
  <2>2. encType' \in [Vars -> {0, 1}]  BY <1>1, <1>2
  <2>3. born' \in [Vars -> started' .. breaks']
    <3>1. \A v \in Vars : born[v] \in started .. breaks  BY <1>2
    <3>2. \A v \in Vars : born'[v] \in started .. breaks'
      BY <3>1, <1>1, <1>2, <1>3
    <3>3. born' = [v \in Vars |-> born'[v]]  BY <1>1, <1>2
    <3> QED  BY <3>2, <3>3, <1>1
  <2>4. started' \in 0 .. breaks' /\ readAt' \in started' .. breaks'
        /\ currentStep' \in 0 .. Len(frames)
    BY <1>1, <1>2, <1>3
  <2> QED  BY <1>1, <2>1, <2>2, <2>3, <2>4, BreakShape
<1>5. \A j \in DOMAIN frames : \A v : Has(v, j) => Entry(v, j).born # breaks'
  BY <1>1, <1>3, Earlier
<1>6. Counted' /\ FromZero'
  BY <1>1 DEF WInv, Writer, Counted, FromZero, Has, Entry
<1>7. Based'
  <2>1. \A v \in Vars : /\ v # w => encHist'[v] = encHist[v] /\ born'[v] = born[v]
                        /\ v = w => born'[v] = breaks'
    BY <1>1, <1>2
  <2> QED  BY <1>1, <1>5, <2>1 DEF WInv, Writer, Based, Has, Entry
<1> QED  BY <1>1, <1>4, <1>6, <1>7, OldFrames DEF WInv, Writer

\* What a reading leaves in hist_data is a frame, or garbage.
LEMMA Rebuilt ==
  ASSUME Shape, NEW k \in DOMAIN frames, NEW v, Has(v, k), NEW hist,
         hist[v] \in -1 .. MaxFrames
  PROVE  /\ Rebuild(v, k, hist) \in -1 .. MaxFrames
         /\ DecHistAfter(v, k, hist) \in -1 .. MaxFrames
<1>1. k \in Nat /\ k <= MaxFrames
  BY NumbersOf, TimeSeriesAssumption DEF Shape
<1>2. k \in -1 .. MaxFrames /\ -1 \in -1 .. MaxFrames
  BY <1>1, TimeSeriesAssumption
<1>3. Rebuild(v, k, hist) \in -1 .. MaxFrames
  BY <1>2 DEF Rebuild, Garbage
<1> QED  BY <1>3 DEF DecHistAfter

LEMMA DecompressHereWriter ==
  ASSUME WInv, NEW k \in DOMAIN frames, NEW selected \in SUBSET Vars,
         DecompressHere(k, selected)
  PROVE  WInv'
<1> DEFINE read == DOMAIN frames[k].entries
           S == read \cap selected
<1>1. /\ Shape /\ Break /\ frames' = frames /\ currentStep' = frames[k].step
      /\ encHist' = [v \in Vars |->
                       IF v \in S THEN DecHistAfter(v, k, encHist) ELSE encHist[v]]
      /\ encType' = [v \in Vars |->
                       IF v \in read THEN frames[k].entries[v].type ELSE encType[v]]
      /\ started' = started /\ born' = born /\ readAt' = breaks'
  BY DEF WInv, DecompressHere
<1>2. /\ encHist \in [Vars -> -1 .. MaxFrames] /\ encType \in [Vars -> {0, 1}]
      /\ started \in 0 .. breaks /\ born \in [Vars -> started .. breaks]
      /\ frames \in Seq(Frame) /\ frames[k].step < k
  BY <1>1 DEF Shape
<1>3. /\ breaks \in Nat /\ breaks' = breaks + 1 /\ Len(frames) \in Nat /\ started \in Nat
      /\ k \in Nat /\ k <= Len(frames) /\ frames[k].step \in Nat
  BY <1>1, NumbersOf DEF Break
<1>4. Shape'
  <2>1. encHist' \in [Vars -> -1 .. MaxFrames]
    <3>1. \A v \in S : DecHistAfter(v, k, encHist) \in -1 .. MaxFrames
      <4> TAKE v \in S
      <4>1. Has(v, k) /\ v \in Vars  BY DEF Has
      <4>2. encHist[v] \in -1 .. MaxFrames  BY <4>1, <1>2
      <4> QED  BY <4>1, <4>2, <1>1, Rebuilt
    <3> HIDE DEF S
    <3> QED  BY <3>1, <1>1, <1>2
  <2>2. encType' \in [Vars -> {0, 1}]
    <3>1. \A v \in read : frames[k].entries[v].type \in {0, 1}
      <4>1. frames[k].entries \in UNION {[T -> EntrySet] : T \in SUBSET Vars}
        <5>1. frames[k] \in Frame  BY <1>2
        <5>2. \A f \in Frame : f.entries \in UNION {[T -> EntrySet] : T \in SUBSET Vars}
          BY DEF Frame
        <5> QED  BY <5>1, <5>2
      <4>2. PICK T \in SUBSET Vars : frames[k].entries \in [T -> EntrySet]
        BY <4>1
      <4>3. \A v \in read : frames[k].entries[v] \in EntrySet  BY <4>2
      <4>4. \A e \in EntrySet : e.type \in {0, 1}  BY DEF EntrySet
      <4> QED  BY <4>3, <4>4
    <3> HIDE DEF read
    <3> QED  BY <3>1, <1>1, <1>2
  <2>3. born' \in [Vars -> started' .. breaks']
    <3>1. \A v \in Vars : born[v] \in started .. breaks  BY <1>2
    <3>2. \A v \in Vars : born[v] \in started .. breaks'  BY <3>1, <1>3
    <3> QED  BY <3>2, <1>1, <1>2
  <2>4. started' \in 0 .. breaks' /\ readAt' \in started' .. breaks'
        /\ currentStep' \in 0 .. Len(frames)
    BY <1>1, <1>2, <1>3
  <2> QED  BY <1>1, <2>1, <2>2, <2>3, <2>4, BreakShape
<1> HIDE DEF read, S
<1>5. \A j \in DOMAIN frames : \A v : Has(v, j) => Entry(v, j).readAt # readAt'
  BY <1>1, <1>3, Earlier
<1>6. readAt' # started'  BY <1>1, <1>2, <1>3
<1>7. Counted' /\ FromZero'
  BY <1>1, <1>5, <1>6 DEF WInv, Writer, Counted, FromZero, Has, Entry
<1>8. Based'
  BY <1>1, <1>5 DEF WInv, Writer, Based, Has, Entry
<1> QED  BY <1>1, <1>4, <1>7, <1>8, OldFrames DEF WInv, Writer
-----------------------------------------------------------------------------
(* The steps of the writer leave the reader alone, and those of the reader *)

\* Frames already written do not change, so neither does what a reader is owed.
LEMMA WriterKeepsReader ==
  ASSUME ReaderShape, UNCHANGED decoder,
         \A k \in DOMAIN frames : k \in DOMAIN frames' /\ frames'[k] = frames[k]
  PROVE  ReaderShape' /\ (Reader => Reader')
<1>1. decHist' = decHist /\ data' = data /\ log' = log /\ crashed' = crashed
  BY DEF decoder
<1>2. \A v \in DecoderVars : \A i \in DOMAIN log[v] :
        /\ log[v][i] \in DOMAIN frames /\ log[v][i] \in DOMAIN frames'
        /\ frames'[log[v][i]] = frames[log[v][i]]
        /\ v \in DOMAIN frames[log[v][i]].entries
  BY DEF ReaderShape, Has
<1>3. ReaderShape'  BY <1>1, <1>2 DEF ReaderShape, Has
<1>4. ASSUME Reader, NEW v \in DecoderVars, NEW i \in 1 .. Len(log[v]),
             Window(v, i, Len(log[v]))', frames'[log[v][i]].entries[v].type = 0
      PROVE  decHist[v] = log[v][Len(log[v])] /\ data[v] = log[v][Len(log[v])]
  <2>1. Len(log[v]) \in Nat /\ DOMAIN log[v] = 1 .. Len(log[v])  BY DEF ReaderShape
  <2>2. \A j \in i .. Len(log[v]) : frames'[log[v][j]] = frames[log[v][j]]
    BY <1>2, <2>1
  <2>3. frames[log[v][i]].entries[v].type = 0  BY <2>1, <2>2, <1>4
  <2>4. Window(v, i, Len(log[v]))
    <3>1. \A j \in i .. Len(log[v]) : \A k \in j .. Len(log[v]) : k \in i .. Len(log[v])
      BY <2>1
    <3>2. \A j \in i .. Len(log[v]) :
            /\ log[v][j] = log[v][i] + (j - i)
            /\ frames'[log[v][j]].entries[v].form = "coded"
            /\ frames'[log[v][j]].entries[v].asked = "PERIO"
      BY <1>1, <1>4 DEF Window, Entry
    <3>3. \A j \in i .. Len(log[v]) : \A k \in j .. Len(log[v]) :
            LET a == frames'[log[v][j]].entries[v]
                b == frames'[log[v][k]].entries[v]
            IN IF a.started = b.started THEN a.born = b.born /\ a.readAt = b.readAt
                                        ELSE b.born = b.started /\ b.readAt = b.started
      BY <1>1, <1>4 DEF Window, Linked, Entry
    <3>4. ASSUME NEW j \in i .. Len(log[v])
          PROVE  /\ log[v][j] = log[v][i] + (j - i)
                 /\ Entry(v, log[v][j]).form = "coded"
                 /\ Entry(v, log[v][j]).asked = "PERIO"
      BY <2>2, <3>2 DEF Entry
    <3>5. ASSUME NEW j \in i .. Len(log[v]), NEW k \in j .. Len(log[v])
          PROVE  Linked(v, log[v][j], log[v][k])
      <4>1. frames'[log[v][j]] = frames[log[v][j]] /\ frames'[log[v][k]] = frames[log[v][k]]
        BY <2>2, <3>1
      <4>2. LET a == frames'[log[v][j]].entries[v]
                b == frames'[log[v][k]].entries[v]
            IN IF a.started = b.started THEN a.born = b.born /\ a.readAt = b.readAt
                                        ELSE b.born = b.started /\ b.readAt = b.started
        BY <3>3
      <4> QED  BY <4>1, <4>2 DEF Linked, Entry
    <3> QED  BY <3>4, <3>5 DEF Window
  <2> QED  BY <1>4, <2>3, <2>4 DEF Reader, Entry
<1> QED  BY <1>1, <1>3, <1>4 DEF Reader, Entry

LEMMA RestartDecoderHolds ==
  ASSUME WInv, RestartDecoder PROVE IInv'
<1>1. UNCHANGED encoder  BY DEF RestartDecoder
<1>2. WInv'
  BY <1>1 DEF WInv, encoder, Shape, Writer, Counted, FromZero, Periodic, Based,
              Has, Entry
<1>3. \A v \in DecoderVars : log'[v] = << >> /\ Len(log'[v]) = 0 /\ DOMAIN log'[v] = {}
  BY DEF RestartDecoder
<1>4. Reader'  BY <1>3 DEF Reader
<1>5. ReaderShape'
  <2>1. 0 \in -1 .. MaxFrames  BY TimeSeriesAssumption
  <2>2. decHist' \in [DecoderVars -> -1 .. MaxFrames] /\ data' \in [DecoderVars -> -1 .. MaxFrames]
    BY <2>1 DEF RestartDecoder
  <2>3. log' \in [DecoderVars -> Seq(1 .. MaxFrames)]
    <3>1. << >> \in Seq(1 .. MaxFrames)  OBVIOUS
    <3>2. log' = [v \in DecoderVars |-> << >>]  BY DEF RestartDecoder
    <3> QED  BY <3>1, <3>2
  <2>4. crashed' \in BOOLEAN  BY DEF RestartDecoder
  <2> QED  BY <1>3, <2>2, <2>3, <2>4 DEF ReaderShape
<1> QED  BY <1>2, <1>4, <1>5 DEF IInv

\* A reader that has kept up with the frame before rebuilds the next one.
LEMMA NextRebuilt ==
  ASSUME EntropyType = "huffman", WInv, NEW v \in Vars, NEW j, NEW k, NEW hist,
         Has(v, j), Has(v, k), k = j + 1, hist[v] = j,
         Entry(v, j).form = "coded", Entry(v, k).form = "coded",
         Entry(v, k).asked = "PERIO", Linked(v, j, k)
  PROVE  Rebuild(v, k, hist) = k
<1>1. /\ j \in DOMAIN frames /\ k \in DOMAIN frames /\ j \in Nat /\ j >= 1 /\ k > 1
      /\ j = k - 1 /\ j < k /\ frames[k].step \in Nat
  BY NumbersOf DEF Has, WInv
<1>2. CASE Entry(v, j).started = Entry(v, k).started
  <2>1. Entry(v, k).base = j
    BY <1>1, <1>2 DEF WInv, Writer, Based, Linked
  <2> QED  BY <2>1 DEF Rebuild, Entry
<1>3. CASE Entry(v, j).started # Entry(v, k).started
  <2>1. Entry(v, k).readAt = Entry(v, k).started  BY <1>3 DEF Linked
  <2>2. frames[k].step < k - j
    BY <1>1, <1>3, <2>1 DEF WInv, Writer, FromZero
  <2>3. frames[k].step = 0  BY <1>1, <2>2
  <2>4. 0 % snapshotCmprStep = 0  BY TimeSeriesAssumption
  <2>5. Entry(v, k).type = 0  BY <1>1, <2>3, <2>4 DEF WInv, Writer, Periodic
  <2> QED  BY <2>5 DEF Rebuild, Entry
<1> QED  BY <1>2, <1>3

\* What Decompress does to each variable that the reader has registered.
LEMMA Reading ==
  ASSUME WInv, ReaderShape,
         NEW k \in DOMAIN frames, NEW selected \in SUBSET Vars,
         Decompress(k, selected), DOMAIN frames[k].entries \subseteq DecoderVars
  PROVE  LET S == DOMAIN frames[k].entries \cap selected
         IN \A v \in DecoderVars :
              /\ Len(log[v]) \in Nat /\ DOMAIN log[v] = 1 .. Len(log[v])
              /\ log[v] \in Seq(1 .. MaxFrames)
              /\ v \notin S => log'[v] = log[v] /\ decHist'[v] = decHist[v] /\ data'[v] = data[v]
              /\ v \in S =>
                   /\ Has(v, k) /\ v \in Vars
                   /\ decHist'[v] = DecHistAfter(v, k, decHist)
                   /\ data'[v] = Rebuild(v, k, decHist)
                   /\ log'[v] \in Seq(1 .. MaxFrames)
                   /\ Len(log'[v]) = Len(log[v]) + 1
                   /\ DOMAIN log'[v] = 1 .. Len(log[v]) + 1
                   /\ \A i \in 1 .. Len(log[v]) : log'[v][i] = log[v][i]
                   /\ log'[v][Len(log[v]) + 1] = k
<1> DEFINE S == DOMAIN frames[k].entries \cap selected
<1>1. /\ data' = [v \in DecoderVars |-> IF v \in S THEN Rebuild(v, k, decHist) ELSE data[v]]
      /\ decHist' = [v \in DecoderVars |->
                       IF v \in S THEN DecHistAfter(v, k, decHist) ELSE decHist[v]]
      /\ log' = [v \in DecoderVars |-> IF v \in S THEN Append(log[v], k) ELSE log[v]]
  BY DEF Decompress
<1>2. log \in [DecoderVars -> Seq(1 .. MaxFrames)]  BY DEF ReaderShape
<1>3. k \in 1 .. MaxFrames
  BY NumbersOf, TimeSeriesAssumption DEF WInv, Shape
<1>4. \A v \in S : Has(v, k) /\ v \in Vars  BY DEF Has
<1> HIDE DEF S
<1>5. \A v \in DecoderVars :
        /\ Len(log[v]) \in Nat /\ DOMAIN log[v] = 1 .. Len(log[v])
        /\ log[v] \in Seq(1 .. MaxFrames)
        /\ v \notin S => log'[v] = log[v] /\ decHist'[v] = decHist[v] /\ data'[v] = data[v]
        /\ v \in S => /\ log'[v] = Append(log[v], k)
                      /\ decHist'[v] = DecHistAfter(v, k, decHist)
                      /\ data'[v] = Rebuild(v, k, decHist)
  BY <1>1, <1>2
<1>6. \A v \in S \cap DecoderVars :
        /\ log'[v] \in Seq(1 .. MaxFrames)
        /\ Len(log'[v]) = Len(log[v]) + 1 /\ DOMAIN log'[v] = 1 .. Len(log[v]) + 1
        /\ \A i \in 1 .. Len(log[v]) : log'[v][i] = log[v][i]
        /\ log'[v][Len(log[v]) + 1] = k
  <2>1. \A s \in Seq(1 .. MaxFrames) :
          /\ Append(s, k) \in Seq(1 .. MaxFrames)
          /\ Len(Append(s, k)) = Len(s) + 1 /\ DOMAIN Append(s, k) = 1 .. Len(s) + 1
          /\ \A i \in 1 .. Len(s) : Append(s, k)[i] = s[i]
          /\ Append(s, k)[Len(s) + 1] = k
    BY <1>3
  <2> TAKE v \in S \cap DecoderVars
  <2>2. log[v] \in Seq(1 .. MaxFrames) /\ log'[v] = Append(log[v], k)  BY <1>5
  <2> QED  BY <2>1, <2>2
<1> QED  BY <1>4, <1>5, <1>6 DEF S

LEMMA DecompressReader ==
  ASSUME WInv, ReaderShape,
         NEW k \in DOMAIN frames, NEW selected \in SUBSET Vars,
         Decompress(k, selected), DOMAIN frames[k].entries \subseteq DecoderVars
  PROVE  ReaderShape' /\ (EntropyType = "huffman" /\ Reader => Reader')
<1> DEFINE S == DOMAIN frames[k].entries \cap selected
<1>1. /\ data' = [v \in DecoderVars |-> IF v \in S THEN Rebuild(v, k, decHist) ELSE data[v]]
      /\ decHist' = [v \in DecoderVars |->
                       IF v \in S THEN DecHistAfter(v, k, decHist) ELSE decHist[v]]
      /\ log' = [v \in DecoderVars |-> IF v \in S THEN Append(log[v], k) ELSE log[v]]
      /\ crashed' = crashed /\ frames' = frames
  BY DEF Decompress, encoder
<1>2. /\ decHist \in [DecoderVars -> -1 .. MaxFrames] /\ data \in [DecoderVars -> -1 .. MaxFrames]
      /\ crashed \in BOOLEAN
      /\ \A v \in DecoderVars : \A i \in DOMAIN log[v] : Has(v, log[v][i])
      /\ Shape
  BY DEF WInv, ReaderShape
<1>4. \A v \in S : Has(v, k) /\ v \in Vars  BY DEF Has
<1>r. \A v \in DecoderVars :
        /\ Len(log[v]) \in Nat /\ DOMAIN log[v] = 1 .. Len(log[v])
        /\ log[v] \in Seq(1 .. MaxFrames)
        /\ v \notin S => log'[v] = log[v] /\ decHist'[v] = decHist[v] /\ data'[v] = data[v]
        /\ v \in S =>
             /\ decHist'[v] = DecHistAfter(v, k, decHist)
             /\ data'[v] = Rebuild(v, k, decHist)
             /\ log'[v] \in Seq(1 .. MaxFrames)
             /\ Len(log'[v]) = Len(log[v]) + 1
             /\ DOMAIN log'[v] = 1 .. Len(log[v]) + 1
             /\ \A i \in 1 .. Len(log[v]) : log'[v][i] = log[v][i]
             /\ log'[v][Len(log[v]) + 1] = k
  BY Reading
<1> HIDE DEF S
<1>5. \A v \in DecoderVars :
        /\ Len(log[v]) \in Nat /\ DOMAIN log[v] = 1 .. Len(log[v])
        /\ log[v] \in Seq(1 .. MaxFrames)
        /\ v \notin S => log'[v] = log[v] /\ decHist'[v] = decHist[v] /\ data'[v] = data[v]
        /\ v \in S => /\ decHist'[v] = DecHistAfter(v, k, decHist)
                      /\ data'[v] = Rebuild(v, k, decHist)
  BY <1>r
<1>6. \A v \in S \cap DecoderVars :
        /\ log'[v] \in Seq(1 .. MaxFrames)
        /\ Len(log'[v]) = Len(log[v]) + 1 /\ DOMAIN log'[v] = 1 .. Len(log[v]) + 1
        /\ \A i \in 1 .. Len(log[v]) : log'[v][i] = log[v][i]
        /\ log'[v][Len(log[v]) + 1] = k
  BY <1>r
<1>7. ReaderShape'
  <2>1. \A v \in S \cap DecoderVars : /\ DecHistAfter(v, k, decHist) \in -1 .. MaxFrames
                                     /\ Rebuild(v, k, decHist) \in -1 .. MaxFrames
    <3> TAKE v \in S \cap DecoderVars
    <3>1. decHist[v] \in -1 .. MaxFrames  BY <1>2
    <3> QED  BY <3>1, <1>2, <1>4, Rebuilt
  <2>2. decHist' \in [DecoderVars -> -1 .. MaxFrames]  BY <1>1, <1>2, <2>1
  <2>3. data' \in [DecoderVars -> -1 .. MaxFrames]  BY <1>1, <1>2, <2>1
  <2>4. log' \in [DecoderVars -> Seq(1 .. MaxFrames)]
    <3>1. \A v \in DecoderVars : log'[v] \in Seq(1 .. MaxFrames)  BY <1>5, <1>6
    <3>2. log' = [v \in DecoderVars |-> log'[v]]  BY <1>1
    <3> QED  BY <3>1, <3>2
  <2>5. \A v \in DecoderVars : \A i \in DOMAIN log'[v] : Has(v, log'[v][i])
    <3> TAKE v \in DecoderVars
    <3> TAKE i \in DOMAIN log'[v]
    <3>1. CASE v \notin S  BY <3>1, <1>2, <1>5
    <3>2. CASE v \in S
      <4>1. i \in 1 .. Len(log[v]) \/ i = Len(log[v]) + 1  BY <3>2, <1>5, <1>6
      <4>2. CASE i \in 1 .. Len(log[v])  BY <4>2, <3>2, <1>2, <1>5, <1>6
      <4>3. CASE i = Len(log[v]) + 1  BY <4>3, <3>2, <1>4, <1>6
      <4> QED  BY <4>1, <4>2, <4>3
    <3> QED  BY <3>1, <3>2
  <2> QED  BY <1>1, <1>2, <2>2, <2>3, <2>4, <2>5 DEF ReaderShape, Has
<1>8. ASSUME EntropyType = "huffman", Reader PROVE Reader'
  <2>1. SUFFICES ASSUME NEW v \in DecoderVars, NEW i \in 1 .. Len(log'[v]),
                        Window(v, i, Len(log[v]))', Entry(v, log'[v][i]).type = 0
                 PROVE  /\ decHist'[v] = log'[v][Len(log'[v])]
                        /\ data'[v] = log'[v][Len(log'[v])]
    BY <1>1 DEF Reader, Entry
  <2>2. CASE v \notin S
    <3>1. Window(v, i, Len(log[v]))
      BY <2>1, <2>2, <1>1, <1>5 DEF Window, Linked, Entry
    <3> QED  BY <3>1, <2>1, <2>2, <1>8, <1>5 DEF Reader
  <2>3. CASE v \in S
    <3> DEFINE n == Len(log[v])
    <3>1. /\ n \in Nat /\ Len(log'[v]) = n + 1 /\ log'[v][n + 1] = k /\ v \in Vars
          /\ \A j \in 1 .. n : log'[v][j] = log[v][j]
      BY <2>3, <1>4, <1>5, <1>6
    <3>2. /\ \A j \in i .. n + 1 : /\ log'[v][j] = log'[v][i] + (j - i)
                                 /\ Entry(v, log'[v][j]).form = "coded"
                                 /\ Entry(v, log'[v][j]).asked = "PERIO"
          /\ \A j \in i .. n + 1 : \A l \in j .. n + 1 : Linked(v, log'[v][j], log'[v][l])
      <4>1. frames' = frames /\ Len(log'[v]) = n + 1  BY <1>1, <3>1
      <4>2. Window(v, i, Len(log[v]))'  BY <2>1
      <4>3. /\ \A j \in i .. Len(log'[v]) :
                 /\ log'[v][j] = log'[v][i] + (j - i)
                 /\ frames'[log'[v][j]].entries[v].form = "coded"
                 /\ frames'[log'[v][j]].entries[v].asked = "PERIO"
            /\ \A j \in i .. Len(log'[v]) : \A l \in j .. Len(log'[v]) :
                 LET a == frames'[log'[v][j]].entries[v]
                     b == frames'[log'[v][l]].entries[v]
                 IN IF a.started = b.started
                    THEN a.born = b.born /\ a.readAt = b.readAt
                    ELSE b.born = b.started /\ b.readAt = b.started
        BY <4>2 DEF Window, Linked, Entry
      <4>4. ASSUME NEW j \in i .. n + 1
            PROVE  /\ log'[v][j] = log'[v][i] + (j - i)
                   /\ Entry(v, log'[v][j]).form = "coded"
                   /\ Entry(v, log'[v][j]).asked = "PERIO"
        BY <4>1, <4>3 DEF Entry
      <4>5. ASSUME NEW j \in i .. n + 1, NEW l \in j .. n + 1
            PROVE  Linked(v, log'[v][j], log'[v][l])
        BY <4>1, <4>3 DEF Linked, Entry
      <4> QED  BY <4>4, <4>5
    <3>3. Entry(v, k).form = "coded" /\ Entry(v, k).asked = "PERIO"  BY <2>1, <3>1, <3>2
    <3>4. Rebuild(v, k, decHist) = k
      <4>1. CASE i = n + 1
        <5>1. Entry(v, k).type = 0  BY <2>1, <3>1, <4>1
        <5> QED  BY <5>1 DEF Rebuild, Entry
      <4>2. CASE i # n + 1
        <5>1. i \in 1 .. n /\ n \in 1 .. n /\ i \in Nat  BY <2>1, <3>1, <4>2
        <5>2. Window(v, i, n)
          <6>1. \A j \in i .. n : log'[v][j] = log[v][j] /\ j \in i .. n + 1
            BY <3>1, <5>1
          <6>2. \A j \in i .. n : \A l \in j .. n : l \in i .. n /\ l \in j .. n + 1
            BY <3>1, <5>1
          <6>3. i \in i .. n  BY <5>1
          <6> HIDE DEF n
          <6> QED  BY <3>2, <6>1, <6>2, <6>3 DEF Window
        <5>3. decHist[v] = log[v][n]
          BY <5>1, <5>2, <2>1, <3>1, <1>8 DEF Reader
        <5>4. Has(v, log[v][n])  BY <5>1, <1>2, <1>5
        <5>5. k = log[v][n] + 1
          <6>1. log[v][n] \in Nat /\ log[v][i] \in Nat
            <7>1. log[v] \in Seq(1 .. MaxFrames)  BY <1>5
            <7>2. log[v][n] \in 1 .. MaxFrames /\ log[v][i] \in 1 .. MaxFrames
              BY <7>1, <5>1, ElementOfSeq
            <7> QED  BY <7>2
          <6>2. log'[v][n] = log'[v][i] + (n - i) /\ log'[v][n + 1] = log'[v][i] + (n + 1 - i)
            <7>1. n \in i .. n + 1 /\ n + 1 \in i .. n + 1  BY <3>1, <5>1
            <7> HIDE DEF n
            <7> QED  BY <7>1, <3>2
          <6>3. log'[v][n] = log[v][n] /\ log'[v][i] = log[v][i] /\ log'[v][n + 1] = k
            BY <3>1, <5>1
          <6> HIDE DEF n
          <6> QED  BY <6>1, <6>2, <6>3, <3>1, <5>1
        <5>6. Linked(v, log[v][n], k) /\ Entry(v, log[v][n]).form = "coded"
          <6>1. n \in i .. n + 1 /\ n + 1 \in n .. n + 1  BY <5>1
          <6> QED  BY <6>1, <3>1, <3>2, <5>1
        <5> HIDE DEF n
        <5> QED  BY <5>3, <5>4, <5>5, <5>6, <3>1, <3>3, <2>3, <1>4, <1>8, NextRebuilt
      <4> QED  BY <4>1, <4>2
    <3>5. DecHistAfter(v, k, decHist) = k  BY <3>3, <3>4 DEF DecHistAfter, Entry
    <3> QED  BY <3>1, <3>4, <3>5, <2>3, <1>5
  <2> QED  BY <2>2, <2>3
<1> QED  BY <1>7, <1>8
-----------------------------------------------------------------------------
(* The theorems                                                            *)

\* Every period holds a step that is a multiple of it.
LEMMA Multiple ==
  ASSUME NEW s \in Nat, NEW p \in Nat \ {0}
  PROVE  \E d \in 0 .. p - 1 : (s + d) % p = 0
<1> DEFINE q == s \div p
           r == s % p
<1>1. q \in Nat /\ r \in 0 .. p - 1 /\ s = p * q + r
  OBVIOUS
<1> HIDE DEF q, r
<1>2. CASE r = 0
  <2>1. (s + 0) % p = 0  BY <1>2 DEF r
  <2> QED  BY <2>1
<1>3. CASE r # 0
  <2>1. p - r \in 0 .. p - 1 /\ s + (p - r) = p * (q + 1)
    BY <1>1, <1>3
  <2>2. (p * (q + 1)) % p = 0
    <3>1. \A m \in Nat : (p * m) % p = 0  OBVIOUS
    <3> QED  BY <3>1, <1>1
  <2> QED  BY <2>1, <2>2
<1> QED  BY <1>2, <1>3

\* Every step keeps what the entries say.
LEMMA WriterStep ==
  ASSUME WInv, [Next]_vars
  PROVE  WInv' /\ (UNCHANGED encoder \/ UNCHANGED decoder)
<1>1. ASSUME UNCHANGED encoder PROVE WInv'
  BY <1>1 DEF encoder, WInv, Shape, Writer, Counted, FromZero, Periodic, Based, Has, Entry
<1>2. CASE UNCHANGED vars  BY <1>1, <1>2 DEF vars
<1>3. ASSUME NEW S \in SUBSET Vars, NEW t \in CmprTypes, NEW form \in [S -> Forms],
             Compress(S, t, form)
      PROVE  WInv' /\ UNCHANGED decoder
  BY <1>3, CompressWriter DEF Compress
<1>4. ASSUME NEW k \in DOMAIN frames, NEW selected \in SUBSET Vars, Decompress(k, selected)
      PROVE  UNCHANGED encoder
  BY <1>4 DEF Decompress
<1>5. ASSUME NEW k \in DOMAIN frames, NEW selected \in SUBSET Vars,
             DecompressHere(k, selected)
      PROVE  WInv' /\ UNCHANGED decoder
  BY <1>5, DecompressHereWriter DEF DecompressHere
<1>6. CASE RestartEncoder  BY <1>6, RestartEncoderWriter DEF RestartEncoder
<1>7. ASSUME NEW v \in Vars, RegisterAnew(v) PROVE WInv' /\ UNCHANGED decoder
  BY <1>7, RegisterAnewWriter DEF RegisterAnew
<1>8. CASE RestartDecoder  BY <1>1, <1>8 DEF RestartDecoder
<1> QED  BY <1>1, <1>2, <1>3, <1>4, <1>5, <1>6, <1>7, <1>8 DEF Next

LEMMA FramesStay ==
  ASSUME WInv, Next, UNCHANGED decoder
  PROVE  \A k \in DOMAIN frames : k \in DOMAIN frames' /\ frames'[k] = frames[k]
<1>1. ASSUME NEW S \in SUBSET Vars, NEW t \in CmprTypes, NEW form \in [S -> Forms],
             Compress(S, t, form)
      PROVE  \A k \in DOMAIN frames : k \in DOMAIN frames' /\ frames'[k] = frames[k]
  <2>1. /\ Len(frames) \in Nat
        /\ DOMAIN frames = 1 .. Len(frames) /\ DOMAIN frames' = 1 .. Len(frames) + 1
        /\ \A k \in DOMAIN frames : frames'[k] = frames[k]
    BY <1>1, Written DEF WInv
  <2> QED  BY <2>1
<1>2. ASSUME NEW k \in DOMAIN frames, NEW selected \in SUBSET Vars,
             Decompress(k, selected) \/ DecompressHere(k, selected)
      PROVE  frames' = frames
  BY <1>2 DEF Decompress, DecompressHere, encoder
<1>3. CASE RestartEncoder  BY <1>3 DEF RestartEncoder
<1>4. ASSUME NEW v \in Vars, RegisterAnew(v) PROVE frames' = frames
  BY <1>4 DEF RegisterAnew
<1>5. CASE RestartDecoder  BY <1>5 DEF RestartDecoder, encoder
<1> QED  BY <1>1, <1>2, <1>3, <1>4, <1>5 DEF Next

\* Every step keeps the reader's types, and with Huffman codes a reader that
\* has kept up goes on doing so.
LEMMA NextHolds ==
  ASSUME WInv, ReaderShape, [Next]_vars
  PROVE  WInv' /\ ReaderShape' /\ (EntropyType = "huffman" /\ Reader => Reader')
<1>2. WInv'  BY WriterStep
<1>3. CASE UNCHANGED vars
  <2>1. UNCHANGED decoder /\ frames' = frames  BY <1>3 DEF vars, encoder
  <2> QED  BY <1>2, <2>1, WriterKeepsReader
<1>4. CASE Next /\ UNCHANGED decoder
  BY <1>2, <1>4, FramesStay, WriterKeepsReader
<1>5. ASSUME NEW k \in DOMAIN frames, NEW selected \in SUBSET Vars, Decompress(k, selected)
      PROVE  ReaderShape' /\ (EntropyType = "huffman" /\ Reader => Reader')
  <2>1. CASE DOMAIN frames[k].entries \subseteq DecoderVars
    BY <1>5, <2>1, DecompressReader
  <2>2. CASE ~(DOMAIN frames[k].entries \subseteq DecoderVars)
    <3>1. /\ crashed' = TRUE /\ data' = data /\ decHist' = decHist /\ log' = log
          /\ frames' = frames
      BY <1>5, <2>2 DEF Decompress, encoder
    <3>2. ReaderShape' /\ (Reader => Reader')
      BY <3>1 DEF ReaderShape, Reader, Window, Linked, Has, Entry
    <3> QED  BY <3>2
  <2> QED  BY <2>1, <2>2
<1>6. CASE RestartDecoder  BY <1>6, RestartDecoderHolds DEF IInv
<1>7. ASSUME Next PROVE \/ UNCHANGED decoder \/ RestartDecoder
                        \/ \E k \in DOMAIN frames, selected \in SUBSET Vars :
                             Decompress(k, selected)
  BY <1>7 DEF Next, Compress, DecompressHere, RestartEncoder, RegisterAnew
<1> QED  BY <1>2, <1>3, <1>4, <1>5, <1>6, <1>7

LEMMA IInvAlways == ASSUME EntropyType = "huffman" PROVE Spec => []IInv
<1>1. Init => IInv  BY InitHolds
<1>2. IInv /\ [Next]_vars => IInv'  BY NextHolds DEF IInv
<1> QED  BY <1>1, <1>2, PTL DEF Spec

\* The histories name frames, the steps stay in range and the entries have
\* the fields they are given, whatever the entropy stage and the period.
THEOREM TypeCorrect == Spec => []TypeOK
<1> DEFINE T == WInv /\ ReaderShape
<1>1. Init => T  BY InitHolds DEF IInv
<1>2. T /\ [Next]_vars => T'  BY NextHolds
<1>3. T => TypeOK
  <2> SUFFICES ASSUME WInv, ReaderShape PROVE TypeOK  OBVIOUS
  <2>1. Shape  BY DEF WInv
  <2>2. currentStep \in 0 .. MaxFrames
    BY <2>1, NumbersOf, TimeSeriesAssumption DEF Shape
  <2>3. ASSUME NEW k \in DOMAIN frames, NEW v \in DOMAIN frames[k].entries
        PROVE  frames[k].entries[v] \in
                 [form : Forms, type : {0, 1}, asked : CmprTypes, base : -1 .. MaxFrames,
                  started : 0 .. breaks, born : 0 .. breaks, readAt : 0 .. breaks]
    <3>1. frames[k] \in Frame  BY <2>1 DEF Shape
    <3>2. frames[k].entries \in UNION {[S -> EntrySet] : S \in SUBSET Vars}
      <4>1. \A f \in Frame : f.entries \in UNION {[S -> EntrySet] : S \in SUBSET Vars}
        BY DEF Frame
      <4> QED  BY <3>1, <4>1
    <3>3. PICK S \in SUBSET Vars : frames[k].entries \in [S -> EntrySet]  BY <3>2
    <3>4. frames[k].entries[v] \in EntrySet  BY <3>3
    <3>5. /\ frames[k].entries[v].started \in 0 .. breaks
          /\ frames[k].entries[v].born \in 0 .. breaks
          /\ frames[k].entries[v].readAt \in 0 .. breaks
      BY <2>1 DEF Shape, Entry
    <3> QED  BY <3>4, <3>5 DEF EntrySet
  <2>4. /\ encHist \in [Vars -> -1 .. MaxFrames] /\ encType \in [Vars -> {0, 1}]
        /\ breaks \in 0 .. MaxBreaks /\ started \in 0 .. breaks
        /\ born \in [Vars -> started .. breaks] /\ readAt \in started .. breaks
    BY <2>1 DEF Shape
  <2> QED  BY <2>2, <2>3, <2>4 DEF TypeOK, ReaderShape
<1> QED  BY <1>1, <1>2, <1>3, PTL DEF Spec

\* A period of frames read in full holds a snapshot.
LEMMA SnapshotInPeriod ==
  ASSUME WInv, ReaderShape, NEW v \in DecoderVars,
         PeriodRead(v, Len(log[v])), Unbroken(v, Len(log[v]))
  PROVE  \E i \in 1 .. Len(log[v]) :
           Window(v, i, Len(log[v])) /\ Entry(v, log[v][i]).type = 0
<1> DEFINE n == Len(log[v])
           p == snapshotCmprStep
           first == n - p + 1
           at(i) == log[v][i]
<1>1. /\ p \in Nat /\ p >= 1 /\ n \in Nat /\ n >= p /\ first \in 1 .. n /\ v \in Vars
      /\ log[v] \in Seq(1 .. MaxFrames) /\ DOMAIN log[v] = 1 .. n
  BY TimeSeriesAssumption DEF ReaderShape, PeriodRead
<1>2. \A i \in 1 .. n : /\ Has(v, at(i)) /\ at(i) \in Nat /\ at(i) \in DOMAIN frames
                        /\ frames[at(i)].step \in Nat
  <2> TAKE i \in 1 .. n
  <2>1. Has(v, at(i))  BY <1>1 DEF ReaderShape
  <2> QED  BY <2>1, NumbersOf DEF Has, WInv
<1>3. \A j \in first .. n : /\ at(j) = at(first) + (j - first)
                            /\ Entry(v, at(j)).form = "coded"
                            /\ Entry(v, at(j)).asked = "PERIO"
  <2> DEFINE recent == SubSeq(log[v], first, n)
  <2>1. DOMAIN recent = 1 .. p /\ \A i \in 1 .. p : recent[i] = log[v][first + i - 1]
    BY <1>1, SubSeqProperties
  <2>2. /\ \A i \in DOMAIN recent : recent[i] = recent[1] + (i - 1)
        /\ \A i \in DOMAIN recent : /\ Entry(v, recent[i]).form = "coded"
                                    /\ Entry(v, recent[i]).asked = "PERIO"
    BY DEF PeriodRead, Consecutive
  <2> HIDE DEF recent
  <2> TAKE j \in first .. n
  <2>3. j - first + 1 \in 1 .. p /\ first + (j - first + 1) - 1 = j /\ 1 \in 1 .. p
        /\ first + 1 - 1 = first /\ (j - first + 1) - 1 = j - first
    <3>1. first = n - p + 1  OBVIOUS
    <3> HIDE DEF n, p, first, at
    <3> QED  BY <1>1, <3>1
  <2>4. recent[j - first + 1] = at(j) /\ recent[1] = at(first)
    BY <2>1, <2>3
  <2> QED  BY <2>1, <2>2, <2>3, <2>4
<1>4. \A i \in first .. n : \A j \in i .. n : Linked(v, at(i), at(j))
  BY DEF Unbroken, Linked
<1> HIDE DEF n, p, first, at
<1>5. \A i \in first .. n : Window(v, i, n)
  <2> TAKE i \in first .. n
  <2>1. \A j \in i .. n : j \in first .. n  BY <1>1
  <2>2. \A j \in i .. n : at(j) = at(i) + (j - i)
    <3> TAKE j \in i .. n
    <3>1. at(j) = at(first) + (j - first) /\ at(i) = at(first) + (i - first)
      BY <1>3, <2>1
    <3>2. at(first) \in Nat  BY <1>1, <1>2
    <3> QED  BY <3>1, <3>2, <1>1
  <2> QED  BY <1>3, <1>4, <2>1, <2>2 DEF Window, at
<1>6. \A i, j \in first .. n : i < j =>
        /\ at(i) < at(j) /\ at(j) - at(i) = j - i
        /\ i \in 1 .. n /\ j \in 1 .. n /\ Linked(v, at(i), at(j))
  <2> TAKE i, j \in first .. n
  <2> HAVE i < j
  <2>1. at(j) = at(first) + (j - first) /\ at(i) = at(first) + (i - first)
    BY <1>3
  <2>2. at(first) \in Nat  BY <1>1, <1>2
  <2> QED  BY <2>1, <2>2, <1>1, <1>4
<1>7. \A i \in first .. n : Entry(v, at(i)).started = Entry(v, at(n)).started =>
        frames[at(n)].step - frames[at(i)].step = n - i
  <2> TAKE i \in first .. n
  <2> HAVE Entry(v, at(i)).started = Entry(v, at(n)).started
  <2>1. CASE i = n  BY <2>1, <1>1, <1>2
  <2>2. CASE i # n
    <3>1. i < n /\ n \in first .. n /\ i \in 1 .. n /\ n \in 1 .. n  BY <2>2, <1>1
    <3>2. Entry(v, at(i)).readAt = Entry(v, at(n)).readAt  BY <3>1, <1>6 DEF Linked
    <3>3. frames[at(n)].step - frames[at(i)].step = at(n) - at(i)
      BY <1>1, <1>2, <1>6, <3>1, <3>2 DEF WInv, Writer, Counted
    <3> QED  BY <3>1, <3>3, <1>6
  <2> QED  BY <2>1, <2>2
<1>8. \A i \in first .. n : Entry(v, at(i)).started # Entry(v, at(n)).started =>
        frames[at(n)].step < n - i
  <2> TAKE i \in first .. n
  <2> HAVE Entry(v, at(i)).started # Entry(v, at(n)).started
  <2>1. i < n /\ n \in first .. n /\ i \in 1 .. n /\ n \in 1 .. n  BY <1>1
  <2>2. Entry(v, at(n)).readAt = Entry(v, at(n)).started  BY <2>1, <1>6 DEF Linked
  <2>3. frames[at(n)].step < at(n) - at(i)
    BY <1>1, <1>2, <1>6, <2>1, <2>2 DEF WInv, Writer, FromZero
  <2> QED  BY <2>1, <2>3, <1>6
<1>9. \E i \in first .. n : frames[at(i)].step % p = 0
  <2>1. CASE \A i \in first .. n : Entry(v, at(i)).started = Entry(v, at(n)).started
    <3> DEFINE s == frames[at(first)].step
    <3>1. s \in Nat  BY <1>1, <1>2
    <3> HIDE DEF s
    <3>2. PICK d \in 0 .. p - 1 : (s + d) % p = 0
      <4>1. p \in Nat \ {0}  BY <1>1
      <4> QED  BY <3>1, <4>1, Multiple
    <3>3. first + d \in first .. n /\ first \in first .. n /\ first + d \in 1 .. n
      BY <3>2, <1>1 DEF first
    <3>4. frames[at(first + d)].step = s + d
      <4>1. /\ frames[at(n)].step - frames[at(first + d)].step = n - (first + d)
            /\ frames[at(n)].step - s = n - first
        BY <3>3, <2>1, <1>7 DEF s
      <4>2. frames[at(n)].step \in Nat /\ frames[at(first + d)].step \in Nat
        BY <3>3, <1>1, <1>2
      <4> QED  BY <4>1, <4>2, <3>1, <3>2, <1>1
    <3> QED  BY <3>2, <3>3, <3>4
  <2>2. CASE \E i \in first .. n : Entry(v, at(i)).started # Entry(v, at(n)).started
    <3> DEFINE s == frames[at(n)].step
    <3>1. s \in Nat  BY <1>1, <1>2
    <3>2. PICK i \in first .. n : Entry(v, at(i)).started # Entry(v, at(n)).started
      BY <2>2
    <3>3. s < n - i  BY <3>2, <1>8
    <3>4. n - s \in first .. n /\ n - s \in 1 .. n /\ ~(s < n - (n - s))
      BY <3>1, <3>2, <3>3, <1>1
    <3>5. Entry(v, at(n - s)).started = Entry(v, at(n)).started
      BY <3>4, <1>8
    <3>6. s - frames[at(n - s)].step = n - (n - s)
      BY <3>4, <3>5, <1>7
    <3>7. frames[at(n - s)].step = 0
      <4>1. frames[at(n - s)].step \in Nat  BY <3>4, <1>2
      <4> HIDE DEF s
      <4> QED  BY <4>1, <3>1, <3>6, <1>1
    <3>8. 0 % p = 0  BY <1>1
    <3> QED  BY <3>4, <3>7, <3>8
  <2> QED  BY <2>1, <2>2
<1>10. PICK i \in first .. n : frames[at(i)].step % p = 0  BY <1>9
<1>11. i \in 1 .. n  BY <1>1
<1>12. Entry(v, at(i)).type = 0
  BY <1>1, <1>2, <1>3, <1>10, <1>11 DEF WInv, Writer, Periodic, p
<1> QED  BY <1>5, <1>11, <1>12 DEF n, at

\* A reader of periodic frames is right again after one period, whatever the
\* period, the variables and the number of frames: the entries of each
\* variable are Huffman codes, and among the frames of the period it was not
\* registered anew and no frame was read by the writer.
THEOREM RightAgain ==
  ASSUME EntropyType = "huffman" PROVE Spec => []RightWithinPeriod
<1>1. IInv => RightWithinPeriod
  <2> SUFFICES ASSUME IInv, NEW v \in DecoderVars,
                      PeriodRead(v, Len(log[v])), Unbroken(v, Len(log[v]))
               PROVE  data[v] = log[v][Len(log[v])]
    BY DEF RightWithinPeriod
  <2>1. \E i \in 1 .. Len(log[v]) :
          Window(v, i, Len(log[v])) /\ Entry(v, log[v][i]).type = 0
    BY SnapshotInPeriod DEF IInv
  <2> QED  BY <2>1 DEF IInv, Reader
<1>2. Spec => []IInv  BY IInvAlways
<1> QED  BY <1>1, <1>2, PTL
-----------------------------------------------------------------------------
(* A whole chain suffices                                                  *)

\* j is the latest of the first n frames that moved the history of v since the
\* break b; there is none.
Latest(v, j, n, b) ==
  /\ Carries(v, j) /\ Entry(v, j).born = b
  /\ \A i \in j + 1 .. n : Carries(v, i) => Entry(v, i).born # b
None(v, n, b) == \A i \in 1 .. n : Carries(v, i) => Entry(v, i).born # b

\* What an entry, and the next one to be written, is predicted from.
Sourced ==
  /\ \A v \in Vars : \A k \in 1 .. Len(frames) : Has(v, k) =>
       /\ \A j \in 1 .. k - 1 :
            /\ Latest(v, j, k - 1, Entry(v, k).born) /\ Entry(v, j).readAt = Entry(v, k).readAt
            => Entry(v, k).base = j
       /\ None(v, k - 1, Entry(v, k).born) /\ Entry(v, k).readAt <= Entry(v, k).born
            => Entry(v, k).base = 0
  /\ \A v \in Vars :
       /\ \A j \in 1 .. Len(frames) :
            Latest(v, j, Len(frames), born[v]) /\ Entry(v, j).readAt = readAt
            => encHist[v] = j
       /\ None(v, Len(frames), born[v]) /\ readAt <= born[v] => encHist[v] = 0

LEMMA OldSame ==
  ASSUME NEW n \in Nat, \A j \in 1 .. n : frames'[j] = frames[j], NEW v
  PROVE  /\ \A j \in 1 .. n : Entry(v, j)' = Entry(v, j) /\ (Carries(v, j)' <=> Carries(v, j))
         /\ \A b : None(v, n, b)' <=> None(v, n, b)
         /\ \A j \in 1 .. n : \A b : Latest(v, j, n, b)' <=> Latest(v, j, n, b)
<1>1. \A j \in 1 .. n : Entry(v, j)' = Entry(v, j)  BY DEF Entry
<1>2. \A j \in 1 .. n : Carries(v, j)' <=> Carries(v, j)  BY <1>1 DEF Carries
<1>3. \A b : None(v, n, b)' <=> None(v, n, b)  BY <1>1, <1>2 DEF None
<1>4. \A j \in 1 .. n : \A b : Latest(v, j, n, b)' <=> Latest(v, j, n, b)
  <2> TAKE j \in 1 .. n
  <2> TAKE b
  <2>1. \A i \in j + 1 .. n : i \in 1 .. n  OBVIOUS
  <2> QED  BY <1>1, <1>2, <2>1 DEF Latest
<1> QED  BY <1>1, <1>2, <1>3, <1>4

LEMMA CompressSourced ==
  ASSUME Shape, Sourced, NEW S \in SUBSET Vars, NEW t \in CmprTypes,
         NEW form \in [S -> Forms], Compress(S, t, form)
  PROVE  Sourced'
<1> PICK n : n = Len(frames)  OBVIOUS
<1>g. Extended(S, t, form)  BY Grown
<1>1. /\ n \in Nat /\ Len(frames') = n + 1 /\ DOMAIN frames' = 1 .. n + 1
      /\ \A k \in 1 .. n : k \in DOMAIN frames /\ frames'[k] = frames[k]
  BY Written
<1>2. started' = started /\ readAt' = readAt /\ born' = born  BY DEF Compress
<1>3. \A v \in Vars, k \in 1 .. n : Has(v, k)' <=> Has(v, k)  BY <1>1 DEF Has
<1>4. ASSUME NEW v \in Vars, NEW k \in 1 .. n + 1, Has(v, k)'
      PROVE  /\ \A j \in 1 .. k - 1 :
                  /\ Latest(v, j, k - 1, Entry(v, k).born)'
                  /\ Entry(v, j)'.readAt = Entry(v, k)'.readAt
                  => Entry(v, k)'.base = j
             /\ None(v, k - 1, Entry(v, k).born)' /\ Entry(v, k)'.readAt <= Entry(v, k)'.born
                  => Entry(v, k)'.base = 0
  <2> PICK l : l = k - 1  OBVIOUS
  <2> PICK b : b = Entry(v, k)'.born  OBVIOUS
  <2>1. l \in Nat /\ \A j \in 1 .. l : j \in 1 .. n /\ frames'[j] = frames[j]
    BY <1>1
  <2>2. /\ \A j \in 1 .. l : Entry(v, j)' = Entry(v, j)
        /\ None(v, l, b)' <=> None(v, l, b)
        /\ \A j \in 1 .. l : Latest(v, j, l, b)' <=> Latest(v, j, l, b)
    BY <2>1, OldSame
  <2>3. CASE k # n + 1
    <3>1. k \in 1 .. n /\ k \in 1 .. Len(frames)  BY <2>3, <1>1
    <3>2. Entry(v, k)' = Entry(v, k) /\ Has(v, k)  BY <3>1, <1>1, <1>3, <1>4 DEF Entry
    <3>3. /\ \A j \in 1 .. l : Latest(v, j, l, b) /\ Entry(v, j).readAt = Entry(v, k).readAt
               => Entry(v, k).base = j
          /\ None(v, l, b) /\ Entry(v, k).readAt <= b => Entry(v, k).base = 0
      BY <3>1, <3>2 DEF Sourced
    <3> QED  BY <2>2, <3>2, <3>3
  <2>4. CASE k = n + 1
    <3>1. /\ Entry(v, k)'.base = encHist[v] /\ Entry(v, k)'.born = born[v]
          /\ Entry(v, k)'.readAt = readAt
      BY <2>4, <1>4, <1>g DEF Extended, Has, Entry
    <3>2. l = Len(frames) /\ b = born[v]  BY <3>1, <2>4, <1>1
    <3>3. /\ \A j \in 1 .. l : Latest(v, j, l, b) /\ Entry(v, j).readAt = readAt
               => encHist[v] = j
          /\ None(v, l, b) /\ readAt <= b => encHist[v] = 0
      BY <3>2 DEF Sourced
    <3> QED  BY <2>2, <3>1, <3>2, <3>3
  <2> QED  BY <2>3, <2>4
<1>5. ASSUME NEW v \in Vars
      PROVE  /\ \A j \in 1 .. n + 1 :
                  Latest(v, j, n + 1, born[v])' /\ Entry(v, j)'.readAt = readAt
                  => encHist'[v] = j
             /\ None(v, n + 1, born[v])' /\ readAt <= born[v] => encHist'[v] = 0
  <2> PICK b : b = born[v]  OBVIOUS
  <2> PICK m : m = n + 1  OBVIOUS
  <2>1. b = born'[v] /\ m = Len(frames) + 1  BY <1>1, <1>2
  <2>2. /\ \A j \in 1 .. n : Entry(v, j)' = Entry(v, j) /\ (Carries(v, j)' <=> Carries(v, j))
        /\ None(v, n, b)' <=> None(v, n, b)
        /\ \A j \in 1 .. n : Latest(v, j, n, b)' <=> Latest(v, j, n, b)
    BY <1>1, OldSame
  <2>3. encHist' = [w \in Vars |-> IF w \in S THEN HistAfter(w, form[w]) ELSE encHist[w]]
    BY DEF Compress
  <2>4. CASE v \in S /\ form[v] # "constant"
    <3>1. encHist'[v] = m  BY <2>1, <2>3, <2>4 DEF HistAfter
    <3>2. Carries(v, m)' /\ Entry(v, m)'.born = b
      BY <2>1, <2>4, <1>1, <1>g DEF Extended, Carries, Entry
    <3>3. \A j \in 1 .. m : Latest(v, j, m, b)' => j = m
      <4> TAKE j \in 1 .. m
      <4>1. j # m => m \in j + 1 .. m  BY <1>1
      <4> QED  BY <4>1, <3>2 DEF Latest
    <3>4. ~ None(v, m, b)'
      <4>1. m \in 1 .. m  BY <1>1
      <4> QED  BY <4>1, <3>2 DEF None
    <3> QED  BY <3>1, <3>3, <3>4, <2>1
  <2>5. CASE ~ (v \in S /\ form[v] # "constant")
    <3>1. encHist'[v] = encHist[v]  BY <2>3, <2>5 DEF HistAfter
    <3>2. ~ Carries(v, m)'
      BY <2>1, <2>5, <1>1, <1>g DEF Extended, Carries, Entry
    <3>3. \A j \in 1 .. m : Latest(v, j, m, b)' => j \in 1 .. n /\ Latest(v, j, n, b)'
      <4> TAKE j \in 1 .. m
      <4> HAVE Latest(v, j, m, b)'
      <4>1. Carries(v, j)' /\ Entry(v, j)'.born = b
            /\ \A i \in j + 1 .. m : Carries(v, i)' => Entry(v, i)'.born # b
        BY DEF Latest
      <4>2. j # m  BY <3>2, <4>1
      <4>3. j \in 1 .. n /\ \A i \in j + 1 .. n : i \in j + 1 .. m  BY <4>2, <1>1
      <4> QED  BY <4>1, <4>3 DEF Latest
    <3>4. None(v, m, b)' => None(v, n, b)'
      <4>1. \A i \in 1 .. n : i \in 1 .. m  BY <1>1
      <4> QED  BY <4>1 DEF None
    <3>5. /\ \A j \in 1 .. n : Latest(v, j, n, b) /\ Entry(v, j).readAt = readAt
               => encHist[v] = j
          /\ None(v, n, b) /\ readAt <= b => encHist[v] = 0
      BY DEF Sourced
    <3> QED  BY <3>1, <3>3, <3>4, <3>5, <2>1, <2>2
  <2> QED  BY <2>4, <2>5
<1> QED  BY <1>1, <1>2, <1>4, <1>5 DEF Sourced

\* After a break the history is zero, or was read; no entry knows of it.
LEMMA BreakSourced ==
  ASSUME Shape, Sourced, frames' = frames, breaks' = breaks + 1,
         born' \in [Vars -> Nat], readAt' \in Nat,
         \A v \in Vars :
           \/ encHist'[v] = 0 /\ born'[v] = breaks'
           \/ readAt' = breaks' /\ born'[v] # breaks' /\ born'[v] <= breaks'
           \/ encHist'[v] = encHist[v] /\ born'[v] = born[v] /\ readAt' = readAt
  PROVE  Sourced'
<1> PICK n : n = Len(frames)  OBVIOUS
<1>1. /\ n \in Nat /\ DOMAIN frames = 1 .. n /\ breaks \in Nat /\ readAt \in Nat
  BY NumbersOf
<1>2. \A v : \A k \in 1 .. n : Has(v, k) =>
        Entry(v, k).born # breaks' /\ Entry(v, k).readAt # breaks'
  BY <1>1, Earlier
<1>3. \A v : \A k \in 1 .. n : Carries(v, k) => Has(v, k)  BY <1>1 DEF Carries, Has
<1>4. \A v \in Vars : \A k \in 1 .. n : Has(v, k) =>
        /\ \A j \in 1 .. k - 1 :
             /\ Latest(v, j, k - 1, Entry(v, k).born) /\ Entry(v, j).readAt = Entry(v, k).readAt
             => Entry(v, k).base = j
        /\ None(v, k - 1, Entry(v, k).born) /\ Entry(v, k).readAt <= Entry(v, k).born
             => Entry(v, k).base = 0
  BY DEF Sourced
<1>5. ASSUME NEW v \in Vars
      PROVE  /\ \A j \in 1 .. n :
                  Latest(v, j, n, born'[v]) /\ Entry(v, j).readAt = readAt'
                  => encHist'[v] = j
             /\ None(v, n, born'[v]) /\ readAt' <= born'[v] => encHist'[v] = 0
  <2>1. CASE encHist'[v] = 0 /\ born'[v] = breaks'
    <3>1. \A j \in 1 .. n : ~ Latest(v, j, n, born'[v])  BY <2>1, <1>2, <1>3 DEF Latest
    <3> QED  BY <2>1, <3>1
  <2>2. CASE readAt' = breaks' /\ born'[v] # breaks' /\ born'[v] <= breaks'
    <3>1. \A j \in 1 .. n : Latest(v, j, n, born'[v]) => Entry(v, j).readAt # readAt'
      BY <2>2, <1>2, <1>3 DEF Latest
    <3>2. ~ (readAt' <= born'[v])
      <4>1. born'[v] \in Nat /\ readAt' \in Nat  OBVIOUS
      <4> QED  BY <4>1, <2>2
    <3> QED  BY <3>1, <3>2
  <2>3. CASE encHist'[v] = encHist[v] /\ born'[v] = born[v] /\ readAt' = readAt
    BY <2>3 DEF Sourced
  <2> QED  BY <2>1, <2>2, <2>3
<1>6. \A v \in Vars :
        /\ \A j \in 1 .. Len(frames') :
             Latest(v, j, Len(frames), born[v])' /\ Entry(v, j)'.readAt = readAt'
             => encHist'[v] = j
        /\ None(v, Len(frames), born[v])' /\ readAt' <= born'[v] => encHist'[v] = 0
  BY <1>5, Zenon DEF Latest, None, Carries, Entry
<1>7. \A v \in Vars : \A k \in 1 .. Len(frames') : Has(v, k)' =>
        /\ \A j \in 1 .. k - 1 :
             /\ Latest(v, j, k - 1, Entry(v, k).born)' /\ Entry(v, j)'.readAt = Entry(v, k)'.readAt
             => Entry(v, k)'.base = j
        /\ None(v, k - 1, Entry(v, k).born)' /\ Entry(v, k)'.readAt <= Entry(v, k)'.born
             => Entry(v, k)'.base = 0
  BY <1>4, Zenon DEF Latest, None, Carries, Entry, Has
<1> QED  BY <1>6, <1>7 DEF Sourced

\* What HasChain says, of a sequence of readings, of the m-th; the reader is
\* owed it when neither of the two exceptions applies.
ChainOf(v, s, m) ==
  \E from \in 1 .. m + 1 :
    LET read == {i \in from .. m : Carries(v, s[i])}
    IN /\ {s[i] : i \in read} = Needed(v, s[m])
       /\ \A i, j \in read : i < j => s[i] < s[j]
       /\ Snapshots(v, s[m]) = {} => \A i \in 1 .. from - 1 : ~Carries(v, s[i])
Owed(v, s, m) ==
  ChainOf(v, s, m) /\ ~StoredBefore(v, s[m]) /\ ~ReadBetween(v, s[m])

\* A reader that decoded no codes has the history zero; one whose last codes
\* it was owed has it from them, and the data it was owed.
Kept ==
  \A v \in DecoderVars :
    /\ (\A i \in 1 .. Len(log[v]) : ~Carries(v, log[v][i])) => decHist[v] = 0
    /\ \A m \in 1 .. Len(log[v]) :
         /\ Entry(v, log[v][m]).form = "coded"
         /\ \A i \in m + 1 .. Len(log[v]) : ~Carries(v, log[v][i])
         /\ Owed(v, log[v], m)
         => decHist[v] = log[v][m]
    /\ Len(log[v]) > 0 /\ Owed(v, log[v], Len(log[v])) => data[v] = log[v][Len(log[v])]

LEMMA LeastNat ==
  ASSUME NEW S \in SUBSET Nat, S # {}
  PROVE  \E m \in S : \A x \in S : m <= x
<1> DEFINE R == OpToRel(<, Nat)
<1>1. IsWellFoundedOn(R, Nat)  BY NatLessThanWellFounded
<1>2. \A x, y \in Nat : x < y => <<x, y>> \in R  BY DEF OpToRel
<1> HIDE DEF R
<1>3. PICK m \in S : \A y \in S : ~ (<<y, m>> \in R)  BY <1>1, WFMin
<1>4. ASSUME NEW x \in S PROVE m <= x
  <2>1. x \in Nat /\ m \in Nat  OBVIOUS
  <2>2. ~ (x < m)  BY <1>2, <1>3, <2>1, Zenon
  <2> QED  BY <2>1, <2>2
<1> QED  BY <1>4

LEMMA Greatest ==
  ASSUME NEW n \in Nat, NEW S \in SUBSET (1 .. n), S # {}
  PROVE  \E m \in S : \A x \in S : x <= m
<1> DEFINE T == {n - x : x \in S}
<1>1. T \in SUBSET Nat /\ T # {}
  <2>1. \A x \in S : n - x \in Nat  OBVIOUS
  <2>2. PICK z \in S : TRUE  OBVIOUS
  <2> QED  BY <2>1, <2>2
<1>2. PICK m \in T : \A x \in T : m <= x  BY <1>1, LeastNat
<1>3. PICK y \in S : m = n - y  BY <1>2
<1>4. ASSUME NEW x \in S PROVE x <= y
  <2>1. n - x \in T  OBVIOUS
  <2>2. n - y <= n - x  BY <1>2, <1>3, <2>1
  <2>3. x \in Int /\ y \in Int  OBVIOUS
  <2> QED  BY <2>2, <2>3
<1> QED  BY <1>4

LEMMA FormOf ==
  ASSUME Shape, NEW k, NEW v, Has(v, k)
  PROVE  Entry(v, k).form \in Forms /\ Entry(v, k).type \in {0, 1}
<1>1. frames \in Seq(Frame) /\ k \in DOMAIN frames  BY DEF Shape, Has
<1>2. frames[k] \in Frame  BY <1>1
<1>3. \A f \in Frame : f.entries \in UNION {[T -> EntrySet] : T \in SUBSET Vars}
  BY DEF Frame
<1>4. PICK T \in SUBSET Vars : frames[k].entries \in [T -> EntrySet]
  BY <1>2, <1>3
<1>5. Entry(v, k) \in EntrySet  BY <1>4 DEF Entry, Has
<1>6. \A e \in EntrySet : e.form \in Forms /\ e.type \in {0, 1}  BY DEF EntrySet
<1> QED  BY <1>5, <1>6

\* A temporal frame that ends a chain needs what the last codes before it
\* needed, and itself; or nothing was needed before it.
LEMMA ChainPrefix ==
  ASSUME Shape, NEW v \in Vars, NEW n \in Nat, NEW s,
         \A i \in 1 .. n + 1 : Has(v, s[i]),
         Entry(v, s[n + 1]).form = "coded", Entry(v, s[n + 1]).type = 1,
         Owed(v, s, n + 1)
  PROVE  LET k == s[n + 1]
         IN \/ /\ \A i \in 1 .. n : ~Carries(v, s[i])
               /\ None(v, k - 1, Entry(v, k).born)
               /\ Entry(v, k).readAt <= Entry(v, k).born
            \/ \E m \in 1 .. n :
                 /\ \A i \in m + 1 .. n : ~Carries(v, s[i])
                 /\ Entry(v, s[m]).form = "coded" /\ Owed(v, s, m)
                 /\ s[m] \in 1 .. k - 1
                 /\ Latest(v, s[m], k - 1, Entry(v, k).born)
                 /\ Entry(v, s[m]).readAt = Entry(v, k).readAt
<1> PICK k : k = s[n + 1]  OBVIOUS
<1> PICK b : b = Entry(v, k).born  OBVIOUS
<1> PICK l : l = k - 1  OBVIOUS
<1>1. /\ k \in Nat /\ k >= 1 /\ l \in Nat /\ k = l + 1
      /\ \A i \in 1 .. n + 1 : s[i] \in Nat /\ s[i] >= 1 /\ s[i] \in DOMAIN frames
  <2>1. \A i \in 1 .. n + 1 : s[i] \in DOMAIN frames  BY DEF Has
  <2>2. \A i \in 1 .. n + 1 : s[i] \in Nat /\ s[i] >= 1  BY <2>1, NumbersOf
  <2>3. n + 1 \in 1 .. n + 1  OBVIOUS
  <2> QED  BY <2>1, <2>2, <2>3
<1>2. Carries(v, k)
  <2>1. n + 1 \in 1 .. n + 1  OBVIOUS
  <2>2. Has(v, k)  BY <2>1
  <2> QED  BY <2>2 DEF Carries, Has
<1>3. PICK from \in 1 .. n + 2 :
        /\ {s[i] : i \in {x \in from .. n + 1 : Carries(v, s[x])}} = Needed(v, k)
        /\ \A i, j \in {x \in from .. n + 1 : Carries(v, s[x])} : i < j => s[i] < s[j]
        /\ Snapshots(v, k) = {} => \A i \in 1 .. from - 1 : ~Carries(v, s[i])
  <2>1. (n + 1) + 1 = n + 2  OBVIOUS
  <2> QED  BY <2>1 DEF Owed, ChainOf
<1> PICK R : R = {x \in from .. n + 1 : Carries(v, s[x])}  OBVIOUS
<1>4. /\ {s[i] : i \in R} = Needed(v, k)
      /\ \A i, j \in R : i < j => s[i] < s[j]
      /\ Snapshots(v, k) = {} => \A i \in 1 .. from - 1 : ~Carries(v, s[i])
  BY <1>3
<1>5. /\ ~StoredBefore(v, k) /\ ~ReadBetween(v, k)
  BY DEF Owed
<1>6. \A j : j \in Carriers(v, k) <=> j \in 1 .. k /\ Carries(v, j) /\ Entry(v, j).born = b
  BY DEF Carriers
<1>7. \A j : j \in Snapshots(v, k) <=> j \in Carriers(v, k) /\ Entry(v, j).type = 0
  BY DEF Snapshots
<1>8. \A j : j \in Needed(v, k) <=>
               j \in Carriers(v, k) /\ \A x \in Snapshots(v, k) : x <= j
  BY DEF Needed
<1>9. k \in Needed(v, k)
  <2>1. k \in Carriers(v, k)  BY <1>1, <1>2, <1>6
  <2>2. \A x \in Snapshots(v, k) : x <= k  BY <1>1, <1>6, <1>7
  <2> QED  BY <2>1, <2>2, <1>8
<1>10. n + 1 \in R /\ from \in 1 .. n + 1 /\ R \subseteq 1 .. n + 1
  <2>1. PICK i \in R : s[i] = k  BY <1>4, <1>9
  <2>2. i \in from .. n + 1  BY <2>1
  <2>3. from \in 1 .. n + 1  BY <2>2
  <2>4. n + 1 \in from .. n + 1 /\ from .. n + 1 \subseteq 1 .. n + 1  BY <2>3
  <2> QED  BY <2>3, <2>4, <1>2
<1>11. k \notin Snapshots(v, k)  BY <1>7
<1>12. CASE R = {n + 1}
  <2>1. Needed(v, k) = {k}  BY <1>12, <1>4
  <2>2. Snapshots(v, k) = {}
    <3>1. SUFFICES ASSUME Snapshots(v, k) # {} PROVE FALSE  OBVIOUS
    <3>2. Snapshots(v, k) \in SUBSET (1 .. k)  BY <1>6, <1>7
    <3>3. PICK g \in Snapshots(v, k) : \A x \in Snapshots(v, k) : x <= g
      BY <3>1, <3>2, <1>1, Greatest
    <3>4. g \in Needed(v, k)  BY <3>3, <1>7, <1>8
    <3> QED  BY <3>3, <3>4, <2>1, <1>11
  <2>3. \A i \in 1 .. n : ~Carries(v, s[i])
    <3> TAKE i \in 1 .. n
    <3>1. CASE i \in 1 .. from - 1  BY <3>1, <2>2, <1>4
    <3>2. CASE i \notin 1 .. from - 1
      <4>1. i \in from .. n + 1 /\ i # n + 1  BY <3>2, <1>10
      <4> QED  BY <4>1, <1>12
    <3> QED  BY <3>1, <3>2
  <2>4. None(v, l, b)
    <3>1. \A i \in 1 .. l : i \in 1 .. k /\ i # k  BY <1>1
    <3>2. \A i \in 1 .. l : i \notin Needed(v, k)  BY <2>1, <3>1
    <3> QED  BY <3>1, <3>2, <2>2, <1>6, <1>8 DEF None
  <2>5. Entry(v, k).readAt <= b
    <3>1. ~ (Entry(v, k).readAt > b)  BY <2>2, <1>5 DEF ReadBetween
    <3>2. Entry(v, k).readAt \in 0 .. breaks /\ b \in 0 .. breaks
      <4>1. n + 1 \in 1 .. n + 1  OBVIOUS
      <4>2. Has(v, k) /\ k \in DOMAIN frames  BY <4>1, <1>1
      <4> QED  BY <4>2, Earlier
    <3> QED  BY <3>1, <3>2
  <2> QED  BY <2>3, <2>4, <2>5
<1>13. CASE R # {n + 1}
  <2> DEFINE Q == R \ {n + 1}
  <2>1. PICK a \in Q : \A x \in Q : x <= a
    <3>1. Q \in SUBSET (1 .. n)  BY <1>10
    <3>2. Q # {}  BY <1>13, <1>10
    <3> QED  BY <3>1, <3>2, Greatest
  <2> PICK p : p = s[a]  OBVIOUS
  <2>2. /\ a \in 1 .. n /\ a \in R /\ a >= from /\ Carries(v, p)
        /\ \A x \in R : x # n + 1 => x <= a
    BY <2>1, <1>10
  <2>3. p < k /\ p \in 1 .. l /\ p \in Needed(v, k)
    <3>1. p < k  BY <2>2, <1>4, <1>10
    <3>2. p \in Nat /\ p >= 1  BY <2>2, <1>1
    <3>3. p \in Needed(v, k)  BY <2>2, <1>4
    <3> QED  BY <3>1, <3>2, <3>3, <1>1
  <2>4. Entry(v, p).born = b /\ \A x \in Snapshots(v, k) : x <= p
    BY <2>3, <1>6, <1>8
  <2>5. \A i \in p + 1 .. l : Carries(v, i) => Entry(v, i).born # b
    <3>1. SUFFICES ASSUME NEW i \in p + 1 .. l, Carries(v, i), Entry(v, i).born = b
                   PROVE  FALSE
      OBVIOUS
    <3>2. i \in 1 .. k /\ i # k /\ p < i /\ i \in Nat /\ p \in Nat  BY <1>1, <2>3
    <3>3. i \in Carriers(v, k)  BY <3>1, <3>2, <1>6
    <3>4. \A x \in Snapshots(v, k) : x <= i
      <4>1. \A x \in Snapshots(v, k) : x \in Nat /\ x <= p  BY <2>4, <1>6, <1>7
      <4> QED  BY <4>1, <3>2
    <3>5. PICK j \in R : s[j] = i  BY <3>3, <3>4, <1>4, <1>8
    <3>6. j # n + 1 /\ j <= a /\ j # a /\ j \in Nat /\ a \in Nat
      BY <3>2, <3>5, <2>2, <1>10
    <3>7. i < p  BY <3>5, <3>6, <2>2, <1>4
    <3> QED  BY <3>2, <3>7
  <2>6. Latest(v, p, l, b)  BY <2>2, <2>4, <2>5 DEF Latest
  <2>7. \A i \in a + 1 .. n : ~Carries(v, s[i])
    <3> TAKE i \in a + 1 .. n
    <3>1. i \in from .. n + 1 /\ i # n + 1 /\ ~ (i <= a)  BY <2>2, <1>10
    <3> QED  BY <3>1, <2>2
  <2>8. Entry(v, p).form = "coded"
    <3>1. Entry(v, p).form # "stored"
      <4>1. p \in Needed(v, k) \ {k}  BY <2>3, <1>1
      <4> QED  BY <4>1, <1>5 DEF StoredBefore
    <3>2. Entry(v, p).form # "constant"  BY <2>2 DEF Carries
    <3>3. Entry(v, p).form \in Forms
      <4>1. Has(v, p)  BY <2>2
      <4> QED  BY <4>1, FormOf
    <3> QED  BY <3>1, <3>2, <3>3 DEF Forms
  <2>9. Entry(v, p).readAt = Entry(v, k).readAt
    BY <2>3, <1>5 DEF ReadBetween
  <2>10. \A j : j \in Carriers(v, p) <=> j \in Carriers(v, k) /\ j # k
    <3> TAKE j
    <3>1. j \in Carriers(v, p) <=> j \in 1 .. p /\ Carries(v, j) /\ Entry(v, j).born = b
      BY <2>4 DEF Carriers
    <3>2. j \in 1 .. p => j \in 1 .. k /\ j # k  BY <2>3, <1>1
    <3>3. j \in 1 .. k /\ j # k => j \in 1 .. p \/ j \in p + 1 .. l  BY <2>3, <1>1
    <3> QED  BY <3>1, <3>2, <3>3, <2>5, <1>6
  <2>11. Snapshots(v, p) = Snapshots(v, k)
    BY <2>10, <1>7, <1>11 DEF Snapshots
  <2>12. Needed(v, p) = Needed(v, k) \ {k}
    BY <2>10, <2>11, <1>8 DEF Needed
  <2>13. ChainOf(v, s, a)
    <3> PICK T : T = {x \in from .. a : Carries(v, s[x])}  OBVIOUS
    <3>1. \A x : x \in T <=> x \in R /\ x # n + 1
      <4>1. \A x : x \in from .. a => x \in from .. n + 1 /\ x # n + 1  BY <2>2, <1>10
      <4>2. \A x : x \in from .. n + 1 /\ x <= a => x \in from .. a  BY <2>2, <1>10
      <4> QED  BY <4>1, <4>2, <2>2
    <3>2. {s[i] : i \in T} = Needed(v, p)
      <4>1. \A i \in T : s[i] \in Needed(v, k)  BY <3>1, <1>4
      <4>2. \A i \in T : s[i] # k
        <5> TAKE i \in T
        <5>1. i \in R /\ i \in 1 .. n + 1 /\ i # n + 1  BY <3>1, <1>10
        <5>2. s[i] < k  BY <5>1, <1>4, <1>10
        <5> QED  BY <5>2, <1>1
      <4>3. \A j \in Needed(v, k) : j # k => \E i \in T : j = s[i]
        <5> TAKE j \in Needed(v, k)
        <5>1. PICK i \in R : j = s[i]  BY <1>4
        <5> QED  BY <5>1, <3>1
      <4> QED  BY <4>1, <4>2, <4>3, <2>12
    <3>3. from \in 1 .. a + 1  BY <2>2, <1>10
    <3>4. \A i, j \in T : i < j => s[i] < s[j]  BY <3>1, <1>4
    <3>5. Snapshots(v, p) = {} => \A i \in 1 .. from - 1 : ~Carries(v, s[i])
      BY <2>11, <1>4
    <3> QED  BY <3>2, <3>3, <3>4, <3>5 DEF ChainOf
  <2>14. ~StoredBefore(v, p)
    <3>1. \A j \in Needed(v, p) : j \in Needed(v, k) \ {k}  BY <2>12
    <3> QED  BY <3>1, <1>5 DEF StoredBefore
  <2>15. ~ReadBetween(v, p)
    BY <2>4, <2>9, <2>11, <2>12, <1>5 DEF ReadBetween
  <2>16. Owed(v, s, a)  BY <2>13, <2>14, <2>15 DEF Owed
  <2> QED  BY <2>2, <2>3, <2>6, <2>7, <2>8, <2>9, <2>16
<1> QED  BY <1>12, <1>13

\* What was owed is still owed: it depends on the frames read alone.
LEMMA NeededSame ==
  ASSUME NEW n \in Nat, \A j \in 1 .. n : frames'[j] = frames[j],
         NEW v, NEW k \in 1 .. n
  PROVE  /\ Needed(v, k)' = Needed(v, k) /\ Snapshots(v, k)' = Snapshots(v, k)
         /\ StoredBefore(v, k)' <=> StoredBefore(v, k)
         /\ ReadBetween(v, k)' <=> ReadBetween(v, k)
         /\ \A j \in Needed(v, k) : j \in 1 .. n
<1>1. \A j \in 1 .. n : Entry(v, j)' = Entry(v, j) /\ (Carries(v, j)' <=> Carries(v, j))
  BY OldSame
<1>2. \A j \in 1 .. k : j \in 1 .. n  OBVIOUS
<1>3. Carriers(v, k)' = Carriers(v, k) /\ \A j \in Carriers(v, k) : j \in 1 .. n
  BY <1>1, <1>2 DEF Carriers
<1>4. Snapshots(v, k)' = Snapshots(v, k)  BY <1>1, <1>3 DEF Snapshots
<1>5. Needed(v, k)' = Needed(v, k) /\ \A j \in Needed(v, k) : j \in 1 .. n
  BY <1>3, <1>4 DEF Needed
<1>6. StoredBefore(v, k)' <=> StoredBefore(v, k)  BY <1>1, <1>5 DEF StoredBefore
<1>7. ReadBetween(v, k)' <=> ReadBetween(v, k)  BY <1>1, <1>4, <1>5 DEF ReadBetween
<1> QED  BY <1>4, <1>5, <1>6, <1>7

LEMMA OwedSame ==
  ASSUME NEW n \in Nat, \A j \in 1 .. n : frames'[j] = frames[j],
         NEW v, NEW s, NEW m \in Nat \ {0}, \A i \in 1 .. m : s[i] \in 1 .. n
  PROVE  Owed(v, s, m)' <=> Owed(v, s, m)
<1>1. m \in 1 .. m /\ s[m] \in 1 .. n  OBVIOUS
<1>2. /\ Needed(v, s[m])' = Needed(v, s[m]) /\ Snapshots(v, s[m])' = Snapshots(v, s[m])
      /\ StoredBefore(v, s[m])' <=> StoredBefore(v, s[m])
      /\ ReadBetween(v, s[m])' <=> ReadBetween(v, s[m])
  BY <1>1, NeededSame
<1>3. \A i \in 1 .. m : Carries(v, s[i])' <=> Carries(v, s[i])  BY OldSame
<1>4. ChainOf(v, s, m)' <=> ChainOf(v, s, m)
  <2>1. ASSUME NEW from \in 1 .. m + 1
        PROVE  /\ {i \in from .. m : Carries(v, s[i])'} = {i \in from .. m : Carries(v, s[i])}
               /\ \A i \in 1 .. from - 1 : Carries(v, s[i])' <=> Carries(v, s[i])
    <3>1. \A i \in from .. m : i \in 1 .. m  OBVIOUS
    <3>2. \A i \in 1 .. from - 1 : i \in 1 .. m  OBVIOUS
    <3> QED  BY <3>1, <3>2, <1>3
  <2> QED  BY <2>1, <1>2 DEF ChainOf
<1> QED  BY <1>2, <1>4 DEF Owed

LEMMA OwedReadings ==
  ASSUME NEW v, NEW s, NEW t, NEW m \in Nat \ {0}, \A i \in 1 .. m : s[i] = t[i]
  PROVE  Owed(v, s, m) <=> Owed(v, t, m)
<1>1. s[m] = t[m]
  <2>1. m \in 1 .. m  OBVIOUS
  <2> QED  BY <2>1
<1>2. ASSUME NEW from \in 1 .. m + 1
      PROVE  /\ {i \in from .. m : Carries(v, s[i])} = {i \in from .. m : Carries(v, t[i])}
             /\ \A i \in from .. m : s[i] = t[i]
             /\ \A i \in 1 .. from - 1 : s[i] = t[i]
  <2>1. \A i \in from .. m : i \in 1 .. m  OBVIOUS
  <2>2. \A i \in 1 .. from - 1 : i \in 1 .. m  OBVIOUS
  <2> QED  BY <2>1, <2>2
<1>3. ChainOf(v, s, m) <=> ChainOf(v, t, m)
  <2>1. ASSUME NEW from \in 1 .. m + 1
        PROVE  {s[i] : i \in {x \in from .. m : Carries(v, s[x])}}
                 = {t[i] : i \in {x \in from .. m : Carries(v, t[x])}}
    BY <1>2
  <2> QED  BY <1>1, <1>2, <2>1 DEF ChainOf
<1> QED  BY <1>1, <1>3 DEF Owed

LEMMA WriterKept ==
  ASSUME Shape, ReaderShape, Kept, UNCHANGED <<decHist, data, log>>,
         \A k \in DOMAIN frames : k \in DOMAIN frames' /\ frames'[k] = frames[k]
  PROVE  Kept'
<1>1. decHist' = decHist /\ data' = data /\ log' = log  OBVIOUS
<1> PICK l : l = Len(frames)  OBVIOUS
<1>2. l \in Nat /\ DOMAIN frames = 1 .. l /\ \A j \in 1 .. l : frames'[j] = frames[j]
  BY NumbersOf
<1> SUFFICES ASSUME NEW v \in DecoderVars
             PROVE  /\ (\A i \in 1 .. Len(log[v]) : ~Carries(v, log[v][i])') => decHist[v] = 0
                    /\ \A m \in 1 .. Len(log[v]) :
                         /\ Entry(v, log[v][m])'.form = "coded"
                         /\ \A i \in m + 1 .. Len(log[v]) : ~Carries(v, log[v][i])'
                         /\ Owed(v, log[v], m)'
                         => decHist[v] = log[v][m]
                    /\ Len(log[v]) > 0 /\ Owed(v, log[v], Len(log[v]))'
                         => data[v] = log[v][Len(log[v])]
  BY <1>1 DEF Kept
<1> PICK s : s = log[v]  OBVIOUS
<1> PICK n : n = Len(s)  OBVIOUS
<1>3. n \in Nat /\ \A i \in 1 .. n : s[i] \in 1 .. l
  BY <1>2 DEF ReaderShape, Has
<1>4. \A i \in 1 .. n : /\ Entry(v, s[i])' = Entry(v, s[i])
                        /\ Carries(v, s[i])' <=> Carries(v, s[i])
  BY <1>2, <1>3, OldSame
<1>5. \A m \in 1 .. n : Owed(v, s, m)' <=> Owed(v, s, m)
  <2> TAKE m \in 1 .. n
  <2>1. m \in Nat \ {0} /\ \A i \in 1 .. m : s[i] \in 1 .. l  BY <1>3
  <2> QED  BY <2>1, <1>2, OwedSame
<1>6. /\ (\A i \in 1 .. n : ~Carries(v, s[i])) => decHist[v] = 0
      /\ \A m \in 1 .. n :
           /\ Entry(v, s[m]).form = "coded"
           /\ \A i \in m + 1 .. n : ~Carries(v, s[i])
           /\ Owed(v, s, m)
           => decHist[v] = s[m]
      /\ n > 0 /\ Owed(v, s, n) => data[v] = s[n]
  BY DEF Kept
<1>7. (\A i \in 1 .. n : ~Carries(v, s[i])') => decHist[v] = 0
  BY <1>4, <1>6
<1>8. ASSUME NEW m \in 1 .. n, Entry(v, s[m])'.form = "coded",
             \A i \in m + 1 .. n : ~Carries(v, s[i])', Owed(v, s, m)'
      PROVE  decHist[v] = s[m]
  <2>1. \A i \in m + 1 .. n : i \in 1 .. n  BY <1>3
  <2> QED  BY <2>1, <1>4, <1>5, <1>6, <1>8
<1>9. n > 0 /\ Owed(v, s, n)' => data[v] = s[n]
  <2>1. n > 0 => n \in 1 .. n  BY <1>3
  <2> QED  BY <2>1, <1>5, <1>6
<1> QED  BY <1>1, <1>7, <1>8, <1>9

LEMMA SameFrames ==
  ASSUME frames' = frames, NEW v, NEW s
  PROVE  /\ \A j : Entry(v, j)' = Entry(v, j) /\ (Carries(v, j)' <=> Carries(v, j))
         /\ \A m : Owed(v, s, m)' <=> Owed(v, s, m)
<1>1. \A j : Entry(v, j)' = Entry(v, j) /\ (Carries(v, j)' <=> Carries(v, j))
  BY DEF Entry, Carries
<1>2. \A k : Carriers(v, k)' = Carriers(v, k)  BY <1>1 DEF Carriers
<1>3. \A k : Snapshots(v, k)' = Snapshots(v, k)  BY <1>1, <1>2 DEF Snapshots
<1>4. \A k : Needed(v, k)' = Needed(v, k)  BY <1>2, <1>3 DEF Needed
<1>5. \A k : StoredBefore(v, k)' <=> StoredBefore(v, k)  BY <1>1, <1>4 DEF StoredBefore
<1>6. \A k : ReadBetween(v, k)' <=> ReadBetween(v, k)
  BY <1>1, <1>3, <1>4 DEF ReadBetween
<1>7. \A m : ChainOf(v, s, m)' <=> ChainOf(v, s, m)  BY <1>1, <1>3, <1>4 DEF ChainOf
<1> QED  BY <1>1, <1>5, <1>6, <1>7 DEF Owed

\* A reader that has kept up rebuilds what it is owed.
LEMMA OwedRebuilt ==
  ASSUME EntropyType = "huffman", WInv, Sourced, NEW v \in Vars, NEW n \in Nat, NEW s,
         NEW hist, \A i \in 1 .. n + 1 : Has(v, s[i]), Owed(v, s, n + 1),
         (\A i \in 1 .. n : ~Carries(v, s[i])) => hist[v] = 0,
         \A m \in 1 .. n :
           /\ Entry(v, s[m]).form = "coded"
           /\ \A i \in m + 1 .. n : ~Carries(v, s[i])
           /\ Owed(v, s, m)
           => hist[v] = s[m]
  PROVE  Rebuild(v, s[n + 1], hist) = s[n + 1]
<1> PICK k : k = s[n + 1]  OBVIOUS
<1>1. Has(v, k) /\ Shape
  <2>1. n + 1 \in 1 .. n + 1  OBVIOUS
  <2> QED  BY <2>1 DEF WInv
<1>2. SUFFICES ASSUME Entry(v, k).form = "coded", Entry(v, k).type = 1
               PROVE  hist[v] = Entry(v, k).base
  <2>1. frames[k].entries[v] = Entry(v, k)  BY DEF Entry
  <2> QED  BY <2>1, <1>2 DEF Rebuild
<1>3. /\ \A j \in 1 .. k - 1 :
           /\ Latest(v, j, k - 1, Entry(v, k).born) /\ Entry(v, j).readAt = Entry(v, k).readAt
           => Entry(v, k).base = j
      /\ None(v, k - 1, Entry(v, k).born) /\ Entry(v, k).readAt <= Entry(v, k).born
           => Entry(v, k).base = 0
  <2>1. k \in 1 .. Len(frames)  BY <1>1, NumbersOf DEF Has
  <2> QED  BY <2>1, <1>1 DEF Sourced
<1>4. \/ /\ \A i \in 1 .. n : ~Carries(v, s[i])
         /\ None(v, k - 1, Entry(v, k).born)
         /\ Entry(v, k).readAt <= Entry(v, k).born
      \/ \E m \in 1 .. n :
           /\ \A i \in m + 1 .. n : ~Carries(v, s[i])
           /\ Entry(v, s[m]).form = "coded" /\ Owed(v, s, m)
           /\ s[m] \in 1 .. k - 1
           /\ Latest(v, s[m], k - 1, Entry(v, k).born)
           /\ Entry(v, s[m]).readAt = Entry(v, k).readAt
  BY <1>1, <1>2, ChainPrefix
<1>5. CASE /\ \A i \in 1 .. n : ~Carries(v, s[i])
           /\ None(v, k - 1, Entry(v, k).born)
           /\ Entry(v, k).readAt <= Entry(v, k).born
  BY <1>3, <1>5
<1>6. CASE \E m \in 1 .. n :
             /\ \A i \in m + 1 .. n : ~Carries(v, s[i])
             /\ Entry(v, s[m]).form = "coded" /\ Owed(v, s, m)
             /\ s[m] \in 1 .. k - 1
             /\ Latest(v, s[m], k - 1, Entry(v, k).born)
             /\ Entry(v, s[m]).readAt = Entry(v, k).readAt
  BY <1>3, <1>6
<1> QED  BY <1>4, <1>5, <1>6

LEMMA DecompressKept ==
  ASSUME EntropyType = "huffman", WInv, ReaderShape, Sourced, Kept,
         NEW k \in DOMAIN frames, NEW selected \in SUBSET Vars,
         Decompress(k, selected), DOMAIN frames[k].entries \subseteq DecoderVars
  PROVE  Kept'
<1> PICK S : S = DOMAIN frames[k].entries \cap selected  OBVIOUS
<1>1. frames' = frames  BY DEF Decompress, encoder
<1>2. \A v \in DecoderVars :
        /\ Len(log[v]) \in Nat /\ DOMAIN log[v] = 1 .. Len(log[v])
        /\ v \notin S => log'[v] = log[v] /\ decHist'[v] = decHist[v] /\ data'[v] = data[v]
        /\ v \in S =>
             /\ Has(v, k) /\ v \in Vars
             /\ decHist'[v] = DecHistAfter(v, k, decHist)
             /\ data'[v] = Rebuild(v, k, decHist)
             /\ Len(log'[v]) = Len(log[v]) + 1
             /\ \A i \in 1 .. Len(log[v]) : log'[v][i] = log[v][i]
             /\ log'[v][Len(log[v]) + 1] = k
  BY Reading
<1>3. SUFFICES ASSUME NEW v \in DecoderVars, NEW s, s = log'[v], NEW N, N = Len(s)
               PROVE  /\ (\A i \in 1 .. N : ~Carries(v, s[i])) => decHist'[v] = 0
                      /\ \A m \in 1 .. N :
                           /\ Entry(v, s[m]).form = "coded"
                           /\ \A i \in m + 1 .. N : ~Carries(v, s[i])
                           /\ Owed(v, s, m)
                           => decHist'[v] = s[m]
                      /\ N > 0 /\ Owed(v, s, N) => data'[v] = s[N]
  <2>1. \A v \in DecoderVars :
          /\ (\A i \in 1 .. Len(log'[v]) : ~Carries(v, log'[v][i])) => decHist'[v] = 0
          /\ \A m \in 1 .. Len(log'[v]) :
               /\ Entry(v, log'[v][m]).form = "coded"
               /\ \A i \in m + 1 .. Len(log'[v]) : ~Carries(v, log'[v][i])
               /\ Owed(v, log'[v], m)
               => decHist'[v] = log'[v][m]
          /\ Len(log'[v]) > 0 /\ Owed(v, log'[v], Len(log'[v]))
               => data'[v] = log'[v][Len(log'[v])]
    BY <1>3
  <2>3. ASSUME NEW v \in DecoderVars
        PROVE  /\ (\A i \in 1 .. Len(log'[v]) : ~Carries(v, log[v][i])') => decHist'[v] = 0
               /\ \A m \in 1 .. Len(log'[v]) :
                    /\ Entry(v, log[v][m])'.form = "coded"
                    /\ \A i \in m + 1 .. Len(log'[v]) : ~Carries(v, log[v][i])'
                    /\ Owed(v, log[v], m)'
                    => decHist'[v] = log'[v][m]
               /\ Len(log'[v]) > 0 /\ Owed(v, log[v], Len(log[v]))'
                    => data'[v] = log'[v][Len(log'[v])]
    <3> PICK s : s = log'[v]  OBVIOUS
    <3>1. \A j : Entry(v, j)' = Entry(v, j) /\ (Carries(v, j)' <=> Carries(v, j))
      BY <1>1, SameFrames
    <3>2. \A m : Owed(v, s, m)' <=> Owed(v, s, m)  BY <1>1, SameFrames
    <3> QED  BY <2>1, <3>1, <3>2
  <2> QED  BY <2>3 DEF Kept
<1> PICK t : t = log[v]  OBVIOUS
<1> PICK n : n = Len(t)  OBVIOUS
<1>4. /\ n \in Nat
      /\ (\A i \in 1 .. n : ~Carries(v, t[i])) => decHist[v] = 0
      /\ \A m \in 1 .. n :
           /\ Entry(v, t[m]).form = "coded"
           /\ \A i \in m + 1 .. n : ~Carries(v, t[i])
           /\ Owed(v, t, m)
           => decHist[v] = t[m]
      /\ n > 0 /\ Owed(v, t, n) => data[v] = t[n]
  BY <1>2 DEF Kept
<1>5. CASE v \notin S
  <2>1. s = t /\ N = n /\ decHist'[v] = decHist[v] /\ data'[v] = data[v]
    BY <1>2, <1>3, <1>5
  <2> QED  BY <2>1, <1>4
<1>6. CASE v \in S
  <2>1. /\ Has(v, k) /\ v \in Vars /\ N = n + 1 /\ s[n + 1] = k
        /\ decHist'[v] = DecHistAfter(v, k, decHist) /\ data'[v] = Rebuild(v, k, decHist)
        /\ \A i \in 1 .. n : s[i] = t[i]
    BY <1>2, <1>3, <1>6
  <2>2. \A m \in 1 .. n : Owed(v, s, m) <=> Owed(v, t, m)
    <3> TAKE m \in 1 .. n
    <3>1. m \in Nat \ {0} /\ \A i \in 1 .. m : s[i] = t[i]  BY <1>4, <2>1
    <3> QED  BY <3>1, OwedReadings
  <2>3. \A i \in 1 .. n + 1 : Has(v, s[i])
    <3>1. \A i \in 1 .. n : Has(v, t[i])  BY <1>2 DEF ReaderShape
    <3>2. \A i \in 1 .. n + 1 : i \in 1 .. n \/ i = n + 1  BY <1>4
    <3> QED  BY <3>1, <3>2, <2>1
  <2>4. (\A i \in 1 .. n : ~Carries(v, s[i])) => decHist[v] = 0  BY <1>4, <2>1
  <2>5. ASSUME NEW m \in 1 .. n, Entry(v, s[m]).form = "coded",
               \A i \in m + 1 .. n : ~Carries(v, s[i]), Owed(v, s, m)
        PROVE  decHist[v] = s[m]
    <3>1. s[m] = t[m] /\ \A i \in m + 1 .. n : i \in 1 .. n /\ s[i] = t[i]
      BY <1>4, <2>1
    <3> QED  BY <3>1, <2>2, <2>5, <1>4
  <2>6. Owed(v, s, n + 1) => Rebuild(v, k, decHist) = k
    BY <2>1, <2>3, <2>4, <2>5, <1>4, OwedRebuilt
  <2>7. Carries(v, k) <=> Entry(v, k).form # "constant"  BY <2>1 DEF Carries, Has
  <2>8. Entry(v, k).form # "coded" => decHist'[v] = decHist[v]
    BY <2>1 DEF DecHistAfter, Entry
  <2>9. Entry(v, k).form = "coded" => decHist'[v] = Rebuild(v, k, decHist)
    BY <2>1 DEF DecHistAfter, Entry
  <2>10. (\A i \in 1 .. n + 1 : ~Carries(v, s[i])) => decHist'[v] = 0
    <3>1. n + 1 \in 1 .. n + 1 /\ \A i \in 1 .. n : i \in 1 .. n + 1  BY <1>4
    <3> QED  BY <3>1, <2>1, <2>4, <2>7, <2>8
  <2>11. ASSUME NEW m \in 1 .. n + 1, Entry(v, s[m]).form = "coded",
                \A i \in m + 1 .. n + 1 : ~Carries(v, s[i]), Owed(v, s, m)
         PROVE  decHist'[v] = s[m]
    <3>1. CASE m = n + 1  BY <3>1, <2>1, <2>6, <2>9, <2>11
    <3>2. CASE m # n + 1
      <4>1. m \in 1 .. n /\ n + 1 \in m + 1 .. n + 1
            /\ \A i \in m + 1 .. n : i \in m + 1 .. n + 1
        BY <3>2, <1>4
      <4>2. ~Carries(v, k)  BY <4>1, <2>1, <2>11
      <4>3. decHist[v] = s[m]  BY <4>1, <2>5, <2>11
      <4> QED  BY <4>2, <4>3, <2>7, <2>8
    <3> QED  BY <3>1, <3>2
  <2>12. Owed(v, s, n + 1) => data'[v] = s[n + 1]  BY <2>1, <2>6
  <2> QED  BY <2>1, <2>10, <2>11, <2>12
<1> QED  BY <1>5, <1>6

\* Every step keeps what entries are predicted from.
LEMMA SourcedStep ==
  ASSUME WInv, Sourced, [Next]_vars PROVE Sourced'
<1>0. Shape /\ WInv' /\ Shape'  BY WriterStep DEF WInv
<1>1. ASSUME UNCHANGED encoder PROVE Sourced'
  BY <1>1 DEF encoder, Sourced, Latest, None, Has, Carries, Entry
<1>2. ASSUME Break, frames' = frames,
             \A v \in Vars :
               \/ encHist'[v] = 0 /\ born'[v] = breaks'
               \/ readAt' = breaks' /\ born' = born
               \/ encHist'[v] = encHist[v] /\ born'[v] = born[v] /\ readAt' = readAt
      PROVE  Sourced'
  <2>1. breaks \in Nat /\ breaks' = breaks + 1 /\ \A v \in Vars : born[v] \in started .. breaks
    BY <1>0, <1>2, NumbersOf DEF Break, Shape
  <2>2. started \in Nat /\ started' \in Nat /\ readAt' \in Nat
    <3>1. started' \in 0 .. breaks' /\ readAt' \in started' .. breaks'  BY <1>0 DEF Shape
    <3> QED  BY <1>0, <3>1, NumbersOf
  <2>3. born' \in [Vars -> Nat]
    <3>1. born' \in [Vars -> started' .. breaks']  BY <1>0 DEF Shape
    <3>2. \A x \in started' .. breaks' : x \in Nat  BY <2>2
    <3> QED  BY <3>1, <3>2
  <2>4. \A v \in Vars : born[v] # breaks' /\ born[v] <= breaks'  BY <2>1, <2>2
  <2> QED  BY <1>0, <1>2, <2>1, <2>2, <2>3, <2>4, BreakSourced
<1>3. ASSUME NEW S \in SUBSET Vars, NEW t \in CmprTypes, NEW form \in [S -> Forms],
             Compress(S, t, form)
      PROVE  Sourced'
  BY <1>0, <1>3, CompressSourced
<1>4. ASSUME NEW k \in DOMAIN frames, NEW selected \in SUBSET Vars, DecompressHere(k, selected)
      PROVE  Sourced'
  BY <1>2, <1>4 DEF DecompressHere
<1>5. CASE RestartEncoder
  <2>1. \A v \in Vars : encHist'[v] = 0 /\ born'[v] = breaks'
    BY <1>5 DEF RestartEncoder
  <2> QED  BY <1>2, <1>5, <2>1 DEF RestartEncoder
<1>6. ASSUME NEW w \in Vars, RegisterAnew(w) PROVE Sourced'
  <2>1. encHist \in [Vars -> -1 .. MaxFrames] /\ born \in [Vars -> started .. breaks]
    BY <1>0 DEF Shape
  <2>2. \A v \in Vars :
          \/ encHist'[v] = 0 /\ born'[v] = breaks'
          \/ encHist'[v] = encHist[v] /\ born'[v] = born[v] /\ readAt' = readAt
    BY <1>6, <2>1 DEF RegisterAnew
  <2> QED  BY <1>2, <1>6, <2>2 DEF RegisterAnew
<1> QED
  <2>1. CASE UNCHANGED vars  BY <2>1, <1>1 DEF vars
  <2>2. ASSUME NEW k \in DOMAIN frames, NEW selected \in SUBSET Vars, Decompress(k, selected)
        PROVE  Sourced'
    BY <2>2, <1>1 DEF Decompress
  <2>3. CASE RestartDecoder  BY <2>3, <1>1 DEF RestartDecoder
  <2> QED  BY <1>3, <1>4, <1>5, <1>6, <2>1, <2>2, <2>3 DEF Next

CInv == WInv /\ ReaderShape /\ Sourced /\ Kept

LEMMA KeptStep ==
  ASSUME EntropyType = "huffman", CInv, [Next]_vars PROVE Kept'
<1>0. WInv /\ Shape /\ ReaderShape /\ Sourced /\ Kept  BY DEF CInv, WInv
<1>1. CASE UNCHANGED vars
  <2>1. UNCHANGED <<decHist, data, log>> /\ frames' = frames
    BY <1>1 DEF vars, encoder, decoder
  <2> QED  BY <1>0, <2>1, WriterKept
<1>2. CASE Next /\ UNCHANGED decoder
  <2>1. UNCHANGED <<decHist, data, log>>  BY <1>2 DEF decoder
  <2> QED  BY <1>0, <1>2, <2>1, FramesStay, WriterKept
<1>3. ASSUME NEW k \in DOMAIN frames, NEW selected \in SUBSET Vars, Decompress(k, selected)
      PROVE  Kept'
  <2>1. CASE DOMAIN frames[k].entries \subseteq DecoderVars
    BY <1>0, <1>3, <2>1, DecompressKept
  <2>2. CASE ~(DOMAIN frames[k].entries \subseteq DecoderVars)
    <3>1. UNCHANGED <<decHist, data, log>> /\ frames' = frames
      BY <1>3, <2>2 DEF Decompress, encoder
    <3> QED  BY <1>0, <3>1, WriterKept
  <2> QED  BY <2>1, <2>2
<1>4. CASE RestartDecoder
  <2>0. Len(<< >>) = 0  OBVIOUS
  <2>1. \A v \in DecoderVars : Len(log'[v]) = 0 /\ decHist'[v] = 0
    BY <1>4, <2>0 DEF RestartDecoder
  <2> QED  BY <2>1 DEF Kept
<1>5. ASSUME Next PROVE \/ UNCHANGED decoder \/ RestartDecoder
                        \/ \E k \in DOMAIN frames, selected \in SUBSET Vars :
                             Decompress(k, selected)
  BY <1>5 DEF Next, Compress, DecompressHere, RestartEncoder, RegisterAnew
<1> QED  BY <1>1, <1>2, <1>3, <1>4, <1>5

LEMMA InitChain == Init => CInv
<1> SUFFICES ASSUME Init PROVE CInv  OBVIOUS
<1>1. WInv /\ ReaderShape  BY InitHolds DEF IInv
<1>2. Len(<< >>) = 0 /\ frames = << >> /\ \A v \in DecoderVars : log[v] = << >> /\ decHist[v] = 0
  BY DEF Init
<1>3. Sourced  BY <1>2 DEF Sourced, Init
<1>4. Kept  BY <1>2 DEF Kept
<1> QED  BY <1>1, <1>3, <1>4 DEF CInv

\* A reader that decodes a snapshot and then every frame that goes back to it
\* has the data of each, whatever it decoded before and whenever the writer or
\* the reader was restarted and variables were registered anew: codes are
\* Huffman codes, no frame between was stored raw, and the writer read none.
THEOREM WholeChain ==
  ASSUME EntropyType = "huffman" PROVE Spec => []ChainSufficesUnlessStored
<1>1. Init => CInv  BY InitChain
<1>2. CInv /\ [Next]_vars => CInv'
  BY NextHolds, SourcedStep, KeptStep DEF CInv
<1>3. CInv => ChainSufficesUnlessStored
  <2> SUFFICES ASSUME CInv, NEW v \in DecoderVars, NEW s, s = log[v], NEW n, n = Len(s),
                      n > 0, HasChain(v, n), ~StoredBefore(v, s[n]), ~ReadBetween(v, s[n])
               PROVE  data[v] = s[n]
    BY DEF ChainSufficesUnlessStored
  <2>1. ChainOf(v, s, n)  BY DEF HasChain, ChainOf
  <2>2. Owed(v, s, n)  BY <2>1 DEF Owed
  <2> QED  BY <2>2 DEF CInv, Kept
<1> QED  BY <1>1, <1>2, <1>3, PTL DEF Spec
=============================================================================
