----------------------------- MODULE Regression -----------------------------
(***************************************************************************)
(* The blockwise coder of 2D arrays.  The array is cut into blocks, strip  *)
(* by strip; each block is predicted either by a plane fitted to it, whose *)
(* three coefficients are quantised against those of the previous such     *)
(* block, or by the Lorenzo predictor from the values around each cell.    *)
(*                                                                         *)
(* The compressor does not keep the rebuilt array.  It has two buffers of  *)
(* one strip each: row 0 is the last row of the strip before, column 0 is  *)
(* the margin.  A plane block writes there only what a neighbour may read, *)
(* its last column and last row, and the buffers change places after a     *)
(* strip, with the rows of two strips ago still in them.  The decompressor *)
(* predicts from the array it rebuilds.  `recon` is a history variable:    *)
(* the number the compressor takes the decompressor to rebuild.            *)
(*                                                                         *)
(* Which predictor a block gets and its plane are any: the samples and the *)
(* least-squares fit decide how well a block is coded, not whether it is   *)
(* coded rightly.  The entropy coders are left out.  Numbers are on the    *)
(* grid of module Quantizer.                                               *)
(***************************************************************************)
EXTENDS Integers, Sequences

CONSTANTS
  Arrays,         \* the arrays to code: [rows, cols, at]
  BlockSize,      \* block_size, 16 in the code
  Planes,         \* coefficients the fit may give a block
  Eb,             \* realPrecision
  Capacity,       \* quantization_intervals
  Precision,      \* precision[e], the bound on the error of a coefficient
  CoeffCapacity,  \* coeff_intvCapacity_sz
  Mantissa, Ulp   \* the grid: exact up to Mantissa, multiples of Ulp above

ASSUME RegressionAssumption ==
  /\ BlockSize \in Nat \ {0} /\ Eb \in Nat \ {0}
  /\ Capacity \in Nat /\ Capacity % 2 = 0 /\ Capacity > 2
  /\ CoeffCapacity \in Nat /\ CoeffCapacity % 2 = 0 /\ CoeffCapacity > 2
  /\ Precision \in [1 .. 3 -> Nat \ {0}]
  /\ Planes \subseteq [1 .. 3 -> Int]
  /\ Mantissa \in Nat /\ Ulp \in Nat \ {0}
  /\ \A a \in Arrays : /\ a.rows \in Nat \ {0} /\ a.cols \in Nat \ {0}
                       /\ a.at \in [(0 .. a.rows - 1) \X (0 .. a.cols - 1) -> Int]

VARIABLES
  data,       \* oriData with r1 and r2
  stage,      \* "encode", "coded", "decode", "done"
  block,      \* i * num_y + j
  cell,       \* index within the block
  begun,      \* the block has its predictor
  last,       \* last_coeffcients of the side at work
  cur, next,  \* cur_pb_buf, next_pb_buf
  recon,      \* history: what the compressor predicts from
  indicator,  \* one entry for each block begun: 1 for Lorenzo, 0 for a plane
  coeffType,  \* coeff_type: the three codes of each plane block
  coeffExact, \* coeff_unpred_data: per coefficient
  type,       \* result_type
  unpred,     \* result_unpredictable_data
  out,        \* (*data)[] of the decompressor
  used,       \* unpred_data: exact values it has taken
  coeffIndex, \* coeff_index
  coeffUsed   \* coeff_unpred_data_count

streams == <<indicator, coeffType, coeffExact, type, unpred>>
strips == <<cur, next, recon>>
cursors == <<used, coeffIndex, coeffUsed>>
vars == <<data, stage, block, cell, begun, last, strips, streams, out, cursors>>

Abs(x) == IF x < 0 THEN -x ELSE x
Round(x) == IF Abs(x) <= Mantissa THEN x ELSE ((x + (Ulp \div 2)) \div Ulp) * Ulp
Signed(d, n) == IF d < 0 THEN -n ELSE n
Radius == Capacity \div 2
CoeffRadius == CoeffCapacity \div 2

-----------------------------------------------------------------------------
(* The blocks of an array.                                                 *)

NumBlocks(n) == IF n <= BlockSize THEN 1 ELSE n \div BlockSize
Split(n) == n % NumBlocks(n)
Early(n) == n \div NumBlocks(n) + (IF Split(n) = 0 THEN 0 ELSE 1)
Late(n) == n \div NumBlocks(n)
Length(n, i) == IF i < Split(n) THEN Early(n) ELSE Late(n)

Offset(n, i) == IF i < Split(n) THEN i * Early(n) ELSE (i * Late(n)) + Split(n)

Blocks == NumBlocks(data.rows) * NumBlocks(data.cols)
BlockRow == block \div NumBlocks(data.cols)
BlockCol == block % NumBlocks(data.cols)
Height == Length(data.rows, BlockRow)
Width == Length(data.cols, BlockCol)

\* The cell at work: its place in the block, and in the array.
Row == cell \div Width
Col == cell % Width
X == Offset(data.rows, BlockRow) + Row
Y == Offset(data.cols, BlockCol) + Col
LastCell == cell = (Height * Width) - 1

ZeroArray(a) == [p \in DOMAIN a.at |-> 0]
ZeroStrip(a) == [p \in (0 .. Early(a.rows)) \X (0 .. a.cols) |-> 0]
NoPlane == [e \in 1 .. 3 |-> 0]

-----------------------------------------------------------------------------
(* Quantisation, of a value or a coefficient v against a prediction p.     *)

Steps(v, p, eb) == Signed(v - p, (Abs(v - p) + eb) \div (2 * eb))
Restored(p, k, eb) == Round(p + (2 * k * eb))

\* Mutant of Coded: no double-check after the quantisation.
CodedUnchecked(v, p, eb, capacity) == Abs(v - p) + eb < capacity * eb

Coded(v, p, eb, capacity) ==
  /\ Abs(v - p) + eb < capacity * eb
  /\ Abs(v - Restored(p, Steps(v, p, eb), eb)) <= eb

Plane(c, i, j) == Round((c[1] * i) + (c[2] * j) + c[3])

Init ==
  /\ data \in Arrays
  /\ stage = "encode" /\ block = 0 /\ cell = 0 /\ begun = FALSE
  /\ last = NoPlane
  /\ cur = ZeroStrip(data) /\ next = ZeroStrip(data) /\ recon = ZeroArray(data)
  /\ indicator = << >> /\ coeffType = << >> /\ coeffExact = <<<< >>, << >>, << >>>>
  /\ type = << >> /\ unpred = << >>
  /\ out = ZeroArray(data)
  /\ used = 0 /\ coeffIndex = 0 /\ coeffUsed = NoPlane

-----------------------------------------------------------------------------
(* Compression.                                                            *)

BeginLorenzo ==
  /\ stage = "encode" /\ ~begun
  /\ indicator' = Append(indicator, 1)
  /\ begun' = TRUE
  /\ UNCHANGED <<data, stage, block, cell, last, strips, coeffType, coeffExact,
                 type, unpred, out, cursors>>

\* The coefficients are coded against those of the last plane block.
BeginPlane(c) ==
  /\ stage = "encode" /\ ~begun
  /\ LET coded(e) == Coded(c[e], last[e], Precision[e], CoeffCapacity)
         steps(e) == Steps(c[e], last[e], Precision[e])
     IN /\ coeffType' = Append(coeffType,
             [e \in 1 .. 3 |-> IF coded(e) THEN CoeffRadius + steps(e) ELSE 0])
        /\ coeffExact' = [e \in 1 .. 3 |->
             IF coded(e) THEN coeffExact[e] ELSE Append(coeffExact[e], c[e])]
        /\ last' = [e \in 1 .. 3 |->
             IF coded(e) THEN Restored(last[e], steps(e), Precision[e]) ELSE c[e]]
  /\ indicator' = Append(indicator, 0)
  /\ begun' = TRUE
  /\ UNCHANGED <<data, stage, block, cell, strips, type, unpred, out, cursors>>

ByPlane == indicator[block + 1] = 0

\* The strip buffers have a margin of one: cell (i, j) is at (i + 1, j + 1).
Around(buffer) ==
  Round(buffer[<<Row + 1, Y>>] + buffer[<<Row, Y + 1>>] - buffer[<<Row, Y>>])

\* Mutant of Visible: a plane block keeps none of its columns.
VisibleNever == ~ByPlane

\* The cells a later block of the strip may predict from.
Visible == ~ByPlane \/ Col = Width - 1

\* The cells the next strip may predict from.
Below == Row = Height - 1

\* On to the next cell; after the last of a block, to the next block.
Step ==
  IF LastCell THEN block' = block + 1 /\ cell' = 0 /\ begun' = FALSE
              ELSE block' = block /\ cell' = cell + 1 /\ begun' = TRUE

EncodeValue ==
  /\ stage = "encode" /\ begun
  /\ LET v == data.at[<<X, Y>>]
         p == IF ByPlane THEN Plane(last, Row, Col) ELSE Around(cur)
         k == Steps(v, p, Eb)
         coded == Coded(v, p, Eb, IF ByPlane THEN Capacity ELSE Capacity - 2)
         kept == IF coded THEN Restored(p, k, Eb) ELSE v
         strip == IF Visible THEN [cur EXCEPT ![<<Row + 1, Y + 1>>] = kept] ELSE cur
         below == IF Below THEN [next EXCEPT ![<<0, Y + 1>>] = kept] ELSE next
         stripEnds == LastCell /\ BlockCol = NumBlocks(data.cols) - 1
     IN /\ type' = Append(type, IF coded THEN Radius + k ELSE 0)
        /\ unpred' = IF coded THEN unpred ELSE Append(unpred, v)
        /\ recon' = [recon EXCEPT ![<<X, Y>>] = kept]
        /\ cur' = IF stripEnds THEN below ELSE strip
        /\ next' = IF stripEnds THEN strip ELSE below
  /\ Step
  /\ stage' = IF LastCell /\ block = Blocks - 1 THEN "coded" ELSE "encode"
  /\ UNCHANGED <<data, last, indicator, coeffType, coeffExact, out, cursors>>

-----------------------------------------------------------------------------
(* Decompression, from the streams alone.                                  *)

Decompress ==
  /\ stage = "coded"
  /\ stage' = "decode" /\ block' = 0 /\ cell' = 0 /\ begun' = FALSE
  /\ last' = NoPlane
  /\ UNCHANGED <<data, strips, streams, out, cursors>>

OpenLorenzo ==
  /\ stage = "decode" /\ ~begun /\ ~ByPlane
  /\ begun' = TRUE
  /\ UNCHANGED <<data, stage, block, cell, last, strips, streams, out, cursors>>

\* A sound stream is never read past its end; 0 stands for what is there.
Entry(s, n) == IF n <= Len(s) THEN s[n] ELSE 0

\* The coefficients are restored in the order they were coded.
OpenPlane ==
  /\ stage = "decode" /\ ~begun /\ ByPlane
  /\ LET code == coeffType[coeffIndex + 1]
     IN /\ last' = [e \in 1 .. 3 |->
             IF code[e] = 0 THEN Entry(coeffExact[e], coeffUsed[e] + 1)
             ELSE Restored(last[e], code[e] - CoeffRadius, Precision[e])]
        /\ coeffUsed' = [e \in 1 .. 3 |->
             IF code[e] = 0 THEN coeffUsed[e] + 1 ELSE coeffUsed[e]]
  /\ coeffIndex' = coeffIndex + 1
  /\ begun' = TRUE
  /\ UNCHANGED <<data, stage, block, cell, strips, streams, out, used>>

\* d00, d01, d10: the rebuilt neighbours, zero outside the array.
Neighbour(i, j) == IF i < 0 \/ j < 0 THEN 0 ELSE out[<<i, j>>]

\* The code of the cell at work: blocks follow each other in `type`.
TypeOfCell ==
  LET strip == Offset(data.rows, BlockRow) * data.cols
  IN type[strip + (Height * Offset(data.cols, BlockCol)) + cell + 1]

\* Mutant of Advance: plane blocks do not move the pointer they count with.
AdvanceLorenzo(t) == IF t = 0 /\ ~ByPlane THEN used + 1 ELSE used

\* unpred_data moves on by one value for each code 0.
Advance(t) == IF t = 0 THEN used + 1 ELSE used

DecodeValue ==
  /\ stage = "decode" /\ begun
  /\ LET t == TypeOfCell
         p == IF ByPlane THEN Plane(last, Row, Col)
              ELSE Round(Neighbour(X, Y - 1) + Neighbour(X - 1, Y)
                         - Neighbour(X - 1, Y - 1))
     IN /\ out' = [out EXCEPT ![<<X, Y>>] =
             IF t = 0 THEN Entry(unpred, used + 1) ELSE Restored(p, t - Radius, Eb)]
        /\ used' = Advance(t)
  /\ Step
  /\ stage' = IF LastCell /\ block = Blocks - 1 THEN "done" ELSE "decode"
  /\ UNCHANGED <<data, last, strips, streams, coeffIndex, coeffUsed>>

Next ==
  \/ BeginLorenzo
  \/ \E c \in Planes : BeginPlane(c)
  \/ EncodeValue
  \/ Decompress
  \/ OpenLorenzo
  \/ OpenPlane
  \/ DecodeValue

Spec == Init /\ [][Next]_vars

-----------------------------------------------------------------------------
\* The cells that have been rebuilt: those of earlier blocks and of this one.
Rebuilt ==
  IF stage = "done" THEN DOMAIN data.at
  ELSE {p \in DOMAIN data.at :
          \E b \in 0 .. block :
            LET i == b \div NumBlocks(data.cols)
                j == b % NumBlocks(data.cols)
                row == p[1] - Offset(data.rows, i)
                col == p[2] - Offset(data.cols, j)
            IN /\ row \in 0 .. Length(data.rows, i) - 1
               /\ col \in 0 .. Length(data.cols, j) - 1
               /\ b = block => (row * Length(data.cols, j)) + col < cell}

\* The decompressor, which predicts from the whole array and restores the
\* planes from their codes, rebuilds every value as the compressor, which saw
\* only its strip buffers, took it to.
InSync ==
  stage \in {"decode", "done"} => \A p \in Rebuilt : out[p] = recon[p]

\* Every rebuilt value is within the bound, whichever predictor its block has
\* and whatever plane was fitted to it.
BoundKept ==
  stage \in {"decode", "done"} => \A p \in Rebuilt : Abs(out[p] - data.at[p]) <= Eb

\* When the array is rebuilt, every exact value, every plane and every exact
\* coefficient has been taken, each once.
UsedUp ==
  stage = "done" =>
    /\ used = Len(unpred)
    /\ coeffIndex = Len(coeffType)
    /\ \A e \in 1 .. 3 : coeffUsed[e] = Len(coeffExact[e])
=============================================================================
