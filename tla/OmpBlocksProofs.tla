-------------------------- MODULE OmpBlocksProofs --------------------------
(***************************************************************************)
(* A full team counts every code once and brings the array back, for every *)
(* array none of whose blocks is thin, every number of threads, load of    *)
(* the blocks and interleaving.                                            *)
(*                                                                         *)
(* The first half is about the numbers of the serial code: the grid, the   *)
(* parts of a dimension, the places of the codes of a block, the parts of  *)
(* the array of codes, and the sums of what comes before a block.  They    *)
(* share out what they cut.  The second half is the invariant: what the    *)
(* threads that are past a loop have written is right, and stays so while  *)
(* the others write next to it.                                            *)
(***************************************************************************)
EXTENDS OmpBlocks, FiniteSetTheorems, NaturalsInduction, WellFoundedInduction, TLAPS

-----------------------------------------------------------------------------
(* Numbers                                                                 *)

LEMMA DivMod ==
  ASSUME NEW n \in Nat, NEW d \in Nat \ {0}
  PROVE  n \div d \in Nat /\ n % d \in 0 .. d - 1 /\ n = d * (n \div d) + (n % d)
OBVIOUS

LEMMA DivModUnique ==
  ASSUME NEW n \in Nat, NEW d \in Nat \ {0}, NEW q \in Nat, NEW r \in 0 .. d - 1,
         n = d * q + r
  PROVE  n \div d = q /\ n % d = r
<1> DEFINE p == n \div d
           s == n % d
<1>1. p \in Nat /\ s \in 0 .. d - 1 /\ n = d * p + s  BY DivMod
<1> HIDE DEF p, s
<1>2. d * p \in Int /\ d * q \in Int  BY <1>1
<1>3. ASSUME p >= q + 1 PROVE FALSE
  <2>1. d * p >= d * (q + 1) /\ d * (q + 1) = d * q + d  BY <1>1, <1>3
  <2> QED  BY <1>1, <1>2, <2>1
<1>4. ASSUME p + 1 <= q PROVE FALSE
  <2>1. d * q >= d * (p + 1) /\ d * (p + 1) = d * p + d  BY <1>1, <1>4
  <2> QED  BY <1>1, <1>2, <2>1
<1>5. p = q  BY <1>1, <1>3, <1>4
<1> QED  BY <1>1, <1>2, <1>5 DEF p, s

\* A number below h * d leaves a quotient below h.
LEMMA DivBelow ==
  ASSUME NEW n \in Nat, NEW d \in Nat \ {0}, NEW h \in Nat, n < h * d
  PROVE  n \div d < h
<1> DEFINE p == n \div d
<1>1. p \in Nat /\ n % d \in 0 .. d - 1 /\ n = d * p + (n % d)  BY DivMod
<1> HIDE DEF p
<1>2. d * p <= n  BY <1>1
<1>3. ASSUME p >= h PROVE FALSE
  <2>1. d * p >= d * h /\ d * h = h * d /\ d * p \in Int /\ h * d \in Int  BY <1>1, <1>3
  <2> QED  BY <2>1, <1>2
<1>4. p < h  BY <1>1, <1>3
<1> QED  BY <1>4 DEF p

LEMMA TimesMonotonic ==
  ASSUME NEW m \in Nat, NEW n \in Nat, NEW d \in Nat, m <= n
  PROVE  m * d <= n * d /\ m * d \in Nat /\ n * d \in Nat
OBVIOUS

\* A number below w * h is one of h rows of w, and a place in it.
LEMMA RowAndPlace ==
  ASSUME NEW h \in Nat, NEW w \in Nat, NEW n \in Nat, n < h * w
  PROVE  w # 0 /\ n \div w \in 0 .. h - 1 /\ n % w \in 0 .. w - 1
         /\ n = (n \div w) * w + (n % w)
<1>1. w # 0
  <2>1. ASSUME w = 0 PROVE FALSE
    <3>1. h * w = 0  BY <2>1
    <3> QED  BY <3>1
  <2> QED  BY <2>1
<1>2. n \div w \in Nat /\ n % w \in 0 .. w - 1 /\ n = w * (n \div w) + (n % w)
  BY <1>1, DivMod
<1>3. n \div w < h  BY <1>1, DivBelow
<1>4. w * (n \div w) = (n \div w) * w  BY <1>2
<1> QED  BY <1>1, <1>2, <1>3, <1>4

LEMMA PlaceInRows ==
  ASSUME NEW h \in Nat, NEW w \in Nat, NEW x \in 0 .. h - 1, NEW y \in 0 .. w - 1
  PROVE  /\ x * w + y \in 0 .. h * w - 1
         /\ (x * w + y) \div w = x /\ (x * w + y) % w = y
<1>1. (x + 1) * w <= h * w /\ h * w \in Nat /\ (x + 1) * w \in Nat
  <2>1. x + 1 \in Nat /\ x + 1 <= h  OBVIOUS
  <2> QED  BY <2>1, TimesMonotonic
<1>2. (x + 1) * w = x * w + w /\ x * w \in Nat  OBVIOUS
<1>3. x * w + y \in Nat /\ x * w = w * x  BY <1>2
<1>4. (x * w + y) \div w = x /\ (x * w + y) % w = y
  <2>1. w \in Nat \ {0} /\ x \in Nat  OBVIOUS
  <2> QED  BY <1>3, <2>1, DivModUnique
<1> QED  BY <1>1, <1>2, <1>3, <1>4

\* A set of numbers that is not empty has a least one.
LEMMA LeastNat ==
  ASSUME NEW S \in SUBSET Nat, S # {}
  PROVE  \E n \in S : \A m \in S : n <= m
<1> DEFINE R == OpToRel(<, Nat)
<1>1. IsWellFoundedOn(R, Nat)  BY NatLessThanWellFounded
<1>2. \A x, y \in Nat : x < y => <<x, y>> \in R  BY DEF OpToRel
<1> HIDE DEF R
<1>3. PICK n \in S : \A y \in S : ~ (<<y, n>> \in R)  BY <1>1, WFMin
<1>4. ASSUME NEW m \in S PROVE n <= m
  <2>1. m \in Nat /\ n \in Nat  OBVIOUS
  <2>2. ~ (m < n)  BY <1>2, <1>3, <2>1, Zenon
  <2> QED  BY <2>1, <2>2
<1> QED  BY <1>4

-----------------------------------------------------------------------------
(* The grid                                                                *)

\* Rows and columns of the grid for a number of threads between 2 ^ k and
\* 2 ^ (k + 1).
LEMMA Log2Is ==
  ASSUME NEW n \in 1 .. 127
  PROVE  /\ 1 <= n /\ n < 2 => Log2(n) = 0
         /\ 2 <= n /\ n < 4 => Log2(n) = 1
         /\ 4 <= n /\ n < 8 => Log2(n) = 2
         /\ 8 <= n /\ n < 16 => Log2(n) = 3
         /\ 16 <= n /\ n < 32 => Log2(n) = 4
         /\ 32 <= n /\ n < 64 => Log2(n) = 5
         /\ 64 <= n => Log2(n) = 6
<1> DEFINE Between(k) == 2 ^ k <= n /\ n < 2 ^ (k + 1)
<1>1. /\ Between(0) <=> 1 <= n /\ n < 2
      /\ Between(1) <=> 2 <= n /\ n < 4
      /\ Between(2) <=> 4 <= n /\ n < 8
      /\ Between(3) <=> 8 <= n /\ n < 16
      /\ Between(4) <=> 16 <= n /\ n < 32
      /\ Between(5) <=> 32 <= n /\ n < 64
      /\ Between(6) <=> 64 <= n /\ n < 128
  OBVIOUS
<1>2. Log2(n) = CHOOSE k \in 0 .. 6 : Between(k)  BY DEF Log2
<1> HIDE DEF Between
<1>3. \E k \in 0 .. 6 : Between(k)
  <2>1. Between(0) \/ Between(1) \/ Between(2) \/ Between(3) \/ Between(4) \/ Between(5) \/ Between(6)
    BY <1>1
  <2> QED  BY <2>1
<1>4. Log2(n) \in 0 .. 6 /\ Between(Log2(n))  BY <1>2, <1>3
<1>5. Log2(n) \in {0, 1, 2, 3, 4, 5, 6}  BY <1>4
<1> QED  BY <1>1, <1>4, <1>5

LEMMA GridIs ==
  ASSUME NEW n \in 1 .. 127
  PROVE  Grid(n) = IF n < 2 THEN <<1, 1, n>>
                   ELSE IF n < 4 THEN <<2, 1, n \div 2>>
                   ELSE IF n < 8 THEN <<2, 2, n \div 4>>
                   ELSE IF n < 16 THEN <<2, 2, n \div 4>>
                   ELSE IF n < 32 THEN <<4, 2, n \div 8>>
                   ELSE <<4, 4, n \div 16>>
<1>0. n \in Int /\ 1 <= n /\ n <= 127 /\ n \div 1 = n  OBVIOUS
<1>1. ASSUME Log2(n) = 0 PROVE Grid(n) = <<1, 1, n \div 1>>  BY <1>1 DEF Grid
<1>2. ASSUME Log2(n) = 1 PROVE Grid(n) = <<2, 1, n \div 2>>  BY <1>2 DEF Grid
<1>3. ASSUME Log2(n) = 2 PROVE Grid(n) = <<2, 2, n \div 4>>  BY <1>3 DEF Grid
<1>4. ASSUME Log2(n) = 3 PROVE Grid(n) = <<2, 2, n \div 4>>  BY <1>4 DEF Grid
<1>5. ASSUME Log2(n) = 4 PROVE Grid(n) = <<4, 2, n \div 8>>  BY <1>5 DEF Grid
<1>6. ASSUME Log2(n) = 5 PROVE Grid(n) = <<4, 4, n \div 16>>  BY <1>6 DEF Grid
<1>7. ASSUME Log2(n) = 6 PROVE Grid(n) = <<4, 4, n \div 16>>  BY <1>7 DEF Grid
<1>8. CASE n < 2  BY <1>8, <1>0, <1>1, Log2Is
<1>9. CASE 2 <= n /\ n < 4  BY <1>9, <1>0, <1>2, Log2Is
<1>10. CASE 4 <= n /\ n < 8  BY <1>10, <1>0, <1>3, Log2Is
<1>11. CASE 8 <= n /\ n < 16  BY <1>11, <1>0, <1>4, Log2Is
<1>12. CASE 16 <= n /\ n < 32  BY <1>12, <1>0, <1>5, Log2Is
<1>13. CASE 32 <= n /\ n < 64  BY <1>13, <1>0, <1>6, Log2Is
<1>14. CASE 64 <= n  BY <1>14, <1>0, <1>7, Log2Is
<1> QED  BY <1>0, <1>8, <1>9, <1>10, <1>11, <1>12, <1>13, <1>14

\* A grid for n threads has between one and n blocks, and is the grid for the
\* number of its blocks.
LEMMA GridBlocks ==
  ASSUME NEW n \in 1 .. 127
  PROVE  /\ Grid(n)[1] \in Nat \ {0} /\ Grid(n)[2] \in Nat \ {0} /\ Grid(n)[3] \in Nat \ {0}
         /\ Blocks(Grid(n)) \in 1 .. 127
         /\ Grid(Blocks(Grid(n))) = Grid(n)
<1> DEFINE m == Blocks(Grid(n))
<1>1. ASSUME NEW x \in {1, 2, 4}, NEW y \in {1, 2, 4}, Grid(n) = <<x, y, n \div (x * y)>>
      PROVE  m = (x * y) * (n \div (x * y))
  BY <1>1 DEF Blocks
<1>2. CASE n < 2
  <2>1. n = 1 /\ Grid(n) = <<1, 1, 1>>  BY <1>2, GridIs
  <2>2. m = 1  BY <2>1 DEF Blocks
  <2> QED  BY <2>1, <2>2
<1>3. CASE 2 <= n /\ n < 4
  <2>1. Grid(n) = <<2, 1, n \div 2>> /\ n \div 2 = 1  BY <1>3, GridIs
  <2>2. m = 2  BY <2>1 DEF Blocks
  <2>3. Grid(2) = <<2, 1, 2 \div 2>>  BY GridIs
  <2> QED  BY <2>1, <2>2, <2>3
<1>4. CASE 4 <= n /\ n < 16
  <2>1. Grid(n) = <<2, 2, n \div 4>> /\ n \div 4 \in 1 .. 3  BY <1>4, GridIs
  <2>2. m = 4 * (n \div 4)  BY <2>1 DEF Blocks
  <2>3. m \in 4 .. 15 /\ m \div 4 = n \div 4  BY <2>1, <2>2
  <2>4. Grid(m) = <<2, 2, m \div 4>>  BY <2>3, GridIs
  <2> QED  BY <2>1, <2>3, <2>4
<1>5. CASE 16 <= n /\ n < 32
  <2>1. Grid(n) = <<4, 2, n \div 8>> /\ n \div 8 \in 2 .. 3  BY <1>5, GridIs
  <2>2. m = 8 * (n \div 8)  BY <2>1 DEF Blocks
  <2>3. m \in 16 .. 31 /\ m \div 8 = n \div 8  BY <2>1, <2>2
  <2>4. Grid(m) = <<4, 2, m \div 8>>  BY <2>3, GridIs
  <2> QED  BY <2>1, <2>3, <2>4
<1>6. CASE 32 <= n
  <2>1. Grid(n) = <<4, 4, n \div 16>> /\ n \div 16 \in 2 .. 7  BY <1>6, GridIs
  <2>2. m = 16 * (n \div 16)  BY <2>1 DEF Blocks
  <2>3. m \in 32 .. 127 /\ m \div 16 = n \div 16  BY <2>1, <2>2
  <2>4. Grid(m) = <<4, 4, m \div 16>>  BY <2>3, GridIs
  <2> QED  BY <2>1, <2>3, <2>4
<1> QED  BY <1>2, <1>3, <1>4, <1>5, <1>6

-----------------------------------------------------------------------------
(* The parts of a dimension n cut in num                                   *)

LEMMA PartIs ==
  ASSUME NEW n \in Nat, NEW num \in Nat \ {0}, NEW i \in Nat
  PROVE  /\ Offset(n, num, i) \in Nat /\ Length(n, num, i) \in Nat
         /\ i < n % num => /\ Offset(n, num, i) = i * (n \div num) + i
                           /\ Length(n, num, i) = (n \div num) + 1
         /\ ~ (i < n % num) => /\ Offset(n, num, i) = i * (n \div num) + (n % num)
                               /\ Length(n, num, i) = n \div num
<1> DEFINE q == n \div num
           r == n % num
<1>1. q \in Nat /\ r \in 0 .. num - 1  BY DivMod
<1>2. Length(n, num, i) = IF i < r THEN q + 1 ELSE q  BY DEF Length
<1>3. Offset(n, num, i) = IF i < r THEN i * Length(n, num, i) ELSE i * Length(n, num, i) + r
  BY DEF Offset
<1>4. i * q \in Nat /\ i * (q + 1) = i * q + i  BY <1>1
<1> HIDE DEF q, r
<1>5. CASE i < r  BY <1>5, <1>1, <1>2, <1>3, <1>4 DEF q, r
<1>6. CASE ~ (i < r)  BY <1>6, <1>1, <1>2, <1>3, <1>4 DEF q, r
<1> QED  BY <1>5, <1>6

\* A part ends where the next one begins, or earlier than any later one, and
\* within the dimension.
LEMMA PartsRise ==
  ASSUME NEW n \in Nat, NEW num \in Nat \ {0}, NEW i \in Nat, NEW j \in Nat, i < j
  PROVE  Offset(n, num, i) + Length(n, num, i) <= Offset(n, num, j)
<1> DEFINE q == n \div num
           r == n % num
<1>1. q \in Nat /\ r \in 0 .. num - 1  BY DivMod
<1>2. /\ i < r => /\ Offset(n, num, i) = i * q + i
                  /\ Length(n, num, i) = q + 1
      /\ ~ (i < r) => /\ Offset(n, num, i) = i * q + r
                      /\ Length(n, num, i) = q
  BY PartIs
<1>3. /\ j < r => Offset(n, num, j) = j * q + j
      /\ ~ (j < r) => Offset(n, num, j) = j * q + r
  BY PartIs
<1> HIDE DEF q, r
<1>4. (i + 1) * q <= j * q /\ (i + 1) * q = i * q + q /\ i * q \in Nat /\ j * q \in Nat
  <2>1. i + 1 \in Nat /\ i + 1 <= j  OBVIOUS
  <2>2. (i + 1) * q <= j * q  BY <2>1, <1>1, TimesMonotonic
  <2> QED  BY <2>2, <1>1
<1>5. CASE i < r /\ j < r  BY <1>5, <1>1, <1>2, <1>3, <1>4
<1>6. CASE i < r /\ ~ (j < r)  BY <1>6, <1>1, <1>2, <1>3, <1>4
<1>7. CASE ~ (i < r) /\ ~ (j < r)  BY <1>7, <1>1, <1>2, <1>3, <1>4
<1>8. ~ (i < r) => ~ (j < r)  BY <1>1
<1> QED  BY <1>5, <1>6, <1>7, <1>8

\* The parts follow each other from the beginning of the dimension to its end.
LEMMA PartBounds ==
  ASSUME NEW n \in Nat, NEW num \in Nat \ {0}
  PROVE  /\ Offset(n, num, 0) = 0 /\ Offset(n, num, num) = n
         /\ \A i \in Nat : Offset(n, num, i) + Length(n, num, i) = Offset(n, num, i + 1)
         /\ \A i \in 0 .. num - 1 : Offset(n, num, i) + Length(n, num, i) <= n
<1> DEFINE q == n \div num
           r == n % num
<1>1. q \in Nat /\ r \in 0 .. num - 1 /\ n = num * q + r  BY DivMod
<1>2. \A i \in Nat : /\ i < r => /\ Offset(n, num, i) = i * q + i
                                 /\ Length(n, num, i) = q + 1
                     /\ ~ (i < r) => /\ Offset(n, num, i) = i * q + r
                                     /\ Length(n, num, i) = q
  BY PartIs
<1> HIDE DEF q, r
<1>3. Offset(n, num, 0) = 0  BY <1>1, <1>2
<1>4. Offset(n, num, num) = n
  <2>1. num \in Nat /\ ~ (num < r)  BY <1>1
  <2> QED  BY <2>1, <1>1, <1>2
<1>5. ASSUME NEW i \in Nat
      PROVE  Offset(n, num, i) + Length(n, num, i) = Offset(n, num, i + 1)
  <2>1. i + 1 \in Nat /\ (i + 1) * q = i * q + q /\ i * q \in Nat  BY <1>1
  <2>2. CASE i + 1 < r  BY <2>1, <2>2, <1>1, <1>2
  <2>3. CASE i + 1 = r  BY <2>1, <2>3, <1>1, <1>2
  <2>4. CASE r < i + 1  BY <2>1, <2>4, <1>1, <1>2
  <2> QED  BY <2>2, <2>3, <2>4, <1>1
<1>6. ASSUME NEW i \in 0 .. num - 1 PROVE Offset(n, num, i) + Length(n, num, i) <= n
  <2>1. i \in Nat /\ num \in Nat /\ i < num  OBVIOUS
  <2>2. Offset(n, num, i) + Length(n, num, i) <= Offset(n, num, num)  BY <2>1, PartsRise
  <2> QED  BY <2>2, <1>4
<1> QED  BY <1>3, <1>4, <1>5, <1>6

\* Every place of a dimension, each w wide, is in a part ...
LEMMA Cut ==
  ASSUME NEW n \in Nat, NEW num \in Nat \ {0}, NEW w \in Nat, NEW p \in Nat, p < n * w
  PROVE  \E i \in 0 .. num - 1 :
           /\ Offset(n, num, i) * w <= p
           /\ p < (Offset(n, num, i) + Length(n, num, i)) * w
           /\ p - Offset(n, num, i) * w \in Nat
           /\ p - Offset(n, num, i) * w < Length(n, num, i) * w
<1> DEFINE ends == {i \in Nat : p < Offset(n, num, i + 1) * w}
<1>1. num - 1 \in ends
  <2>1. num - 1 \in Nat /\ num - 1 + 1 = num  OBVIOUS
  <2>2. Offset(n, num, num) = n  BY PartBounds
  <2> QED  BY <2>1, <2>2
<1>2. PICK i \in ends : \A j \in ends : i <= j  BY <1>1, LeastNat
<1>3. i \in 0 .. num - 1  BY <1>1, <1>2
<1>4. Offset(n, num, i) \in Nat /\ Length(n, num, i) \in Nat  BY <1>3, PartIs
<1>5. Offset(n, num, i) + Length(n, num, i) = Offset(n, num, i + 1)  BY <1>3, PartBounds
<1>6. p < (Offset(n, num, i) + Length(n, num, i)) * w  BY <1>2, <1>5
<1>7. Offset(n, num, i) * w <= p
  <2>1. CASE i = 0
    <3>1. Offset(n, num, i) = 0  BY <2>1, PartBounds
    <3> QED  BY <3>1
  <2>2. CASE i # 0
    <3>1. i - 1 \in Nat /\ i - 1 + 1 = i /\ ~ (i <= i - 1)  BY <2>2, <1>3
    <3>2. i - 1 \notin ends  BY <3>1, <1>2
    <3>3. ~ (p < Offset(n, num, i) * w)  BY <3>1, <3>2
    <3> QED  BY <3>3, <1>4
  <2> QED  BY <2>1, <2>2
<1> DEFINE o == Offset(n, num, i)
           l == Length(n, num, i)
<1>8. o * w \in Nat /\ l * w \in Nat /\ (o + l) * w = o * w + l * w  BY <1>4
<1> HIDE DEF o, l, ends
<1>9. p - o * w \in Nat /\ p - o * w < l * w  BY <1>6, <1>7, <1>8 DEF o, l
<1> QED  BY <1>3, <1>6, <1>7, <1>9 DEF o, l

\* ... and in one only.
LEMMA CutOnce ==
  ASSUME NEW n \in Nat, NEW num \in Nat \ {0}, NEW w \in Nat, NEW p \in Nat,
         NEW i \in Nat, NEW j \in Nat,
         Offset(n, num, i) * w <= p, p < (Offset(n, num, i) + Length(n, num, i)) * w,
         Offset(n, num, j) * w <= p, p < (Offset(n, num, j) + Length(n, num, j)) * w
  PROVE  i = j
<1>1. ASSUME NEW a \in Nat, NEW b \in Nat, a < b,
             p < (Offset(n, num, a) + Length(n, num, a)) * w, Offset(n, num, b) * w <= p
      PROVE  FALSE
  <2> DEFINE e == Offset(n, num, a) + Length(n, num, a)
             o == Offset(n, num, b)
  <2>1. e \in Nat /\ o \in Nat
    <3>1. Offset(n, num, a) \in Nat /\ Length(n, num, a) \in Nat  BY PartIs
    <3>2. Offset(n, num, b) \in Nat  BY PartIs
    <3> QED  BY <3>1, <3>2
  <2>2. e <= o  BY <1>1, PartsRise
  <2>3. p < e * w /\ o * w <= p  BY <1>1
  <2> HIDE DEF e, o
  <2>4. e * w <= o * w /\ e * w \in Nat /\ o * w \in Nat  BY <2>1, <2>2, TimesMonotonic
  <2> QED  BY <2>3, <2>4
<1>2. ~ (i < j)  BY <1>1
<1>3. ~ (j < i)  BY <1>1
<1> QED  BY <1>2, <1>3

-----------------------------------------------------------------------------
(* The blocks of a grid                                                    *)

IsGrid(g) == g[1] \in Nat \ {0} /\ g[2] \in Nat \ {0} /\ g[3] \in Nat \ {0}
IsArray == /\ dims[1] \in Nat \ {0} /\ dims[2] \in Nat \ {0} /\ dims[3] \in Nat \ {0}

\* The number of the block in plane x, row y and column z, and the block.
Number(g, x, y, z) == x * (g[2] * g[3]) + (y * g[3] + z)
Box(g, x, y, z) ==
  [offset |-> <<Offset(dims[1], g[1], x), Offset(dims[2], g[2], y), Offset(dims[3], g[3], z)>>,
   length |-> <<Length(dims[1], g[1], x), Length(dims[2], g[2], y), Length(dims[3], g[3], z)>>]

LEMMA Associative ==
  ASSUME NEW a \in Nat, NEW b \in Nat, NEW c \in Nat
  PROVE  /\ a * b * c = a * (b * c) /\ a * b \in Nat /\ b * c \in Nat
         /\ a * (b * c) \in Nat
OBVIOUS

LEMMA BlockAt ==
  ASSUME NEW g, IsGrid(g),
         NEW x \in 0 .. g[1] - 1, NEW y \in 0 .. g[2] - 1, NEW z \in 0 .. g[3] - 1
  PROVE  /\ Number(g, x, y, z) \in 0 .. Blocks(g) - 1
         /\ Block(g, Number(g, x, y, z)) = Box(g, x, y, z)
<1> DEFINE d == g[1]
           e == g[2]
           f == g[3]
           m == y * f + z
           n == x * (e * f) + m
<1>1. d \in Nat \ {0} /\ e \in Nat \ {0} /\ f \in Nat \ {0}  BY DEF IsGrid
<1>2. Number(g, x, y, z) = n  BY DEF Number
<1>3. Blocks(g) = d * e * f  BY DEF Blocks
<1>4. x \in 0 .. d - 1 /\ y \in 0 .. e - 1 /\ z \in 0 .. f - 1  OBVIOUS
<1>5. Block(g, n) = Box(g, n \div (e * f), (n % (e * f)) \div f, n % f)
  BY DEF Block, Box
<1> HIDE DEF d, e, f
<1>6. m \in 0 .. e * f - 1 /\ m \div f = y  BY <1>1, <1>4, PlaceInRows
<1>7. e * f \in Nat  BY <1>1
<1>8. n \in 0 .. d * (e * f) - 1 /\ n \div (e * f) = x /\ n % (e * f) = m
  <2> HIDE DEF m
  <2> DEFINE w == e * f
  <2>1. w \in Nat /\ m \in 0 .. w - 1 /\ d \in Nat  BY <1>1, <1>6, <1>7
  <2> HIDE DEF w
  <2>2. x * w + m \in 0 .. d * w - 1 /\ (x * w + m) \div w = x /\ (x * w + m) % w = m
    BY <2>1, <1>4, PlaceInRows
  <2> QED  BY <2>2 DEF w
<1>9. n % f = z
  <2>1. x * e + y \in Nat  BY <1>1, <1>4
  <2>2. n = f * (x * e + y) + z  BY <1>1, <1>4
  <2>3. n \in Nat  BY <1>8, <1>1, <1>7
  <2> HIDE DEF n
  <2> QED  BY <1>1, <1>4, <2>1, <2>2, <2>3, DivModUnique
<1>10. d * e * f = d * (e * f)  BY <1>1
<1> HIDE DEF n, m
<1> QED  BY <1>2, <1>3, <1>5, <1>6, <1>8, <1>9, <1>10

LEMMA BlockHas ==
  ASSUME NEW g, IsGrid(g), NEW id \in 0 .. Blocks(g) - 1
  PROVE  \E x \in 0 .. g[1] - 1, y \in 0 .. g[2] - 1, z \in 0 .. g[3] - 1 :
           id = Number(g, x, y, z)
<1> DEFINE d == g[1]
           e == g[2]
           f == g[3]
           w == e * f
<1>1. d \in Nat \ {0} /\ e \in Nat \ {0} /\ f \in Nat \ {0}  BY DEF IsGrid
<1>2. Blocks(g) = d * e * f  BY DEF Blocks
<1>3. \A x, y, z : Number(g, x, y, z) = x * w + (y * f + z)  BY DEF Number
<1> HIDE DEF d, e, f
<1>4. w \in Nat /\ d * e * f = d * w  BY <1>1
<1>5. id \in Nat /\ id < d * w  BY <1>1, <1>2, <1>4
<1> DEFINE x == id \div w
           m == id % w
<1>6. w # 0 /\ x \in 0 .. d - 1 /\ m \in 0 .. w - 1 /\ id = x * w + m
  <2> HIDE DEF w
  <2>1. d \in Nat  BY <1>1
  <2> QED  BY <2>1, <1>4, <1>5, RowAndPlace
<1> HIDE DEF x, m
<1>7. m \in Nat /\ m < e * f /\ e \in Nat /\ f \in Nat  BY <1>1, <1>6, <1>4
<1>8. m \div f \in 0 .. e - 1 /\ m % f \in 0 .. f - 1 /\ m = (m \div f) * f + (m % f)
  BY <1>7, RowAndPlace
<1>9. id = Number(g, x, m \div f, m % f)  BY <1>3, <1>6, <1>8
<1> QED  BY <1>6, <1>8, <1>9 DEF d, e, f

LEMMA BoxIs ==
  ASSUME NEW g, IsGrid(g), IsArray,
         NEW x \in 0 .. g[1] - 1, NEW y \in 0 .. g[2] - 1, NEW z \in 0 .. g[3] - 1
  PROVE  LET b == Box(g, x, y, z)
         IN /\ b.offset[1] \in Nat /\ b.offset[2] \in Nat /\ b.offset[3] \in Nat
            /\ b.length[1] \in Nat /\ b.length[2] \in Nat /\ b.length[3] \in Nat
            /\ b.offset[1] + b.length[1] <= dims[1]
            /\ b.offset[2] + b.length[2] <= dims[2]
            /\ b.offset[3] + b.length[3] <= dims[3]
<1>1. /\ dims[1] \in Nat /\ dims[2] \in Nat /\ dims[3] \in Nat  BY DEF IsArray
<1>2. /\ g[1] \in Nat \ {0} /\ g[2] \in Nat \ {0} /\ g[3] \in Nat \ {0}  BY DEF IsGrid
<1>3. x \in Nat /\ y \in Nat /\ z \in Nat  BY <1>2
<1>4. Offset(dims[1], g[1], x) \in Nat /\ Length(dims[1], g[1], x) \in Nat
  BY <1>1, <1>2, <1>3, PartIs
<1>5. Offset(dims[2], g[2], y) \in Nat /\ Length(dims[2], g[2], y) \in Nat
  BY <1>1, <1>2, <1>3, PartIs
<1>6. Offset(dims[3], g[3], z) \in Nat /\ Length(dims[3], g[3], z) \in Nat
  BY <1>1, <1>2, <1>3, PartIs
<1>7. Offset(dims[1], g[1], x) + Length(dims[1], g[1], x) <= dims[1]  BY <1>1, <1>2, PartBounds
<1>8. Offset(dims[2], g[2], y) + Length(dims[2], g[2], y) <= dims[2]  BY <1>1, <1>2, PartBounds
<1>9. Offset(dims[3], g[3], z) + Length(dims[3], g[3], z) <= dims[3]  BY <1>1, <1>2, PartBounds
<1> QED  BY <1>4, <1>5, <1>6, <1>7, <1>8, <1>9 DEF Box
\* Planes, rows and codes of a block follow each other: what is left of the
\* position of a code, without the blocks in planes before, is in the planes
\* of the block, and so on.
LEMMA Nested ==
  ASSUME NEW a \in Nat, NEW b \in Nat, NEW c \in Nat,
         NEW l \in Nat, NEW m \in Nat, NEW n \in Nat,
         NEW d \in Nat, NEW e \in Nat, NEW f \in Nat, NEW k \in Nat,
         a + l <= d, b + m <= e, c + n <= f, k < n * (l * m)
  PROVE  LET q == c * (l * m) + k
             r == b * (l * f) + q
             s == a * (e * f) + r
         IN /\ q \in Nat /\ r \in Nat /\ s \in Nat
            /\ c * (l * m) <= q /\ q < (c + n) * (l * m)
            /\ b * (l * f) <= r /\ r < (b + m) * (l * f)
            /\ a * (e * f) <= s /\ s < (a + l) * (e * f)
            /\ s < d * (e * f)
<1> DEFINE q == c * (l * m) + k
           r == b * (l * f) + q
           s == a * (e * f) + r
<1>1. q \in Nat /\ c * (l * m) <= q /\ q < (c + n) * (l * m)
  <2>1. c * (l * m) \in Nat /\ n * (l * m) \in Nat
    <3>1. l * m \in Nat  OBVIOUS
    <3> QED  BY <3>1
  <2>2. (c + n) * (l * m) = c * (l * m) + n * (l * m)
    <3> DEFINE w == l * m
    <3>1. w \in Nat  OBVIOUS
    <3> HIDE DEF w
    <3>2. (c + n) * w = c * w + n * w  BY <3>1
    <3> QED  BY <3>2 DEF w
  <2> QED  BY <2>1, <2>2
<1>2. (c + n) * (l * m) <= m * (l * f)
  <2>1. l * m \in Nat /\ c + n \in Nat  OBVIOUS
  <2>2. (c + n) * (l * m) <= f * (l * m)  BY <2>1, TimesMonotonic
  <2>3. f * (l * m) = m * (l * f)  OBVIOUS
  <2> QED  BY <2>2, <2>3
<1> HIDE DEF q
<1>3. q < m * (l * f)
  <2>1. (c + n) * (l * m) \in Nat /\ m * (l * f) \in Nat
    <3>1. l * m \in Nat /\ l * f \in Nat /\ c + n \in Nat  OBVIOUS
    <3> QED  BY <3>1
  <2> QED  BY <1>1, <1>2, <2>1
<1>4. r \in Nat /\ b * (l * f) <= r /\ r < (b + m) * (l * f)
  <2> DEFINE w == l * f
  <2>1. w \in Nat  OBVIOUS
  <2> HIDE DEF w
  <2>2. b * w \in Nat /\ m * w \in Nat /\ (b + m) * w = b * w + m * w  BY <2>1
  <2>3. q < m * w  BY <1>3 DEF w
  <2>4. r = b * w + q  BY DEF w
  <2>5. r \in Nat /\ b * w <= r /\ r < (b + m) * w  BY <1>1, <2>2, <2>3, <2>4
  <2> QED  BY <2>5 DEF w
<1>5. (b + m) * (l * f) <= l * (e * f)
  <2>1. l * f \in Nat /\ b + m \in Nat  OBVIOUS
  <2>2. (b + m) * (l * f) <= e * (l * f)  BY <2>1, TimesMonotonic
  <2>3. e * (l * f) = l * (e * f)  OBVIOUS
  <2> QED  BY <2>2, <2>3
<1> HIDE DEF r
<1> DEFINE w == e * f
<1>6. w \in Nat  OBVIOUS
<1>7. r < l * w
  <2>1. (b + m) * (l * f) \in Nat /\ l * (e * f) \in Nat
    <3>1. e * f \in Nat /\ l * f \in Nat /\ b + m \in Nat  OBVIOUS
    <3> QED  BY <3>1
  <2> QED  BY <1>4, <1>5, <2>1
<1> HIDE DEF w
<1>8. a * w \in Nat /\ l * w \in Nat /\ (a + l) * w = a * w + l * w  BY <1>6
<1>9. s = a * w + r  BY DEF w
<1>10. s \in Nat /\ a * w <= s /\ s < (a + l) * w  BY <1>4, <1>7, <1>8, <1>9
<1>11. (a + l) * w <= d * w /\ (a + l) * w \in Nat /\ d * w \in Nat
  <2>1. a + l \in Nat  OBVIOUS
  <2> QED  BY <2>1, <1>6, TimesMonotonic
<1>12. s < d * w  BY <1>10, <1>11
<1> QED  BY <1>1, <1>4, <1>10, <1>12 DEF q, r, s, w

\* Where a code of a block is.
LEMMA CodeIn ==
  ASSUME NEW g, IsGrid(g), IsArray,
         NEW x \in 0 .. g[1] - 1, NEW y \in 0 .. g[2] - 1, NEW z \in 0 .. g[3] - 1,
         NEW k \in Nat,
         LET b == Box(g, x, y, z) IN k < b.length[1] * b.length[2] * b.length[3]
  PROVE  LET b == Box(g, x, y, z)
             q == b.offset[3] * (b.length[1] * b.length[2]) + k
             r == b.offset[2] * (b.length[1] * dims[3]) + q
             s == b.offset[1] * (dims[2] * dims[3]) + r
         IN /\ TypeOffset(b) \in Nat /\ s = TypeOffset(b) + k
            /\ q \in Nat /\ r \in Nat /\ s \in Nat
            /\ b.offset[3] * (b.length[1] * b.length[2]) <= q
            /\ q < (b.offset[3] + b.length[3]) * (b.length[1] * b.length[2])
            /\ b.offset[2] * (b.length[1] * dims[3]) <= r
            /\ r < (b.offset[2] + b.length[2]) * (b.length[1] * dims[3])
            /\ b.offset[1] * (dims[2] * dims[3]) <= s
            /\ s < (b.offset[1] + b.length[1]) * (dims[2] * dims[3])
            /\ s < Elements
<1> DEFINE b == Box(g, x, y, z)
           ox == b.offset[1]
           oy == b.offset[2]
           oz == b.offset[3]
           lx == b.length[1]
           ly == b.length[2]
           lz == b.length[3]
           d1 == dims[1]
           d2 == dims[2]
           d3 == dims[3]
<1>1. /\ ox \in Nat /\ oy \in Nat /\ oz \in Nat /\ lx \in Nat /\ ly \in Nat /\ lz \in Nat
      /\ ox + lx <= d1 /\ oy + ly <= d2 /\ oz + lz <= d3
  BY BoxIs
<1>2. d1 \in Nat /\ d2 \in Nat /\ d3 \in Nat  BY DEF IsArray
<1>3. k < lx * ly * lz  OBVIOUS
<1>4. TypeOffset(b) = ox * d2 * d3 + oy * lx * d3 + oz * lx * ly  BY DEF TypeOffset
<1>5. Elements = d1 * d2 * d3  BY DEF Elements
<1> HIDE DEF b, ox, oy, oz, lx, ly, lz, d1, d2, d3
<1>6. lx * ly * lz = lz * (lx * ly)  BY <1>1
<1>7. ox * d2 * d3 = ox * (d2 * d3) /\ ox * (d2 * d3) \in Nat  BY <1>1, <1>2, Associative
<1>8. oy * lx * d3 = oy * (lx * d3) /\ oy * (lx * d3) \in Nat  BY <1>1, <1>2, Associative
<1>9. oz * lx * ly = oz * (lx * ly) /\ oz * (lx * ly) \in Nat  BY <1>1, <1>2, Associative
<1>10. d1 * d2 * d3 = d1 * (d2 * d3)  BY <1>2, Associative
<1> DEFINE q == oz * (lx * ly) + k
           r == oy * (lx * d3) + q
           s == ox * (d2 * d3) + r
<1>11. k < lz * (lx * ly)  BY <1>3, <1>6
<1>12. /\ q \in Nat /\ r \in Nat /\ s \in Nat
       /\ oz * (lx * ly) <= q /\ q < (oz + lz) * (lx * ly)
       /\ oy * (lx * d3) <= r /\ r < (oy + ly) * (lx * d3)
       /\ ox * (d2 * d3) <= s /\ s < (ox + lx) * (d2 * d3)
       /\ s < d1 * (d2 * d3)
  BY <1>1, <1>2, <1>11, Nested
<1>13. TypeOffset(b) \in Nat /\ s = TypeOffset(b) + k  BY <1>4, <1>7, <1>8, <1>9
<1> HIDE DEF q, r, s
<1>14. s < Elements  BY <1>5, <1>10, <1>12
<1> QED  BY <1>12, <1>13, <1>14 DEF b, ox, oy, oz, lx, ly, lz, d1, d2, d3, q, r, s
\* The codes of different blocks are at different positions.
LEMMA CodeOnce ==
  ASSUME NEW g, IsGrid(g), IsArray,
         NEW x \in 0 .. g[1] - 1, NEW y \in 0 .. g[2] - 1, NEW z \in 0 .. g[3] - 1,
         NEW u \in 0 .. g[1] - 1, NEW v \in 0 .. g[2] - 1, NEW w \in 0 .. g[3] - 1,
         NEW k \in Nat, NEW h \in Nat,
         LET b == Box(g, x, y, z) IN k < b.length[1] * b.length[2] * b.length[3],
         LET b == Box(g, u, v, w) IN h < b.length[1] * b.length[2] * b.length[3],
         TypeOffset(Box(g, x, y, z)) + k = TypeOffset(Box(g, u, v, w)) + h
  PROVE  x = u /\ y = v /\ z = w
<1> DEFINE b == Box(g, x, y, z)
           q == b.offset[3] * (b.length[1] * b.length[2]) + k
           r == b.offset[2] * (b.length[1] * dims[3]) + q
           s == b.offset[1] * (dims[2] * dims[3]) + r
           c == Box(g, u, v, w)
           i == c.offset[3] * (c.length[1] * c.length[2]) + h
           j == c.offset[2] * (c.length[1] * dims[3]) + i
           l == c.offset[1] * (dims[2] * dims[3]) + j
<1>1. /\ s = TypeOffset(b) + k
      /\ q \in Nat /\ r \in Nat /\ s \in Nat
      /\ b.offset[3] * (b.length[1] * b.length[2]) <= q
      /\ q < (b.offset[3] + b.length[3]) * (b.length[1] * b.length[2])
      /\ b.offset[2] * (b.length[1] * dims[3]) <= r
      /\ r < (b.offset[2] + b.length[2]) * (b.length[1] * dims[3])
      /\ b.offset[1] * (dims[2] * dims[3]) <= s
      /\ s < (b.offset[1] + b.length[1]) * (dims[2] * dims[3])
  BY CodeIn
<1>2. /\ l = TypeOffset(c) + h
      /\ i \in Nat /\ j \in Nat /\ l \in Nat
      /\ c.offset[3] * (c.length[1] * c.length[2]) <= i
      /\ i < (c.offset[3] + c.length[3]) * (c.length[1] * c.length[2])
      /\ c.offset[2] * (c.length[1] * dims[3]) <= j
      /\ j < (c.offset[2] + c.length[2]) * (c.length[1] * dims[3])
      /\ c.offset[1] * (dims[2] * dims[3]) <= l
      /\ l < (c.offset[1] + c.length[1]) * (dims[2] * dims[3])
  BY CodeIn
<1>3. /\ b.offset[1] \in Nat /\ b.offset[2] \in Nat
      /\ b.length[1] \in Nat /\ b.length[2] \in Nat
  BY BoxIs
<1>4. /\ c.offset[1] \in Nat /\ c.offset[2] \in Nat
      /\ c.length[1] \in Nat /\ c.length[2] \in Nat
  BY BoxIs
<1>5. /\ b.offset[1] = Offset(dims[1], g[1], x) /\ b.length[1] = Length(dims[1], g[1], x)
      /\ b.offset[2] = Offset(dims[2], g[2], y) /\ b.length[2] = Length(dims[2], g[2], y)
      /\ b.offset[3] = Offset(dims[3], g[3], z) /\ b.length[3] = Length(dims[3], g[3], z)
      /\ c.offset[1] = Offset(dims[1], g[1], u) /\ c.length[1] = Length(dims[1], g[1], u)
      /\ c.offset[2] = Offset(dims[2], g[2], v) /\ c.length[2] = Length(dims[2], g[2], v)
      /\ c.offset[3] = Offset(dims[3], g[3], w) /\ c.length[3] = Length(dims[3], g[3], w)
  BY DEF Box
<1>6. s = l  BY <1>1, <1>2
<1>7. /\ dims[1] \in Nat /\ dims[2] \in Nat /\ dims[3] \in Nat  BY DEF IsArray
<1>8. /\ g[1] \in Nat \ {0} /\ g[2] \in Nat \ {0} /\ g[3] \in Nat \ {0}  BY DEF IsGrid
<1>9. /\ x \in Nat /\ y \in Nat /\ z \in Nat /\ u \in Nat /\ v \in Nat /\ w \in Nat
  BY <1>8
<1>10. dims[2] * dims[3] \in Nat  BY <1>7
<1>11. b.offset[1] * (dims[2] * dims[3]) + r = c.offset[1] * (dims[2] * dims[3]) + j
  BY <1>6
<1> DEFINE o == b.offset[2] * (b.length[1] * dims[3])
           p == c.offset[2] * (c.length[1] * dims[3])
<1>12. o + q = r /\ p + i = j  OBVIOUS
<1> HIDE DEF b, c, q, r, s, i, j, l
<1>13. x = u
  <2>1. /\ Offset(dims[1], g[1], x) * (dims[2] * dims[3]) <= s
        /\ s < (Offset(dims[1], g[1], x) + Length(dims[1], g[1], x)) * (dims[2] * dims[3])
        /\ Offset(dims[1], g[1], u) * (dims[2] * dims[3]) <= s
        /\ s < (Offset(dims[1], g[1], u) + Length(dims[1], g[1], u)) * (dims[2] * dims[3])
    BY <1>1, <1>2, <1>5, <1>6
  <2> QED  BY <2>1, <1>1, <1>7, <1>8, <1>9, <1>10, CutOnce
<1>14. r = j /\ b.length[1] = c.length[1]
  <2>1. b.offset[1] = c.offset[1] /\ b.length[1] = c.length[1]  BY <1>5, <1>13
  <2>2. b.offset[1] * (dims[2] * dims[3]) \in Nat  BY <1>3, <1>10
  <2> QED  BY <2>1, <2>2, <1>1, <1>2, <1>11
<1>15. b.length[1] * dims[3] \in Nat  BY <1>3, <1>7
<1>16. y = v
  <2>1. /\ Offset(dims[2], g[2], y) * (b.length[1] * dims[3]) <= r
        /\ r < (Offset(dims[2], g[2], y) + Length(dims[2], g[2], y)) * (b.length[1] * dims[3])
        /\ Offset(dims[2], g[2], v) * (b.length[1] * dims[3]) <= r
        /\ r < (Offset(dims[2], g[2], v) + Length(dims[2], g[2], v)) * (b.length[1] * dims[3])
    BY <1>1, <1>2, <1>5, <1>14
  <2> QED  BY <2>1, <1>1, <1>7, <1>8, <1>9, <1>15, CutOnce
<1>17. q = i /\ b.length[2] = c.length[2]
  <2>1. b.offset[2] = c.offset[2] /\ b.length[2] = c.length[2]  BY <1>5, <1>16
  <2>2. o \in Nat  BY <1>3, <1>15
  <2>3. o = p  BY <2>1, <1>14
  <2> HIDE DEF o, p
  <2> QED  BY <2>1, <2>2, <2>3, <1>1, <1>2, <1>12, <1>14
<1>18. b.length[1] * b.length[2] \in Nat  BY <1>3
<1>19. z = w
  <2>1. /\ Offset(dims[3], g[3], z) * (b.length[1] * b.length[2]) <= q
        /\ q < (Offset(dims[3], g[3], z) + Length(dims[3], g[3], z)) * (b.length[1] * b.length[2])
        /\ Offset(dims[3], g[3], w) * (b.length[1] * b.length[2]) <= q
        /\ q < (Offset(dims[3], g[3], w) + Length(dims[3], g[3], w)) * (b.length[1] * b.length[2])
    BY <1>1, <1>2, <1>5, <1>14, <1>17
  <2> QED  BY <2>1, <1>1, <1>7, <1>8, <1>9, <1>18, CutOnce
<1> QED  BY <1>13, <1>16, <1>19

\* Every position of the array of codes is in a block.
LEMMA CodeThere ==
  ASSUME NEW g, IsGrid(g), IsArray, NEW s \in Nat, s < Elements
  PROVE  \E x \in 0 .. g[1] - 1, y \in 0 .. g[2] - 1, z \in 0 .. g[3] - 1 :
           LET b == Box(g, x, y, z)
           IN \E k \in 0 .. b.length[1] * b.length[2] * b.length[3] - 1 : s = TypeOffset(b) + k
<1>1. /\ dims[1] \in Nat /\ dims[2] \in Nat /\ dims[3] \in Nat  BY DEF IsArray
<1>2. /\ g[1] \in Nat \ {0} /\ g[2] \in Nat \ {0} /\ g[3] \in Nat \ {0}  BY DEF IsGrid
<1>3. s < dims[1] * (dims[2] * dims[3]) /\ dims[2] * dims[3] \in Nat
  BY <1>1, Associative DEF Elements
<1>4. PICK x \in 0 .. g[1] - 1 :
        LET r == s - Offset(dims[1], g[1], x) * (dims[2] * dims[3])
        IN r \in Nat /\ r < Length(dims[1], g[1], x) * (dims[2] * dims[3])
  BY <1>1, <1>2, <1>3, Cut
<1> DEFINE lx == Length(dims[1], g[1], x)
           r == s - Offset(dims[1], g[1], x) * (dims[2] * dims[3])
<1>5. x \in Nat  BY <1>2
<1>6. lx \in Nat /\ Offset(dims[1], g[1], x) \in Nat  BY <1>1, <1>2, <1>5, PartIs
<1>7. lx * (dims[2] * dims[3]) = dims[2] * (lx * dims[3]) /\ lx * dims[3] \in Nat
  <2> HIDE DEF lx
  <2> QED  BY <1>1, <1>6
<1>8. r \in Nat /\ r < dims[2] * (lx * dims[3])  BY <1>4, <1>7
<1> HIDE DEF r
<1>9. PICK y \in 0 .. g[2] - 1 :
        LET q == r - Offset(dims[2], g[2], y) * (lx * dims[3])
        IN q \in Nat /\ q < Length(dims[2], g[2], y) * (lx * dims[3])
  <2> HIDE DEF lx
  <2> QED  BY <1>1, <1>2, <1>7, <1>8, Cut
<1> DEFINE ly == Length(dims[2], g[2], y)
           q == r - Offset(dims[2], g[2], y) * (lx * dims[3])
<1>10. y \in Nat  BY <1>2
<1>11. ly \in Nat /\ Offset(dims[2], g[2], y) \in Nat  BY <1>1, <1>2, <1>10, PartIs
<1>12. ly * (lx * dims[3]) = dims[3] * (lx * ly) /\ lx * ly \in Nat
  <2> HIDE DEF lx, ly
  <2> QED  BY <1>1, <1>6, <1>11
<1>13. q \in Nat /\ q < dims[3] * (lx * ly)  BY <1>9, <1>12
<1> HIDE DEF q
<1>14. PICK z \in 0 .. g[3] - 1 :
         LET k == q - Offset(dims[3], g[3], z) * (lx * ly)
         IN k \in Nat /\ k < Length(dims[3], g[3], z) * (lx * ly)
  <2> HIDE DEF lx, ly
  <2> QED  BY <1>1, <1>2, <1>12, <1>13, Cut
<1> DEFINE lz == Length(dims[3], g[3], z)
           k == q - Offset(dims[3], g[3], z) * (lx * ly)
           b == Box(g, x, y, z)
<1>15. z \in Nat  BY <1>2
<1>16. lz \in Nat /\ Offset(dims[3], g[3], z) \in Nat  BY <1>1, <1>2, <1>15, PartIs
<1>17. k \in Nat /\ k < lz * (lx * ly)  BY <1>14
<1>18. /\ b.offset[1] = Offset(dims[1], g[1], x) /\ b.length[1] = lx
       /\ b.offset[2] = Offset(dims[2], g[2], y) /\ b.length[2] = ly
       /\ b.offset[3] = Offset(dims[3], g[3], z) /\ b.length[3] = lz
  BY DEF Box
<1> DEFINE ox == b.offset[1]
           oy == b.offset[2]
           oz == b.offset[3]
<1>19. TypeOffset(b) = ox * dims[2] * dims[3] + oy * lx * dims[3] + oz * lx * ly
  BY <1>18 DEF TypeOffset
<1>20. ox \in Nat /\ oy \in Nat /\ oz \in Nat  BY <1>6, <1>11, <1>16, <1>18
<1>21. /\ s = ox * (dims[2] * dims[3]) + r /\ ox * (dims[2] * dims[3]) \in Nat
  <2>1. r = s - ox * (dims[2] * dims[3])  BY <1>18 DEF r
  <2> HIDE DEF ox, b
  <2>2. ox * (dims[2] * dims[3]) \in Nat  BY <1>3, <1>20
  <2> QED  BY <2>1, <2>2
<1>22. /\ r = oy * (lx * dims[3]) + q /\ oy * (lx * dims[3]) \in Nat
  <2>1. q = r - oy * (lx * dims[3])  BY <1>18 DEF q
  <2> HIDE DEF oy, b, lx
  <2>2. oy * (lx * dims[3]) \in Nat  BY <1>7, <1>20
  <2> QED  BY <2>1, <2>2, <1>8
<1>23. /\ q = oz * (lx * ly) + k /\ oz * (lx * ly) \in Nat
  <2>1. k = q - oz * (lx * ly)  BY <1>18
  <2> HIDE DEF oz, b, lx, ly, k
  <2>2. oz * (lx * ly) \in Nat  BY <1>12, <1>20
  <2> QED  BY <2>1, <2>2, <1>13
<1> HIDE DEF k
<1>24. s = TypeOffset(b) + k
  <2> HIDE DEF ox, oy, oz, b, lx, ly, lz
  <2>1. ox * dims[2] * dims[3] = ox * (dims[2] * dims[3])  BY <1>1, <1>20, Associative
  <2>2. oy * lx * dims[3] = oy * (lx * dims[3])  BY <1>1, <1>6, <1>20, Associative
  <2>3. oz * lx * ly = oz * (lx * ly)  BY <1>6, <1>11, <1>20, Associative
  <2> QED  BY <2>1, <2>2, <2>3, <1>17, <1>19, <1>21, <1>22, <1>23
<1>25. k \in 0 .. b.length[1] * b.length[2] * b.length[3] - 1
  <2>1. b.length[1] * b.length[2] * b.length[3] = lx * ly * lz  BY <1>18
  <2> HIDE DEF b, lx, ly, lz
  <2>2. lx * ly * lz = lz * (lx * ly) /\ lx * ly * lz \in Nat  BY <1>6, <1>11, <1>16
  <2> QED  BY <2>1, <2>2, <1>17
<1> QED  BY <1>24, <1>25
\* A code of a block is of a value of the array, and every value has one.
LEMMA CellIs ==
  ASSUME NEW g, IsGrid(g), IsArray,
         NEW x \in 0 .. g[1] - 1, NEW y \in 0 .. g[2] - 1, NEW z \in 0 .. g[3] - 1,
         NEW k \in Nat,
         LET b == Box(g, x, y, z) IN k < b.length[1] * b.length[2] * b.length[3]
  PROVE  CellOf(Box(g, x, y, z), k) \in Nat
<1> DEFINE b == Box(g, x, y, z)
           lx == b.length[1]
           ly == b.length[2]
           lz == b.length[3]
<1>1. /\ b.offset[1] \in Nat /\ b.offset[2] \in Nat /\ b.offset[3] \in Nat
      /\ lx \in Nat /\ ly \in Nat /\ lz \in Nat
  BY BoxIs
<1>2. dims[2] \in Nat /\ dims[3] \in Nat  BY DEF IsArray
<1>3. CellOf(b, k) = ((b.offset[1] + (k \div (ly * lz))) * dims[2] + b.offset[2] + ((k \div lz) % ly))
                       * dims[3] + b.offset[3] + (k % lz)
  BY DEF CellOf
<1>4. k < lx * ly * lz  OBVIOUS
<1> HIDE DEF b, lx, ly, lz
<1>5. lx * ly \in Nat /\ ly * lz \in Nat /\ lx * ly * lz = lx * (ly * lz)  BY <1>1, Associative
<1>6. k < (lx * ly) * lz /\ k < lx * (ly * lz)  BY <1>4, <1>5
<1>7. k \div lz \in 0 .. lx * ly - 1 /\ k % lz \in 0 .. lz - 1  BY <1>1, <1>5, <1>6, RowAndPlace
<1>8. k \div (ly * lz) \in 0 .. lx - 1  BY <1>1, <1>5, <1>6, RowAndPlace
<1>9. (k \div lz) % ly \in 0 .. ly - 1
  <2>1. k \div lz \in Nat /\ k \div lz < lx * ly  BY <1>5, <1>7
  <2> QED  BY <2>1, <1>1, RowAndPlace
<1> DEFINE i == k \div (ly * lz)
           j == (k \div lz) % ly
           h == k % lz
<1>10. i \in Nat /\ j \in Nat /\ h \in Nat  BY <1>1, <1>7, <1>8, <1>9
<1>11. CellOf(b, k) = ((b.offset[1] + i) * dims[2] + b.offset[2] + j) * dims[3] + b.offset[3] + h
  BY <1>3
<1> HIDE DEF i, j, h
<1> DEFINE row == (b.offset[1] + i) * dims[2] + b.offset[2] + j
<1>12. row \in Nat  BY <1>1, <1>2, <1>10
<1>13. CellOf(b, k) = row * dims[3] + b.offset[3] + h  BY <1>11
<1> HIDE DEF row
<1>14. row * dims[3] \in Nat  BY <1>2, <1>12
<1>15. CellOf(b, k) \in Nat  BY <1>1, <1>10, <1>13, <1>14
<1> QED  BY <1>15 DEF b

LEMMA CellThere ==
  ASSUME NEW g, IsGrid(g), IsArray, NEW c \in Nat, c < Elements
  PROVE  \E x \in 0 .. g[1] - 1, y \in 0 .. g[2] - 1, z \in 0 .. g[3] - 1 :
           LET b == Box(g, x, y, z)
           IN \E k \in 0 .. b.length[1] * b.length[2] * b.length[3] - 1 : CellOf(b, k) = c
<1>1. /\ dims[1] \in Nat /\ dims[2] \in Nat /\ dims[3] \in Nat  BY DEF IsArray
<1>2. /\ g[1] \in Nat \ {0} /\ g[2] \in Nat \ {0} /\ g[3] \in Nat \ {0}  BY DEF IsGrid
<1>3. dims[1] * dims[2] \in Nat /\ c < (dims[1] * dims[2]) * dims[3]  BY <1>1 DEF Elements
<1> DEFINE row == c \div dims[3]
           Z == c % dims[3]
<1>4. row \in 0 .. dims[1] * dims[2] - 1 /\ Z \in 0 .. dims[3] - 1 /\ c = row * dims[3] + Z
  BY <1>1, <1>3, RowAndPlace
<1> HIDE DEF row, Z
<1> DEFINE X == row \div dims[2]
           Y == row % dims[2]
<1>5. X \in 0 .. dims[1] - 1 /\ Y \in 0 .. dims[2] - 1 /\ row = X * dims[2] + Y
  <2>1. row \in Nat /\ row < dims[1] * dims[2]  BY <1>3, <1>4
  <2> QED  BY <1>1, <2>1, RowAndPlace
<1> HIDE DEF X, Y
<1>6. ASSUME NEW n \in Nat, NEW num \in Nat \ {0}, NEW p \in 0 .. n - 1
      PROVE  \E i \in 0 .. num - 1 : /\ Offset(n, num, i) \in Nat /\ Length(n, num, i) \in Nat
                                     /\ p - Offset(n, num, i) \in 0 .. Length(n, num, i) - 1
  <2>1. p \in Nat /\ p < n * 1 /\ 1 \in Nat  OBVIOUS
  <2>2. PICK i \in 0 .. num - 1 : /\ p - Offset(n, num, i) * 1 \in Nat
                                  /\ p - Offset(n, num, i) * 1 < Length(n, num, i) * 1
    BY <2>1, Cut
  <2>3. i \in Nat  OBVIOUS
  <2>4. Offset(n, num, i) \in Nat /\ Length(n, num, i) \in Nat  BY <2>3, PartIs
  <2>5. p - Offset(n, num, i) \in 0 .. Length(n, num, i) - 1  BY <2>2, <2>4
  <2> QED  BY <2>4, <2>5
<1>7. PICK x \in 0 .. g[1] - 1 :
        /\ Offset(dims[1], g[1], x) \in Nat /\ Length(dims[1], g[1], x) \in Nat
        /\ X - Offset(dims[1], g[1], x) \in 0 .. Length(dims[1], g[1], x) - 1
  BY <1>1, <1>2, <1>5, <1>6
<1>8. PICK y \in 0 .. g[2] - 1 :
        /\ Offset(dims[2], g[2], y) \in Nat /\ Length(dims[2], g[2], y) \in Nat
        /\ Y - Offset(dims[2], g[2], y) \in 0 .. Length(dims[2], g[2], y) - 1
  BY <1>1, <1>2, <1>5, <1>6
<1>9. PICK z \in 0 .. g[3] - 1 :
        /\ Offset(dims[3], g[3], z) \in Nat /\ Length(dims[3], g[3], z) \in Nat
        /\ Z - Offset(dims[3], g[3], z) \in 0 .. Length(dims[3], g[3], z) - 1
  BY <1>1, <1>2, <1>4, <1>6
<1> DEFINE b == Box(g, x, y, z)
           lx == b.length[1]
           ly == b.length[2]
           lz == b.length[3]
           i == X - b.offset[1]
           j == Y - b.offset[2]
           h == Z - b.offset[3]
           m == j * lz + h
           k == i * (ly * lz) + m
<1>10. /\ lx \in Nat /\ ly \in Nat /\ lz \in Nat
       /\ b.offset[1] \in Nat /\ b.offset[2] \in Nat /\ b.offset[3] \in Nat
       /\ i \in 0 .. lx - 1 /\ j \in 0 .. ly - 1 /\ h \in 0 .. lz - 1
  BY <1>7, <1>8, <1>9 DEF Box
<1>11. CellOf(b, k) = ((b.offset[1] + (k \div (ly * lz))) * dims[2] + b.offset[2] + ((k \div lz) % ly))
                        * dims[3] + b.offset[3] + (k % lz)
  BY DEF CellOf
<1>12. b.offset[1] + i = X /\ b.offset[2] + j = Y /\ b.offset[3] + h = Z
  <2>1. X \in Int /\ Y \in Int /\ Z \in Int  BY <1>1, <1>4, <1>5
  <2> HIDE DEF b
  <2> QED  BY <2>1, <1>10
<1> HIDE DEF b, lx, ly, lz, i, j, h
<1>13. m \in 0 .. ly * lz - 1 /\ m \div lz = j /\ m % lz = h  BY <1>10, PlaceInRows
<1>14. ly * lz \in Nat /\ lx * ly \in Nat /\ lx * ly * lz = lx * (ly * lz) /\ lx * (ly * lz) \in Nat
  BY <1>10, Associative
<1>15. k \in 0 .. lx * (ly * lz) - 1 /\ k \div (ly * lz) = i
  <2> DEFINE w == ly * lz
  <2> HIDE DEF m
  <2>1. w \in Nat /\ m \in 0 .. w - 1  BY <1>13, <1>14
  <2> HIDE DEF w
  <2>2. i * w + m \in 0 .. lx * w - 1 /\ (i * w + m) \div w = i  BY <1>10, <2>1, PlaceInRows
  <2> QED  BY <2>2 DEF w
<1>16. (k \div lz) % ly = j /\ k % lz = h
  <2> DEFINE n == i * ly + j
  <2>1. n \in 0 .. lx * ly - 1 /\ n % ly = j
    <3>1. lx \in Nat /\ ly \in Nat /\ i \in 0 .. lx - 1 /\ j \in 0 .. ly - 1  BY <1>10
    <3>2. i * ly + j \in 0 .. lx * ly - 1  BY <3>1, PlaceInRows
    <3>3. (i * ly + j) % ly = j  BY <3>1, PlaceInRows
    <3> QED  BY <3>2, <3>3
  <2>2. k = n * lz + h
    <3>1. i \in Nat /\ j \in Nat /\ h \in Nat  BY <1>10
    <3> QED  BY <3>1, <1>10
  <2> HIDE DEF n, k
  <2>3. (n * lz + h) \div lz = n /\ (n * lz + h) % lz = h
    <3> DEFINE w == lx * ly
    <3>1. w \in Nat /\ n \in 0 .. w - 1  BY <1>14, <2>1
    <3> HIDE DEF w
    <3> QED  BY <3>1, <1>10, PlaceInRows
  <2> QED  BY <2>1, <2>2, <2>3
<1> HIDE DEF k, m
<1>17. CellOf(b, k) = c
  <2>1. CellOf(b, k) = ((b.offset[1] + i) * dims[2] + b.offset[2] + j) * dims[3] + b.offset[3] + h
    BY <1>11, <1>15, <1>16
  <2>2. (b.offset[1] + i) * dims[2] = X * dims[2] /\ X * dims[2] \in Int
    BY <1>1, <1>5, <1>12
  <2>3. (b.offset[1] + i) * dims[2] + b.offset[2] + j = row
    <3>1. b.offset[2] \in Int /\ j \in Int  BY <1>10
    <3> QED  BY <3>1, <2>2, <1>5, <1>12
  <2>4. row * dims[3] \in Int  BY <1>1, <1>4
  <2>5. CellOf(b, k) = row * dims[3] + b.offset[3] + h  BY <2>1, <2>3
  <2>6. b.offset[3] \in Int /\ h \in Int  BY <1>10
  <2> QED  BY <2>4, <2>5, <2>6, <1>4, <1>12
<1>18. k \in 0 .. b.length[1] * b.length[2] * b.length[3] - 1  BY <1>14, <1>15 DEF lx, ly, lz
<1> QED  BY <1>17, <1>18 DEF b
Volume(b) == b.length[1] * b.length[2] * b.length[3]

LEMMA LayoutIs ==
  ASSUME NEW g, NEW id \in 0 .. Blocks(g) - 1
  PROVE  /\ Layout(g)[id].first = TypeOffset(Block(g, id))
         /\ DOMAIN Layout(g)[id].cells = 0 .. Volume(Block(g, id)) - 1
         /\ \A k \in 0 .. Volume(Block(g, id)) - 1 :
              Layout(g)[id].cells[k] = CellOf(Block(g, id), k)
<1> DEFINE b == Block(g, id)
           entry == [first |-> TypeOffset(b),
                     cells |-> [k \in 0 .. Volume(b) - 1 |-> CellOf(b, k)],
                     strays |-> Strays(b)]
<1>1. Layout(g)[id] = entry  BY DEF Layout, Volume
<1> HIDE DEF b
<1>2. /\ entry.first = TypeOffset(b) /\ DOMAIN entry.cells = 0 .. Volume(b) - 1
      /\ \A k \in 0 .. Volume(b) - 1 : entry.cells[k] = CellOf(b, k)
  OBVIOUS
<1> QED  BY <1>1, <1>2 DEF b

\* The codes of the blocks share the array of codes out, and every value of the
\* array has a code in some block.
Tiled ==
  /\ \A id \in Ids : \A k \in DOMAIN blocks[id].cells :
       /\ k \in Nat /\ blocks[id].first \in Nat /\ blocks[id].first + k < Elements
       /\ blocks[id].cells[k] \in Nat
  /\ \A i \in 0 .. Elements - 1 : \E id \in Ids : i \in Codes(blocks[id])
  /\ \A id, jd \in Ids : id # jd => Codes(blocks[id]) \cap Codes(blocks[jd]) = {}
  /\ \A c \in 0 .. Elements - 1 : \E id \in Ids :
       \E k \in DOMAIN blocks[id].cells : blocks[id].cells[k] = c

LEMMA GridTiles ==
  ASSUME NEW g, IsGrid(g), IsArray, blocks = Layout(g), thread_num = Blocks(g)
  PROVE  Tiled
<1> DEFINE B(id) == Block(g, id)
           D(id) == 0 .. Volume(B(id)) - 1
<1>1. ASSUME NEW id \in Ids
      PROVE  /\ blocks[id].first = TypeOffset(B(id)) /\ DOMAIN blocks[id].cells = D(id)
             /\ \A k \in D(id) : blocks[id].cells[k] = CellOf(B(id), k)
  BY LayoutIs DEF Ids
<1>2. ASSUME NEW id \in Ids
      PROVE  \E x \in 0 .. g[1] - 1, y \in 0 .. g[2] - 1, z \in 0 .. g[3] - 1 :
               id = Number(g, x, y, z) /\ B(id) = Box(g, x, y, z)
  <2>1. PICK x \in 0 .. g[1] - 1, y \in 0 .. g[2] - 1, z \in 0 .. g[3] - 1 : id = Number(g, x, y, z)
    BY BlockHas DEF Ids
  <2>2. B(id) = Box(g, x, y, z)  BY <2>1, BlockAt
  <2> QED  BY <2>1, <2>2
<1>3. ASSUME NEW x \in 0 .. g[1] - 1, NEW y \in 0 .. g[2] - 1, NEW z \in 0 .. g[3] - 1
      PROVE  Number(g, x, y, z) \in Ids /\ B(Number(g, x, y, z)) = Box(g, x, y, z)
  BY BlockAt DEF Ids
<1>4. ASSUME NEW x \in 0 .. g[1] - 1, NEW y \in 0 .. g[2] - 1, NEW z \in 0 .. g[3] - 1,
             NEW k \in 0 .. Volume(Box(g, x, y, z)) - 1
      PROVE  k \in Nat /\ LET b == Box(g, x, y, z) IN k < b.length[1] * b.length[2] * b.length[3]
  <2> DEFINE b == Box(g, x, y, z)
  <2>1. b.length[1] \in Nat /\ b.length[2] \in Nat /\ b.length[3] \in Nat  BY BoxIs
  <2>2. k \in 0 .. b.length[1] * b.length[2] * b.length[3] - 1  BY DEF Volume
  <2> HIDE DEF b
  <2>3. b.length[1] * b.length[2] * b.length[3] \in Nat  BY <2>1
  <2>4. k \in Nat /\ k < b.length[1] * b.length[2] * b.length[3]  BY <2>2, <2>3
  <2> QED  BY <2>4 DEF b
<1>5. ASSUME NEW id \in Ids, NEW k \in DOMAIN blocks[id].cells
      PROVE  /\ k \in Nat /\ blocks[id].first \in Nat /\ blocks[id].first + k < Elements
             /\ blocks[id].cells[k] \in Nat
  <2>1. PICK x \in 0 .. g[1] - 1, y \in 0 .. g[2] - 1, z \in 0 .. g[3] - 1 : B(id) = Box(g, x, y, z)
    BY <1>2
  <2> DEFINE b == Box(g, x, y, z)
  <2>2. k \in 0 .. Volume(b) - 1 /\ blocks[id].first = TypeOffset(b) /\ blocks[id].cells[k] = CellOf(b, k)
    BY <1>1, <2>1
  <2>3. k \in Nat /\ k < b.length[1] * b.length[2] * b.length[3]  BY <2>2, <1>4
  <2>4. CellOf(b, k) \in Nat  BY <2>3, CellIs
  <2> DEFINE s == b.offset[1] * (dims[2] * dims[3])
                    + (b.offset[2] * (b.length[1] * dims[3])
                         + (b.offset[3] * (b.length[1] * b.length[2]) + k))
  <2>5. TypeOffset(b) \in Nat /\ s = TypeOffset(b) + k /\ s < Elements  BY <2>3, CodeIn
  <2> HIDE DEF b, s
  <2> QED  BY <2>2, <2>3, <2>4, <2>5
<1>6. ASSUME NEW i \in 0 .. Elements - 1 PROVE \E id \in Ids : i \in Codes(blocks[id])
  <2>1. i \in Nat /\ i < Elements
    <3>1. Elements \in Int  BY DEF Elements, IsArray
    <3> QED  BY <3>1
  <2>2. PICK x \in 0 .. g[1] - 1, y \in 0 .. g[2] - 1, z \in 0 .. g[3] - 1 :
          LET b == Box(g, x, y, z)
          IN \E k \in 0 .. b.length[1] * b.length[2] * b.length[3] - 1 : i = TypeOffset(b) + k
    BY <2>1, CodeThere
  <2> DEFINE b == Box(g, x, y, z)
             id == Number(g, x, y, z)
  <2>3. PICK k \in 0 .. Volume(b) - 1 : i = TypeOffset(b) + k  BY <2>2 DEF Volume
  <2>4. id \in Ids /\ B(id) = b  BY <1>3
  <2>5. k \in DOMAIN blocks[id].cells /\ i = blocks[id].first + k  BY <1>1, <2>3, <2>4
  <2> QED  BY <2>4, <2>5 DEF Codes
<1>7. ASSUME NEW id \in Ids, NEW jd \in Ids, NEW i \in Codes(blocks[id]), i \in Codes(blocks[jd])
      PROVE  id = jd
  <2>1. PICK k \in DOMAIN blocks[id].cells : i = blocks[id].first + k  BY DEF Codes
  <2>2. PICK h \in DOMAIN blocks[jd].cells : i = blocks[jd].first + h  BY <1>7 DEF Codes
  <2>3. PICK x \in 0 .. g[1] - 1, y \in 0 .. g[2] - 1, z \in 0 .. g[3] - 1 :
          id = Number(g, x, y, z) /\ B(id) = Box(g, x, y, z)
    BY <1>2
  <2>4. PICK u \in 0 .. g[1] - 1, v \in 0 .. g[2] - 1, w \in 0 .. g[3] - 1 :
          jd = Number(g, u, v, w) /\ B(jd) = Box(g, u, v, w)
    BY <1>2
  <2>5. k \in 0 .. Volume(Box(g, x, y, z)) - 1 /\ blocks[id].first = TypeOffset(Box(g, x, y, z))
    BY <1>1, <2>3
  <2>6. h \in 0 .. Volume(Box(g, u, v, w)) - 1 /\ blocks[jd].first = TypeOffset(Box(g, u, v, w))
    BY <1>1, <2>4
  <2>7. k \in Nat /\ LET b == Box(g, x, y, z) IN k < b.length[1] * b.length[2] * b.length[3]
    BY <2>5, <1>4
  <2>8. h \in Nat /\ LET b == Box(g, u, v, w) IN h < b.length[1] * b.length[2] * b.length[3]
    BY <2>6, <1>4
  <2>9. TypeOffset(Box(g, x, y, z)) + k = TypeOffset(Box(g, u, v, w)) + h
    BY <2>1, <2>2, <2>5, <2>6
  <2>10. x = u /\ y = v /\ z = w  BY <2>7, <2>8, <2>9, CodeOnce
  <2> QED  BY <2>3, <2>4, <2>10
<1>8. ASSUME NEW c \in 0 .. Elements - 1
      PROVE  \E id \in Ids : \E k \in DOMAIN blocks[id].cells : blocks[id].cells[k] = c
  <2>1. c \in Nat /\ c < Elements
    <3>1. Elements \in Int  BY DEF Elements, IsArray
    <3> QED  BY <3>1
  <2>2. PICK x \in 0 .. g[1] - 1, y \in 0 .. g[2] - 1, z \in 0 .. g[3] - 1 :
          LET b == Box(g, x, y, z)
          IN \E k \in 0 .. b.length[1] * b.length[2] * b.length[3] - 1 : CellOf(b, k) = c
    BY <2>1, CellThere
  <2> DEFINE b == Box(g, x, y, z)
             id == Number(g, x, y, z)
  <2>3. PICK k \in 0 .. Volume(b) - 1 : CellOf(b, k) = c  BY <2>2 DEF Volume
  <2>4. id \in Ids /\ B(id) = b  BY <1>3
  <2>5. k \in DOMAIN blocks[id].cells /\ blocks[id].cells[k] = c  BY <1>1, <2>3, <2>4
  <2> QED  BY <2>4, <2>5
<1>9. \A id, jd \in Ids : id # jd => Codes(blocks[id]) \cap Codes(blocks[jd]) = {}
  BY <1>7
<1> QED  BY <1>5, <1>6, <1>8, <1>9 DEF Tiled

-----------------------------------------------------------------------------
(* The parts of the array of codes that are counted                        *)

\* All parts but the last are in the array, which no size_t is too small for.
Fits ==
  /\ (thread_num - 1) * ((Elements - 1) \div thread_num + 1) <= Elements
  /\ Elements <= SizeMax

LEMMA ChunkIs ==
  ASSUME thread_num \in Nat \ {0}, Elements \in Nat \ {0}, Fits,
         NEW id \in Ids, NEW i \in Int
  PROVE  LET chunk == (Elements - 1) \div thread_num + 1
         IN /\ i \in Chunk(id) <=> i \in 0 .. Elements - 1 /\ i \div chunk = id
            /\ chunk \in Nat \ {0} /\ Elements <= thread_num * chunk
<1> DEFINE e == Elements
           t == thread_num
           q == (e - 1) \div t
           chunk == q + 1
<1>1. t \in Nat \ {0} /\ e \in Nat \ {0} /\ e - 1 \in Nat /\ SizeMax \in Nat
  BY OmpBlocksAssumption
<1>2. (t - 1) * chunk <= e /\ e <= SizeMax  BY DEF Fits
<1>3. Chunk(id) = id * chunk .. id * chunk + ChunkLength(id) - 1  BY DEF Chunk
<1>4. ChunkLength(id) = IF id < t - 1 THEN chunk ELSE (e - (t - 1) * chunk) % (SizeMax + 1)
  BY DEF ChunkLength
<1>5. id \in 0 .. t - 1  BY DEF Ids
<1> HIDE DEF e, t
<1>6. q \in Nat /\ e - 1 = t * q + ((e - 1) % t) /\ (e - 1) % t \in 0 .. t - 1
  BY <1>1, DivMod
<1> HIDE DEF q
<1>7. e <= t * chunk
  <2>1. t * (q + 1) = t * q + t /\ t * q \in Nat  BY <1>1, <1>6
  <2> QED  BY <2>1, <1>1, <1>6
<1>8. chunk \in Nat \ {0}  BY <1>6
<1> HIDE DEF chunk
<1>9. (t - 1) * chunk \in Nat /\ t * chunk \in Nat /\ t * chunk = (t - 1) * chunk + chunk
  BY <1>1, <1>8
<1>10. id * chunk \in Nat /\ id * chunk = chunk * id  BY <1>5, <1>8
<1>11. CASE id < t - 1
  <2>1. Chunk(id) = id * chunk .. id * chunk + chunk - 1  BY <1>3, <1>4, <1>11
  <2>2. id * chunk + chunk <= e
    <3>1. id + 1 \in Nat /\ t - 1 \in Nat /\ id + 1 <= t - 1  BY <1>1, <1>5, <1>11
    <3>2. (id + 1) * chunk <= (t - 1) * chunk  BY <3>1, <1>8, TimesMonotonic
    <3>3. (id + 1) * chunk = id * chunk + chunk  BY <1>5, <1>8
    <3> QED  BY <3>2, <3>3, <1>1, <1>2, <1>8, <1>9, <1>10
  <2>3. ASSUME i \in Chunk(id) PROVE i \in 0 .. e - 1 /\ i \div chunk = id
    <3> DEFINE r == i - id * chunk
    <3>1. r \in 0 .. chunk - 1 /\ i = chunk * id + r /\ i \in Nat /\ i < e
      BY <2>1, <2>2, <2>3, <1>1, <1>8, <1>10
    <3> HIDE DEF r
    <3>2. id \in Nat  BY <1>5
    <3>3. i \div chunk = id  BY <3>1, <3>2, <1>8, DivModUnique
    <3> QED  BY <3>1, <3>3, <1>1
  <2>4. ASSUME i \in 0 .. e - 1, i \div chunk = id PROVE i \in Chunk(id)
    <3>1. i \in Nat  BY <2>4, <1>1
    <3>2. i = chunk * (i \div chunk) + (i % chunk) /\ i % chunk \in 0 .. chunk - 1
      BY <3>1, <1>8, DivMod
    <3>3. i = chunk * id + (i % chunk)  BY <3>2, <2>4
    <3> QED  BY <3>1, <3>2, <3>3, <2>1, <1>8, <1>10
  <2> QED  BY <2>3, <2>4, <1>7, <1>8 DEF chunk, q, e, t
<1>12. CASE ~ (id < t - 1)
  <2>1. id = t - 1  BY <1>12, <1>1, <1>5
  <2> DEFINE rest == e - (t - 1) * chunk
  <2>2. rest \in Nat /\ rest < SizeMax + 1  BY <1>1, <1>2, <1>9
  <2>3. rest % (SizeMax + 1) = rest
    <3> HIDE DEF rest
    <3>1. rest = (SizeMax + 1) * 0 + rest /\ rest \in 0 .. (SizeMax + 1) - 1
          /\ SizeMax + 1 \in Nat \ {0}
      BY <2>2, <1>1
    <3> QED  BY <3>1, <2>2, DivModUnique
  <2>4. Chunk(id) = id * chunk .. e - 1
    <3>1. ChunkLength(id) = rest  BY <2>3, <1>4, <1>12
    <3>2. rest = e - id * chunk  BY <2>1
    <3> HIDE DEF rest
    <3>3. id * chunk + rest - 1 = e - 1  BY <3>2, <2>2, <1>1, <1>10
    <3> QED  BY <3>1, <3>3, <1>3
  <2>5. e <= id * chunk + chunk  BY <2>1, <1>7, <1>9
  <2>6. ASSUME i \in Chunk(id) PROVE i \in 0 .. e - 1 /\ i \div chunk = id
    <3> DEFINE r == i - id * chunk
    <3>1. r \in 0 .. chunk - 1 /\ i = chunk * id + r /\ i \in Nat /\ i < e
      BY <2>4, <2>5, <2>6, <1>1, <1>8, <1>10
    <3> HIDE DEF r
    <3>2. id \in Nat  BY <1>5
    <3>3. i \div chunk = id  BY <3>1, <3>2, <1>8, DivModUnique
    <3> QED  BY <3>1, <3>3, <1>1
  <2>7. ASSUME i \in 0 .. e - 1, i \div chunk = id PROVE i \in Chunk(id)
    <3>1. i \in Nat  BY <2>7, <1>1
    <3>2. i = chunk * (i \div chunk) + (i % chunk) /\ i % chunk \in 0 .. chunk - 1
      BY <3>1, <1>8, DivMod
    <3>3. i = chunk * id + (i % chunk)  BY <3>2, <2>7
    <3> QED  BY <3>1, <3>2, <3>3, <2>4, <2>7, <1>8, <1>10
  <2> QED  BY <2>6, <2>7, <1>7, <1>8 DEF chunk, q, e, t
<1> QED  BY <1>11, <1>12
\* The parts are in the array and share it out.
LEMMA ChunksOnce ==
  ASSUME thread_num \in Nat \ {0}, Elements \in Nat \ {0}, Fits
  PROVE  /\ \A id \in Ids : Chunk(id) \subseteq 0 .. Elements - 1
         /\ \A i \in 0 .. Elements - 1 : \E id \in Ids : i \in Chunk(id)
         /\ \A id, jd \in Ids : id # jd => Chunk(id) \cap Chunk(jd) = {}
<1> DEFINE chunk == (Elements - 1) \div thread_num + 1
           In(i) == i \div chunk
<1>1. \A id \in Ids : \A i \in Int :
        i \in Chunk(id) <=> i \in 0 .. Elements - 1 /\ In(i) = id
  BY ChunkIs
<1>2. ASSUME NEW id \in Ids, NEW i \in Chunk(id) PROVE i \in Int
  <2> DEFINE first == id * chunk
             last == id * chunk + ChunkLength(id) - 1
  <2>1. Chunk(id) = first .. last  BY DEF Chunk
  <2> HIDE DEF first, last
  <2> QED  BY <2>1
<1>3. 0 \in Ids  BY DEF Ids
<1>4. chunk \in Nat \ {0} /\ Elements <= thread_num * chunk  BY <1>3, ChunkIs
<1>5. ASSUME NEW i \in 0 .. Elements - 1 PROVE i \in Int /\ In(i) \in Ids
  <2> HIDE DEF chunk
  <2> DEFINE all == thread_num * chunk
  <2>1. all \in Nat  BY <1>4
  <2>2. i \in Nat /\ i < Elements /\ Elements <= all  BY <1>4
  <2> HIDE DEF all
  <2>3. i < all  BY <2>1, <2>2
  <2>4. i < thread_num * chunk  BY <2>3 DEF all
  <2>5. i \div chunk < thread_num  BY <2>2, <2>4, <1>4, DivBelow
  <2>6. i \div chunk \in Nat  BY <2>2, <1>4, DivMod
  <2> QED  BY <2>2, <2>5, <2>6 DEF Ids
<1> HIDE DEF In, chunk
<1>6. \A id \in Ids : Chunk(id) \subseteq 0 .. Elements - 1  BY <1>1, <1>2
<1>7. \A i \in 0 .. Elements - 1 : \E id \in Ids : i \in Chunk(id)  BY <1>1, <1>5
<1>8. \A id, jd \in Ids : id # jd => Chunk(id) \cap Chunk(jd) = {}  BY <1>1, <1>2
<1> QED  BY <1>6, <1>7, <1>8

-----------------------------------------------------------------------------
(* Where the entries of a block are in a section                           *)

LEMMA BeforeIs ==
  ASSUME NEW t \in Nat, NEW f \in [0 .. t - 1 -> Nat]
  PROVE  /\ Before(f, 0) = 0
         /\ \A n \in 0 .. t : Before(f, n) \in Nat
         /\ \A n \in 0 .. t - 1 : Before(f, n + 1) = f[n] + Before(f, n)
<1> DEFINE Sums(n, s) == [i \in 0 .. n |-> IF i = 0 THEN 0 ELSE f[i - 1] + s[i - 1]]
           sum(n) == CHOOSE s : s = Sums(n, s)
<1>1. ASSUME NEW n \in Nat PROVE Before(f, n) = sum(n)[n]  BY DEF Before
<1>2. \A n \in 0 .. t : \E s : s \in [0 .. n -> Nat] /\ s = Sums(n, s)
  <2> DEFINE Good(n) == \E s : s \in [0 .. n -> Nat] /\ s = Sums(n, s)
             Bad == {n \in 0 .. t : ~ Good(n)}
  <2> SUFFICES ASSUME Bad # {} PROVE FALSE  OBVIOUS
  <2>1. Bad \in SUBSET Nat  OBVIOUS
  <2>2. PICK n \in Bad : \A m \in Bad : n <= m
    <3> HIDE DEF Bad
    <3> QED  BY <2>1, LeastNat
  <2>3. CASE n = 0
    <3> DEFINE z == [i \in 0 .. 0 |-> 0]
    <3>1. z \in [0 .. 0 -> Nat] /\ z = Sums(0, z)  OBVIOUS
    <3>2. Good(0)
      <4> HIDE DEF z, Sums
      <4> QED  BY <3>1
    <3> QED  BY <2>3, <3>2
  <2>4. CASE n # 0
    <3>1. n \in 0 .. t /\ n - 1 \in 0 .. t /\ ~ (n <= n - 1) /\ n - 1 \in 0 .. t - 1  BY <2>4
    <3>2. n - 1 \notin Bad
      <4> HIDE DEF Bad
      <4> QED  BY <2>2, <3>1
    <3>3. Good(n - 1)  BY <3>1, <3>2
    <3>4. PICK s : s \in [0 .. n - 1 -> Nat] /\ s = Sums(n - 1, s)  BY <3>3
    <3>5. \A i \in 0 .. n - 1 : s[i] = IF i = 0 THEN 0 ELSE f[i - 1] + s[i - 1]
      <4>1. \A i \in 0 .. n - 1 : Sums(n - 1, s)[i] = IF i = 0 THEN 0 ELSE f[i - 1] + s[i - 1]
        OBVIOUS
      <4> HIDE DEF Sums
      <4> QED  BY <3>4, <4>1
    <3> DEFINE u == [i \in 0 .. n |-> IF i = n THEN f[n - 1] + s[n - 1] ELSE s[i]]
    <3>6. \A i \in 0 .. n - 1 : u[i] = s[i] /\ s[i] \in Nat  BY <3>1, <3>4
    <3>7. u[n] = f[n - 1] + s[n - 1] /\ f[n - 1] \in Nat  BY <3>1
    <3>8. u \in [0 .. n -> Nat]
      <4>1. ASSUME NEW i \in 0 .. n PROVE (IF i = n THEN f[n - 1] + s[n - 1] ELSE s[i]) \in Nat
        <5>1. n - 1 \in 0 .. n - 1  BY <3>1
        <5>2. i = n \/ i \in 0 .. n - 1  BY <3>1
        <5>3. \A j \in 0 .. n - 1 : s[j] \in Nat  BY <3>4
        <5>4. s[n - 1] \in Nat /\ f[n - 1] \in Nat  BY <3>1, <5>1, <5>3
        <5>5. CASE i = n  BY <5>4, <5>5
        <5>6. CASE i # n  BY <5>2, <5>3, <5>6
        <5> QED  BY <5>5, <5>6
      <4> QED  BY <4>1
    <3>9. ASSUME NEW i \in 0 .. n PROVE u[i] = IF i = 0 THEN 0 ELSE f[i - 1] + u[i - 1]
      <4>1. i = n \/ i \in 0 .. n - 1  BY <3>1
      <4>2. CASE i = n
        <5>1. n - 1 \in 0 .. n - 1 /\ n # 0  BY <2>4, <3>1
        <5> QED  BY <4>2, <5>1, <3>6, <3>7
      <4>3. CASE i \in 0 .. n - 1
        <5>1. i = 0 \/ i - 1 \in 0 .. n - 1  BY <4>3, <3>1
        <5> QED  BY <4>3, <5>1, <3>5, <3>6
      <4> QED  BY <4>1, <4>2, <4>3
    <3>10. u = [i \in 0 .. n |-> u[i]]  OBVIOUS
    <3> HIDE DEF u
    <3>11. u = Sums(n, u)  BY <3>9, <3>10
    <3>12. Good(n)  BY <3>8, <3>11
    <3> QED  BY <3>12
  <2> QED  BY <2>3, <2>4
<1>3. ASSUME NEW n \in 0 .. t
      PROVE  sum(n)[0] = 0 /\ \A i \in 1 .. n : sum(n)[i] = f[i - 1] + sum(n)[i - 1]
  <2>1. \E s : s = Sums(n, s)  BY <1>2
  <2>2. sum(n) = Sums(n, sum(n))
    <3> HIDE DEF Sums
    <3> QED  BY <2>1
  <2>3. \A s : Sums(n, s)[0] = 0 /\ \A i \in 1 .. n : Sums(n, s)[i] = f[i - 1] + s[i - 1]
    OBVIOUS
  <2> HIDE DEF Sums, sum
  <2> QED  BY <2>2, <2>3
<1> HIDE DEF sum
<1>4. ASSUME NEW n \in 0 .. t, NEW m \in 0 .. t, n <= m
      PROVE  \A i \in 0 .. n : sum(n)[i] = sum(m)[i] /\ sum(n)[i] \in Nat
  <2> DEFINE Bad == {i \in 0 .. n : ~ (sum(n)[i] = sum(m)[i] /\ sum(n)[i] \in Nat)}
  <2> SUFFICES ASSUME Bad # {} PROVE FALSE  OBVIOUS
  <2>1. Bad \in SUBSET Nat  OBVIOUS
  <2>2. PICK i \in Bad : \A j \in Bad : i <= j
    <3> HIDE DEF Bad
    <3> QED  BY <2>1, LeastNat
  <2>3. i # 0  BY <1>3
  <2>4. i \in 1 .. n /\ i \in 1 .. m /\ i - 1 \in 0 .. n /\ ~ (i <= i - 1) /\ i - 1 \in 0 .. t - 1
    BY <1>4, <2>3
  <2>5. i - 1 \notin Bad
    <3> HIDE DEF Bad
    <3> QED  BY <2>2, <2>4
  <2>6. sum(n)[i - 1] = sum(m)[i - 1] /\ sum(n)[i - 1] \in Nat  BY <2>4, <2>5
  <2>7. f[i - 1] \in Nat  BY <2>4
  <2>8. sum(n)[i] = f[i - 1] + sum(n)[i - 1]  BY <2>4, <1>3
  <2>9. sum(m)[i] = f[i - 1] + sum(m)[i - 1]  BY <2>4, <1>3
  <2> QED  BY <2>6, <2>7, <2>8, <2>9
<1>5. Before(f, 0) = 0  BY <1>1, <1>3
<1>6. ASSUME NEW n \in 0 .. t PROVE Before(f, n) \in Nat
  <2>1. n \in 0 .. n /\ n <= n /\ n \in Nat  OBVIOUS
  <2> QED  BY <2>1, <1>1, <1>4
<1>7. ASSUME NEW n \in 0 .. t - 1 PROVE Before(f, n + 1) = f[n] + Before(f, n)
  <2>1. n \in 0 .. t /\ n + 1 \in 0 .. t /\ n + 1 \in 1 .. n + 1 /\ n + 1 - 1 = n /\ n <= n + 1
        /\ n \in 0 .. n /\ n \in Nat /\ n + 1 \in Nat
    OBVIOUS
  <2>2. Before(f, n + 1) = sum(n + 1)[n + 1] /\ Before(f, n) = sum(n)[n]  BY <1>1, <2>1
  <2>3. \A i \in 1 .. n + 1 : sum(n + 1)[i] = f[i - 1] + sum(n + 1)[i - 1]  BY <2>1, <1>3
  <2>4. sum(n + 1)[n + 1] = f[n] + sum(n + 1)[n]  BY <2>1, <2>3
  <2>5. sum(n)[n] = sum(n + 1)[n]  BY <2>1, <1>4
  <2> QED  BY <2>2, <2>4, <2>5
<1> QED  BY <1>5, <1>6, <1>7

\* The entries of a block end where those of a later block begin, or earlier.
LEMMA BeforeRises ==
  ASSUME NEW t \in Nat, NEW f \in [0 .. t - 1 -> Nat], NEW i \in 0 .. t - 1
  PROVE  \A j \in i + 1 .. t : Before(f, i) + f[i] <= Before(f, j)
<1> DEFINE Bad == {j \in i + 1 .. t : ~ (Before(f, i) + f[i] <= Before(f, j))}
<1> SUFFICES ASSUME Bad # {} PROVE FALSE  OBVIOUS
<1>1. Bad \in SUBSET Nat  OBVIOUS
<1>2. PICK j \in Bad : \A k \in Bad : j <= k
  <2> HIDE DEF Bad
  <2> QED  BY <1>1, LeastNat
<1> DEFINE h == j - 1
<1>3. h \in 0 .. t - 1 /\ h + 1 = j /\ ~ (j <= h) /\ (h = i \/ h \in i + 1 .. t)  OBVIOUS
<1>4. h \notin Bad
  <2> HIDE DEF Bad, h
  <2> QED  BY <1>2, <1>3
<1> HIDE DEF h
<1>5. Before(f, h) \in Nat /\ Before(f, i) \in Nat /\ f[h] \in Nat /\ f[i] \in Nat
  <2>1. h \in 0 .. t /\ i \in 0 .. t  BY <1>3
  <2> QED  BY <1>3, <2>1, BeforeIs
<1>6. Before(f, j) = f[h] + Before(f, h)  BY <1>3, BeforeIs
<1>7. h = i \/ Before(f, i) + f[i] <= Before(f, h)  BY <1>3, <1>4
<1>8. Before(f, i) + f[i] <= Before(f, j)  BY <1>5, <1>6, <1>7
<1> QED  BY <1>2, <1>8
-----------------------------------------------------------------------------
(* The invariants                                                          *)

Base ==
  /\ dims \in Shapes /\ IsArray /\ type \in Types
  /\ \E n \in MaxThreads : thread_num = Blocks(Grid(n))
  /\ thread_num \in 1 .. 127
  /\ blocks = Layout(Grid(thread_num)) /\ Tiled
  /\ unpred \in [Ids -> Nat] /\ size \in [Ids -> Nat]

\* A thread that is at work has its own rows if no block is thin, and each
\* thread of a full team has the iteration of its number.
Shared ==
  /\ DOMAIN codes = 0 .. Elements - 1 /\ DOMAIN freq = 0 .. Elements - 1
  /\ DOMAIN decoded = 0 .. Elements - 1 /\ DOMAIN out = 0 .. Elements - 1
  /\ count \in [Ids -> Int] /\ blockPos \in [Ids -> Int]
  /\ DOMAIN rows = Ids /\ DOMAIN encoded = Ids /\ DOMAIN left = Ids
  /\ working \subseteq Ids /\ (Thick => \A id \in working : rows[id] = id)
  /\ full => \A id \in Ids : left[id] \in {{}, {id}}

\* Thread id is past its iteration of a loop, which comes after some others.
Past(before, name, id) == stage \notin before /\ (stage = name => left[id] = {})
PastQuantize(id) == Past({}, "quantize", id)
PastCount(id) == Past({"quantize"}, "count", id)
PastCopyExact(id) == Past({"quantize", "count"}, "copyExact", id)
PastEncode(id) == Past({"quantize", "count", "copyExact"}, "encode", id)
PastCopyCodes(id) == Past({"quantize", "count", "copyExact", "encode"}, "copyCodes", id)
PastDecode(id) ==
  Past({"quantize", "count", "copyExact", "encode", "copyCodes"}, "decode", id)
PastRebuild(id) ==
  Past({"quantize", "count", "copyExact", "encode", "copyCodes", "decode"}, "rebuild", id)

Quantized(id) ==
  /\ \A k \in DOMAIN blocks[id].cells : codes[blocks[id].first + k] = blocks[id].cells[k]
  /\ count[id] = unpred[id]
ExactKept(id) == Has(exactAt, id, Before(unpred, id), unpred[id])
Encoded(id) == encoded[id] = id /\ blockPos[id] = size[id]
CodesKept(id) == Has(codesAt, id, Before(size, id), size[id])
Decoded(id) == \A i \in Codes(blocks[id]) : decoded[i] = codes[i]
Rebuilt(id) ==
  \A k \in DOMAIN blocks[id].cells :
    blocks[id].cells[k] \in DOMAIN out => out[blocks[id].cells[k]] = blocks[id].cells[k]

\* What the threads that are past a loop have written is as it should be.
WrittenBy(id) ==
  /\ PastQuantize(id) => Quantized(id)
  /\ PastCopyExact(id) => ExactKept(id)
  /\ PastEncode(id) => Encoded(id)
  /\ PastCopyCodes(id) => CodesKept(id)
Written == \A id \in Ids : WrittenBy(id)

ReadBackBy(id) ==
  /\ PastDecode(id) => Decoded(id)
  /\ PastRebuild(id) => Rebuilt(id)
ReadBack ==
  /\ stage \in {"decode", "rebuild", "done"} => blocksBack = blocks
  /\ \A id \in Ids : ReadBackBy(id)

CountedSoFar ==
  \A id \in Ids : \A i \in Chunk(id) :
    freq[i] = IF PastCount(id) THEN 1 ELSE 0

Running == full /\ Thick /\ stage # "crashed"
IInv == Base /\ Shared /\ (Running => Written)
Reading == Running => ReadBack
Counting == full /\ Thick => stage # "crashed" /\ CountedSoFar
-----------------------------------------------------------------------------
(* What a step leaves                                                      *)

LEMMA LayoutStays ==
  ASSUME UNCHANGED dims, NEW CONSTANT g
  PROVE  Layout(g)' = Layout(g)
<1>1. \A n, num, i : Offset(n, num, i)' = Offset(n, num, i)  BY DEF Offset, Length
<1> QED  BY DEF Layout, Block, TypeOffset, CellOf, Strays, Taken

LEMMA BaseStays ==
  ASSUME Base, UNCHANGED input
  PROVE  Base' /\ Ids' = Ids /\ Elements' = Elements
<1>1. Ids' = Ids /\ Elements' = Elements  BY DEF input, Ids, Elements
<1>2. Layout(Grid(thread_num))' = Layout(Grid(thread_num))
  <2>1. PICK g : g = Grid(thread_num)  OBVIOUS
  <2> QED  BY LayoutStays DEF input
<1>3. Tiled'
  <2>1. blocks' = blocks /\ Tiled  BY DEF input, Base
  <2> QED  BY <2>1, <1>1 DEF Tiled
<1> QED  BY <1>1, <1>2, <1>3 DEF Base, input, IsArray
\* In a team of one thread for each iteration, each has that of its number.
LEMMA EvenIs ==
  ASSUME thread_num \in 1 .. 127
  PROVE  Even(thread_num) = [id \in Ids |-> {id}]
<1> DEFINE q == thread_num \div thread_num
           r == thread_num % thread_num
           first(id) == id * q + (IF id < r THEN id ELSE r)
<1>1. q = 1 /\ r = 0
  <2>1. thread_num \in Nat \ {0} /\ thread_num = thread_num * 1 + 0 /\ 1 \in Nat
        /\ 0 \in 0 .. thread_num - 1 /\ thread_num \in Nat
    OBVIOUS
  <2> QED  BY <2>1, DivModUnique
<1>2. Even(thread_num) = [id \in Ids |-> IF id < thread_num THEN first(id) .. first(id + 1) - 1 ELSE {}]
  BY DEF Even
<1> HIDE DEF q, r
<1>3. ASSUME NEW id \in Ids
      PROVE  (IF id < thread_num THEN first(id) .. first(id + 1) - 1 ELSE {}) = {id}
  <2>1. id \in Nat /\ id + 1 \in Nat /\ id < thread_num  BY DEF Ids
  <2>2. first(id) = id /\ first(id + 1) = id + 1  BY <1>1, <2>1
  <2> HIDE DEF first
  <2>3. first(id) .. first(id + 1) - 1 = {id}  BY <2>1, <2>2
  <2> QED  BY <2>1, <2>3
<1> QED  BY <1>2, <1>3

LEMMA AssignmentsAre ==
  ASSUME Static = TRUE, thread_num \in 1 .. 127, NEW n, NEW l \in Assignments(n)
  PROVE  DOMAIN l = Ids /\ (n = thread_num => l = [id \in Ids |-> {id}])
<1>1. l = Even(n)  BY DEF Assignments
<1>2. DOMAIN Even(n) = Ids  BY DEF Even
<1> QED  BY <1>1, <1>2, EvenIs

LEMMA OpenIs ==
  ASSUME Static = TRUE, thread_num \in 1 .. 127, NEW CONSTANT name, Open(name)
  PROVE  /\ stage' = name /\ DOMAIN left' = Ids
         /\ full' => full /\ left' = [id \in Ids |-> {id}]
<1>1. PICK n \in TeamSizes : left' \in Assignments(n) /\ full' = (full /\ n = thread_num)
  BY DEF Open
<1>2. DOMAIN left' = Ids /\ (n = thread_num => left' = [id \in Ids |-> {id}])
  BY <1>1, AssignmentsAre
<1> QED  BY <1>1, <1>2 DEF Open

LEMMA TurnIs ==
  ASSUME Shared, NEW id \in Ids, NEW t, NEW name, Turn(name, id, t)
  PROVE  /\ stage = name /\ stage' = name /\ full' = full /\ DOMAIN left' = Ids
         /\ full => t = id /\ left[id] = {id} /\ left' = [left EXCEPT ![id] = {}]
<1>1. /\ stage = name /\ t \in left[id] /\ left' = [left EXCEPT ![id] = @ \ {t}]
      /\ stage' = stage /\ full' = full
  BY DEF Turn
<1>2. DOMAIN left' = Ids  BY <1>1 DEF Shared
<1>3. ASSUME full PROVE t = id /\ left[id] = {id} /\ left' = [left EXCEPT ![id] = {}]
  <2>1. left[id] \in {{}, {id}}  BY <1>3 DEF Shared
  <2>2. left[id] = {id} /\ t = id  BY <2>1, <1>1
  <2>3. {id} \ {id} = {}  OBVIOUS
  <2> QED  BY <2>2, <2>3, <1>1
<1> QED  BY <1>1, <1>2, <1>3

LEMMA TurnShared ==
  ASSUME Shared, NEW id \in Ids, NEW t, NEW name, Turn(name, id, t), Ids' = Ids
  PROVE  DOMAIN left' = Ids' /\ (full' => \A jd \in Ids' : left'[jd] \in {{}, {jd}})
<1>1. /\ full' = full /\ DOMAIN left' = Ids
      /\ full => left' = [left EXCEPT ![id] = {}]
  BY TurnIs
<1>2. ASSUME full', NEW jd \in Ids PROVE left'[jd] \in {{}, {jd}}
  <2>1. left[jd] \in {{}, {jd}} /\ DOMAIN left = Ids  BY <1>1, <1>2 DEF Shared
  <2> QED  BY <2>1, <1>1, <1>2
<1> QED  BY <1>1, <1>2

LEMMA OpenShared ==
  ASSUME Static = TRUE, Base, NEW CONSTANT name, Open(name), Ids' = Ids
  PROVE  DOMAIN left' = Ids' /\ (full' => \A jd \in Ids' : left'[jd] \in {{}, {jd}})
<1>1. DOMAIN left' = Ids /\ (full' => left' = [id \in Ids |-> {id}])  BY OpenIs DEF Base
<1> QED  BY <1>1

\* A step changes nothing of the input, and works on the data of one loop.
LEMMA InputStays ==
  ASSUME [Next]_vars
  PROVE  UNCHANGED input
<1>1. ASSUME NEW id \in Ids, Thread(id) PROVE UNCHANGED input
  BY <1>1 DEF Thread, QuantizeBegin, QuantizeEnd, Count, CopyExact, Encode, CopyCodes, Decode, Rebuild
<1>2. ASSUME Join PROVE UNCHANGED input
  BY <1>2 DEF Join, JoinQuantize, JoinCount, JoinCopyExact, JoinEncode, JoinCopyCodes, JoinDecode,
              JoinRebuild, Then
<1>3. ASSUME Crash PROVE UNCHANGED input  BY <1>3 DEF Crash
<1> QED  BY <1>1, <1>2, <1>3 DEF Next, vars

LEMMA ThickStays ==
  ASSUME UNCHANGED input
  PROVE  Thick' <=> Thick
<1>1. Ids' = Ids /\ blocks' = blocks  BY DEF input, Ids
<1> QED  BY <1>1 DEF Thick, Thin

\* A block that is not thin takes no value but its own.
LEMMA NoStrays ==
  ASSUME Thick, NEW id \in Ids
  PROVE  /\ ~ Thin(blocks[id]) /\ StrayCodes(blocks[id]) = {} /\ StrayCells(blocks[id]) = {}
         /\ Cardinality(DOMAIN blocks[id].strays) = 0
<1>1. DOMAIN blocks[id].strays = {}  BY DEF Thick, Thin
<1>2. Cardinality({}) = 0  BY FS_EmptySet
<1> QED  BY <1>1, <1>2 DEF Thick, Thin, StrayCodes, StrayCells

\* The state a serial part leaves and takes.
LEMMA JoinIs ==
  ASSUME Static = TRUE, Base, Join
  PROVE  /\ \A id \in Ids : left[id] = {}
         /\ UNCHANGED <<input, written, memory>>
         /\ \/ stage = "quantize" /\ stage' = "count" /\ Open("count") /\ UNCHANGED blocksBack
            \/ stage = "count" /\ stage' = "copyExact" /\ Open("copyExact") /\ UNCHANGED blocksBack
            \/ stage = "copyExact" /\ stage' = "encode" /\ Open("encode") /\ UNCHANGED blocksBack
            \/ stage = "encode" /\ stage' = "copyCodes" /\ Open("copyCodes") /\ UNCHANGED blocksBack
            \/ /\ stage = "copyCodes" /\ stage' = "decode" /\ Open("decode")
               /\ blocksBack' = blocks
            \/ stage = "decode" /\ stage' = "rebuild" /\ Open("rebuild") /\ UNCHANGED blocksBack
            \/ stage = "rebuild" /\ stage' = "done" /\ UNCHANGED <<left, full, blocksBack>>
<1>1. CASE JoinQuantize  BY <1>1 DEF JoinQuantize, Then, Barrier, Open
<1>2. CASE JoinCount  BY <1>2 DEF JoinCount, Then, Barrier, Open
<1>3. CASE JoinCopyExact  BY <1>3 DEF JoinCopyExact, Then, Barrier, Open
<1>4. CASE JoinEncode  BY <1>4 DEF JoinEncode, Then, Barrier, Open
<1>5. CASE JoinCopyCodes
  <2>1. blocksBack' = blocks  BY <1>5 DEF JoinCopyCodes, Base
  <2> QED  BY <2>1, <1>5 DEF JoinCopyCodes, Barrier, Open
<1>6. CASE JoinDecode  BY <1>6 DEF JoinDecode, Then, Barrier, Open
<1>7. CASE JoinRebuild  BY <1>7 DEF JoinRebuild, Barrier
<1> QED  BY <1>1, <1>2, <1>3, <1>4, <1>5, <1>6, <1>7 DEF Join
LEMMA SharedStep ==
  ASSUME Static = TRUE, Base, Shared, [Next]_vars
  PROVE  Shared'
<1> DEFINE Cells == 0 .. Elements - 1
<1>1. Ids' = Ids /\ Elements' = Elements
  <2>1. UNCHANGED input  BY InputStays
  <2> QED  BY <2>1, BaseStays
<1>2. /\ DOMAIN codes = Cells /\ DOMAIN freq = Cells /\ DOMAIN decoded = Cells /\ DOMAIN out = Cells
      /\ count \in [Ids -> Int] /\ blockPos \in [Ids -> Int]
      /\ DOMAIN rows = Ids /\ DOMAIN encoded = Ids /\ DOMAIN left = Ids
      /\ working \subseteq Ids /\ (Thick => \A id \in working : rows[id] = id)
      /\ full => \A id \in Ids : left[id] \in {{}, {id}}
  BY DEF Shared
<1>3. unpred \in [Ids -> Nat] /\ size \in [Ids -> Nat]  BY DEF Base
<1> DEFINE Own == Thick => \A id \in working' : rows'[id] = id
<1>0. Thick' <=> Thick  BY InputStays, ThickStays
<1> DEFINE Fair == DOMAIN left' = Ids /\ (full' => \A jd \in Ids : left'[jd] \in {{}, {jd}})
<1>4. ASSUME NEW id \in Ids, NEW t, NEW name, Turn(name, id, t) PROVE Fair
  BY <1>1, <1>4, TurnShared
<1>5. ASSUME Fair,
             DOMAIN codes' = Cells, DOMAIN freq' = Cells, DOMAIN decoded' = Cells, DOMAIN out' = Cells,
             count' \in [Ids -> Int], blockPos' \in [Ids -> Int],
             DOMAIN rows' = Ids, DOMAIN encoded' = Ids,
             working' \subseteq Ids, Own
      PROVE  Shared'
  <2> HIDE DEF Fair
  <2>1. Fair => /\ DOMAIN left' = Ids
                /\ (full' => \A jd \in Ids : left'[jd] \in {{}, {jd}})
    BY DEF Fair
  <2> QED  BY <1>0, <1>1, <1>5, <2>1 DEF Shared
<1>9. ASSUME UNCHANGED <<working, rows>> PROVE Own  BY <1>2, <1>9
<1> HIDE DEF Fair, Cells, Own
<1>6. ASSUME NEW id \in Ids, Thread(id) PROVE Shared'
  <2>1. CASE QuantizeBegin(id)
    <3>1. UNCHANGED <<left, full, codes, freq, decoded, out, count, blockPos, encoded>>
          /\ working' = working \cup {id}
      BY <2>1 DEF QuantizeBegin, loop, written
    <3>2. Fair  BY <1>2, <3>1 DEF Fair
    <3>3. working' \subseteq Ids /\ DOMAIN rows' = Ids
      BY <2>1, <1>2, <3>1 DEF QuantizeBegin
    <3>4. ASSUME Thick PROVE \A jd \in working' : rows'[jd] = jd
      <4>1. rows' = [i \in DOMAIN rows |-> IF i \in {id} THEN id ELSE rows[i]]
        <5> DEFINE used == {Buffer(id)} \cup (IF Thin(blocks[id]) /\ OneValueRooms THEN {Buffer(id) + 1} ELSE {})
        <5>1. used = {id}  BY <3>4, NoStrays DEF Buffer
        <5>2. rows' = [i \in DOMAIN rows |-> IF i \in used THEN id ELSE rows[i]]
          BY <2>1 DEF QuantizeBegin
        <5> HIDE DEF used
        <5> QED  BY <5>1, <5>2
      <4> QED  BY <1>2, <3>1, <3>4, <4>1
    <3>5. Own  BY <3>4 DEF Own
    <3> QED  BY <1>2, <1>5, <3>1, <3>2, <3>3, <3>5
  <2>2. ASSUME NEW t \in Ids, QuantizeEnd(id, t) PROVE Shared'
    <3>1. Fair  BY <2>2, <1>4 DEF QuantizeEnd
    <3>2. UNCHANGED <<freq, exactAt, encoded, blockPos, rows, decoded, out>>
          /\ working' = working \ {id} /\ DOMAIN codes' = DOMAIN codes
      BY <2>2 DEF QuantizeEnd
    <3>3. count' \in [Ids -> Int]
      <4>1. PICK n \in 0 .. Cardinality(DOMAIN blocks[id].strays) :
              count' = [count EXCEPT ![id] = unpred[id] + n]
        BY <2>2 DEF QuantizeEnd
      <4>2. unpred[id] + n \in Int  BY <1>3
      <4> QED  BY <4>1, <4>2, <1>2
    <3>4. Own  BY <1>2, <3>2 DEF Own
    <3> QED  BY <1>2, <1>5, <3>1, <3>2, <3>3, <3>4
  <2>3. ASSUME NEW t \in Ids, Count(id, t) PROVE Shared'
    <3>1. Fair  BY <2>3, <1>4 DEF Count
    <3>2. UNCHANGED <<count, encoded, blockPos, working, rows, codes, decoded, out>>
          /\ DOMAIN freq' = DOMAIN freq
      BY <2>3 DEF Count
    <3> QED  BY <1>2, <1>5, <1>9, <3>1, <3>2
  <2>4. ASSUME NEW t \in Ids, CopyExact(id, t) PROVE Shared'
    <3>1. Fair  BY <2>4, <1>4 DEF CopyExact
    <3>2. UNCHANGED <<freq, count, encoded, blockPos, working, rows, codes, decoded, out>>
      BY <2>4 DEF CopyExact
    <3> QED  BY <1>2, <1>5, <1>9, <3>1, <3>2
  <2>5. ASSUME NEW t \in Ids, Encode(id, t) PROVE Shared'
    <3>1. Fair  BY <2>5, <1>4 DEF Encode
    <3>2. UNCHANGED <<freq, count, working, rows, codes, decoded, out>>
          /\ encoded' = [encoded EXCEPT ![id] = id] /\ blockPos' = [blockPos EXCEPT ![id] = size[id]]
      BY <2>5 DEF Encode
    <3>3. blockPos' \in [Ids -> Int]
      <4>1. size[id] \in Int  BY <1>3
      <4> QED  BY <4>1, <3>2, <1>2
    <3> QED  BY <1>2, <1>5, <1>9, <3>1, <3>2, <3>3
  <2>6. ASSUME NEW t \in Ids, CopyCodes(id, t) PROVE Shared'
    <3>1. Fair  BY <2>6, <1>4 DEF CopyCodes
    <3>2. UNCHANGED <<freq, count, blockPos, encoded, working, rows, codes, decoded, out>>
      BY <2>6 DEF CopyCodes
    <3> QED  BY <1>2, <1>5, <1>9, <3>1, <3>2
  <2>7. ASSUME NEW t \in Ids, Decode(id, t) PROVE Shared'
    <3>1. Fair  BY <2>7, <1>4 DEF Decode
    <3>2. UNCHANGED <<freq, count, blockPos, encoded, working, rows, codes, out>>
          /\ DOMAIN decoded' = DOMAIN decoded
      BY <2>7 DEF Decode, written
    <3> QED  BY <1>2, <1>5, <1>9, <3>1, <3>2
  <2>8. ASSUME NEW t \in Ids, Rebuild(id, t) PROVE Shared'
    <3>1. Fair  BY <2>8, <1>4 DEF Rebuild
    <3>2. UNCHANGED <<freq, count, blockPos, encoded, working, rows, codes, decoded>>
          /\ DOMAIN out' = DOMAIN out
      BY <2>8 DEF Rebuild, written
    <3> QED  BY <1>2, <1>5, <1>9, <3>1, <3>2
  <2> QED  BY <1>6, <2>1, <2>2, <2>3, <2>4, <2>5, <2>6, <2>7, <2>8 DEF Thread
<1>7. ASSUME Join PROVE Shared'
  <2>1. UNCHANGED <<freq, count, blockPos, encoded, working, rows, codes, decoded, out>>
    <3>1. UNCHANGED <<input, written, memory>>  BY <1>7, JoinIs
    <3> QED  BY <3>1 DEF written, memory
  <2>2. (\E name \in {"count", "copyExact", "encode", "copyCodes", "decode", "rebuild"} : Open(name))
          \/ UNCHANGED <<left, full>>
    BY <1>7, JoinIs, Zenon
  <2>3. ASSUME NEW name \in {"count", "copyExact", "encode", "copyCodes", "decode", "rebuild"}, Open(name)
        PROVE  Fair
    BY <2>3, <1>1, OpenShared DEF Fair
  <2>4. Fair  BY <2>2, <2>3, <1>2 DEF Fair
  <2> QED  BY <1>2, <1>5, <1>9, <2>1, <2>4
<1>8. ASSUME Crash \/ UNCHANGED vars PROVE Shared'
  <2>1. UNCHANGED <<left, full, freq, count, blockPos, encoded, working, rows, codes, decoded, out>>
    BY <1>8 DEF Crash, vars, loop, written, memory
  <2>2. Fair  BY <1>2, <2>1 DEF Fair
  <2> QED  BY <1>2, <1>5, <1>9, <2>1, <2>2
<1> QED  BY <1>6, <1>7, <1>8 DEF Next
\* Who is past a loop after a step was so before, except the thread that has
\* just had its turn.
LEMMA PastTurn ==
  ASSUME Shared, full, NEW id \in Ids, NEW t, NEW CONSTANT name, Turn(name, id, t),
         NEW CONSTANT jd \in Ids
  PROVE  /\ PastQuantize(jd)' => PastQuantize(jd) \/ (name = "quantize" /\ jd = id)
         /\ PastCount(jd)' => PastCount(jd) \/ (name = "count" /\ jd = id)
         /\ PastCopyExact(jd)' => PastCopyExact(jd) \/ (name = "copyExact" /\ jd = id)
         /\ PastEncode(jd)' => PastEncode(jd) \/ (name = "encode" /\ jd = id)
         /\ PastCopyCodes(jd)' => PastCopyCodes(jd) \/ (name = "copyCodes" /\ jd = id)
         /\ PastDecode(jd)' => PastDecode(jd) \/ (name = "decode" /\ jd = id)
         /\ PastRebuild(jd)' => PastRebuild(jd) \/ (name = "rebuild" /\ jd = id)
<1>1. /\ stage = name /\ stage' = stage
      /\ left' = [left EXCEPT ![id] = {}] /\ DOMAIN left = Ids
  <2>1. DOMAIN left = Ids  BY DEF Shared
  <2>2. stage = name /\ stage' = stage  BY DEF Turn
  <2>3. full => left' = [left EXCEPT ![id] = {}]  BY TurnIs
  <2>4. left' = [left EXCEPT ![id] = {}]  BY <2>3, Zenon
  <2> QED  BY <2>1, <2>2, <2>4
<1>2. jd # id => left'[jd] = left[jd]  BY <1>1
<1>3. ASSUME NEW CONSTANT before, NEW CONSTANT other
      PROVE  Past(before, other, jd)' => Past(before, other, jd) \/ (name = other /\ jd = id)
  <2>1. Past(before, other, jd)' => stage' \notin before /\ (stage' = other => left'[jd] = {})
    BY DEF Past
  <2>2. CASE jd = id  BY <2>1, <2>2, <1>1 DEF Past
  <2>3. CASE jd # id  BY <2>1, <2>3, <1>1, <1>2 DEF Past
  <2> QED  BY <2>2, <2>3
<1>4. \A before, other : Past(before, other, jd)' => Past(before, other, jd) \/ (name = other /\ jd = id)
  BY <1>3
<1> QED  BY <1>4 DEF PastQuantize, PastCount, PastCopyExact, PastEncode, PastCopyCodes, PastDecode, PastRebuild

LEMMA PastJoin ==
  ASSUME Static = TRUE, Base, full', Join, NEW CONSTANT jd \in Ids
  PROVE  /\ PastQuantize(jd)' => PastQuantize(jd)
         /\ PastCount(jd)' => PastCount(jd)
         /\ PastCopyExact(jd)' => PastCopyExact(jd)
         /\ PastEncode(jd)' => PastEncode(jd)
         /\ PastCopyCodes(jd)' => PastCopyCodes(jd)
         /\ PastDecode(jd)' => PastDecode(jd)
         /\ PastRebuild(jd)' => PastRebuild(jd)
<1>1. left[jd] = {}  BY JoinIs
<1>2. ASSUME NEW CONSTANT name, Open(name) PROVE left'[jd] = {jd}
  <2>1. left' = [id \in Ids |-> {id}]  BY <1>2, OpenIs DEF Base
  <2> QED  BY <2>1
<1>3. \/ stage = "quantize" /\ stage' = "count" /\ left'[jd] # {}
      \/ stage = "count" /\ stage' = "copyExact" /\ left'[jd] # {}
      \/ stage = "copyExact" /\ stage' = "encode" /\ left'[jd] # {}
      \/ stage = "encode" /\ stage' = "copyCodes" /\ left'[jd] # {}
      \/ stage = "copyCodes" /\ stage' = "decode" /\ left'[jd] # {}
      \/ stage = "decode" /\ stage' = "rebuild" /\ left'[jd] # {}
      \/ stage = "rebuild" /\ stage' = "done"
  BY <1>2, JoinIs
<1>4. PastQuantize(jd)' => PastQuantize(jd)  BY <1>1, <1>3 DEF Past, PastQuantize
<1>5. PastCount(jd)' => PastCount(jd)  BY <1>1, <1>3 DEF Past, PastCount
<1>6. PastCopyExact(jd)' => PastCopyExact(jd)  BY <1>1, <1>3 DEF Past, PastCopyExact
<1>7. PastEncode(jd)' => PastEncode(jd)  BY <1>1, <1>3 DEF Past, PastEncode
<1>8. PastCopyCodes(jd)' => PastCopyCodes(jd)  BY <1>1, <1>3 DEF Past, PastCopyCodes
<1>9. PastDecode(jd)' => PastDecode(jd)  BY <1>1, <1>3 DEF Past, PastDecode
<1>10. PastRebuild(jd)' => PastRebuild(jd)  BY <1>1, <1>3 DEF Past, PastRebuild
<1> QED  BY <1>4, <1>5, <1>6, <1>7, <1>8, <1>9, <1>10

\* A block's entries are in the section they are copied to, and those of a
\* block elsewhere stay.
LEMMA PutHas ==
  ASSUME NEW section, NEW id, NEW from \in Nat, NEW n \in Nat
  PROVE  Has(Put(section, id, from, n), id, from, n)
<1> DEFINE there == from .. from + n - 1
           new == [i \in DOMAIN section \cup there |->
                     IF i \in there THEN <<id, i - from>> ELSE section[i]]
<1>1. Put(section, id, from, n) = new  BY DEF Put
<1>2. ASSUME NEW k \in 0 .. n - 1 PROVE from + k \in DOMAIN new /\ new[from + k] = <<id, k>>
  <2>1. from + k \in there /\ from + k - from = k  OBVIOUS
  <2> HIDE DEF there
  <2>2. from + k \in DOMAIN section \cup there  BY <2>1
  <2> QED  BY <2>1, <2>2
<1> HIDE DEF new
<1> QED  BY <1>1, <1>2 DEF Has

LEMMA PutKeeps ==
  ASSUME NEW section, NEW id, NEW from \in Nat, NEW n \in Nat,
         NEW jd, NEW to \in Nat, NEW m \in Nat,
         to + m <= from \/ from + n <= to, Has(section, jd, to, m)
  PROVE  Has(Put(section, id, from, n), jd, to, m)
<1> DEFINE there == from .. from + n - 1
           new == [i \in DOMAIN section \cup there |->
                     IF i \in there THEN <<id, i - from>> ELSE section[i]]
<1>1. Put(section, id, from, n) = new  BY DEF Put
<1>2. ASSUME NEW k \in 0 .. m - 1 PROVE to + k \in DOMAIN new /\ new[to + k] = <<jd, k>>
  <2>1. to + k \notin there  OBVIOUS
  <2>2. to + k \in DOMAIN section /\ section[to + k] = <<jd, k>>  BY DEF Has
  <2> HIDE DEF there
  <2> QED  BY <2>1, <2>2
<1> HIDE DEF new
<1> QED  BY <1>1, <1>2 DEF Has

\* A section whose entries are where the sums of f put them keeps them when
\* those of another block are copied.
LEMMA PutInOrder ==
  ASSUME NEW t \in Nat, NEW f \in [0 .. t - 1 -> Nat], NEW section,
         NEW id \in 0 .. t - 1, NEW jd \in 0 .. t - 1,
         jd # id => Has(section, jd, Before(f, jd), f[jd])
  PROVE  Has(Put(section, id, Before(f, id), f[id]), jd, Before(f, jd), f[jd])
<1>1. /\ Before(f, id) \in Nat /\ f[id] \in Nat /\ Before(f, jd) \in Nat /\ f[jd] \in Nat
  <2>1. id \in 0 .. t /\ jd \in 0 .. t  OBVIOUS
  <2> QED  BY <2>1, BeforeIs
<1>2. CASE jd = id  BY <1>1, <1>2, PutHas
<1>3. CASE jd # id
  <2>1. jd \in id + 1 .. t \/ id \in jd + 1 .. t  BY <1>3
  <2>2. Before(f, jd) + f[jd] <= Before(f, id) \/ Before(f, id) + f[id] <= Before(f, jd)
    BY <2>1, BeforeRises
  <2> QED  BY <1>1, <1>3, <2>2, PutKeeps
<1> QED  BY <1>2, <1>3
-----------------------------------------------------------------------------
(* Compression                                                             *)

\* The data of one loop is of no concern to the others.
LEMMA WrittenStays ==
  ASSUME UNCHANGED input, NEW CONSTANT id
  PROVE  /\ UNCHANGED <<codes, count>> /\ Quantized(id) => Quantized(id)'
         /\ UNCHANGED exactAt /\ ExactKept(id) => ExactKept(id)'
         /\ UNCHANGED <<encoded, blockPos>> /\ Encoded(id) => Encoded(id)'
         /\ UNCHANGED codesAt /\ CodesKept(id) => CodesKept(id)'
<1>1. blocks' = blocks /\ unpred' = unpred /\ size' = size  BY DEF input
<1>2. UNCHANGED <<codes, count>> /\ Quantized(id) => Quantized(id)'  BY <1>1 DEF Quantized
<1>3. UNCHANGED exactAt /\ ExactKept(id) => ExactKept(id)'  BY <1>1 DEF ExactKept
<1>4. UNCHANGED <<encoded, blockPos>> /\ Encoded(id) => Encoded(id)'  BY <1>1 DEF Encoded
<1>5. UNCHANGED codesAt /\ CodesKept(id) => CodesKept(id)'  BY <1>1 DEF CodesKept
<1> QED  BY <1>2, <1>3, <1>4, <1>5

\* What is read of the numbers of all blocks, once they are all written.
LEMMA ReadAllIs ==
  ASSUME NEW f \in [Ids -> Int], NEW g \in [Ids -> Nat], \A id \in Ids : f[id] = g[id]
  PROVE  ReadAll(f) = g
<1>1. f = g  OBVIOUS
<1>2. ReadAll(g) = [id \in Ids |-> Read(g[id])]  BY DEF ReadAll
<1>3. \A id \in Ids : Read(g[id]) = g[id]  BY DEF Read, Garbage
<1> QED  BY <1>1, <1>2, <1>3

\* The whole of the compressor's numbers is there for the loops that need it.
LEMMA Numbers ==
  ASSUME Base, Shared, Written
  PROVE  /\ stage \in {"count", "copyExact", "encode", "copyCodes", "decode", "rebuild", "done"}
              => ReadAll(count) = unpred /\ \A id \in Ids : Quantized(id)
         /\ stage \in {"copyCodes", "decode", "rebuild", "done"}
              => ReadAll(blockPos) = size /\ \A id \in Ids : Encoded(id)
         /\ stage \in {"decode", "rebuild", "done"} => \A id \in Ids : CodesKept(id)
         /\ stage \in {"encode", "copyCodes", "decode", "rebuild", "done"}
              => \A id \in Ids : ExactKept(id)
<1>1. /\ unpred \in [Ids -> Nat] /\ size \in [Ids -> Nat]
      /\ count \in [Ids -> Int] /\ blockPos \in [Ids -> Int]
  BY DEF Base, Shared
<1>2. ASSUME stage \in {"count", "copyExact", "encode", "copyCodes", "decode", "rebuild", "done"}
      PROVE  ReadAll(count) = unpred /\ \A id \in Ids : Quantized(id)
  <2>1. \A id \in Ids : PastQuantize(id)  BY <1>2 DEF PastQuantize, Past
  <2>2. \A id \in Ids : Quantized(id)  BY <2>1 DEF Written, WrittenBy
  <2>3. \A id \in Ids : count[id] = unpred[id]  BY <2>2 DEF Quantized
  <2> QED  BY <1>1, <2>2, <2>3, ReadAllIs
<1>3. ASSUME stage \in {"copyCodes", "decode", "rebuild", "done"}
      PROVE  ReadAll(blockPos) = size /\ \A id \in Ids : Encoded(id)
  <2>1. \A id \in Ids : PastEncode(id)  BY <1>3 DEF PastEncode, Past
  <2>2. \A id \in Ids : Encoded(id)  BY <2>1 DEF Written, WrittenBy
  <2>3. \A id \in Ids : blockPos[id] = size[id]  BY <2>2 DEF Encoded
  <2> QED  BY <1>1, <2>2, <2>3, ReadAllIs
<1>4. ASSUME stage \in {"decode", "rebuild", "done"} PROVE \A id \in Ids : CodesKept(id)
  <2>1. \A id \in Ids : PastCopyCodes(id)  BY <1>4 DEF PastCopyCodes, Past
  <2> QED  BY <2>1 DEF Written, WrittenBy
<1>5. ASSUME stage \in {"encode", "copyCodes", "decode", "rebuild", "done"}
      PROVE  \A id \in Ids : ExactKept(id)
  <2>1. \A id \in Ids : PastCopyExact(id)  BY <1>5 DEF PastCopyExact, Past
  <2> QED  BY <2>1 DEF Written, WrittenBy
<1> QED  BY <1>2, <1>3, <1>4, <1>5

LEMMA RunningBefore ==
  ASSUME Static = TRUE, Base, [Next]_vars, Running'
  PROVE  Running /\ ~ Crash
<1>1. full' /\ Thick' /\ stage' # "crashed"  BY DEF Running
<1>6. Thick  BY <1>1, InputStays, ThickStays
<1>2. ASSUME Join PROVE full /\ stage # "crashed"
  <2>1. (\E name : Open(name)) \/ UNCHANGED full  BY <1>2, JoinIs
  <2>2. full  BY <2>1, <1>1 DEF Open
  <2> QED  BY <2>2, <1>2, JoinIs
<1>3. ASSUME NEW id \in Ids, Thread(id) PROVE full' = full /\ stage' = stage
  BY <1>3 DEF Thread, QuantizeBegin, QuantizeEnd, Count, CopyExact, Encode, CopyCodes, Decode,
              Rebuild, Turn, loop
<1>4. ASSUME UNCHANGED vars PROVE full' = full /\ stage' = stage  BY <1>4 DEF vars, loop
<1>5. ASSUME Crash PROVE FALSE  BY <1>5, <1>1 DEF Crash
<1> QED  BY <1>1, <1>2, <1>3, <1>4, <1>5, <1>6 DEF Next, Running

LEMMA WrittenStep ==
  ASSUME Static = TRUE, Base, Shared, Running => Written, [Next]_vars, Running'
  PROVE  Written'
<1>1. UNCHANGED input /\ Ids' = Ids
  <2>1. UNCHANGED input  BY InputStays
  <2> QED  BY <2>1, BaseStays
<1>2. Written /\ full /\ full' /\ Thick /\ ~ Crash
  <2>1. Running /\ ~ Crash  BY RunningBefore
  <2> QED  BY <2>1 DEF Running
<1> SUFFICES ASSUME NEW CONSTANT jd \in Ids PROVE WrittenBy(jd)'
  BY <1>1 DEF Written
<1>3. /\ PastQuantize(jd) => Quantized(jd)
      /\ PastCopyExact(jd) => ExactKept(jd)
      /\ PastEncode(jd) => Encoded(jd)
      /\ PastCopyCodes(jd) => CodesKept(jd)
  BY <1>2 DEF Written, WrittenBy
<1>4. /\ UNCHANGED <<codes, count>> /\ Quantized(jd) => Quantized(jd)'
      /\ UNCHANGED exactAt /\ ExactKept(jd) => ExactKept(jd)'
      /\ UNCHANGED <<encoded, blockPos>> /\ Encoded(jd) => Encoded(jd)'
      /\ UNCHANGED codesAt /\ CodesKept(jd) => CodesKept(jd)'
  BY <1>1, WrittenStays
<1>5. ASSUME UNCHANGED <<codes, count, exactAt, encoded, blockPos, codesAt>>,
             PastQuantize(jd)' => PastQuantize(jd),
             PastCopyExact(jd)' => PastCopyExact(jd),
             PastEncode(jd)' => PastEncode(jd),
             PastCopyCodes(jd)' => PastCopyCodes(jd)
      PROVE  WrittenBy(jd)'
  BY <1>3, <1>4, <1>5 DEF WrittenBy
<1>6. ASSUME Join PROVE WrittenBy(jd)'
  <2>1. UNCHANGED <<codes, count, exactAt, encoded, blockPos, codesAt>>
    <3>1. UNCHANGED <<input, written, memory>>  BY <1>6, JoinIs
    <3> QED  BY <3>1 DEF written, memory
  <2>2. /\ PastQuantize(jd)' => PastQuantize(jd)
        /\ PastCopyExact(jd)' => PastCopyExact(jd)
        /\ PastEncode(jd)' => PastEncode(jd)
        /\ PastCopyCodes(jd)' => PastCopyCodes(jd)
    BY <1>2, <1>6, PastJoin
  <2> QED  BY <1>5, <2>1, <2>2
<1>7. ASSUME UNCHANGED <<stage, left, codes, count, exactAt, encoded, blockPos, codesAt>>
      PROVE  WrittenBy(jd)'
  <2>1. /\ PastQuantize(jd)' => PastQuantize(jd)
        /\ PastCopyExact(jd)' => PastCopyExact(jd)
        /\ PastEncode(jd)' => PastEncode(jd)
        /\ PastCopyCodes(jd)' => PastCopyCodes(jd)
    BY <1>7 DEF PastQuantize, PastCopyExact, PastEncode, PastCopyCodes, Past
  <2> QED  BY <1>5, <1>7, <2>1
<1>8. ASSUME UNCHANGED vars PROVE WrittenBy(jd)'
  <2>1. UNCHANGED <<stage, left, codes, count, exactAt, encoded, blockPos, codesAt>>
    BY <1>8 DEF vars, loop, written, memory
  <2> QED  BY <1>7, <2>1
<1>9. ASSUME NEW CONSTANT id \in Ids, Thread(id) PROVE WrittenBy(jd)'
  <2> DEFINE Turned(name) ==
               /\ PastQuantize(jd)' => PastQuantize(jd) \/ (name = "quantize" /\ jd = id)
               /\ PastCopyExact(jd)' => PastCopyExact(jd) \/ (name = "copyExact" /\ jd = id)
               /\ PastEncode(jd)' => PastEncode(jd) \/ (name = "encode" /\ jd = id)
               /\ PastCopyCodes(jd)' => PastCopyCodes(jd) \/ (name = "copyCodes" /\ jd = id)
  <2>1. ASSUME NEW CONSTANT t \in Ids, NEW CONSTANT name, Turn(name, id, t) PROVE Turned(name)
    BY <1>2, <2>1, PastTurn
  <2>2. ASSUME NEW CONSTANT t \in Ids, NEW CONSTANT name, Turn(name, id, t)
        PROVE  t = id /\ stage = name
    <3>1. full => t = id  BY <2>2, TurnIs
    <3>2. stage = name  BY <2>2 DEF Turn
    <3> QED  BY <1>2, <3>1, <3>2, Zenon
  <2>3. CASE QuantizeBegin(id)
    <3>1. UNCHANGED <<stage, left, codes, count, exactAt, encoded, blockPos, codesAt>>
      BY <2>3 DEF QuantizeBegin, loop, written
    <3> QED  BY <1>7, <3>1
  <2>4. ASSUME NEW CONSTANT t \in Ids, QuantizeEnd(id, t) PROVE WrittenBy(jd)'
    <3>1. Turned("quantize")  BY <2>4, <2>1 DEF QuantizeEnd
    <3>2. UNCHANGED <<exactAt, encoded, blockPos, codesAt>>  BY <2>4 DEF QuantizeEnd
    <3>3. /\ rows[id] = id
          /\ count' = [count EXCEPT ![id] = unpred[id]]
          /\ codes' = [i \in DOMAIN codes |->
                         IF i \in Codes(blocks[id]) THEN blocks[id].cells[i - blocks[id].first]
                         ELSE codes[i]]
      <4>1. rows[id] = id  BY <1>2, <2>4 DEF QuantizeEnd, Shared
      <4>2. StrayCodes(blocks[id]) = {} /\ Cardinality(DOMAIN blocks[id].strays) = 0
        BY <1>2, NoStrays
      <4>3. count' = [count EXCEPT ![id] = unpred[id]]
        <5>1. PICK n \in 0 .. 0 : count' = [count EXCEPT ![id] = unpred[id] + n]
          BY <2>4, <4>2 DEF QuantizeEnd
        <5>2. unpred[id] + n = unpred[id]  BY DEF Base
        <5> QED  BY <5>1, <5>2
      <4>4. codes' = [i \in DOMAIN codes |->
                        IF i \in Codes(blocks[id])
                        THEN IF rows[Buffer(id)] = id THEN blocks[id].cells[i - blocks[id].first] ELSE Wrong
                        ELSE IF i \in StrayCodes(blocks[id]) THEN Wrong ELSE codes[i]]
        BY <2>4 DEF QuantizeEnd
      <4> QED  BY <4>1, <4>2, <4>3, <4>4 DEF Buffer
    <3>4. ASSUME PastQuantize(jd)' PROVE Quantized(jd)'
      <4>1. jd # id => Quantized(jd)  BY <1>3, <3>1, <3>4
      <4>2. ASSUME NEW CONSTANT k \in DOMAIN blocks[jd].cells
            PROVE  codes'[blocks[jd].first + k] = blocks[jd].cells[k]
        <5> DEFINE i == blocks[jd].first + k
        <5>1. /\ k \in Nat /\ blocks[jd].first \in Nat /\ i < Elements
          BY DEF Base, Tiled
        <5>2. i \in DOMAIN codes
          <6>1. DOMAIN codes = 0 .. Elements - 1 /\ Elements \in Int
            BY DEF Shared, Base, IsArray, Elements
          <6> QED  BY <5>1, <6>1
        <5>3. i \in Codes(blocks[jd])  BY DEF Codes
        <5>4. CASE jd = id
          <6>1. i - blocks[id].first = k  BY <5>1, <5>4
          <6>2. codes'[i] = blocks[id].cells[i - blocks[id].first]  BY <3>3, <5>2, <5>3, <5>4
          <6> QED  BY <5>4, <6>1, <6>2
        <5>5. CASE jd # id
          <6>1. i \notin Codes(blocks[id])  BY <5>3, <5>5 DEF Base, Tiled
          <6> HIDE DEF i
          <6>2. codes'[i] = codes[i]  BY <3>3, <5>2, <6>1
          <6>3. codes[i] = blocks[jd].cells[k]  BY <4>1, <5>5 DEF Quantized, i
          <6> QED  BY <6>2, <6>3 DEF i
        <5> QED  BY <5>4, <5>5
      <4>3. count'[jd] = unpred[jd]
        <5>1. DOMAIN count = Ids  BY DEF Shared
        <5>2. jd # id => count[jd] = unpred[jd]  BY <4>1 DEF Quantized
        <5> QED  BY <3>3, <5>1, <5>2
      <4>4. blocks' = blocks /\ unpred' = unpred  BY <1>1 DEF input
      <4> QED  BY <4>2, <4>3, <4>4 DEF Quantized
    <3> QED  BY <1>3, <1>4, <3>1, <3>2, <3>4 DEF WrittenBy
  <2>5. ASSUME NEW CONSTANT t \in Ids, Count(id, t) PROVE WrittenBy(jd)'
    <3>1. Turned("count")  BY <2>5, <2>1 DEF Count
    <3>2. UNCHANGED <<codes, count, exactAt, encoded, blockPos, codesAt>>  BY <2>5 DEF Count
    <3> QED  BY <1>5, <3>1, <3>2
  <2>6. ASSUME NEW CONSTANT t \in Ids, CopyExact(id, t) PROVE WrittenBy(jd)'
    <3>1. Turned("copyExact")  BY <2>6, <2>1 DEF CopyExact
    <3>2. UNCHANGED <<codes, count, encoded, blockPos, codesAt>>  BY <2>6 DEF CopyExact
    <3>3. stage = "copyExact"  BY <2>6, <2>2 DEF CopyExact
    <3>4. ReadAll(count) = unpred  BY <1>2, <3>3, Numbers
    <3>5. exactAt' = Put(exactAt, id, Before(unpred, id), unpred[id])
      BY <2>6, <3>4 DEF CopyExact
    <3>6. ASSUME PastCopyExact(jd)' PROVE ExactKept(jd)'
      <4>1. jd # id => ExactKept(jd)  BY <1>3, <3>1, <3>6
      <4>2. thread_num \in Nat /\ Ids = 0 .. thread_num - 1 /\ unpred \in [0 .. thread_num - 1 -> Nat]
        BY DEF Base, Ids
      <4>3. Has(exactAt', jd, Before(unpred, jd), unpred[jd])
        BY <3>5, <4>1, <4>2, PutInOrder DEF ExactKept
      <4> QED  BY <1>1, <4>3 DEF ExactKept, input
    <3> QED  BY <1>3, <1>4, <3>1, <3>2, <3>6 DEF WrittenBy
  <2>7. ASSUME NEW CONSTANT t \in Ids, Encode(id, t) PROVE WrittenBy(jd)'
    <3>1. Turned("encode")  BY <2>7, <2>1 DEF Encode
    <3>2. UNCHANGED <<codes, count, exactAt, codesAt>>  BY <2>7 DEF Encode
    <3>3. encoded' = [encoded EXCEPT ![id] = id] /\ blockPos' = [blockPos EXCEPT ![id] = size[id]]
      BY <2>7 DEF Encode
    <3>4. DOMAIN encoded = Ids /\ blockPos \in [Ids -> Int] /\ size' = size
      BY <1>1 DEF Shared, input
    <3>5. ASSUME PastEncode(jd)' PROVE Encoded(jd)'
      <4>1. jd # id => Encoded(jd)  BY <1>3, <3>1, <3>5
      <4> QED  BY <3>3, <3>4, <4>1 DEF Encoded
    <3> QED  BY <1>3, <1>4, <3>1, <3>2, <3>5 DEF WrittenBy
  <2>8. ASSUME NEW CONSTANT t \in Ids, CopyCodes(id, t) PROVE WrittenBy(jd)'
    <3>1. Turned("copyCodes")  BY <2>8, <2>1 DEF CopyCodes
    <3>2. UNCHANGED <<codes, count, exactAt, encoded, blockPos>>  BY <2>8 DEF CopyCodes
    <3>3. stage = "copyCodes" /\ t = id  BY <2>8, <2>2 DEF CopyCodes
    <3>4. ReadAll(blockPos) = size /\ encoded[id] = id
      <4>1. ReadAll(blockPos) = size /\ Encoded(id)  BY <1>2, <3>3, Numbers
      <4> QED  BY <4>1 DEF Encoded
    <3>5. codesAt' = Put(codesAt, id, Before(size, id), size[id])
      BY <2>8, <3>3, <3>4 DEF CopyCodes
    <3>6. ASSUME PastCopyCodes(jd)' PROVE CodesKept(jd)'
      <4>1. jd # id => CodesKept(jd)  BY <1>3, <3>1, <3>6
      <4>2. thread_num \in Nat /\ Ids = 0 .. thread_num - 1 /\ size \in [0 .. thread_num - 1 -> Nat]
        BY DEF Base, Ids
      <4>3. Has(codesAt', jd, Before(size, jd), size[jd])
        BY <3>5, <4>1, <4>2, PutInOrder DEF CodesKept
      <4> QED  BY <1>1, <4>3 DEF CodesKept, input
    <3> QED  BY <1>3, <1>4, <3>1, <3>2, <3>6 DEF WrittenBy
  <2>9. ASSUME NEW CONSTANT t \in Ids, Decode(id, t) PROVE WrittenBy(jd)'
    <3>1. Turned("decode")  BY <2>9, <2>1 DEF Decode
    <3>2. UNCHANGED <<codes, count, exactAt, encoded, blockPos, codesAt>>
      BY <2>9 DEF Decode, written
    <3> QED  BY <1>5, <3>1, <3>2
  <2>10. ASSUME NEW CONSTANT t \in Ids, Rebuild(id, t) PROVE WrittenBy(jd)'
    <3>1. Turned("rebuild")  BY <2>10, <2>1 DEF Rebuild
    <3>2. UNCHANGED <<codes, count, exactAt, encoded, blockPos, codesAt>>
      BY <2>10 DEF Rebuild, written
    <3> QED  BY <1>5, <3>1, <3>2
  <2> QED  BY <1>9, <2>3, <2>4, <2>5, <2>6, <2>7, <2>8, <2>9, <2>10 DEF Thread
<1> QED  BY <1>2, <1>6, <1>8, <1>9 DEF Next
-----------------------------------------------------------------------------
(* The initial states                                                      *)

LEMMA InitBase ==
  ASSUME Init
  PROVE  Base
<1>1. /\ dims \in Shapes /\ type \in Types
      /\ \E n \in MaxThreads : thread_num = Blocks(Grid(n)) /\ blocks = Layout(Grid(n))
      /\ \E load \in Loads : /\ unpred = [id \in Ids |-> load[id][1]]
                              /\ size = [id \in Ids |-> load[id][2]]
  BY DEF Init
<1>2. IsArray  BY <1>1, OmpBlocksAssumption DEF IsArray
<1>3. PICK n \in MaxThreads : thread_num = Blocks(Grid(n)) /\ blocks = Layout(Grid(n))  BY <1>1
<1>4. n \in 1 .. 127  BY OmpBlocksAssumption
<1> DEFINE g == Grid(n)
<1>5. IsGrid(g) /\ Blocks(g) \in 1 .. 127 /\ Grid(Blocks(g)) = g  BY <1>4, GridBlocks DEF IsGrid
<1> HIDE DEF g
<1>6. thread_num = Blocks(g) /\ blocks = Layout(g)  BY <1>3 DEF g
<1>7. Tiled  BY <1>2, <1>5, <1>6, GridTiles
<1>8. unpred \in [Ids -> Nat] /\ size \in [Ids -> Nat]
  <2>1. PICK load \in Loads : /\ unpred = [id \in Ids |-> load[id][1]]
                              /\ size = [id \in Ids |-> load[id][2]]
    BY <1>1
  <2>2. load \in [0 .. 126 -> Nat \X (Nat \ {0})]  BY OmpBlocksAssumption
  <2>3. ASSUME NEW id \in Ids PROVE load[id][1] \in Nat /\ load[id][2] \in Nat
    <3>1. id \in 0 .. 126  BY <1>5, <1>6 DEF Ids
    <3>2. load[id] \in Nat \X (Nat \ {0})  BY <2>2, <3>1
    <3> QED  BY <3>2
  <2> QED  BY <2>1, <2>3
<1>9. blocks = Layout(Grid(thread_num)) /\ thread_num \in 1 .. 127  BY <1>5, <1>6
<1> QED  BY <1>1, <1>2, <1>3, <1>7, <1>8, <1>9 DEF Base

LEMMA InitInv ==
  ASSUME Static = TRUE, Init
  PROVE  /\ IInv /\ stage = "quantize"
         /\ full => \A id \in Ids : left[id] = {id}
<1>1. Base  BY InitBase
<1>2. /\ stage = "quantize" /\ working = {}
      /\ rows = [id \in Ids |-> Garbage] /\ codes = [i \in 0 .. Elements - 1 |-> Garbage]
      /\ count = [id \in Ids |-> Garbage] /\ freq = [i \in 0 .. Elements - 1 |-> 0]
      /\ encoded = [id \in Ids |-> Garbage] /\ blockPos = [id \in Ids |-> Garbage]
      /\ decoded = codes /\ out = codes
  BY DEF Init
<1>3. PICK n \in TeamSizes : left \in Assignments(n) /\ full = (n = thread_num)  BY DEF Init
<1>4. DOMAIN left = Ids /\ (n = thread_num => left = [id \in Ids |-> {id}])
  BY <1>1, <1>3, AssignmentsAre DEF Base
<1>5. full => \A id \in Ids : left[id] = {id}  BY <1>3, <1>4
<1>6. Garbage \in Int  BY DEF Garbage
<1>7. Shared  BY <1>2, <1>4, <1>5, <1>6 DEF Shared
<1>8. ASSUME full, NEW id \in Ids PROVE WrittenBy(id)
  <2>1. left[id] # {}  BY <1>5, <1>8
  <2> QED  BY <2>1, <1>2 DEF WrittenBy, PastQuantize, PastCopyExact, PastEncode, PastCopyCodes, Past
<1> QED  BY <1>1, <1>2, <1>5, <1>7, <1>8 DEF IInv, Running, Written

LEMMA IInvStep ==
  ASSUME Static = TRUE, IInv, [Next]_vars
  PROVE  IInv'
<1>1. Base /\ Shared /\ (Running => Written)  BY DEF IInv
<1>2. Base'
  <2>1. UNCHANGED input  BY InputStays
  <2> QED  BY <1>1, <2>1, BaseStays
<1>3. Shared'  BY <1>1, SharedStep
<1>4. Running' => Written'  BY <1>1, WrittenStep
<1> QED  BY <1>2, <1>3, <1>4 DEF IInv

-----------------------------------------------------------------------------
(* Counting                                                                *)

\* All parts but the last of every array, cut for every number of threads, are
\* in the array, and a size_t holds the number of its values.
Room ==
  \A shape \in Shapes, n \in MaxThreads :
    LET elements == shape[1] * shape[2] * shape[3]
        threads == Blocks(Grid(n))
    IN /\ (threads - 1) * ((elements - 1) \div threads + 1) <= elements
       /\ elements <= SizeMax

LEMMA RoomFits ==
  ASSUME Room, Base
  PROVE  /\ Fits /\ Elements \in Nat \ {0} /\ thread_num \in Nat \ {0}
         /\ \A id \in Ids : Chunk(id) \subseteq 0 .. Elements - 1
         /\ \A i \in 0 .. Elements - 1 : \E id \in Ids : i \in Chunk(id)
         /\ \A id, jd \in Ids : id # jd => Chunk(id) \cap Chunk(jd) = {}
<1>1. PICK n \in MaxThreads : thread_num = Blocks(Grid(n))  BY DEF Base
<1>2. Elements = dims[1] * dims[2] * dims[3] /\ dims \in Shapes  BY DEF Elements, Base
<1>3. Fits  BY <1>1, <1>2 DEF Room, Fits
<1>4. Elements \in Nat \ {0}
  <2>1. dims[1] \in Nat \ {0} /\ dims[2] \in Nat \ {0} /\ dims[3] \in Nat \ {0}
    BY DEF Base, IsArray
  <2> DEFINE plane == dims[1] * dims[2]
  <2>2. plane \in Nat \ {0}  BY <2>1
  <2>3. Elements = plane * dims[3]  BY <1>2
  <2> HIDE DEF plane
  <2> QED  BY <2>1, <2>2, <2>3
<1>5. thread_num \in Nat \ {0}  BY DEF Base
<1> QED  BY <1>3, <1>4, <1>5, ChunksOnce

\* Nothing is used in a full team that nobody has written, if no block is thin.
LEMMA NotWild ==
  ASSUME Room, Base, Shared, Written, Thick,
         stage \in {"count", "copyExact", "encode", "copyCodes"}
  PROVE  ~ Wild
<1>1. ReadAll(count) = unpred /\ \A id \in Ids : Quantized(id)  BY Numbers
<1>2. DOMAIN codes = 0 .. Elements - 1 /\ unpred \in [Ids -> Nat] /\ size \in [Ids -> Nat]
  BY DEF Shared, Base
<1>3. ASSUME NEW i \in DOMAIN codes PROVE codes[i] # Garbage
  <2>1. PICK id \in Ids : i \in Codes(blocks[id])  BY <1>2 DEF Base, Tiled
  <2>2. PICK k \in DOMAIN blocks[id].cells : i = blocks[id].first + k  BY <2>1 DEF Codes
  <2>3. blocks[id].cells[k] \in Nat  BY DEF Base, Tiled
  <2>4. codes[i] = blocks[id].cells[k]  BY <2>2, <1>1 DEF Quantized
  <2> QED  BY <2>3, <2>4 DEF Garbage
<1>4. ASSUME NEW id \in Ids
      PROVE  count[id] # Garbage /\ (Chunk(id) \cup StrayCodes(blocks[id])) \ DOMAIN codes = {}
  <2>1. count[id] = unpred[id] /\ unpred[id] \in Nat  BY <1>1, <1>2 DEF Quantized
  <2>2. Chunk(id) \subseteq 0 .. Elements - 1  BY RoomFits
  <2>3. StrayCodes(blocks[id]) = {}  BY NoStrays
  <2> QED  BY <2>1, <2>2, <2>3, <1>2 DEF Garbage
<1>5. ASSUME stage = "copyCodes", NEW id \in Ids PROVE blockPos[id] # Garbage
  <2>1. Encoded(id)  BY <1>5, Numbers
  <2>2. blockPos[id] = size[id] /\ size[id] \in Nat  BY <2>1, <1>2 DEF Encoded
  <2> QED  BY <2>2 DEF Garbage
<1> QED  BY <1>3, <1>4, <1>5 DEF Wild

LEMMA PastCountJoin ==
  ASSUME Static = TRUE, Base, full', Join, NEW CONSTANT jd \in Ids
  PROVE  PastCount(jd)' <=> PastCount(jd)
<1>1. left[jd] = {}  BY JoinIs
<1>2. ASSUME Open("count") PROVE left'[jd] # {}
  <2>1. left' = [id \in Ids |-> {id}]  BY <1>2, OpenIs DEF Base
  <2> QED  BY <2>1
<1>3. \/ stage = "quantize" /\ stage' = "count" /\ left'[jd] # {}
      \/ /\ stage \in {"count", "copyExact", "encode", "copyCodes", "decode", "rebuild"}
         /\ stage' \in {"copyExact", "encode", "copyCodes", "decode", "rebuild", "done"}
  BY <1>2, JoinIs
<1> QED  BY <1>1, <1>3 DEF PastCount, Past

LEMMA PastCountTurn ==
  ASSUME Shared, full, NEW id \in Ids, NEW t, NEW CONSTANT name, Turn(name, id, t),
         NEW CONSTANT jd \in Ids
  PROVE  PastCount(jd)' <=> PastCount(jd) \/ (name = "count" /\ jd = id)
<1>1. /\ stage = name /\ stage' = stage
      /\ left' = [left EXCEPT ![id] = {}] /\ DOMAIN left = Ids
  <2>1. DOMAIN left = Ids  BY DEF Shared
  <2>2. stage = name /\ stage' = stage  BY DEF Turn
  <2>3. full => left' = [left EXCEPT ![id] = {}]  BY TurnIs
  <2>4. left' = [left EXCEPT ![id] = {}]  BY <2>3, Zenon
  <2> QED  BY <2>1, <2>2, <2>4
<1>2. CASE jd = id  BY <1>1, <1>2 DEF PastCount, Past
<1>3. CASE jd # id
  <2>1. left'[jd] = left[jd]  BY <1>1, <1>3
  <2> QED  BY <2>1, <1>1, <1>3 DEF PastCount, Past
<1> QED  BY <1>2, <1>3

LEMMA InitCounting ==
  ASSUME Static = TRUE, Room, Init
  PROVE  Counting
<1>1. Base /\ stage = "quantize" /\ (full => \A id \in Ids : left[id] = {id})
  BY InitInv DEF IInv
<1>2. freq = [i \in 0 .. Elements - 1 |-> 0]  BY DEF Init
<1>3. ASSUME NEW id \in Ids, NEW i \in Chunk(id) PROVE freq[i] = 0
  <2>1. Chunk(id) \subseteq 0 .. Elements - 1  BY <1>1, RoomFits
  <2> QED  BY <2>1, <1>2
<1>4. \A id \in Ids : ~ PastCount(id)  BY <1>1 DEF PastCount, Past
<1> QED  BY <1>1, <1>3, <1>4 DEF Counting, CountedSoFar
LEMMA CountingStep ==
  ASSUME Static = TRUE, Room, IInv, Counting, [Next]_vars
  PROVE  Counting'
<1> SUFFICES ASSUME full', Thick' PROVE stage' # "crashed" /\ CountedSoFar'
  BY DEF Counting
<1>1. Base /\ Shared /\ (Running => Written)  BY DEF IInv
<1>2. UNCHANGED input /\ Ids' = Ids /\ Elements' = Elements /\ Thick
  <2>1. UNCHANGED input  BY InputStays
  <2>2. Thick  BY <2>1, ThickStays
  <2> QED  BY <1>1, <2>1, <2>2, BaseStays
<1>3. ASSUME NEW CONSTANT id PROVE Chunk(id)' = Chunk(id)
  <2>1. thread_num' = thread_num  BY <1>2 DEF input
  <2>2. ChunkLength(id)' = ChunkLength(id)  BY <1>2, <2>1 DEF ChunkLength
  <2> QED  BY <1>2, <2>1, <2>2 DEF Chunk
<1>4. ASSUME full, UNCHANGED <<stage, left, freq>> PROVE stage' # "crashed" /\ CountedSoFar'
  <2>1. stage # "crashed" /\ CountedSoFar  BY <1>2, <1>4 DEF Counting
  <2>2. \A id \in Ids : PastCount(id)' <=> PastCount(id)  BY <1>4 DEF PastCount, Past
  <2> QED  BY <1>2, <1>3, <1>4, <2>1, <2>2 DEF CountedSoFar
<1>5. ASSUME Join PROVE stage' # "crashed" /\ CountedSoFar'
  <2>1. stage' # "crashed" /\ freq' = freq /\ full
    <3>1. stage' # "crashed" /\ ((\E name : Open(name)) \/ UNCHANGED full) /\ UNCHANGED written
      BY <1>1, <1>5, JoinIs
    <3> QED  BY <3>1 DEF written, Open
  <2>2. CountedSoFar  BY <1>2, <2>1 DEF Counting
  <2>3. \A id \in Ids : PastCount(id)' <=> PastCount(id)  BY <1>1, <1>5, PastCountJoin
  <2> QED  BY <1>2, <1>3, <2>1, <2>2, <2>3 DEF CountedSoFar
<1>6. ASSUME Crash PROVE FALSE
  <2>1. full /\ stage \in {"count", "copyExact", "encode", "copyCodes"} /\ Wild  BY <1>6 DEF Crash
  <2>2. Written  BY <1>1, <1>2, <2>1 DEF Running
  <2> QED  BY <1>1, <1>2, <2>1, <2>2, NotWild
<1>7. ASSUME UNCHANGED vars PROVE stage' # "crashed" /\ CountedSoFar'
  <2>1. UNCHANGED <<stage, left, freq, full>>  BY <1>7 DEF vars, loop, written
  <2> QED  BY <1>4, <2>1
<1>8. ASSUME NEW CONSTANT id \in Ids, Thread(id) PROVE stage' # "crashed" /\ CountedSoFar'
  <2>1. CASE QuantizeBegin(id)
    <3>1. UNCHANGED <<stage, left, freq, full>>  BY <2>1 DEF QuantizeBegin, loop, written
    <3> QED  BY <1>4, <3>1
  <2>2. ASSUME NEW CONSTANT t \in Ids, NEW CONSTANT name, Turn(name, id, t)
        PROVE  /\ full /\ stage' # "crashed" /\ CountedSoFar
               /\ \A jd \in Ids : PastCount(jd)' <=> PastCount(jd) \/ (name = "count" /\ jd = id)
    <3>1. full /\ stage' = stage  BY <2>2 DEF Turn
    <3>2. stage # "crashed" /\ CountedSoFar  BY <1>2, <3>1 DEF Counting
    <3> QED  BY <1>1, <2>2, <3>1, <3>2, PastCountTurn
  <2>3. ASSUME NEW CONSTANT t \in Ids, NEW CONSTANT name, name # "count", Turn(name, id, t), freq' = freq
        PROVE  stage' # "crashed" /\ CountedSoFar'
    <3>1. /\ stage' # "crashed" /\ CountedSoFar
          /\ \A jd \in Ids : PastCount(jd)' <=> PastCount(jd)
      BY <2>2, <2>3
    <3> QED  BY <1>2, <1>3, <2>3, <3>1 DEF CountedSoFar
  <2>4. ASSUME NEW CONSTANT t \in Ids, Count(id, t) PROVE stage' # "crashed" /\ CountedSoFar'
    <3>1. /\ stage' # "crashed" /\ CountedSoFar /\ full
          /\ \A jd \in Ids : PastCount(jd)' <=> PastCount(jd) \/ jd = id
      BY <2>2, <2>4 DEF Count
    <3>2. freq' = [i \in DOMAIN freq |-> IF i \in Chunk(id) THEN freq[i] + 1 ELSE freq[i]]
      BY <2>4 DEF Count
    <3>3. ~ PastCount(id)
      <4>1. t \in left[id] /\ stage = "count"  BY <2>4 DEF Count, Turn
      <4> QED  BY <4>1 DEF PastCount, Past
    <3>4. ASSUME NEW CONSTANT jd \in Ids, NEW CONSTANT i \in Chunk(jd)
          PROVE  freq'[i] = IF PastCount(jd)' THEN 1 ELSE 0
      <4>1. i \in DOMAIN freq
        <5>1. Chunk(jd) \subseteq 0 .. Elements - 1  BY <1>1, RoomFits
        <5> QED  BY <1>1, <5>1 DEF Shared
      <4>2. freq[i] = IF PastCount(jd) THEN 1 ELSE 0  BY <3>1 DEF CountedSoFar
      <4>3. CASE jd = id
        <5>1. freq[i] = 0 /\ freq'[i] = freq[i] + 1  BY <3>2, <3>3, <4>1, <4>2, <4>3
        <5>2. PastCount(jd)'  BY <3>1, <4>3
        <5> QED  BY <5>1, <5>2
      <4>4. CASE jd # id
        <5>1. i \notin Chunk(id)
          <6>1. \A a, b \in Ids : a # b => Chunk(a) \cap Chunk(b) = {}  BY <1>1, RoomFits
          <6> QED  BY <6>1, <4>4
        <5>2. freq'[i] = freq[i]  BY <3>2, <4>1, <5>1
        <5>3. PastCount(jd)' <=> PastCount(jd)  BY <3>1, <4>4
        <5> QED  BY <4>2, <5>2, <5>3
      <4> QED  BY <4>3, <4>4
    <3> QED  BY <1>2, <1>3, <3>1, <3>4 DEF CountedSoFar
  <2>5. ASSUME NEW CONSTANT t \in Ids, QuantizeEnd(id, t) PROVE stage' # "crashed" /\ CountedSoFar'
    BY <2>3, <2>5 DEF QuantizeEnd
  <2>6. ASSUME NEW CONSTANT t \in Ids, CopyExact(id, t) PROVE stage' # "crashed" /\ CountedSoFar'
    BY <2>3, <2>6 DEF CopyExact
  <2>7. ASSUME NEW CONSTANT t \in Ids, Encode(id, t) PROVE stage' # "crashed" /\ CountedSoFar'
    BY <2>3, <2>7 DEF Encode
  <2>8. ASSUME NEW CONSTANT t \in Ids, CopyCodes(id, t) PROVE stage' # "crashed" /\ CountedSoFar'
    BY <2>3, <2>8 DEF CopyCodes
  <2>9. ASSUME NEW CONSTANT t \in Ids, Decode(id, t) PROVE stage' # "crashed" /\ CountedSoFar'
    BY <2>3, <2>9 DEF Decode, written
  <2>10. ASSUME NEW CONSTANT t \in Ids, Rebuild(id, t) PROVE stage' # "crashed" /\ CountedSoFar'
    BY <2>3, <2>10 DEF Rebuild, written
  <2> QED  BY <1>8, <2>1, <2>4, <2>5, <2>6, <2>7, <2>8, <2>9, <2>10 DEF Thread
<1> QED  BY <1>5, <1>6, <1>7, <1>8 DEF Next

LEMMA CountingCounts ==
  ASSUME Room, IInv, Counting
  PROVE  CountedOnce
<1> SUFFICES ASSUME full, Thick
             PROVE  stage # "crashed" /\ (stage = "copyExact" => \A i \in DOMAIN freq : freq[i] = 1)
  BY DEF CountedOnce, Regular
<1>1. stage # "crashed" /\ CountedSoFar  BY DEF Counting
<1>2. ASSUME stage = "copyExact", NEW i \in DOMAIN freq PROVE freq[i] = 1
  <2>1. i \in 0 .. Elements - 1  BY DEF IInv, Shared
  <2>2. PICK id \in Ids : i \in Chunk(id)  BY <2>1, RoomFits DEF IInv
  <2>3. PastCount(id)  BY <1>2 DEF PastCount, Past
  <2> QED  BY <1>1, <2>2, <2>3 DEF CountedSoFar
<1> QED  BY <1>1, <1>2

\* With all its threads the loop that counts the codes stays within them and
\* visits each once, and what the later loops use is written (sz_omp.c:1012-1041):
\* for every array without a thin block, number of threads and interleaving, if
\* the iterations are spread evenly and the parts of the array fit.
THEOREM Counted ==
  ASSUME Static = TRUE, Room
  PROVE  Spec => []CountedOnce
<1>1. Init => IInv /\ Counting
  <2>1. Init => IInv  BY InitInv
  <2>2. Init => Counting  BY InitCounting
  <2> QED  BY <2>1, <2>2
<1>2. IInv /\ Counting /\ [Next]_vars => (IInv /\ Counting)'
  <2>1. IInv /\ Counting /\ [Next]_vars => IInv'  BY IInvStep
  <2>2. IInv /\ Counting /\ [Next]_vars => Counting'  BY CountingStep
  <2> QED  BY <2>1, <2>2
<1>3. IInv /\ Counting => CountedOnce  BY CountingCounts
<1> QED  BY <1>1, <1>2, <1>3, PTL DEF Spec
-----------------------------------------------------------------------------
(* Decompression                                                           *)

LEMMA InitReading ==
  ASSUME Static = TRUE, Init
  PROVE  Reading
<1>1. stage = "quantize"  BY InitInv
<1>2. ASSUME NEW id \in Ids PROVE ReadBackBy(id)
  BY <1>1 DEF ReadBackBy, PastDecode, PastRebuild, Past
<1> QED  BY <1>1, <1>2 DEF Reading, ReadBack

LEMMA ReadingStep ==
  ASSUME Static = TRUE, Types \subseteq {"float"}, IInv, Reading, [Next]_vars
  PROVE  Reading'
<1> SUFFICES ASSUME Running' PROVE ReadBack'
  BY DEF Reading
<1>1. Base /\ Shared /\ (Running => Written)  BY DEF IInv
<1>2. UNCHANGED input /\ Ids' = Ids /\ blocks' = blocks
  <2>1. UNCHANGED input  BY InputStays
  <2>2. Ids' = Ids  BY <1>1, <2>1, BaseStays
  <2> QED  BY <2>1, <2>2 DEF input
<1>3. Written /\ ReadBack /\ full /\ full' /\ Thick /\ ~ Crash
  <2>1. Running /\ ~ Crash  BY <1>1, RunningBefore
  <2> QED  BY <1>1, <2>1 DEF Running, Reading
<1> DEFINE Alike == stage \in {"decode", "rebuild", "done"} => blocksBack = blocks
<1>4. Alike  BY <1>3 DEF ReadBack
<1>5. ASSUME UNCHANGED <<stage, left, blocksBack, codes, decoded, out>> PROVE ReadBack'
  <2>1. \A jd \in Ids : ReadBackBy(jd)' <=> ReadBackBy(jd)
    BY <1>2, <1>5 DEF ReadBackBy, PastDecode, PastRebuild, Past, Decoded, Rebuilt
  <2> QED  BY <1>2, <1>3, <1>5, <2>1 DEF ReadBack
<1>6. ASSUME UNCHANGED vars PROVE ReadBack'
  <2>1. UNCHANGED <<stage, left, blocksBack, codes, decoded, out>>  BY <1>6 DEF vars, loop, memory
  <2> QED  BY <1>5, <2>1
<1>7. ASSUME NEW CONSTANT jd \in Ids,
             PastDecode(jd)' => PastDecode(jd), PastRebuild(jd)' => PastRebuild(jd),
             UNCHANGED <<codes, decoded, out>>
      PROVE  ReadBackBy(jd)'
  <2>1. ReadBackBy(jd)  BY <1>3 DEF ReadBack
  <2>2. Decoded(jd) => Decoded(jd)'  BY <1>2, <1>7 DEF Decoded
  <2>3. Rebuilt(jd) => Rebuilt(jd)'  BY <1>2, <1>7 DEF Rebuilt
  <2> QED  BY <1>7, <2>1, <2>2, <2>3 DEF ReadBackBy
<1>8. ASSUME Join PROVE ReadBack'
  <2>1. UNCHANGED <<codes, decoded, out>>
    <3>1. UNCHANGED <<input, written, memory>>  BY <1>1, <1>8, JoinIs
    <3> QED  BY <3>1 DEF memory
  <2>2. ASSUME NEW CONSTANT jd \in Ids PROVE ReadBackBy(jd)'
    <3>1. PastDecode(jd)' => PastDecode(jd)  BY <1>1, <1>3, <1>8, PastJoin
    <3>2. PastRebuild(jd)' => PastRebuild(jd)  BY <1>1, <1>3, <1>8, PastJoin
    <3> QED  BY <1>7, <2>1, <3>1, <3>2
  <2>3. stage' \in {"decode", "rebuild", "done"} => blocksBack' = blocks
    BY <1>1, <1>4, <1>8, JoinIs
  <2> QED  BY <1>2, <2>2, <2>3 DEF ReadBack
<1>9. ASSUME NEW CONSTANT id \in Ids, Thread(id) PROVE ReadBack'
  <2>1. ASSUME NEW CONSTANT t \in Ids, NEW CONSTANT name, Turn(name, id, t), UNCHANGED blocksBack,
               \A jd \in Ids : ReadBackBy(jd)'
        PROVE  ReadBack'
    <3>1. stage' = stage  BY <2>1 DEF Turn
    <3> QED  BY <1>2, <1>4, <2>1, <3>1 DEF ReadBack
  <2>2. ASSUME NEW CONSTANT t \in Ids, NEW CONSTANT name, Turn(name, id, t), NEW CONSTANT jd \in Ids
        PROVE  /\ PastDecode(jd)' => PastDecode(jd) \/ (name = "decode" /\ jd = id)
               /\ PastRebuild(jd)' => PastRebuild(jd) \/ (name = "rebuild" /\ jd = id)
    BY <1>1, <1>3, <2>2, PastTurn
  <2>3. ASSUME NEW CONSTANT t \in Ids, NEW CONSTANT name \in {"count", "copyExact", "encode", "copyCodes"},
               Turn(name, id, t), UNCHANGED <<blocksBack, codes, decoded, out>>
        PROVE  ReadBack'
    <3>1. ASSUME NEW CONSTANT jd \in Ids PROVE ReadBackBy(jd)'
      <4>1. name # "decode" /\ name # "rebuild"  BY <2>3
      <4>2. (PastDecode(jd)' => PastDecode(jd)) /\ (PastRebuild(jd)' => PastRebuild(jd))
        BY <2>2, <2>3, <4>1
      <4> QED  BY <1>7, <2>3, <4>2
    <3> QED  BY <2>1, <2>3, <3>1
  <2>4. CASE QuantizeBegin(id)
    <3>1. UNCHANGED <<stage, left, blocksBack, codes, decoded, out>>  BY <2>4 DEF QuantizeBegin, loop
    <3> QED  BY <1>5, <3>1
  <2>5. ASSUME NEW CONSTANT t \in Ids, QuantizeEnd(id, t) PROVE ReadBack'
    <3>1. stage = "quantize" /\ stage' = stage /\ UNCHANGED blocksBack /\ Turn("quantize", id, t)
      BY <2>5 DEF QuantizeEnd, Turn
    <3>2. ASSUME NEW CONSTANT jd \in Ids PROVE ReadBackBy(jd)'
      BY <3>1 DEF ReadBackBy, PastDecode, PastRebuild, Past
    <3> QED  BY <2>1, <3>1, <3>2
  <2>6. ASSUME NEW CONSTANT t \in Ids, Count(id, t) PROVE ReadBack'
    BY <2>3, <2>6 DEF Count
  <2>7. ASSUME NEW CONSTANT t \in Ids, CopyExact(id, t) PROVE ReadBack'
    BY <2>3, <2>7 DEF CopyExact
  <2>8. ASSUME NEW CONSTANT t \in Ids, Encode(id, t) PROVE ReadBack'
    BY <2>3, <2>8 DEF Encode
  <2>9. ASSUME NEW CONSTANT t \in Ids, CopyCodes(id, t) PROVE ReadBack'
    BY <2>3, <2>9 DEF CopyCodes
  <2>10. ASSUME NEW CONSTANT t \in Ids, Decode(id, t) PROVE ReadBack'
    <3>1. Turn("decode", id, t) /\ stage = "decode" /\ UNCHANGED <<blocksBack, codes, out>>
      BY <2>10 DEF Decode, Turn
    <3>2. ReadAll(blockPos) = size /\ CodesKept(id)  BY <1>1, <1>3, <3>1, Numbers
    <3>3. TreeFound  BY <1>1 DEF TreeFound, Base
    <3>4. blocksBack = blocks  BY <1>4, <3>1
    <3>5. decoded' = [i \in DOMAIN decoded |-> IF i \notin Codes(blocks[id]) THEN decoded[i] ELSE codes[i]]
      <4> DEFINE right == /\ TreeFound /\ ReadAll(blockPos)[id] = size[id]
                          /\ Has(codesAt, id, Before(ReadAll(blockPos), id), ReadAll(blockPos)[id])
      <4>1. right  BY <3>2, <3>3 DEF CodesKept
      <4>2. decoded' = [i \in DOMAIN decoded |->
                          IF i \notin Codes(blocksBack[id]) THEN decoded[i]
                          ELSE IF right THEN codes[i] ELSE Wrong]
        BY <2>10 DEF Decode
      <4> HIDE DEF right
      <4> QED  BY <3>4, <4>1, <4>2
    <3>6. ASSUME NEW CONSTANT jd \in Ids PROVE ReadBackBy(jd)'
      <4>1. ReadBackBy(jd)  BY <1>3 DEF ReadBack
      <4>2. ASSUME PastDecode(jd)' PROVE Decoded(jd)'
        <5>1. jd # id => Decoded(jd)  BY <2>2, <3>1, <4>1, <4>2 DEF ReadBackBy
        <5>2. ASSUME NEW CONSTANT i \in Codes(blocks[jd]) PROVE decoded'[i] = codes[i]
          <6>1. i \in DOMAIN decoded
            <7>1. PICK k \in DOMAIN blocks[jd].cells : i = blocks[jd].first + k  BY DEF Codes
            <7>2. k \in Nat /\ blocks[jd].first \in Nat /\ i < Elements
              BY <1>1, <7>1 DEF Base, Tiled
            <7>3. DOMAIN decoded = 0 .. Elements - 1 /\ Elements \in Int
              BY <1>1 DEF Shared, Base, IsArray, Elements
            <7> QED  BY <7>1, <7>2, <7>3
          <6>2. i \notin Codes(blocks[id]) => decoded[i] = codes[i]  BY <5>1 DEF Decoded
          <6> QED  BY <3>5, <6>1, <6>2
        <5> QED  BY <1>2, <3>1, <5>2 DEF Decoded
      <4>3. ~ PastRebuild(jd)'
        <5>1. stage' = "decode"  BY <3>1 DEF Turn
        <5> QED  BY <5>1 DEF PastRebuild, Past
      <4> QED  BY <4>2, <4>3 DEF ReadBackBy
    <3> QED  BY <2>1, <3>1, <3>6
  <2>11. ASSUME NEW CONSTANT t \in Ids, Rebuild(id, t) PROVE ReadBack'
    <3>1. Turn("rebuild", id, t) /\ stage = "rebuild" /\ UNCHANGED <<blocksBack, codes, decoded>>
      BY <2>11 DEF Rebuild, Turn
    <3>2. ReadAll(count) = unpred /\ Quantized(id) /\ ExactKept(id)  BY <1>1, <1>3, <3>1, Numbers
    <3>3. blocksBack = blocks  BY <1>4, <3>1
    <3>4. Decoded(id)
      <4>1. PastDecode(id)  BY <3>1 DEF PastDecode, Past
      <4> QED  BY <1>3, <4>1 DEF ReadBack, ReadBackBy
    <3> DEFINE b == blocks[id]
    <3>5. out' = [cell \in DOMAIN out |->
                    IF \A k \in DOMAIN b.cells : b.cells[k] # cell THEN out[cell]
                    ELSE decoded[b.first + (CHOOSE k \in DOMAIN b.cells : b.cells[k] = cell)]]
      <4> DEFINE there == /\ ReadAll(count)[id] = unpred[id]
                          /\ Has(exactAt, id, Before(ReadAll(count), id), ReadAll(count)[id])
                 d == blocksBack[id]
      <4>1. there  BY <3>2 DEF ExactKept
      <4>2. ~ Thin(d) /\ StrayCells(d) = {}  BY <1>3, <3>3, NoStrays
      <4>3. PICK right \in (IF Thin(d) THEN BOOLEAN ELSE {there}) :
              out' = [cell \in DOMAIN out |->
                        IF \E k \in DOMAIN d.cells : d.cells[k] = cell
                        THEN IF right
                             THEN decoded[d.first + (CHOOSE k \in DOMAIN d.cells : d.cells[k] = cell)]
                             ELSE Wrong
                        ELSE IF cell \in StrayCells(d) THEN Wrong ELSE out[cell]]
        BY <2>11 DEF Rebuild
      <4>4. b = d  BY <3>3
      <4> HIDE DEF there, b, d
      <4>5. right = TRUE  BY <4>1, <4>2
      <4> QED  BY <4>2, <4>3, <4>4, <4>5
    <3>6. ASSUME NEW CONSTANT k \in DOMAIN b.cells PROVE decoded[b.first + k] = b.cells[k]
      <4>1. b.first + k \in Codes(b)  BY DEF Codes
      <4> QED  BY <4>1, <3>2, <3>4 DEF Decoded, Quantized
    <3>7. ASSUME NEW CONSTANT cell \in DOMAIN out
          PROVE  out'[cell] = cell \/ (out'[cell] = out[cell] /\ \A k \in DOMAIN b.cells : b.cells[k] # cell)
      <4> HIDE DEF b
      <4>1. CASE \A k \in DOMAIN b.cells : b.cells[k] # cell  BY <4>1, <3>5
      <4>2. CASE \E k \in DOMAIN b.cells : b.cells[k] = cell
        <5> DEFINE h == CHOOSE k \in DOMAIN b.cells : b.cells[k] = cell
        <5>1. h \in DOMAIN b.cells /\ b.cells[h] = cell  BY <4>2
        <5>2. out'[cell] = decoded[b.first + h]  BY <4>2, <3>5
        <5> HIDE DEF h
        <5> QED  BY <5>1, <5>2, <3>6
      <4> QED  BY <4>1, <4>2
    <3>8. DOMAIN out' = DOMAIN out  BY <3>5
    <3>9. ASSUME NEW CONSTANT jd \in Ids PROVE ReadBackBy(jd)'
      <4>1. ReadBackBy(jd)  BY <1>3 DEF ReadBack
      <4>2. PastDecode(jd)' => Decoded(jd)'
        <5>1. PastDecode(jd)' => PastDecode(jd)  BY <2>2, <3>1
        <5> QED  BY <1>2, <3>1, <4>1, <5>1 DEF ReadBackBy, Decoded
      <4>3. ASSUME PastRebuild(jd)' PROVE Rebuilt(jd)'
        <5>1. jd # id => Rebuilt(jd)  BY <2>2, <3>1, <4>1, <4>3 DEF ReadBackBy
        <5>2. ASSUME NEW CONSTANT k \in DOMAIN blocks[jd].cells, blocks[jd].cells[k] \in DOMAIN out
              PROVE  out'[blocks[jd].cells[k]] = blocks[jd].cells[k]
          <6>1. CASE jd = id  BY <6>1, <5>2, <3>7
          <6>2. CASE jd # id
            <7>1. out[blocks[jd].cells[k]] = blocks[jd].cells[k]  BY <5>1, <5>2, <6>2 DEF Rebuilt
            <7> QED  BY <7>1, <5>2, <3>7
          <6> QED  BY <6>1, <6>2
        <5> QED  BY <1>2, <3>8, <5>2 DEF Rebuilt
      <4> QED  BY <4>2, <4>3 DEF ReadBackBy
    <3> QED  BY <2>1, <3>1, <3>9
  <2> QED  BY <1>9, <2>4, <2>5, <2>6, <2>7, <2>8, <2>9, <2>10, <2>11 DEF Thread
<1> QED  BY <1>3, <1>6, <1>8, <1>9 DEF Next

LEMMA ReadingRestores ==
  ASSUME IInv, Reading
  PROVE  RoundTripIfRegular
<1> SUFFICES ASSUME stage = "done", full, Thick, NEW i \in DOMAIN out PROVE out[i] = i
  BY DEF RoundTripIfRegular, Regular
<1>1. ReadBack  BY DEF Reading, Running
<1>2. i \in 0 .. Elements - 1  BY DEF IInv, Shared
<1>3. PICK id \in Ids : \E k \in DOMAIN blocks[id].cells : blocks[id].cells[k] = i
  BY <1>2 DEF IInv, Base, Tiled
<1>4. PastRebuild(id)  BY DEF PastRebuild, Past
<1>5. Rebuilt(id)  BY <1>1, <1>4 DEF ReadBack, ReadBackBy
<1> QED  BY <1>3, <1>5 DEF Rebuilt

\* If every loop gets the threads it asks for and each block has values, and two
\* in a row, the array comes back whole and in place (sz_omp.c:88-118, 163-190,
\* 255-312, 376-404): for every such array of floats, number of threads, load and
\* interleaving, if the iterations are spread evenly.
THEOREM Restored ==
  ASSUME Static = TRUE, Types \subseteq {"float"}
  PROVE  Spec => []RoundTripIfRegular
<1>1. Init => IInv /\ Reading
  <2>1. Init => IInv  BY InitInv
  <2>2. Init => Reading  BY InitReading
  <2> QED  BY <2>1, <2>2
<1>2. IInv /\ Reading /\ [Next]_vars => (IInv /\ Reading)'
  <2>1. IInv /\ Reading /\ [Next]_vars => IInv'  BY IInvStep
  <2>2. IInv /\ Reading /\ [Next]_vars => Reading'  BY ReadingStep
  <2> QED  BY <2>1, <2>2
<1>3. IInv /\ Reading => RoundTripIfRegular  BY ReadingRestores
<1> QED  BY <1>1, <1>2, <1>3, PTL DEF Spec
=============================================================================
