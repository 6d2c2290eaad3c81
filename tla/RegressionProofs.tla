-------------------------- MODULE RegressionProofs --------------------------
(***************************************************************************)
(* The decompressor rebuilds what the compressor took it to rebuild, and   *)
(* that is within the bound, for every array, block size, choice of        *)
(* predictors and planes, and every grid.                                  *)
(*                                                                         *)
(* The cells that are done at some point of the coding form a set that is  *)
(* closed to the left and above.  The invariant says what the two strip    *)
(* buffers hold of the done cells, and what each code in the streams says  *)
(* of its cell in terms of done cells; the decompressor, which walks the   *)
(* same way, then finds the same neighbours, and its cursors are where a   *)
(* count of the codes that came before puts them.                          *)
(***************************************************************************)
EXTENDS Regression, SequenceTheorems, TLAPS

-----------------------------------------------------------------------------
(* Division                                                                *)

LEMMA DivMod ==
  ASSUME NEW n \in Nat, NEW d \in Nat \ {0}
  PROVE  n \div d \in Nat /\ n % d \in 0 .. d - 1 /\ n = d * (n \div d) + (n % d)
OBVIOUS

LEMMA DivModUnique ==
  ASSUME NEW n \in Nat, NEW d \in Nat \ {0}, NEW q \in Nat, NEW r \in 0 .. d - 1,
         n = d * q + r
  PROVE  n \div d = q /\ n % d = r
<1> DEFINE p == n \div d
           s == n % d
<1>1. p \in Nat /\ s \in 0 .. d - 1 /\ n = d * p + s  BY DivMod
<1> HIDE DEF p, s
<1>2. d * p \in Int /\ d * q \in Int  BY <1>1
<1>3. ASSUME p >= q + 1 PROVE FALSE
  <2>1. d * p >= d * (q + 1) /\ d * (q + 1) = d * q + d  BY <1>1, <1>3
  <2> QED  BY <1>1, <1>2, <2>1
<1>4. ASSUME p + 1 <= q PROVE FALSE
  <2>1. d * q >= d * (p + 1) /\ d * (p + 1) = d * p + d  BY <1>1, <1>4
  <2> QED  BY <1>1, <1>2, <2>1
<1>5. p = q  BY <1>1, <1>3, <1>4
<1> QED  BY <1>1, <1>2, <1>5 DEF p, s

LEMMA NextDivMod ==
  ASSUME NEW n \in Nat, NEW d \in Nat \ {0}
  PROVE  IF n % d = d - 1
         THEN (n + 1) \div d = n \div d + 1 /\ (n + 1) % d = 0
         ELSE (n + 1) \div d = n \div d /\ (n + 1) % d = (n % d) + 1
<1> DEFINE p == n \div d
           s == n % d
<1>1. p \in Nat /\ s \in 0 .. d - 1 /\ n = d * p + s  BY DivMod
<1> HIDE DEF p, s
<1>2. CASE s = d - 1
  <2>1. n + 1 = d * (p + 1) + 0  BY <1>1, <1>2
  <2>2. n + 1 \in Nat /\ p + 1 \in Nat /\ 0 \in 0 .. d - 1  BY <1>1
  <2>3. (n + 1) \div d = p + 1 /\ (n + 1) % d = 0  BY <2>1, <2>2, DivModUnique
  <2> QED  BY <1>2, <2>3 DEF p, s
<1>3. CASE s # d - 1
  <2>1. n + 1 = d * p + (s + 1)  BY <1>1
  <2>2. n + 1 \in Nat /\ s + 1 \in 0 .. d - 1  BY <1>1, <1>3
  <2>3. (n + 1) \div d = p /\ (n + 1) % d = s + 1  BY <1>1, <2>1, <2>2, DivModUnique
  <2> QED  BY <1>3, <2>3 DEF p, s
<1> QED  BY <1>2, <1>3

LEMMA DivModOrder ==
  ASSUME NEW m \in Nat, NEW n \in Nat, NEW d \in Nat \ {0}, m < n
  PROVE  m \div d < n \div d \/ (m \div d = n \div d /\ m % d < n % d)
<1> DEFINE p == m \div d
           q == n \div d
<1>1. p \in Nat /\ m % d \in 0 .. d - 1 /\ m = d * p + (m % d)  BY DivMod
<1>2. q \in Nat /\ n % d \in 0 .. d - 1 /\ n = d * q + (n % d)  BY DivMod
<1> HIDE DEF p, q
<1>3. d * p \in Int /\ d * q \in Int  BY <1>1, <1>2
<1>4. ASSUME p >= q + 1 PROVE FALSE
  <2>1. d * p >= d * (q + 1) /\ d * (q + 1) = d * q + d  BY <1>1, <1>2, <1>4
  <2> QED  BY <1>1, <1>2, <1>3, <2>1
<1>5. CASE p = q  BY <1>1, <1>2, <1>3, <1>5 DEF p, q
<1> QED  BY <1>1, <1>2, <1>4, <1>5 DEF p, q

LEMMA DivBelow ==
  ASSUME NEW n \in Nat, NEW d \in Nat \ {0}, NEW h \in Nat, n < h * d
  PROVE  n \div d < h
<1>1. n \div d \in Nat /\ n % d \in 0 .. d - 1 /\ n = d * (n \div d) + (n % d)  BY DivMod
<1> DEFINE p == n \div d
<1>2. p \in Nat /\ d * p <= n  BY <1>1
<1> HIDE DEF p
<1>3. ASSUME p >= h PROVE FALSE
  <2>1. d * p >= d * h /\ d * h = h * d /\ d * p \in Int /\ h * d \in Int  BY <1>2, <1>3
  <2> QED  BY <2>1, <1>2
<1>4. p < h  BY <1>2, <1>3
<1> QED  BY <1>4 DEF p

LEMMA TimesMonotonic ==
  ASSUME NEW m \in Nat, NEW n \in Nat, NEW d \in Nat, m <= n
  PROVE  m * d <= n * d /\ m * d \in Nat /\ n * d \in Nat
OBVIOUS

-----------------------------------------------------------------------------
(* The parts of a dimension                                                *)

LEMMA Parts ==
  ASSUME NEW n \in Nat \ {0}
  PROVE  /\ NumBlocks(n) \in Nat \ {0}
         /\ Split(n) \in 0 .. NumBlocks(n) - 1
         /\ Late(n) \in Nat \ {0} /\ Early(n) \in Nat \ {0}
         /\ Early(n) = Late(n) + (IF Split(n) = 0 THEN 0 ELSE 1)
         /\ n = NumBlocks(n) * Late(n) + Split(n)
<1> DEFINE k == NumBlocks(n)
<1>1. BlockSize \in Nat \ {0}  BY RegressionAssumption
<1>2. k \in Nat \ {0} /\ k <= n
  <2>1. CASE n <= BlockSize  BY <2>1 DEF NumBlocks
  <2>2. CASE ~ (n <= BlockSize)
    <3> DEFINE q == n \div BlockSize
    <3>1. q \in Nat /\ n % BlockSize \in 0 .. BlockSize - 1
          /\ n = BlockSize * q + (n % BlockSize)
      BY <1>1, DivMod
    <3>2. k = q  BY <2>2 DEF NumBlocks
    <3> HIDE DEF q, k
    <3>3. q # 0
      <4>1. ASSUME q = 0 PROVE FALSE
        <5>1. BlockSize * q = 0  BY <4>1, <1>1
        <5> QED  BY <3>1, <5>1, <2>2, <1>1
      <4> QED  BY <4>1
    <3>4. BlockSize * q >= q  BY <1>1, <3>1
    <3>5. BlockSize * q <= n  BY <1>1, <3>1
    <3>6. q <= n  BY <1>1, <3>1, <3>4, <3>5
    <3> QED  BY <3>1, <3>2, <3>3, <3>6
  <2> QED  BY <2>1, <2>2
<1> HIDE DEF k
<1> DEFINE l == n \div k
           s == n % k
<1>3. l \in Nat /\ s \in 0 .. k - 1 /\ n = k * l + s  BY <1>2, DivMod
<1>4. Late(n) = l /\ Split(n) = s /\ Early(n) = l + (IF s = 0 THEN 0 ELSE 1)
  BY DEF Late, Split, Early, k
<1> HIDE DEF l, s
<1>5. l # 0
  <2>1. ASSUME l = 0 PROVE FALSE
    <3>1. k * l = 0  BY <2>1, <1>2
    <3> QED  BY <3>1, <1>2, <1>3
  <2> QED  BY <2>1
<1> QED  BY <1>2, <1>3, <1>4, <1>5 DEF k

\* A part begins where the one before it ends, the last one ends with the
\* dimension, and none is longer than the first.
LEMMA PartBounds ==
  ASSUME NEW n \in Nat \ {0}
  PROVE  /\ Offset(n, 0) = 0 /\ Offset(n, NumBlocks(n)) = n
         /\ \A i \in 0 .. NumBlocks(n) :
              /\ Offset(n, i) \in Nat
              /\ Length(n, i) \in 1 .. Early(n)
              /\ Offset(n, i) + Length(n, i) = Offset(n, i + 1)
<1> DEFINE k == NumBlocks(n)
           s == Split(n)
           l == Late(n)
           e == Early(n)
<1>1. /\ k \in Nat \ {0} /\ s \in 0 .. k - 1 /\ l \in Nat \ {0} /\ e \in Nat \ {0}
      /\ e = l + (IF s = 0 THEN 0 ELSE 1) /\ n = k * l + s
  BY Parts
<1>2. \A i : /\ Offset(n, i) = (IF i < s THEN i * e ELSE (i * l) + s)
             /\ Length(n, i) = (IF i < s THEN e ELSE l)
  BY DEF Offset, Length
<1> HIDE DEF k, s, l, e
<1>3. Offset(n, 0) = 0
  <2>1. 0 * e = 0 /\ 0 * l = 0  BY <1>1
  <2>2. CASE 0 < s  BY <2>1, <2>2, <1>2
  <2>3. CASE ~ (0 < s)  BY <2>1, <2>3, <1>1, <1>2
  <2> QED  BY <2>2, <2>3
<1>4. Offset(n, k) = n
  <2>1. ~ (k < s)  BY <1>1
  <2> QED  BY <2>1, <1>1, <1>2
<1>5. ASSUME NEW i \in 0 .. k
      PROVE  /\ Offset(n, i) \in Nat /\ Length(n, i) \in 1 .. e
             /\ Offset(n, i) + Length(n, i) = Offset(n, i + 1)
  <2>1. i \in Nat /\ i * e \in Nat /\ i * l \in Nat  BY <1>1
  <2>2. (i + 1) * e = i * e + e /\ (i + 1) * l = i * l + l  BY <1>1
  <2>3. Length(n, i) \in 1 .. e  BY <1>1, <1>2
  <2>4. CASE i + 1 < s
    <3>1. i < s  BY <2>4, <2>1, <1>1
    <3> QED  BY <3>1, <2>4, <2>1, <2>2, <2>3, <1>2
  <2>5. CASE i + 1 = s
    <3>1. i < s /\ ~ (i + 1 < s) /\ s # 0  BY <2>5, <2>1, <1>1
    <3>2. e = l + 1  BY <3>1, <1>1
    <3>3. i * e = i * l + i  BY <3>2, <2>1, <1>1
    <3>4. i * e + e = i * l + l + s  BY <3>2, <3>3, <2>1, <2>5, <1>1
    <3>5. Offset(n, i) = i * e /\ Length(n, i) = e  BY <3>1, <1>2
    <3>6. Offset(n, i + 1) = (i + 1) * l + s  BY <3>1, <1>2
    <3> QED  BY <3>4, <3>5, <3>6, <2>1, <2>2, <2>3
  <2>6. CASE i + 1 > s
    <3>1. ~ (i < s) /\ ~ (i + 1 < s)  BY <2>6, <2>1, <1>1
    <3> QED  BY <3>1, <2>1, <2>2, <2>3, <1>1, <1>2
  <2> QED  BY <2>1, <2>4, <2>5, <2>6, <1>1
<1> QED  BY <1>3, <1>4, <1>5 DEF k, e

LEMMA OffsetsRise ==
  ASSUME NEW n \in Nat \ {0}, NEW i \in 0 .. NumBlocks(n), NEW j \in 0 .. NumBlocks(n), i < j
  PROVE  Offset(n, i) + Length(n, i) <= Offset(n, j)
<1> DEFINE k == NumBlocks(n)
           s == Split(n)
           l == Late(n)
           e == Early(n)
<1>1. /\ k \in Nat \ {0} /\ s \in 0 .. k - 1 /\ l \in Nat \ {0} /\ e \in Nat \ {0}
      /\ e = l + (IF s = 0 THEN 0 ELSE 1)
  BY Parts
<1>2. \A x : Offset(n, x) = (IF x < s THEN x * e ELSE (x * l) + s)
  BY DEF Offset
<1>3. Offset(n, i) + Length(n, i) = Offset(n, i + 1)  BY PartBounds
<1> HIDE DEF s, l, e
<1>4. i \in Nat /\ j \in Nat /\ i + 1 <= j  BY <1>1
<1> DEFINE m == i + 1
<1>5. m \in Nat /\ m <= j  BY <1>4
<1> HIDE DEF m, k
<1>6. m * e <= j * e /\ m * l <= j * l /\ m * e \in Nat /\ j * e \in Nat /\ m * l \in Nat /\ j * l \in Nat
  BY <1>1, <1>4, <1>5, TimesMonotonic
<1>7. Offset(n, m) <= Offset(n, j)
  <2>1. CASE m < s /\ j < s  BY <2>1, <1>2, <1>6
  <2>2. CASE m < s /\ ~ (j < s)
    <3>1. e = l + 1  BY <2>2, <1>1, <1>5
    <3>2. m * e = m * l + m  BY <3>1, <1>1, <1>5
    <3>3. m * e <= j * l + s  BY <3>2, <2>2, <1>1, <1>5, <1>6
    <3> QED  BY <3>3, <2>2, <1>2
  <2>3. CASE ~ (m < s)
    <3>1. ~ (j < s)  BY <2>3, <1>1, <1>4, <1>5
    <3> QED  BY <3>1, <2>3, <1>1, <1>2, <1>6
  <2> QED  BY <2>1, <2>2, <2>3
<1> QED  BY <1>3, <1>7 DEF m

-----------------------------------------------------------------------------
(* The cells of an array a, in the order of the coders                     *)

IsArray(a) ==
  /\ a.rows \in Nat \ {0} /\ a.cols \in Nat \ {0}
  /\ a.at \in [(0 .. a.rows - 1) \X (0 .. a.cols - 1) -> Int]

Across(a) == NumBlocks(a.cols)
Total(a) == NumBlocks(a.rows) * Across(a)

\* Where block b is and how large.
High(a, b) == Length(a.rows, b \div Across(a))
Wide(a, b) == Length(a.cols, b % Across(a))
Top(a, b) == Offset(a.rows, b \div Across(a))
LeftOf(a, b) == Offset(a.cols, b % Across(a))

\* The c-th cell of block b, and how many cells come before it.
IsCell(a, b, c) == b \in 0 .. Total(a) - 1 /\ c \in 0 .. High(a, b) * Wide(a, b) - 1
RowIn(a, b, c) == c \div Wide(a, b)
ColIn(a, b, c) == c % Wide(a, b)
Place(a, b, c) == <<Top(a, b) + RowIn(a, b, c), LeftOf(a, b) + ColIn(a, b, c)>>
Index(a, b, c) == (Top(a, b) * a.cols) + (High(a, b) * LeftOf(a, b)) + c

\* The place x, y is one of those.
Done(a, b, c, x, y) ==
  \/ x < Top(a, b)
  \/ /\ x < Top(a, b) + High(a, b)
     /\ \/ y < LeftOf(a, b)
        \/ /\ y < LeftOf(a, b) + Wide(a, b)
           /\ \/ x - Top(a, b) < RowIn(a, b, c)
              \/ x - Top(a, b) = RowIn(a, b, c) /\ y - LeftOf(a, b) < ColIn(a, b, c)

LEMMA BlockBounds ==
  ASSUME NEW a, IsArray(a), NEW b \in 0 .. Total(a)
  PROVE  /\ Across(a) \in Nat \ {0} /\ Total(a) \in Nat \ {0}
         /\ b \div Across(a) \in 0 .. NumBlocks(a.rows)
         /\ b % Across(a) \in 0 .. Across(a) - 1
         /\ High(a, b) \in 1 .. Early(a.rows) /\ Early(a.rows) \in Nat
         /\ Wide(a, b) \in Nat \ {0} /\ Top(a, b) \in Nat /\ LeftOf(a, b) \in Nat
         /\ LeftOf(a, b) + Wide(a, b) <= a.cols
         /\ b < Total(a) => /\ Top(a, b) + High(a, b) <= a.rows
                            /\ b \div Across(a) < NumBlocks(a.rows)
         /\ b = Total(a) => Top(a, b) = a.rows /\ LeftOf(a, b) = 0
<1> DEFINE m == NumBlocks(a.rows)
           k == NumBlocks(a.cols)
           i == b \div k
           j == b % k
<1>1. a.rows \in Nat \ {0} /\ a.cols \in Nat \ {0}  BY DEF IsArray
<1>2. /\ m \in Nat \ {0} /\ k \in Nat \ {0}
      /\ Early(a.rows) \in Nat /\ Early(a.cols) \in Nat
  BY <1>1, Parts
<1>3. /\ Offset(a.rows, 0) = 0 /\ Offset(a.rows, m) = a.rows
      /\ \A x \in 0 .. m : /\ Offset(a.rows, x) \in Nat
                           /\ Length(a.rows, x) \in 1 .. Early(a.rows)
                           /\ Offset(a.rows, x) + Length(a.rows, x) = Offset(a.rows, x + 1)
  BY <1>1, PartBounds
<1>4. /\ Offset(a.cols, 0) = 0 /\ Offset(a.cols, k) = a.cols
      /\ \A x \in 0 .. k : /\ Offset(a.cols, x) \in Nat
                           /\ Length(a.cols, x) \in 1 .. Early(a.cols)
                           /\ Offset(a.cols, x) + Length(a.cols, x) = Offset(a.cols, x + 1)
  BY <1>1, PartBounds
<1>5. \A x, y \in 0 .. m : x < y => Offset(a.rows, x) + Length(a.rows, x) <= Offset(a.rows, y)
  BY <1>1, OffsetsRise
<1>6. \A x, y \in 0 .. k : x < y => Offset(a.cols, x) + Length(a.cols, x) <= Offset(a.cols, y)
  BY <1>1, OffsetsRise
<1>7. Total(a) = m * k /\ Across(a) = k  BY DEF Total, Across
<1> HIDE DEF m, k
<1>8. m * k \in Nat \ {0} /\ b \in Nat /\ b <= m * k
  <2>1. m * k \in Nat /\ m * k >= m  BY <1>2
  <2> QED  BY <2>1, <1>2, <1>7
<1>9. i \in Nat /\ j \in 0 .. k - 1 /\ b = k * i + j  BY <1>2, <1>8, DivMod
<1>10. b < m * k => i < m  BY <1>2, <1>8, DivBelow
<1>11. b = m * k => i = m /\ j = 0
  <2>1. ASSUME b = m * k PROVE i = m /\ j = 0
    <3>1. b = k * m + 0 /\ 0 \in 0 .. k - 1  BY <2>1, <1>2
    <3> QED  BY <3>1, <1>2, <1>8, DivModUnique
  <2> QED  BY <2>1
<1>12. i \in 0 .. m  BY <1>2, <1>8, <1>9, <1>10, <1>11
<1>13. /\ High(a, b) = Length(a.rows, i) /\ Wide(a, b) = Length(a.cols, j)
       /\ Top(a, b) = Offset(a.rows, i) /\ LeftOf(a, b) = Offset(a.cols, j)
  BY <1>7 DEF High, Wide, Top, LeftOf
<1>14. b \div Across(a) = i /\ b % Across(a) = j  BY <1>7
<1> HIDE DEF i, j
<1>15. j \in 0 .. k /\ k \in 0 .. k /\ j < k /\ m \in 0 .. m  BY <1>2, <1>9
<1>16. /\ High(a, b) \in 1 .. Early(a.rows) /\ Top(a, b) \in Nat
       /\ Wide(a, b) \in Nat \ {0} /\ LeftOf(a, b) \in Nat
       /\ LeftOf(a, b) + Wide(a, b) <= a.cols
  BY <1>2, <1>3, <1>4, <1>6, <1>12, <1>13, <1>15
<1>17. b < m * k => Top(a, b) + High(a, b) <= a.rows
  BY <1>3, <1>5, <1>10, <1>12, <1>13, <1>15
<1>18. b = m * k => Top(a, b) = a.rows /\ LeftOf(a, b) = 0
  BY <1>3, <1>4, <1>11, <1>13
<1> QED  BY <1>2, <1>7, <1>8, <1>9, <1>10, <1>12, <1>14, <1>16, <1>17, <1>18 DEF m

LEMMA TotalNat ==
  ASSUME NEW a, IsArray(a)
  PROVE  Total(a) \in Nat
<1>1. NumBlocks(a.rows) \in Nat /\ NumBlocks(a.cols) \in Nat  BY Parts DEF IsArray
<1> QED  BY <1>1 DEF Total, Across

LEMMA CellBounds ==
  ASSUME NEW a, IsArray(a), NEW b, NEW c, IsCell(a, b, c)
  PROVE  /\ b \in 0 .. Total(a) /\ c \in Nat
         /\ RowIn(a, b, c) \in 0 .. High(a, b) - 1
         /\ ColIn(a, b, c) \in 0 .. Wide(a, b) - 1
         /\ c = (Wide(a, b) * RowIn(a, b, c)) + ColIn(a, b, c)
         /\ Place(a, b, c) \in (0 .. a.rows - 1) \X (0 .. a.cols - 1)
<1>1. b \in 0 .. Total(a) - 1 /\ c \in 0 .. High(a, b) * Wide(a, b) - 1  BY DEF IsCell
<1>2. b \in 0 .. Total(a) /\ b < Total(a)  BY <1>1, TotalNat
<1>3. /\ High(a, b) \in Nat \ {0} /\ Wide(a, b) \in Nat \ {0}
      /\ Top(a, b) \in Nat /\ LeftOf(a, b) \in Nat
      /\ Top(a, b) + High(a, b) <= a.rows /\ LeftOf(a, b) + Wide(a, b) <= a.cols
  BY <1>2, BlockBounds
<1>4. c \in Nat /\ c < High(a, b) * Wide(a, b)
  <2>1. High(a, b) * Wide(a, b) \in Int  BY <1>3
  <2> QED  BY <2>1, <1>1
<1>5. RowIn(a, b, c) \in Nat /\ RowIn(a, b, c) < High(a, b)  BY <1>3, <1>4, DivBelow, DivMod DEF RowIn
<1>6. ColIn(a, b, c) \in 0 .. Wide(a, b) - 1 /\ c = (Wide(a, b) * RowIn(a, b, c)) + ColIn(a, b, c)
  BY <1>3, <1>4, DivMod DEF RowIn, ColIn
<1>7. a.rows \in Nat /\ a.cols \in Nat  BY DEF IsArray
<1> QED  BY <1>2, <1>3, <1>4, <1>5, <1>6, <1>7 DEF Place

\* After a block comes the one to its right or, after the last of a strip, the
\* first of the next strip.
LEMMA NextBlock ==
  ASSUME NEW a, IsArray(a), NEW b \in 0 .. Total(a) - 1
  PROVE  /\ b + 1 \in 0 .. Total(a)
         /\ b % Across(a) # Across(a) - 1 =>
              /\ Top(a, b + 1) = Top(a, b) /\ High(a, b + 1) = High(a, b)
              /\ LeftOf(a, b + 1) = LeftOf(a, b) + Wide(a, b)
         /\ b % Across(a) = Across(a) - 1 =>
              /\ Top(a, b + 1) = Top(a, b) + High(a, b)
              /\ LeftOf(a, b + 1) = 0 /\ LeftOf(a, b) + Wide(a, b) = a.cols
<1>1. /\ b \in 0 .. Total(a) /\ b + 1 \in 0 .. Total(a) /\ b < Total(a) /\ b \in Nat
  BY TotalNat
<1>2. Across(a) \in Nat \ {0} /\ a.cols \in Nat \ {0} /\ a.rows \in Nat \ {0}
  BY <1>1, BlockBounds DEF IsArray
<1>3. /\ b \div Across(a) \in 0 .. NumBlocks(a.rows)
      /\ b % Across(a) \in 0 .. Across(a)
  BY <1>1, <1>2, BlockBounds
<1>4. Top(a, b) + High(a, b) = Offset(a.rows, (b \div Across(a)) + 1)
  BY <1>2, <1>3, PartBounds DEF Top, High
<1>5. /\ LeftOf(a, b) + Wide(a, b) = Offset(a.cols, (b % Across(a)) + 1)
      /\ Offset(a.cols, 0) = 0 /\ Offset(a.cols, NumBlocks(a.cols)) = a.cols
  <2>1. b % Across(a) \in 0 .. NumBlocks(a.cols)  BY <1>3 DEF Across
  <2> QED  BY <2>1, <1>2, PartBounds DEF LeftOf, Wide
<1>6. IF b % Across(a) = Across(a) - 1
      THEN (b + 1) \div Across(a) = (b \div Across(a)) + 1 /\ (b + 1) % Across(a) = 0
      ELSE (b + 1) \div Across(a) = b \div Across(a) /\ (b + 1) % Across(a) = (b % Across(a)) + 1
  BY <1>1, <1>2, NextDivMod
<1>7. CASE b % Across(a) = Across(a) - 1
  <2>1. (b % Across(a)) + 1 = NumBlocks(a.cols)  BY <1>7, <1>2 DEF Across
  <2>2. Top(a, b + 1) = Top(a, b) + High(a, b)  BY <1>4, <1>6, <1>7 DEF Top
  <2>3. LeftOf(a, b + 1) = 0  BY <1>5, <1>6, <1>7 DEF LeftOf
  <2>4. LeftOf(a, b) + Wide(a, b) = a.cols  BY <1>5, <2>1
  <2> QED  BY <1>1, <1>7, <2>2, <2>3, <2>4
<1>8. CASE b % Across(a) # Across(a) - 1
  <2>1. Top(a, b + 1) = Top(a, b) /\ High(a, b + 1) = High(a, b)
    BY <1>6, <1>8 DEF Top, High
  <2>2. LeftOf(a, b + 1) = LeftOf(a, b) + Wide(a, b)  BY <1>5, <1>6, <1>8 DEF LeftOf
  <2> QED  BY <1>1, <1>8, <2>1, <2>2
<1> QED  BY <1>7, <1>8

\* Only the last cell is at the end of the last row.
LEMMA LastIs ==
  ASSUME NEW a, IsArray(a), NEW b, NEW c, IsCell(a, b, c)
  PROVE  /\ c = High(a, b) * Wide(a, b) - 1 <=>
              RowIn(a, b, c) = High(a, b) - 1 /\ ColIn(a, b, c) = Wide(a, b) - 1
         /\ c # High(a, b) * Wide(a, b) - 1 =>
              /\ IsCell(a, b, c + 1)
              /\ IF ColIn(a, b, c) = Wide(a, b) - 1
                 THEN RowIn(a, b, c + 1) = RowIn(a, b, c) + 1 /\ ColIn(a, b, c + 1) = 0
                 ELSE RowIn(a, b, c + 1) = RowIn(a, b, c) /\ ColIn(a, b, c + 1) = ColIn(a, b, c) + 1
<1> DEFINE h == High(a, b)
           w == Wide(a, b)
           i == RowIn(a, b, c)
           j == ColIn(a, b, c)
<1>1. /\ b \in 0 .. Total(a) /\ c \in Nat
      /\ i \in 0 .. h - 1 /\ j \in 0 .. w - 1 /\ c = (w * i) + j
  BY CellBounds
<1>2. h \in Nat \ {0} /\ w \in Nat \ {0}  BY <1>1, BlockBounds
<1>3. b \in 0 .. Total(a) - 1 /\ c \in 0 .. h * w - 1  BY DEF IsCell
<1>4. IF j = w - 1
      THEN RowIn(a, b, c + 1) = i + 1 /\ ColIn(a, b, c + 1) = 0
      ELSE RowIn(a, b, c + 1) = i /\ ColIn(a, b, c + 1) = j + 1
  BY <1>1, <1>2, NextDivMod DEF RowIn, ColIn
<1>5. c # h * w - 1 => IsCell(a, b, c + 1)
  <2>1. h * w \in Int  BY <1>2
  <2> QED  BY <2>1, <1>3 DEF IsCell
<1> HIDE DEF h, w, i, j
<1>6. w * i \in Nat /\ h * w \in Nat /\ h * w = w * h  BY <1>1, <1>2
<1>7. ASSUME i = h - 1, j = w - 1 PROVE c = h * w - 1
  <2>1. w * (h - 1) = w * h - w  BY <1>2
  <2> QED  BY <2>1, <1>1, <1>2, <1>6, <1>7
<1>8. ASSUME c = h * w - 1 PROVE i = h - 1 /\ j = w - 1
  <2>1. c = w * (h - 1) + (w - 1)
    <3>1. w * (h - 1) = w * h - w  BY <1>2
    <3> QED  BY <3>1, <1>2, <1>6, <1>8
  <2>2. h - 1 \in Nat /\ w - 1 \in 0 .. w - 1  BY <1>2
  <2>3. c \div w = h - 1 /\ c % w = w - 1  BY <1>1, <1>2, <2>1, <2>2, DivModUnique
  <2> QED  BY <2>3 DEF i, j, w, RowIn, ColIn
<1> QED  BY <1>4, <1>5, <1>7, <1>8 DEF h, w, i, j

\* The cell after c, and its block.
NextBlockOf(a, b, c) == IF c = High(a, b) * Wide(a, b) - 1 THEN b + 1 ELSE b
NextCellOf(a, b, c) == IF c = High(a, b) * Wide(a, b) - 1 THEN 0 ELSE c + 1

LEMMA RowColZero ==
  ASSUME NEW a, IsArray(a), NEW b \in 0 .. Total(a)
  PROVE  RowIn(a, b, 0) = 0 /\ ColIn(a, b, 0) = 0
<1>1. Wide(a, b) \in Nat \ {0}  BY BlockBounds
<1>2. 0 = Wide(a, b) * 0 + 0 /\ 0 \in 0 .. Wide(a, b) - 1  BY <1>1
<1> QED  BY <1>1, <1>2, DivModUnique DEF RowIn, ColIn

LEMMA NextDone ==
  ASSUME NEW a, IsArray(a), NEW b, NEW c, IsCell(a, b, c),
         NEW x \in 0 .. a.rows - 1, NEW y \in 0 .. a.cols - 1
  PROVE  Done(a, NextBlockOf(a, b, c), NextCellOf(a, b, c), x, y)
           <=> Done(a, b, c, x, y) \/ <<x, y>> = Place(a, b, c)
<1> DEFINE h == High(a, b)
           w == Wide(a, b)
           t == Top(a, b)
           l == LeftOf(a, b)
           i == RowIn(a, b, c)
           j == ColIn(a, b, c)
<1>1. b \in 0 .. Total(a) /\ b \in 0 .. Total(a) - 1 /\ b < Total(a)
  BY CellBounds, TotalNat DEF IsCell
<1>2. i \in 0 .. h - 1 /\ j \in 0 .. w - 1  BY CellBounds
<1>3. /\ h \in Nat \ {0} /\ w \in Nat \ {0} /\ t \in Nat /\ l \in Nat
      /\ t + h <= a.rows /\ l + w <= a.cols
  BY <1>1, BlockBounds
<1>4. <<x, y>> = Place(a, b, c) <=> x = t + i /\ y = l + j  BY DEF Place
<1>5. Done(a, b, c, x, y) <=>
        \/ x < t
        \/ x < t + h /\ (y < l \/ (y < l + w /\ (x - t < i \/ (x - t = i /\ y - l < j))))
  BY DEF Done
<1>6. a.rows \in Nat \ {0} /\ a.cols \in Nat \ {0}  BY DEF IsArray
<1>7. CASE c # h * w - 1
  <2>1. NextBlockOf(a, b, c) = b /\ NextCellOf(a, b, c) = c + 1
    BY <1>7 DEF NextBlockOf, NextCellOf
  <2>2. IF j = w - 1 THEN RowIn(a, b, c + 1) = i + 1 /\ ColIn(a, b, c + 1) = 0
        ELSE RowIn(a, b, c + 1) = i /\ ColIn(a, b, c + 1) = j + 1
    BY <1>7, LastIs
  <2>3. i # h - 1 \/ j # w - 1  BY <1>7, LastIs
  <2> DEFINE i2 == RowIn(a, b, c + 1)
             j2 == ColIn(a, b, c + 1)
  <2>4. Done(a, b, c + 1, x, y) <=>
          \/ x < t
          \/ x < t + h /\ (y < l \/ (y < l + w /\ (x - t < i2 \/ (x - t = i2 /\ y - l < j2))))
    BY DEF Done
  <2> HIDE DEF h, w, t, l, i, j, i2, j2
  <2> QED  BY <1>2, <1>3, <1>4, <1>5, <1>6, <2>1, <2>2, <2>3, <2>4 DEF i2, j2
<1>8. CASE c = h * w - 1
  <2>1. NextBlockOf(a, b, c) = b + 1 /\ NextCellOf(a, b, c) = 0
    BY <1>8 DEF NextBlockOf, NextCellOf
  <2>2. i = h - 1 /\ j = w - 1  BY <1>8, LastIs
  <2>3. b + 1 \in 0 .. Total(a)  BY <1>1, NextBlock
  <2>4. RowIn(a, b + 1, 0) = 0 /\ ColIn(a, b + 1, 0) = 0  BY <2>3, RowColZero
  <2>5. \/ /\ Top(a, b + 1) = t /\ High(a, b + 1) = h /\ LeftOf(a, b + 1) = l + w
        \/ /\ Top(a, b + 1) = t + h /\ LeftOf(a, b + 1) = 0 /\ l + w = a.cols
    BY <1>1, NextBlock
  <2>6. High(a, b + 1) \in Nat /\ Wide(a, b + 1) \in Nat  BY <2>3, BlockBounds
  <2> DEFINE t2 == Top(a, b + 1)
             h2 == High(a, b + 1)
             l2 == LeftOf(a, b + 1)
             w2 == Wide(a, b + 1)
  <2>7. Done(a, b + 1, 0, x, y) <=>
          \/ x < t2
          \/ x < t2 + h2 /\ (y < l2 \/ (y < l2 + w2 /\ (x - t2 < 0 \/ (x - t2 = 0 /\ y - l2 < 0))))
    BY <2>4 DEF Done
  <2>8. /\ h2 \in Nat /\ w2 \in Nat
        /\ \/ t2 = t /\ h2 = h /\ l2 = l + w
           \/ t2 = t + h /\ l2 = 0 /\ l + w = a.cols
    BY <2>5, <2>6
  <2> HIDE DEF h, w, t, l, i, j, t2, h2, l2, w2
  <2> QED  BY <1>2, <1>3, <1>4, <1>5, <1>6, <2>1, <2>2, <2>7, <2>8
<1> QED  BY <1>7, <1>8

\* The index goes up by one from cell to cell.
LEMMA NextIndex ==
  ASSUME NEW a, IsArray(a), NEW b, NEW c, IsCell(a, b, c)
  PROVE  /\ Index(a, b, c) \in Nat
         /\ Index(a, NextBlockOf(a, b, c), NextCellOf(a, b, c)) = Index(a, b, c) + 1
<1> DEFINE h == High(a, b)
           w == Wide(a, b)
           t == Top(a, b)
           l == LeftOf(a, b)
           k == a.cols
<1>1. b \in 0 .. Total(a) /\ b \in 0 .. Total(a) - 1 /\ c \in Nat
  BY CellBounds DEF IsCell
<1>2. /\ h \in Nat \ {0} /\ w \in Nat \ {0} /\ t \in Nat /\ l \in Nat /\ k \in Nat
  BY <1>1, BlockBounds DEF IsArray
<1>3. Index(a, b, c) = (t * k) + (h * l) + c  BY DEF Index
<1>4. t * k \in Nat /\ h * l \in Nat /\ h * w \in Nat  BY <1>2
<1>5. CASE c # h * w - 1
  <2>1. Index(a, b, c + 1) = (t * k) + (h * l) + (c + 1)  BY DEF Index
  <2> HIDE DEF h, w, t, l, k
  <2> QED  BY <1>1, <1>3, <1>4, <1>5, <2>1 DEF NextBlockOf, NextCellOf, h, w
<1>6. CASE c = h * w - 1
  <2>1. NextBlockOf(a, b, c) = b + 1 /\ NextCellOf(a, b, c) = 0
    BY <1>6 DEF NextBlockOf, NextCellOf
  <2>2. \/ /\ Top(a, b + 1) = t /\ High(a, b + 1) = h /\ LeftOf(a, b + 1) = l + w
        \/ /\ Top(a, b + 1) = t + h /\ LeftOf(a, b + 1) = 0 /\ l + w = k
    BY <1>1, NextBlock
  <2> DEFINE h2 == High(a, b + 1)
  <2>3. h2 \in Nat  BY <1>1, NextBlock, BlockBounds
  <2>4. Index(a, b + 1, 0) = (Top(a, b + 1) * k) + (h2 * LeftOf(a, b + 1)) + 0  BY DEF Index
  <2>5. CASE Top(a, b + 1) = t /\ h2 = h /\ LeftOf(a, b + 1) = l + w
    <3>1. Index(a, b + 1, 0) = (t * k) + (h * (l + w)) + 0  BY <2>4, <2>5
    <3> HIDE DEF h, w, t, l, k
    <3>2. h * (l + w) = (h * l) + (h * w)  BY <1>2
    <3> QED  BY <3>1, <3>2, <2>1, <1>1, <1>3, <1>4, <1>6
  <2>6. CASE Top(a, b + 1) = t + h /\ LeftOf(a, b + 1) = 0 /\ l + w = k
    <3>1. Index(a, b + 1, 0) = ((t + h) * k) + (h2 * 0) + 0  BY <2>4, <2>6
    <3> HIDE DEF h, w, t, l, k, h2
    <3>2. (t + h) * k = (t * k) + (h * k) /\ h * k = (h * l) + (h * w) /\ h2 * 0 = 0
      BY <1>2, <2>3, <2>6
    <3> QED  BY <3>1, <3>2, <2>1, <1>1, <1>3, <1>4, <1>6
  <2> QED  BY <2>2, <2>5, <2>6
<1> QED  BY <1>1, <1>3, <1>4, <1>5, <1>6

Before(b, c, B, C) == b < B \/ (b = B /\ c < C)

LEMMA RowColNat ==
  ASSUME NEW a, IsArray(a), NEW b \in 0 .. Total(a), NEW c \in Nat
  PROVE  RowIn(a, b, c) \in Nat /\ ColIn(a, b, c) \in Nat
<1> DEFINE w == Wide(a, b)
<1>1. w \in Nat \ {0}  BY BlockBounds
<1> HIDE DEF w
<1>2. c \div w \in Nat /\ c % w \in 0 .. w - 1  BY <1>1, DivMod
<1>3. c % w \in Nat  BY <1>1, <1>2
<1> QED  BY <1>2, <1>3 DEF RowIn, ColIn, w

\* The cells that come before are done, this one is not.
LEMMA BeforeDone ==
  ASSUME NEW a, IsArray(a), NEW b, NEW c, IsCell(a, b, c),
         NEW B \in 0 .. Total(a), NEW C \in Nat, Before(b, c, B, C)
  PROVE  Done(a, B, C, Top(a, b) + RowIn(a, b, c), LeftOf(a, b) + ColIn(a, b, c))
<1>1. /\ b \in 0 .. Total(a) /\ b \in Nat /\ B \in Nat /\ c \in Nat
      /\ RowIn(a, b, c) \in 0 .. High(a, b) - 1 /\ ColIn(a, b, c) \in 0 .. Wide(a, b) - 1
  BY CellBounds, TotalNat
<1>2. /\ High(a, b) \in Nat /\ Wide(a, b) \in Nat \ {0} /\ Top(a, b) \in Nat /\ LeftOf(a, b) \in Nat
      /\ b \div Across(a) \in 0 .. NumBlocks(a.rows) /\ b % Across(a) \in 0 .. Across(a) - 1
      /\ Across(a) \in Nat \ {0}
  BY <1>1, BlockBounds
<1>3. /\ High(a, B) \in Nat \ {0} /\ Wide(a, B) \in Nat /\ Top(a, B) \in Nat /\ LeftOf(a, B) \in Nat
      /\ B \div Across(a) \in 0 .. NumBlocks(a.rows) /\ B % Across(a) \in 0 .. Across(a) - 1
  BY BlockBounds
<1>4. a.rows \in Nat \ {0} /\ a.cols \in Nat \ {0}  BY DEF IsArray
<1>5. CASE b < B
  <2>1. \/ b \div Across(a) < B \div Across(a)
        \/ b \div Across(a) = B \div Across(a) /\ b % Across(a) < B % Across(a)
    BY <1>1, <1>2, <1>5, DivModOrder
  <2>2. CASE b \div Across(a) < B \div Across(a)
    <3>1. Top(a, b) + High(a, b) <= Top(a, B)
      BY <2>2, <1>2, <1>3, <1>4, OffsetsRise DEF Top, High
    <3>2. Top(a, b) + RowIn(a, b, c) < Top(a, B)  BY <3>1, <1>1, <1>2, <1>3
    <3> QED  BY <3>2 DEF Done
  <2>3. CASE b \div Across(a) = B \div Across(a) /\ b % Across(a) < B % Across(a)
    <3>1. Top(a, b) = Top(a, B) /\ High(a, b) = High(a, B)  BY <2>3 DEF Top, High
    <3>2. b % Across(a) \in 0 .. NumBlocks(a.cols) /\ B % Across(a) \in 0 .. NumBlocks(a.cols)
      BY <1>2, <1>3 DEF Across
    <3>3. LeftOf(a, b) + Wide(a, b) <= LeftOf(a, B)
      BY <2>3, <3>2, <1>4, OffsetsRise DEF LeftOf, Wide
    <3>4. /\ Top(a, b) + RowIn(a, b, c) < Top(a, B) + High(a, B)
          /\ LeftOf(a, b) + ColIn(a, b, c) < LeftOf(a, B)
      BY <3>1, <3>3, <1>1, <1>2, <1>3
    <3> QED  BY <3>4 DEF Done
  <2> QED  BY <2>1, <2>2, <2>3
<1>6. CASE b = B /\ c < C
  <2>1. \/ RowIn(a, b, c) < RowIn(a, B, C)
        \/ RowIn(a, b, c) = RowIn(a, B, C) /\ ColIn(a, b, c) < ColIn(a, B, C)
    BY <1>1, <1>2, <1>6, DivModOrder DEF RowIn, ColIn
  <2>2. RowIn(a, B, C) \in Nat /\ ColIn(a, B, C) \in Nat
    BY RowColNat
  <2> DEFINE x == Top(a, b) + RowIn(a, b, c)
             y == LeftOf(a, b) + ColIn(a, b, c)
  <2>3. /\ x < Top(a, B) + High(a, B) /\ y < LeftOf(a, B) + Wide(a, B)
        /\ x - Top(a, B) = RowIn(a, b, c) /\ y - LeftOf(a, B) = ColIn(a, b, c)
    BY <1>1, <1>2, <1>6
  <2> QED  BY <2>1, <2>3 DEF Done
<1> QED  BY <1>5, <1>6 DEF Before

LEMMA NotDone ==
  ASSUME NEW a, IsArray(a), NEW b, NEW c, IsCell(a, b, c)
  PROVE  ~ Done(a, b, c, Top(a, b) + RowIn(a, b, c), LeftOf(a, b) + ColIn(a, b, c))
<1>1. /\ b \in 0 .. Total(a)
      /\ RowIn(a, b, c) \in 0 .. High(a, b) - 1 /\ ColIn(a, b, c) \in 0 .. Wide(a, b) - 1
  BY CellBounds
<1>2. Top(a, b) \in Nat /\ LeftOf(a, b) \in Nat /\ High(a, b) \in Nat /\ Wide(a, b) \in Nat
  BY <1>1, BlockBounds
<1> QED  BY <1>1, <1>2 DEF Done

\* What is done is closed to the left and above; what is left of and above the
\* cell at work is done.
LEMMA DoneClosed ==
  ASSUME NEW a, IsArray(a), NEW b \in 0 .. Total(a), NEW c \in Nat,
         NEW x \in Nat, NEW y \in Nat, Done(a, b, c, x, y),
         NEW i \in 0 .. x, NEW j \in 0 .. y
  PROVE  Done(a, b, c, i, j)
<1>1. /\ Top(a, b) \in Nat /\ LeftOf(a, b) \in Nat /\ High(a, b) \in Nat
      /\ Wide(a, b) \in Nat \ {0}
  BY BlockBounds
<1>2. RowIn(a, b, c) \in Nat /\ ColIn(a, b, c) \in Nat  BY RowColNat
<1> QED  BY <1>1, <1>2 DEF Done

LEMMA NeighboursDone ==
  ASSUME NEW a, IsArray(a), NEW b, NEW c, IsCell(a, b, c),
         NEW i \in 0 .. Top(a, b) + RowIn(a, b, c), NEW j \in 0 .. LeftOf(a, b) + ColIn(a, b, c),
         i # Top(a, b) + RowIn(a, b, c) \/ j # LeftOf(a, b) + ColIn(a, b, c)
  PROVE  Done(a, b, c, i, j)
<1>1. /\ b \in 0 .. Total(a)
      /\ RowIn(a, b, c) \in 0 .. High(a, b) - 1 /\ ColIn(a, b, c) \in 0 .. Wide(a, b) - 1
  BY CellBounds
<1>2. Top(a, b) \in Nat /\ LeftOf(a, b) \in Nat /\ High(a, b) \in Nat /\ Wide(a, b) \in Nat
  BY <1>1, BlockBounds
<1> QED  BY <1>1, <1>2 DEF Done

LEMMA FirstDone ==
  ASSUME NEW a, IsArray(a)
  PROVE  /\ IsCell(a, 0, 0) /\ Index(a, 0, 0) = 0 /\ Top(a, 0) = 0 /\ LeftOf(a, 0) = 0
         /\ \A x, y \in Nat : ~ Done(a, 0, 0, x, y)
<1>1. Total(a) \in Nat \ {0} /\ 0 \in 0 .. Total(a) /\ 0 < Total(a) /\ Across(a) \in Nat \ {0}
  <2>1. 0 \in 0 .. Total(a)  BY TotalNat
  <2> QED  BY <2>1, BlockBounds
<1>2. High(a, 0) \in Nat \ {0} /\ Wide(a, 0) \in Nat \ {0} /\ a.rows \in Nat \ {0} /\ a.cols \in Nat \ {0}
  <2>1. High(a, 0) \in 1 .. Early(a.rows) /\ Early(a.rows) \in Nat /\ Wide(a, 0) \in Nat \ {0}
    BY <1>1, BlockBounds
  <2>2. High(a, 0) \in Nat \ {0}  BY <2>1
  <2> QED  BY <2>1, <2>2 DEF IsArray
<1>3. 0 \div Across(a) = 0 /\ 0 % Across(a) = 0
  <2>1. 0 = Across(a) * 0 + 0 /\ 0 \in 0 .. Across(a) - 1  BY <1>1
  <2> QED  BY <2>1, <1>1, DivModUnique
<1>4. Top(a, 0) = 0 /\ LeftOf(a, 0) = 0
  BY <1>2, <1>3, PartBounds DEF Top, LeftOf
<1>5. RowIn(a, 0, 0) = 0 /\ ColIn(a, 0, 0) = 0  BY <1>1, RowColZero
<1>6. IsCell(a, 0, 0)
  <2>1. High(a, 0) * Wide(a, 0) \in Nat \ {0}  BY <1>2
  <2> QED  BY <2>1, <1>1 DEF IsCell
<1>7. Index(a, 0, 0) = 0
  <2>1. 0 * a.cols = 0 /\ High(a, 0) * 0 = 0  BY <1>2
  <2> QED  BY <2>1, <1>4 DEF Index
<1>8. ASSUME NEW x \in Nat, NEW y \in Nat PROVE ~ Done(a, 0, 0, x, y)
  BY <1>2, <1>4, <1>5 DEF Done
<1> QED  BY <1>4, <1>6, <1>7, <1>8

\* After the last block all is done.
LEMMA LastDone ==
  ASSUME NEW a, IsArray(a)
  PROVE  \A x \in 0 .. a.rows - 1 : \A y : Done(a, Total(a), 0, x, y)
<1>1. Total(a) \in 0 .. Total(a)  BY TotalNat
<1>2. Top(a, Total(a)) = a.rows /\ a.rows \in Nat  BY <1>1, BlockBounds DEF IsArray
<1> QED  BY <1>2 DEF Done

-----------------------------------------------------------------------------
(* The invariant                                                           *)

\* The Lorenzo predictor on a rebuilt array.
Near(f, i, j) == IF i < 0 \/ j < 0 THEN 0 ELSE f[<<i, j>>]
Lorenzo(f, i, j) == Round(Near(f, i, j - 1) + Near(f, i - 1, j) - Near(f, i - 1, j - 1))

\* g counts the exact values among the codes.
Counts(g, ts, us) ==
  /\ g \in [0 .. Len(ts) -> Nat]
  /\ g[0] = 0 /\ g[Len(ts)] = Len(us)
  /\ \A n \in 1 .. Len(ts) :
       /\ g[n] = g[n - 1] + (IF ts[n] = 0 THEN 1 ELSE 0)
       /\ g[n] <= Len(us)

\* h says what the coefficient streams have come to after each block: planes
\* and exact coefficients taken, and the last plane.
Side == [index : Nat, used : [1 .. 3 -> Nat], last : [1 .. 3 -> Int]]
Opened(codes, exact, r) ==
  LET code == codes[r.index + 1]
  IN [index |-> r.index + 1,
      used |-> [e \in 1 .. 3 |-> IF code[e] = 0 THEN r.used[e] + 1 ELSE r.used[e]],
      last |-> [e \in 1 .. 3 |->
                 IF code[e] = 0 THEN Entry(exact[e], r.used[e] + 1)
                 ELSE Restored(r.last[e], code[e] - CoeffRadius, Precision[e])]]

\* There is a plane to take, with its exact coefficients.
Openable(codes, exact, r) ==
  /\ r.index < Len(codes)
  /\ \A e \in 1 .. 3 : codes[r.index + 1][e] = 0 => r.used[e] < Len(exact[e])

\* From r to s over a block of kind k.
Taken(codes, exact, r, s, k) ==
  IF k = 0 THEN Openable(codes, exact, r) /\ s = Opened(codes, exact, r) ELSE s = r

Follows(h, kinds, codes, exact) ==
  /\ h \in [0 .. Len(kinds) -> Side]
  /\ h[0] = [index |-> 0, used |-> NoPlane, last |-> NoPlane]
  /\ \A b \in 1 .. Len(kinds) : Taken(codes, exact, h[b - 1], h[b], kinds[b])
  /\ h[Len(kinds)].index = Len(codes)
  /\ \A e \in 1 .. 3 : h[Len(kinds)].used[e] = Len(exact[e])

\* What the streams say of a cell, in terms of cells done before it.
Described(g, h, b, c) ==
  LET n == Index(data, b, c) + 1
      i == RowIn(data, b, c)
      j == ColIn(data, b, c)
      x == Top(data, b) + i
      y == LeftOf(data, b) + j
      p == IF indicator[b + 1] = 0 THEN Plane(h[b + 1].last, i, j) ELSE Lorenzo(recon, x, y)
  IN /\ n \in 1 .. Len(type) /\ b + 1 \in 1 .. Len(indicator)
     /\ recon[<<x, y>>] = IF type[n] = 0 THEN Entry(unpred, g[n - 1] + 1)
                          ELSE Restored(p, type[n] - Radius, Eb)

Encoded(b, c) == IsCell(data, b, c) /\ (stage = "encode" => Before(b, c, block, cell))

Cells == (0 .. data.rows - 1) \X (0 .. data.cols - 1)
Strip == (0 .. Early(data.rows)) \X (0 .. data.cols)

Typed ==
  /\ data \in Arrays /\ stage \in {"encode", "coded", "decode", "done"}
  /\ begun \in BOOLEAN /\ (~ begun => cell = 0)
  /\ stage \in {"encode", "decode"} => IsCell(data, block, cell)
  /\ stage \in {"coded", "done"} => block = Total(data) /\ cell = 0 /\ ~ begun
  /\ last \in [1 .. 3 -> Int]
  /\ cur \in [Strip -> Int] /\ next \in [Strip -> Int] /\ recon \in [Cells -> Int]
  /\ indicator \in Seq({0, 1}) /\ coeffType \in Seq([1 .. 3 -> Int])
  /\ coeffExact \in [1 .. 3 -> Seq(Int)] /\ type \in Seq(Int) /\ unpred \in Seq(Int)
  /\ out \in [Cells -> Int]

Lengths ==
  /\ stage = "encode" =>
       /\ Len(type) = Index(data, block, cell)
       /\ Len(indicator) = (IF begun THEN block + 1 ELSE block)
  /\ stage # "encode" =>
       /\ Len(type) = Index(data, Total(data), 0)
       /\ Len(indicator) = Total(data)

\* What the strip buffers hold of the cells that are done: above the strip,
\* to the left of the block, in the block, and for the strip that follows.
Buffers ==
  stage = "encode" =>
    LET t == Top(data, block)
        l == LeftOf(data, block)
        h == High(data, block)
        w == Wide(data, block)
    IN /\ \A r \in 0 .. Early(data.rows) : cur[<<r, 0>>] = 0 /\ next[<<r, 0>>] = 0
       /\ \A y \in 0 .. data.cols - 1 : cur[<<0, y + 1>>] = Near(recon, t - 1, y)
       /\ \A y \in 0 .. data.cols - 1 :
            Done(data, block, cell, t + h - 1, y) => next[<<0, y + 1>>] = recon[<<t + h - 1, y>>]
       /\ \A r \in 0 .. h - 1 : cur[<<r + 1, l>>] = Near(recon, t + r, l - 1)
       /\ \A r \in 0 .. h - 1, k \in 0 .. w - 1 :
            /\ Done(data, block, cell, t + r, l + k)
            /\ begun /\ (indicator[block + 1] # 0 \/ k = w - 1)
            => cur[<<r + 1, l + k + 1>>] = recon[<<t + r, l + k>>]

WithinBound ==
  \A x \in 0 .. data.rows - 1, y \in 0 .. data.cols - 1 :
    (stage = "encode" => Done(data, block, cell, x, y))
      => Abs(recon[<<x, y>>] - data.at[<<x, y>>]) <= Eb

Streams(g, h) ==
  /\ Counts(g, type, unpred) /\ Follows(h, indicator, coeffType, coeffExact)
  /\ \A b, c : Encoded(b, c) => Described(g, h, b, c)
  /\ stage = "encode" => last = h[Len(indicator)].last

\* The decompressor has done what the compressor had done at the same cell.
Caught(g, h) ==
  IF stage \in {"encode", "coded"}
  THEN used = 0 /\ coeffIndex = 0 /\ coeffUsed = NoPlane
  ELSE /\ \A x \in 0 .. data.rows - 1, y \in 0 .. data.cols - 1 :
            Done(data, block, cell, x, y) => out[<<x, y>>] = recon[<<x, y>>]
       /\ used = g[Index(data, block, cell)]
       /\ h[IF begun THEN block + 1 ELSE block]
            = [index |-> coeffIndex, used |-> coeffUsed, last |-> last]

IInv ==
  /\ Typed /\ Lengths /\ Buffers /\ WithinBound
  /\ \E g, h : Streams(g, h) /\ Caught(g, h)

-----------------------------------------------------------------------------
(* Numbers                                                                 *)

LEMMA RoundInt == \A x \in Int : Round(x) \in Int
<1>1. Ulp \in Nat \ {0} /\ Mantissa \in Nat  BY RegressionAssumption
<1>2. TAKE x \in Int
<1>3. Ulp \div 2 \in Int  BY <1>1
<1>4. (x + (Ulp \div 2)) \div Ulp \in Int  BY <1>1, <1>3
<1>5. ((x + (Ulp \div 2)) \div Ulp) * Ulp \in Int  BY <1>1, <1>4
<1> QED  BY <1>5 DEF Round

LEMMA RestoredInt ==
  ASSUME NEW p \in Int, NEW k \in Int, NEW eb \in Nat
  PROVE  Restored(p, k, eb) \in Int
<1>1. p + (2 * k * eb) \in Int  OBVIOUS
<1> QED  BY <1>1, RoundInt DEF Restored

LEMMA PlaneInt ==
  ASSUME NEW c \in [1 .. 3 -> Int], NEW i \in Int, NEW j \in Int
  PROVE  Plane(c, i, j) \in Int
<1>1. c[1] \in Int /\ c[2] \in Int /\ c[3] \in Int  OBVIOUS
<1>2. (c[1] * i) + (c[2] * j) + c[3] \in Int  BY <1>1
<1> QED  BY <1>2, RoundInt DEF Plane

\* A quantised number is fewer steps away than half the codes there are.
LEMMA StepsBound ==
  ASSUME NEW v \in Int, NEW p \in Int, NEW eb \in Nat \ {0},
         NEW n \in Nat, n % 2 = 0, NEW capacity \in Int, capacity <= n,
         Coded(v, p, eb, capacity)
  PROVE  Steps(v, p, eb) \in Int /\ (n \div 2) + Steps(v, p, eb) > 0
<1> DEFINE d == Abs(v - p)
           s == (d + eb) \div (2 * eb)
           r == n \div 2
<1>1. d \in Nat  BY DEF Abs
<1>2. d + eb < capacity * eb  BY DEF Coded
<1>3. n = 2 * r /\ r \in Nat  OBVIOUS
<1>4. Steps(v, p, eb) = IF v - p < 0 THEN -s ELSE s  BY DEF Steps, Signed
<1> HIDE DEF d, r
<1>5. capacity * eb <= n * eb /\ n * eb = (2 * eb) * r
  <2>1. n * eb = (2 * eb) * r  BY <1>3
  <2>2. capacity * eb <= n * eb
    <3>1. n - capacity \in Nat /\ (n - capacity) * eb \in Nat  OBVIOUS
    <3>2. (n - capacity) * eb = n * eb - capacity * eb  OBVIOUS
    <3>3. n * eb \in Int /\ capacity * eb \in Int  OBVIOUS
    <3> QED  BY <3>1, <3>2, <3>3
  <2> QED  BY <2>1, <2>2
<1>6. 2 * eb \in Nat \ {0} /\ d + eb \in Nat /\ (2 * eb) * r \in Int /\ capacity * eb \in Int
  BY <1>1, <1>3
<1>7. d + eb < (2 * eb) * r  BY <1>2, <1>5, <1>6
<1>8. s \in Nat  BY <1>6, DivMod
<1>9. d + eb < r * (2 * eb)  BY <1>3, <1>7
<1>10. s < r  BY <1>3, <1>6, <1>9, DivBelow
<1> HIDE DEF s
<1> QED  BY <1>3, <1>4, <1>8, <1>10 DEF r

\* The code of a value v with prediction p, and what the value becomes.
TypeOf(v, p, capacity) == IF Coded(v, p, Eb, capacity) THEN Radius + Steps(v, p, Eb) ELSE 0
KeptOf(v, p, capacity) ==
  IF Coded(v, p, Eb, capacity) THEN Restored(p, Steps(v, p, Eb), Eb) ELSE v

\* A value is restored within the bound from its code, or is there exactly.
LEMMA Kept ==
  ASSUME NEW v \in Int, NEW p \in Int, NEW capacity \in {Capacity, Capacity - 2}
  PROVE  /\ KeptOf(v, p, capacity) \in Int /\ TypeOf(v, p, capacity) \in Int
         /\ Abs(KeptOf(v, p, capacity) - v) <= Eb
         /\ (TypeOf(v, p, capacity) = 0 <=> ~ Coded(v, p, Eb, capacity))
         /\ KeptOf(v, p, capacity)
              = IF TypeOf(v, p, capacity) = 0 THEN v
                ELSE Restored(p, TypeOf(v, p, capacity) - Radius, Eb)
<1> PICK k : k = Steps(v, p, Eb)  OBVIOUS
<1> PICK kept : kept = KeptOf(v, p, capacity)  OBVIOUS
<1> PICK t : t = TypeOf(v, p, capacity)  OBVIOUS
<1>1. /\ Eb \in Nat \ {0} /\ Capacity \in Nat /\ Capacity % 2 = 0 /\ Capacity > 2
      /\ Radius \in Int
  BY RegressionAssumption DEF Radius
<1>2. capacity \in Int /\ capacity <= Capacity  BY <1>1
<1>3. CASE Coded(v, p, Eb, capacity)
  <2>1. k \in Int /\ Radius + k > 0  BY <1>1, <1>2, <1>3, StepsBound DEF Radius
  <2>2. Restored(p, k, Eb) \in Int  BY <1>1, <2>1, RestoredInt
  <2>3. kept = Restored(p, k, Eb) /\ t = Radius + k  BY <1>3 DEF KeptOf, TypeOf
  <2>4. Abs(v - kept) <= Eb  BY <1>3, <2>3 DEF Coded
  <2>5. Abs(kept - v) = Abs(v - kept)  BY <2>2, <2>3 DEF Abs
  <2>6. t - Radius = k /\ t # 0 /\ t \in Int  BY <1>1, <2>1, <2>3
  <2> QED  BY <1>3, <2>2, <2>3, <2>4, <2>5, <2>6
<1>4. CASE ~ Coded(v, p, Eb, capacity)
  <2>1. kept = v /\ t = 0  BY <1>4 DEF KeptOf, TypeOf
  <2>2. Abs(kept - v) = 0  BY <2>1 DEF Abs
  <2> QED  BY <1>1, <1>4, <2>1, <2>2
<1> QED  BY <1>3, <1>4

\* So is a coefficient.
LEMMA KeptCoefficient ==
  ASSUME NEW v \in Int, NEW p \in Int, NEW e \in 1 .. 3,
         NEW k, k = Steps(v, p, Precision[e]),
         Coded(v, p, Precision[e], CoeffCapacity),
         NEW code, code = CoeffRadius + k
  PROVE  /\ k \in Int /\ code \in Int /\ code # 0 /\ code - CoeffRadius = k
         /\ Restored(p, k, Precision[e]) \in Int
<1>1. /\ Precision[e] \in Nat \ {0} /\ CoeffCapacity \in Nat /\ CoeffCapacity % 2 = 0
      /\ CoeffRadius \in Int
  BY RegressionAssumption DEF CoeffRadius
<1>2. k \in Int /\ CoeffRadius + k > 0  BY <1>1, StepsBound DEF CoeffRadius
<1>3. Restored(p, k, Precision[e]) \in Int  BY <1>1, <1>2, RestoredInt
<1> QED  BY <1>1, <1>2, <1>3

-----------------------------------------------------------------------------
(* The streams grow at their ends                                          *)

LEMMA AppendAt ==
  ASSUME NEW S, NEW s \in Seq(S), NEW v \in S
  PROVE  /\ Len(s) \in Nat /\ Append(s, v) \in Seq(S) /\ Len(Append(s, v)) = Len(s) + 1
         /\ \A n \in 1 .. Len(s) : Append(s, v)[n] = s[n]
         /\ Append(s, v)[Len(s) + 1] = v
<1>1. Len(s) \in Nat  BY LenProperties
<1>2. /\ Append(s, v) \in Seq(S) /\ Len(Append(s, v)) = Len(s) + 1
      /\ \A n \in 1 .. Len(s) : Append(s, v)[n] = s[n]
      /\ Append(s, v)[Len(s) + 1] = v
  BY AppendProperties
<1> QED  BY <1>1, <1>2

\* t continues s.
Extends(t, s) == Len(s) <= Len(t) /\ \A n \in 1 .. Len(s) : t[n] = s[n]

LEMMA ArrayOf ==
  ASSUME Typed
  PROVE  /\ IsArray(data) /\ DOMAIN data.at = Cells
         /\ data.rows \in Nat \ {0} /\ data.cols \in Nat \ {0}
         /\ Early(data.rows) \in Nat /\ Blocks = Total(data)
<1>1. IsArray(data)  BY RegressionAssumption DEF Typed, IsArray
<1>2. Early(data.rows) \in Nat  BY <1>1, Parts DEF IsArray
<1>3. Blocks = Total(data)  BY DEF Blocks, Total, Across
<1> QED  BY <1>1, <1>2, <1>3 DEF IsArray, Cells

LEMMA DescribedStays ==
  ASSUME data' = data, IsArray(data), NEW b, NEW c, IsCell(data, b, c),
         type \in Seq(Int), unpred \in Seq(Int), indicator \in Seq({0, 1}),
         Extends(type', type), Extends(unpred', unpred), Extends(indicator', indicator),
         Len(unpred') \in Nat, Len(type') \in Nat, Len(indicator') \in Nat,
         \A i \in 0 .. Top(data, b) + RowIn(data, b, c), j \in 0 .. LeftOf(data, b) + ColIn(data, b, c) :
           recon'[<<i, j>>] = recon[<<i, j>>],
         NEW g, Counts(g, type, unpred), NEW h, Described(g, h, b, c),
         NEW g2, \A n \in 0 .. Len(type) : g2[n] = g[n],
         NEW h2, \A n \in 0 .. Len(indicator) : h2[n] = h[n]
  PROVE  Described(g2, h2, b, c)'
<1> DEFINE n == Index(data, b, c) + 1
           i == RowIn(data, b, c)
           j == ColIn(data, b, c)
           x == Top(data, b) + i
           y == LeftOf(data, b) + j
<1>1. /\ b \in 0 .. Total(data) /\ b \in Nat /\ i \in Nat /\ j \in Nat /\ x \in Nat /\ y \in Nat
  <2>1. b \in 0 .. Total(data) /\ c \in Nat  BY CellBounds
  <2>2. i \in Nat /\ j \in Nat  BY <2>1, RowColNat
  <2>3. Top(data, b) \in Nat /\ LeftOf(data, b) \in Nat  BY <2>1, BlockBounds
  <2>4. b \in Nat  BY <2>1, TotalNat
  <2> QED  BY <2>1, <2>2, <2>3, <2>4
<1>2. n \in Nat  BY NextIndex
<1>3. Len(type) \in Nat /\ Len(indicator) \in Nat /\ Len(unpred) \in Nat  BY LenProperties
<1>4. n \in 1 .. Len(type) /\ b + 1 \in 1 .. Len(indicator)
  BY DEF Described
<1>5. recon[<<x, y>>] = IF type[n] = 0 THEN Entry(unpred, g[n - 1] + 1)
        ELSE Restored(IF indicator[b + 1] = 0 THEN Plane(h[b + 1].last, i, j)
                      ELSE Lorenzo(recon, x, y), type[n] - Radius, Eb)
  BY Zenon DEF Described
<1> HIDE DEF n, i, j, x, y
<1>6. n \in 1 .. Len(type') /\ b + 1 \in 1 .. Len(indicator')  BY <1>1, <1>2, <1>3, <1>4 DEF Extends
<1>7. type'[n] = type[n] /\ indicator'[b + 1] = indicator[b + 1]  BY <1>4 DEF Extends
<1>8. h2[b + 1] = h[b + 1]
  <2>1. b + 1 \in 0 .. Len(indicator)  BY <1>1, <1>3, <1>4
  <2> QED  BY <2>1
<1>9. type[n] = 0 => Entry(unpred', g2[n - 1] + 1) = Entry(unpred, g[n - 1] + 1)
  <2> SUFFICES ASSUME type[n] = 0 PROVE Entry(unpred', g2[n - 1] + 1) = Entry(unpred, g[n - 1] + 1)
    OBVIOUS
  <2>1. n - 1 \in 0 .. Len(type) /\ n \in 0 .. Len(type)  BY <1>3, <1>4
  <2>2. g2[n - 1] = g[n - 1]  BY <2>1
  <2>3. g[n - 1] \in Nat /\ g[n] = g[n - 1] + 1 /\ g[n] <= Len(unpred)
    BY <2>1, <1>4 DEF Counts
  <2> DEFINE m == g[n - 1] + 1
  <2>4. m \in 1 .. Len(unpred)  BY <2>3, <1>3
  <2>5. m <= Len(unpred) /\ m <= Len(unpred')  BY <2>4, <1>3 DEF Extends
  <2>6. unpred'[m] = unpred[m]  BY <2>4 DEF Extends
  <2>7. g2[n - 1] + 1 = m  BY <2>2
  <2> HIDE DEF m
  <2> QED  BY <2>5, <2>6, <2>7 DEF Entry, m
<1>10. recon'[<<x, y>>] = recon[<<x, y>>] /\ Lorenzo(recon', x, y) = Lorenzo(recon, x, y)
  <2>1. \A p \in {x - 1, x}, q \in {y - 1, y} : Near(recon', p, q) = Near(recon, p, q)
    <3> TAKE p \in {x - 1, x}, q \in {y - 1, y}
    <3>1. CASE p < 0 \/ q < 0  BY <3>1 DEF Near
    <3>2. CASE ~ (p < 0 \/ q < 0)
      <4>1. p \in 0 .. x /\ q \in 0 .. y  BY <3>2, <1>1
      <4>2. recon'[<<p, q>>] = recon[<<p, q>>]  BY <4>1 DEF x, y, i, j
      <4> QED  BY <4>2, <3>2 DEF Near
    <3> QED  BY <3>1, <3>2
  <2>2. x \in 0 .. x /\ y \in 0 .. y  BY <1>1
  <2>3. recon'[<<x, y>>] = recon[<<x, y>>]  BY <2>2 DEF x, y, i, j
  <2> QED  BY <2>1, <2>3 DEF Lorenzo
<1>11. recon'[<<x, y>>] = IF type'[n] = 0 THEN Entry(unpred', g2[n - 1] + 1)
        ELSE Restored(IF indicator'[b + 1] = 0 THEN Plane(h2[b + 1].last, i, j)
                      ELSE Lorenzo(recon', x, y), type'[n] - Radius, Eb)
  BY <1>5, <1>7, <1>8, <1>9, <1>10
<1> QED  BY <1>6, <1>11, Zenon DEF Described, n, i, j, x, y

\* The count of exact values after one more code.
LEMMA CountsAppend ==
  ASSUME NEW g, Counts(g, type, unpred), type \in Seq(Int), unpred \in Seq(Int),
         NEW t \in Int, NEW v \in Int, type' = Append(type, t),
         unpred' = IF t = 0 THEN Append(unpred, v) ELSE unpred
  PROVE  /\ unpred' \in Seq(Int) /\ Extends(unpred', unpred)
         /\ t = 0 => Entry(unpred', g[Len(type)] + 1) = v
         /\ \E g2 : /\ Counts(g2, type', unpred') /\ \A n \in 0 .. Len(type) : g2[n] = g[n]
<1> DEFINE m == Len(type)
           u == Len(unpred)
           s == IF t = 0 THEN 1 ELSE 0
<1>1. m \in Nat /\ Len(type') = m + 1 /\ \A n \in 1 .. m : type'[n] = type[n]
  BY AppendAt
<1>2. type'[m + 1] = t  BY AppendAt
<1>3. u \in Nat /\ unpred' \in Seq(Int) /\ Len(unpred') = u + s
      /\ (\A n \in 1 .. u : unpred'[n] = unpred[n]) /\ (t = 0 => unpred'[u + 1] = v)
  BY AppendAt
<1>4. /\ g \in [0 .. m -> Nat] /\ g[0] = 0 /\ g[m] = u
      /\ \A n \in 1 .. m : g[n] = g[n - 1] + (IF type[n] = 0 THEN 1 ELSE 0) /\ g[n] <= u
  BY DEF Counts
<1> HIDE DEF m, u
<1>5. PICK g2 : /\ g2 \in [0 .. m + 1 -> Nat] /\ g2[0] = 0 /\ g2[m + 1] = u + s
                /\ \A n \in 0 .. m : g2[n] = g[n]
  <2> DEFINE f == [n \in 0 .. m + 1 |-> IF n <= m THEN g[n] ELSE u + s]
  <2>1. /\ f \in [0 .. m + 1 -> Nat] /\ f[0] = 0 /\ f[m + 1] = u + s
        /\ \A n \in 0 .. m : f[n] = g[n]
    BY <1>1, <1>3, <1>4
  <2> HIDE DEF f
  <2> QED  BY <2>1
<1>6. ASSUME NEW n \in 1 .. m + 1
      PROVE  g2[n] = g2[n - 1] + (IF type'[n] = 0 THEN 1 ELSE 0) /\ g2[n] <= u + s
  <2>1. CASE n <= m
    <3>1. n \in 1 .. m /\ n \in 0 .. m /\ n - 1 \in 0 .. m  BY <2>1, <1>1
    <3>2. g2[n] = g[n] /\ g2[n - 1] = g[n - 1] /\ type'[n] = type[n] /\ g[n] \in Nat
      BY <3>1, <1>1, <1>4, <1>5
    <3> QED  BY <3>1, <3>2, <1>3, <1>4
  <2>2. CASE n = m + 1
    <3>1. m \in 0 .. m /\ n - 1 = m  BY <2>2, <1>1
    <3>2. g2[n] = u + s /\ g2[n - 1] = u  BY <2>2, <3>1, <1>4, <1>5
    <3>3. type'[n] = t  BY <2>2, <1>2
    <3> QED  BY <3>2, <3>3, <1>3
  <2> QED  BY <2>1, <2>2, <1>1
<1>7. Counts(g2, type', unpred')  BY <1>1, <1>3, <1>5, <1>6 DEF Counts
<1>8. t = 0 => Entry(unpred', g[m] + 1) = v  BY <1>3, <1>4 DEF Entry
<1>9. Extends(unpred', unpred)  BY <1>3 DEF Extends, u
<1> QED  BY <1>3, <1>5, <1>7, <1>8, <1>9 DEF m

\* A plane that can be taken is the same one when more have been coded.
LEMMA OpenedStays ==
  ASSUME NEW r \in Side, Openable(coeffType, coeffExact, r),
         coeffType \in Seq([1 .. 3 -> Int]), coeffExact \in [1 .. 3 -> Seq(Int)],
         Extends(coeffType', coeffType), Len(coeffType') \in Nat,
         \A e \in 1 .. 3 : Extends(coeffExact'[e], coeffExact[e]) /\ Len(coeffExact'[e]) \in Nat
  PROVE  /\ Openable(coeffType', coeffExact', r)
         /\ Opened(coeffType', coeffExact', r) = Opened(coeffType, coeffExact, r)
<1>1. r.index \in Nat /\ \A e \in 1 .. 3 : r.used[e] \in Nat  BY DEF Side
<1>2. Len(coeffType) \in Nat /\ \A e \in 1 .. 3 : Len(coeffExact[e]) \in Nat
  BY LenProperties
<1>3. r.index < Len(coeffType) /\ r.index + 1 \in 1 .. Len(coeffType)
  <2> DEFINE i == r.index
             n == Len(coeffType)
  <2>1. i < n  BY Zenon DEF Openable
  <2>2. i \in Nat /\ n \in Nat  BY <1>1, <1>2
  <2> HIDE DEF i, n
  <2>3. i < n /\ i + 1 \in 1 .. n  BY <2>1, <2>2
  <2> QED  BY <2>3 DEF i, n
<1>4. coeffType'[r.index + 1] = coeffType[r.index + 1]  BY <1>3 DEF Extends
<1>5. ASSUME NEW e \in 1 .. 3, coeffType[r.index + 1][e] = 0
      PROVE  /\ Entry(coeffExact'[e], r.used[e] + 1) = Entry(coeffExact[e], r.used[e] + 1)
             /\ r.used[e] < Len(coeffExact'[e])
  <2> DEFINE m == r.used[e] + 1
             s == coeffExact[e]
             t == coeffExact'[e]
  <2>1. Len(s) \in Nat /\ Len(t) \in Nat /\ m \in 1 .. Len(s)
    <3>1. r.used[e] < Len(s)  BY <1>5, Zenon DEF Openable
    <3>2. r.used[e] \in Nat /\ Len(s) \in Nat /\ Len(t) \in Nat  BY <1>1, <1>2
    <3> QED  BY <3>1, <3>2
  <2>2. Extends(t, s)  OBVIOUS
  <2> HIDE DEF m, s, t
  <2>3. m <= Len(s) /\ m <= Len(t) /\ t[m] = s[m]  BY <2>1, <2>2 DEF Extends
  <2>4. Entry(t, m) = Entry(s, m)  BY <2>3 DEF Entry
  <2>5. r.used[e] + 1 = m /\ r.used[e] \in Nat  BY <1>1 DEF m
  <2>6. r.used[e] < Len(t)  BY <2>1, <2>3, <2>5
  <2> QED  BY <2>4, <2>5, <2>6 DEF s, t
<1>6. Openable(coeffType', coeffExact', r)
  <2>1. r.index < Len(coeffType')  BY <1>1, <1>2, <1>3 DEF Extends
  <2> QED  BY <2>1, <1>4, <1>5 DEF Openable
<1> DEFINE code == coeffType[r.index + 1]
<1>7. /\ [e \in 1 .. 3 |-> IF code[e] = 0 THEN Entry(coeffExact'[e], r.used[e] + 1)
                           ELSE Restored(r.last[e], code[e] - CoeffRadius, Precision[e])]
         = [e \in 1 .. 3 |-> IF code[e] = 0 THEN Entry(coeffExact[e], r.used[e] + 1)
                             ELSE Restored(r.last[e], code[e] - CoeffRadius, Precision[e])]
  BY <1>5
<1>8. Opened(coeffType', coeffExact', r) = Opened(coeffType, coeffExact, r)
  BY <1>4, <1>7 DEF Opened
<1> QED  BY <1>6, <1>8


\* After one more block.
LEMMA FollowsAppend ==
  ASSUME NEW h, Follows(h, indicator, coeffType, coeffExact), indicator \in Seq({0, 1}),
         coeffType \in Seq([1 .. 3 -> Int]), coeffExact \in [1 .. 3 -> Seq(Int)],
         NEW k \in {0, 1}, indicator' = Append(indicator, k),
         Extends(coeffType', coeffType), Len(coeffType') \in Nat,
         \A e \in 1 .. 3 : Extends(coeffExact'[e], coeffExact[e]) /\ Len(coeffExact'[e]) \in Nat,
         NEW s \in Side, Taken(coeffType', coeffExact', h[Len(indicator)], s, k),
         s.index = Len(coeffType'), \A e \in 1 .. 3 : s.used[e] = Len(coeffExact'[e])
  PROVE  /\ indicator' \in Seq({0, 1}) /\ Len(indicator') = Len(indicator) + 1
         /\ Extends(indicator', indicator)
         /\ \E h2 : /\ Follows(h2, indicator', coeffType', coeffExact')
                    /\ h2[Len(indicator) + 1] = s
                    /\ \A n \in 0 .. Len(indicator) : h2[n] = h[n]
<1> PICK m : m = Len(indicator)  OBVIOUS
<1>1. /\ m \in Nat /\ indicator' \in Seq({0, 1}) /\ Len(indicator') = m + 1
      /\ \A n \in 1 .. m : indicator'[n] = indicator[n]
      /\ indicator'[m + 1] = k
  BY AppendAt
<1>2. /\ h \in [0 .. m -> Side]
      /\ h[0] = [index |-> 0, used |-> NoPlane, last |-> NoPlane]
      /\ \A b \in 1 .. m : Taken(coeffType, coeffExact, h[b - 1], h[b], indicator[b])
  BY DEF Follows
<1>3. Extends(indicator', indicator)  BY <1>1 DEF Extends
<1>4. PICK h2 : /\ h2 \in [0 .. m + 1 -> Side] /\ h2[m + 1] = s
                /\ \A n \in 0 .. m : h2[n] = h[n]
  <2> DEFINE f == [n \in 0 .. m + 1 |-> IF n <= m THEN h[n] ELSE s]
  <2>1. f \in [0 .. m + 1 -> Side] /\ f[m + 1] = s /\ \A n \in 0 .. m : f[n] = h[n]
    BY <1>1, <1>2
  <2> HIDE DEF f
  <2> QED  BY <2>1
<1>5. ASSUME NEW b \in 1 .. m
      PROVE  Taken(coeffType', coeffExact', h2[b - 1], h2[b], indicator'[b])
  <2>1. b \in 0 .. m /\ b - 1 \in 0 .. m  BY <1>1
  <2>2. PICK i : i = indicator[b]  OBVIOUS
  <2>3. PICK u : u = h2[b - 1]  OBVIOUS
  <2>4. PICK v : v = h2[b]  OBVIOUS
  <2>5. Taken(coeffType, coeffExact, u, v, i) /\ u \in Side
    BY <2>1, <2>2, <2>3, <2>4, <1>2, <1>4
  <2>6. indicator'[b] = i  BY <2>2, <1>1
  <2>7. CASE i = 0
    <3>1. Openable(coeffType, coeffExact, u) /\ v = Opened(coeffType, coeffExact, u)
      BY <2>5, <2>7 DEF Taken
    <3>2. Openable(coeffType', coeffExact', u) /\ v = Opened(coeffType', coeffExact', u)
      BY <2>5, <3>1, OpenedStays
    <3> QED  BY <2>3, <2>4, <2>6, <2>7, <3>2 DEF Taken
  <2>8. CASE i # 0
    <3>1. v = u  BY <2>5, <2>8 DEF Taken
    <3> QED  BY <2>3, <2>4, <2>6, <2>8, <3>1 DEF Taken
  <2> QED  BY <2>7, <2>8
<1>6. ASSUME NEW b, b = m + 1
      PROVE  Taken(coeffType', coeffExact', h2[b - 1], h2[b], indicator'[b])
  <2>1. m \in 0 .. m /\ b - 1 = m  BY <1>1, <1>6
  <2>2. h2[b - 1] = h[Len(indicator)] /\ h2[b] = s /\ indicator'[b] = k  BY <2>1, <1>1, <1>4, <1>6
  <2> QED  BY <2>2 DEF Taken
<1>7. \A b \in 1 .. m + 1 : Taken(coeffType', coeffExact', h2[b - 1], h2[b], indicator'[b])
  <2> TAKE b \in 1 .. m + 1
  <2>1. b \in 1 .. m \/ b = m + 1  BY <1>1
  <2> QED  BY <2>1, <1>5, <1>6
<1>8. h2[0] = h[0]
  <2>1. 0 \in 0 .. m  BY <1>1
  <2> QED  BY <2>1, <1>4
<1>9. Follows(h2, indicator', coeffType', coeffExact')
  <2>1. Len(indicator') = m + 1  BY <1>1
  <2> QED  BY <2>1, <1>2, <1>4, <1>7, <1>8 DEF Follows
<1> QED  BY <1>1, <1>3, <1>4, <1>9

\* A coefficient v with prediction p: its code, the exact values s after it,
\* and what it becomes.
CodeOf(v, p, e) ==
  IF Coded(v, p, Precision[e], CoeffCapacity)
  THEN CoeffRadius + Steps(v, p, Precision[e]) ELSE 0
ExactAfter(s, v, p, e) ==
  IF Coded(v, p, Precision[e], CoeffCapacity) THEN s ELSE Append(s, v)
Becomes(v, p, e) ==
  IF Coded(v, p, Precision[e], CoeffCapacity)
  THEN Restored(p, Steps(v, p, Precision[e]), Precision[e]) ELSE v

\* What it leaves in the streams restores what it became.
LEMMA CoefficientCoded ==
  ASSUME NEW v \in Int, NEW p \in Int, NEW e \in 1 .. 3, NEW s \in Seq(Int)
  PROVE  /\ CodeOf(v, p, e) \in Int /\ Becomes(v, p, e) \in Int
         /\ ExactAfter(s, v, p, e) \in Seq(Int) /\ Extends(ExactAfter(s, v, p, e), s)
         /\ Len(s) \in Nat /\ Len(ExactAfter(s, v, p, e)) \in Nat
         /\ Len(ExactAfter(s, v, p, e)) = IF CodeOf(v, p, e) = 0 THEN Len(s) + 1 ELSE Len(s)
         /\ Becomes(v, p, e) = IF CodeOf(v, p, e) = 0
                               THEN Entry(ExactAfter(s, v, p, e), Len(s) + 1)
                               ELSE Restored(p, CodeOf(v, p, e) - CoeffRadius, Precision[e])
<1> PICK k : k = Steps(v, p, Precision[e])  OBVIOUS
<1> PICK code : code = CodeOf(v, p, e)  OBVIOUS
<1> PICK t : t = ExactAfter(s, v, p, e)  OBVIOUS
<1> PICK l : l = Becomes(v, p, e)  OBVIOUS
<1>1. CASE Coded(v, p, Precision[e], CoeffCapacity)
  <2>1. code = CoeffRadius + k /\ t = s /\ l = Restored(p, k, Precision[e])
    BY <1>1 DEF CodeOf, ExactAfter, Becomes
  <2>2. code \in Int /\ code # 0 /\ code - CoeffRadius = k /\ l \in Int
    BY <1>1, <2>1, KeptCoefficient
  <2>3. Len(s) \in Nat  BY LenProperties
  <2>4. Extends(t, s)  BY <2>1, <2>3 DEF Extends
  <2>5. l = Restored(p, code - CoeffRadius, Precision[e])  BY <2>1, <2>2
  <2>6. Len(t) = Len(s) /\ t \in Seq(Int) /\ Len(t) \in Nat  BY <2>1, <2>3
  <2> QED  BY <2>2, <2>3, <2>4, <2>5, <2>6
<1>2. CASE ~ Coded(v, p, Precision[e], CoeffCapacity)
  <2>1. code = 0 /\ t = Append(s, v) /\ l = v
    BY <1>2 DEF CodeOf, ExactAfter, Becomes
  <2>2. /\ Len(s) \in Nat /\ t \in Seq(Int) /\ Len(t) = Len(s) + 1
        /\ \A n \in 1 .. Len(s) : t[n] = s[n]
        /\ t[Len(s) + 1] = v
    BY <2>1, AppendAt
  <2>3. Extends(t, s)  BY <2>2 DEF Extends
  <2>4. Entry(t, Len(s) + 1) = v  BY <2>2 DEF Entry
  <2> QED  BY <2>1, <2>2, <2>3, <2>4
<1> QED  BY <1>1, <1>2

\* A plane block puts its codes and exact coefficients at the ends.
LEMMA FollowsPlane ==
  ASSUME NEW h, Follows(h, indicator, coeffType, coeffExact), indicator \in Seq({0, 1}),
         last = h[Len(indicator)].last,
         last \in [1 .. 3 -> Int], coeffType \in Seq([1 .. 3 -> Int]),
         coeffExact \in [1 .. 3 -> Seq(Int)], NEW c \in Planes, BeginPlane(c)
  PROVE  /\ indicator' \in Seq({0, 1}) /\ Len(indicator') = Len(indicator) + 1
         /\ Extends(indicator', indicator)
         /\ coeffType' \in Seq([1 .. 3 -> Int]) /\ coeffExact' \in [1 .. 3 -> Seq(Int)]
         /\ last' \in [1 .. 3 -> Int]
         /\ \E h2 : /\ Follows(h2, indicator', coeffType', coeffExact')
                    /\ h2[Len(indicator) + 1].last = last'
                    /\ \A n \in 0 .. Len(indicator) : h2[n] = h[n]
<1> PICK m : m = Len(indicator)  OBVIOUS
<1>1. PICK code :
        /\ code = [e \in 1 .. 3 |-> CodeOf(c[e], last[e], e)]
        /\ coeffType' = Append(coeffType, code)
        /\ coeffExact' = [e \in 1 .. 3 |-> ExactAfter(coeffExact[e], c[e], last[e], e)]
        /\ last' = [e \in 1 .. 3 |-> Becomes(c[e], last[e], e)]
        /\ indicator' = Append(indicator, 0)
  BY Zenon DEF BeginPlane, CodeOf, ExactAfter, Becomes
<1>2. ASSUME NEW e \in 1 .. 3
      PROVE  /\ code[e] \in Int /\ coeffExact'[e] \in Seq(Int) /\ last'[e] \in Int
             /\ Extends(coeffExact'[e], coeffExact[e])
             /\ Len(coeffExact[e]) \in Nat /\ Len(coeffExact'[e]) \in Nat
             /\ Len(coeffExact'[e]) = IF code[e] = 0 THEN Len(coeffExact[e]) + 1
                                      ELSE Len(coeffExact[e])
             /\ last'[e] = IF code[e] = 0 THEN Entry(coeffExact'[e], Len(coeffExact[e]) + 1)
                           ELSE Restored(last[e], code[e] - CoeffRadius, Precision[e])
  <2>1. c[e] \in Int /\ last[e] \in Int /\ coeffExact[e] \in Seq(Int)
    BY RegressionAssumption
  <2>2. /\ code[e] = CodeOf(c[e], last[e], e)
        /\ coeffExact'[e] = ExactAfter(coeffExact[e], c[e], last[e], e)
        /\ last'[e] = Becomes(c[e], last[e], e)
    BY <1>1
  <2> DEFINE s == coeffExact[e]
             d == CodeOf(c[e], last[e], e)
             t == ExactAfter(s, c[e], last[e], e)
             l == Becomes(c[e], last[e], e)
  <2>3. /\ d \in Int /\ l \in Int /\ t \in Seq(Int) /\ Extends(t, s)
        /\ Len(s) \in Nat /\ Len(t) \in Nat
        /\ Len(t) = (IF d = 0 THEN Len(s) + 1 ELSE Len(s))
        /\ l = IF d = 0 THEN Entry(t, Len(s) + 1)
               ELSE Restored(last[e], d - CoeffRadius, Precision[e])
    BY <2>1, CoefficientCoded
  <2> HIDE DEF d, t, l
  <2> QED  BY <2>2, <2>3 DEF d, t, l
<1>3. /\ coeffExact' \in [1 .. 3 -> Seq(Int)] /\ last' \in [1 .. 3 -> Int]
      /\ code \in [1 .. 3 -> Int]
  <2>1. /\ coeffExact' = [e \in 1 .. 3 |-> coeffExact'[e]]
        /\ last' = [e \in 1 .. 3 |-> last'[e]] /\ code = [e \in 1 .. 3 |-> code[e]]
    BY <1>1
  <2>2. \A e \in 1 .. 3 : coeffExact'[e] \in Seq(Int) /\ last'[e] \in Int /\ code[e] \in Int
    BY <1>2
  <2> QED  BY <2>1, <2>2
<1>4. PICK q : q = Len(coeffType)  OBVIOUS
<1>5. PICK r : r = h[Len(indicator)]  OBVIOUS
<1>6. /\ q \in Nat /\ coeffType' \in Seq([1 .. 3 -> Int]) /\ Len(coeffType') = q + 1
      /\ \A n \in 1 .. q : coeffType'[n] = coeffType[n]
      /\ coeffType'[q + 1] = code
  BY <1>1, <1>3, <1>4, AppendAt
<1>7. /\ r \in Side /\ r.index = q /\ r.last = last
      /\ \A e \in 1 .. 3 : r.used[e] = Len(coeffExact[e])
  <2>1. m \in Nat /\ m \in 0 .. m  BY LenProperties
  <2>2. h \in [0 .. m -> Side]  BY DEF Follows
  <2>3. h[m].index = q /\ \A e \in 1 .. 3 : h[m].used[e] = Len(coeffExact[e])
    BY <1>4, Zenon DEF Follows
  <2> QED  BY <2>1, <2>2, <2>3, <1>5
<1>8. PICK used2 : used2 = [e \in 1 .. 3 |-> IF code[e] = 0 THEN r.used[e] + 1 ELSE r.used[e]]
  OBVIOUS
<1>9. used2 \in [1 .. 3 -> Nat] /\ \A e \in 1 .. 3 : used2[e] = Len(coeffExact'[e])
  <2>1. ASSUME NEW e \in 1 .. 3 PROVE used2[e] = Len(coeffExact'[e]) /\ used2[e] \in Nat
    <3>1. used2[e] = IF code[e] = 0 THEN r.used[e] + 1 ELSE r.used[e]  BY <1>8
    <3>2. r.used[e] = Len(coeffExact[e])  BY <1>7
    <3> QED  BY <3>1, <3>2, <1>2
  <2>2. used2 = [e \in 1 .. 3 |-> used2[e]]  BY <1>8
  <2> QED  BY <2>1, <2>2
<1>10. PICK s : s = [index |-> q + 1, used |-> used2, last |-> last']  OBVIOUS
<1>11. s \in Side /\ s.index = q + 1 /\ s.used = used2 /\ s.last = last'
  BY <1>3, <1>6, <1>9, <1>10 DEF Side
<1>12. Openable(coeffType', coeffExact', r)
  <2>1. q < Len(coeffType')  BY <1>6
  <2>2. ASSUME NEW e \in 1 .. 3, code[e] = 0 PROVE r.used[e] < Len(coeffExact'[e])
    <3>1. r.used[e] = Len(coeffExact[e])  BY <1>7
    <3>2. Len(coeffExact'[e]) = Len(coeffExact[e]) + 1 /\ Len(coeffExact[e]) \in Nat
      BY <1>2, <2>2
    <3> QED  BY <3>1, <3>2
  <2>3. r.index = q /\ coeffType'[r.index + 1] = code  BY <1>6, <1>7
  <2> QED  BY <2>1, <2>2, <2>3, Zenon DEF Openable
<1>13. s = Opened(coeffType', coeffExact', r)
  <2> DEFINE f == [e \in 1 .. 3 |->
                    IF code[e] = 0 THEN Entry(coeffExact'[e], r.used[e] + 1)
                    ELSE Restored(r.last[e], code[e] - CoeffRadius, Precision[e])]
  <2>1. \A e \in 1 .. 3 : f[e] = last'[e]
    <3> TAKE e \in 1 .. 3
    <3>1. r.used[e] = Len(coeffExact[e]) /\ r.last[e] = last[e]  BY <1>7
    <3>2. f[e] = IF code[e] = 0 THEN Entry(coeffExact'[e], Len(coeffExact[e]) + 1)
                 ELSE Restored(last[e], code[e] - CoeffRadius, Precision[e])
      BY <3>1
    <3> HIDE DEF f
    <3> QED  BY <3>2, <1>2
  <2>2. last' = [e \in 1 .. 3 |-> last'[e]]  BY <1>3
  <2>3. f = [e \in 1 .. 3 |-> f[e]]  OBVIOUS
  <2> HIDE DEF f
  <2>4. f = last'  BY <2>1, <2>2, <2>3
  <2>5. r.index = q /\ coeffType'[r.index + 1] = code  BY <1>6, <1>7
  <2>6. Opened(coeffType', coeffExact', r) = [index |-> q + 1, used |-> used2, last |-> f]
    BY <2>5, <1>8, Zenon DEF Opened, f
  <2> QED  BY <2>4, <2>6, <1>10
<1>14. Taken(coeffType', coeffExact', r, s, 0)  BY <1>12, <1>13 DEF Taken
<1>15. Extends(coeffType', coeffType) /\ Len(coeffType') \in Nat
  BY <1>4, <1>6 DEF Extends
<1>16. \A e \in 1 .. 3 : Extends(coeffExact'[e], coeffExact[e]) /\ Len(coeffExact'[e]) \in Nat
  BY <1>2
<1>17. s.index = Len(coeffType') /\ \A e \in 1 .. 3 : s.used[e] = Len(coeffExact'[e])
  BY <1>6, <1>9, <1>11
<1>18. indicator' = Append(indicator, 0) /\ 0 \in {0, 1}  BY <1>1
<1>19. /\ indicator' \in Seq({0, 1}) /\ Len(indicator') = Len(indicator) + 1
       /\ Extends(indicator', indicator)
       /\ \E h2 : /\ Follows(h2, indicator', coeffType', coeffExact')
                  /\ h2[Len(indicator) + 1] = s
                  /\ \A n \in 0 .. Len(indicator) : h2[n] = h[n]
  BY <1>5, <1>11, <1>14, <1>15, <1>16, <1>17, <1>18, FollowsAppend
<1>20. PICK h2 : /\ Follows(h2, indicator', coeffType', coeffExact')
                 /\ h2[Len(indicator) + 1] = s
                 /\ \A n \in 0 .. Len(indicator) : h2[n] = h[n]
  BY <1>19
<1>21. h2[Len(indicator) + 1].last = last'  BY <1>11, <1>20
<1> QED  BY <1>3, <1>6, <1>19, <1>20, <1>21

-----------------------------------------------------------------------------
(* The start                                                               *)

LEMMA StartTyped == ASSUME Init PROVE Typed /\ Lengths
<1>1. /\ data \in Arrays /\ stage = "encode" /\ block = 0 /\ cell = 0 /\ begun = FALSE
      /\ last = NoPlane /\ cur = ZeroStrip(data) /\ next = ZeroStrip(data)
      /\ recon = ZeroArray(data) /\ out = ZeroArray(data)
      /\ indicator = << >> /\ coeffType = << >> /\ coeffExact = <<<< >>, << >>, << >>>>
      /\ type = << >> /\ unpred = << >>
  BY DEF Init
<1>2. IsArray(data) /\ DOMAIN data.at = Cells
  BY <1>1, RegressionAssumption DEF IsArray, Cells
<1>3. IsCell(data, 0, 0) /\ Index(data, 0, 0) = 0  BY <1>2, FirstDone
<1>4. last \in [1 .. 3 -> Int]  BY <1>1 DEF NoPlane
<1>5. cur \in [Strip -> Int] /\ next \in [Strip -> Int]  BY <1>1 DEF ZeroStrip, Strip
<1>6. recon \in [Cells -> Int] /\ out \in [Cells -> Int]  BY <1>1, <1>2 DEF ZeroArray
<1>7. /\ indicator \in Seq({0, 1}) /\ coeffType \in Seq([1 .. 3 -> Int])
      /\ type \in Seq(Int) /\ unpred \in Seq(Int)
      /\ Len(type) = 0 /\ Len(indicator) = 0
  BY <1>1
<1>8. coeffExact \in [1 .. 3 -> Seq(Int)]
  <2>1. /\ coeffExact \in Seq(Seq(Int)) /\ Len(coeffExact) = 3
    BY <1>1
  <2> QED  BY <2>1, LenProperties, ElementOfSeq
<1>9. Typed  BY <1>1, <1>3, <1>4, <1>5, <1>6, <1>7, <1>8, Zenon DEF Typed
<1>10. Lengths  BY <1>1, <1>3, <1>7 DEF Lengths
<1> QED  BY <1>9, <1>10

LEMMA StartBuffers == ASSUME Init, Typed PROVE Buffers /\ WithinBound
<1>1. /\ stage = "encode" /\ block = 0 /\ cell = 0 /\ begun = FALSE
      /\ cur = ZeroStrip(data) /\ next = ZeroStrip(data) /\ recon = ZeroArray(data)
  BY DEF Init
<1>2. IsArray(data) /\ DOMAIN data.at = Cells /\ Early(data.rows) \in Nat
      /\ data.rows \in Nat \ {0} /\ data.cols \in Nat \ {0}
  BY ArrayOf
<1>3. /\ IsCell(data, 0, 0) /\ Top(data, 0) = 0 /\ LeftOf(data, 0) = 0
      /\ \A x, y \in Nat : ~ Done(data, 0, 0, x, y)
  BY <1>2, FirstDone
<1>4. High(data, 0) \in 1 .. Early(data.rows) /\ High(data, 0) <= data.rows
      /\ High(data, 0) \in Nat
  <2>1. 0 \in 0 .. Total(data) /\ 0 < Total(data)
    BY <1>2, <1>3, TotalNat DEF IsCell
  <2> QED  BY <2>1, <1>2, <1>3, BlockBounds
<1>5. \A r \in 0 .. Early(data.rows), y \in 0 .. data.cols : cur[<<r, y>>] = 0 /\ next[<<r, y>>] = 0
  BY <1>1 DEF ZeroStrip
<1>6. \A x \in 0 .. data.rows - 1, y \in Int : Near(recon, x, y) = 0 \/ y >= data.cols
  <2> TAKE x \in 0 .. data.rows - 1, y \in Int
  <2>1. CASE x < 0 \/ y < 0  BY <2>1 DEF Near
  <2>2. CASE ~ (x < 0 \/ y < 0) /\ y < data.cols
    <3>1. <<x, y>> \in Cells  BY <2>2, <1>2 DEF Cells
    <3>2. recon[<<x, y>>] = 0  BY <3>1, <1>1, <1>2 DEF ZeroArray
    <3> QED  BY <3>2, <2>2 DEF Near
  <2> QED  BY <2>1, <2>2, <1>2
<1>7. Buffers
  <2> DEFINE h == High(data, 0)
             w == Wide(data, 0)
  <2>1. \A r \in 0 .. Early(data.rows) : cur[<<r, 0>>] = 0 /\ next[<<r, 0>>] = 0
    BY <1>2, <1>5
  <2>2. \A y \in 0 .. data.cols - 1 : cur[<<0, y + 1>>] = Near(recon, 0 - 1, y)
    BY <1>2, <1>5 DEF Near
  <2>3. \A y \in 0 .. data.cols - 1 :
          Done(data, 0, 0, 0 + h - 1, y) => next[<<0, y + 1>>] = recon[<<0 + h - 1, y>>]
    BY <1>2, <1>3, <1>4
  <2>4. \A r \in 0 .. h - 1 : cur[<<r + 1, 0>>] = Near(recon, 0 + r, 0 - 1)
    BY <1>2, <1>4, <1>5 DEF Near
  <2> HIDE DEF h, w
  <2> QED  BY <2>1, <2>2, <2>3, <2>4, <1>1, <1>3 DEF Buffers, h, w
<1>8. WithinBound
  <2>1. \A x \in 0 .. data.rows - 1, y \in 0 .. data.cols - 1 : ~ Done(data, 0, 0, x, y)
    BY <1>2, <1>3
  <2> QED  BY <2>1, <1>1 DEF WithinBound
<1> QED  BY <1>7, <1>8

LEMMA Start == Init => IInv
<1> SUFFICES ASSUME Init PROVE IInv
  OBVIOUS
<1>1. Typed /\ Lengths  BY StartTyped
<1>2. Buffers /\ WithinBound  BY <1>1, StartBuffers
<1>3. /\ stage = "encode" /\ block = 0 /\ cell = 0 /\ last = NoPlane
      /\ indicator = << >> /\ coeffType = << >> /\ coeffExact = <<<< >>, << >>, << >>>>
      /\ type = << >> /\ unpred = << >>
      /\ used = 0 /\ coeffIndex = 0 /\ coeffUsed = NoPlane
  BY DEF Init
<1>4. PICK g : g = [n \in 0 .. 0 |-> 0]  OBVIOUS
<1>5. PICK z : z = [index |-> 0, used |-> NoPlane, last |-> NoPlane]  OBVIOUS
<1>6. PICK h : h = [n \in 0 .. 0 |-> z]  OBVIOUS
<1>7. Counts(g, type, unpred)  BY <1>3, <1>4 DEF Counts
<1>8. Follows(h, indicator, coeffType, coeffExact)
  <2>1. z \in Side /\ z.index = 0 /\ \A e \in 1 .. 3 : z.used[e] = 0
    BY <1>5 DEF Side, NoPlane
  <2>2. h \in [0 .. 0 -> Side] /\ h[0] = z  BY <1>6, <2>1
  <2>3. Len(indicator) = 0 /\ Len(coeffType) = 0  BY <1>3
  <2>4. \A e \in 1 .. 3 : Len(coeffExact[e]) = 0  BY <1>3
  <2> QED  BY <2>1, <2>2, <2>3, <2>4, <1>5 DEF Follows
<1>9. \A b, c : ~ Encoded(b, c)
  <2>1. \A b, c : IsCell(data, b, c) => ~ Before(b, c, 0, 0)
    BY DEF IsCell, Before
  <2> QED  BY <2>1, <1>3 DEF Encoded
<1>10. last = h[Len(indicator)].last
  BY <1>3, <1>5, <1>6
<1>11. Streams(g, h)  BY <1>7, <1>8, <1>9, <1>10 DEF Streams
<1>12. Caught(g, h)  BY <1>3 DEF Caught
<1> QED  BY <1>1, <1>2, <1>11, <1>12 DEF IInv

-----------------------------------------------------------------------------
(* The cell at work                                                        *)

LEMMA Here ==
  ASSUME IsCell(data, block, cell)
  PROVE  /\ Row = RowIn(data, block, cell) /\ Col = ColIn(data, block, cell)
         /\ Height = High(data, block) /\ Width = Wide(data, block)
         /\ X = Top(data, block) + Row /\ Y = LeftOf(data, block) + Col
         /\ BlockCol = block % Across(data) /\ NumBlocks(data.cols) = Across(data)
         /\ LastCell <=> cell = High(data, block) * Wide(data, block) - 1
BY DEF Row, Col, X, Y, Height, Width, BlockRow, BlockCol, LastCell, Across,
       High, Wide, Top, LeftOf, RowIn, ColIn

LEMMA HereBounds ==
  ASSUME Typed, IsCell(data, block, cell)
  PROVE  /\ Row \in 0 .. High(data, block) - 1 /\ Col \in 0 .. Wide(data, block) - 1
         /\ X \in 0 .. data.rows - 1 /\ Y \in 0 .. data.cols - 1
         /\ block \in 0 .. Total(data) - 1 /\ block \in 0 .. Total(data)
         /\ cell \in Nat /\ <<X, Y>> = Place(data, block, cell)
         /\ Row \in Nat /\ Col \in Nat
<1>1. IsArray(data) /\ data.rows \in Nat /\ data.cols \in Nat  BY ArrayOf
<1>2. block \in 0 .. Total(data) - 1  BY DEF IsCell
<1>3. /\ block \in 0 .. Total(data) /\ cell \in Nat
      /\ RowIn(data, block, cell) \in 0 .. High(data, block) - 1
      /\ ColIn(data, block, cell) \in 0 .. Wide(data, block) - 1
      /\ Place(data, block, cell) \in (0 .. data.rows - 1) \X (0 .. data.cols - 1)
  BY <1>1, CellBounds
<1>4. /\ Row = RowIn(data, block, cell) /\ Col = ColIn(data, block, cell)
      /\ X = Top(data, block) + Row /\ Y = LeftOf(data, block) + Col
  BY Here
<1>5. <<X, Y>> = Place(data, block, cell)  BY <1>4 DEF Place
<1>6. X \in 0 .. data.rows - 1 /\ Y \in 0 .. data.cols - 1  BY <1>3, <1>5
<1>7. Row \in Nat /\ Col \in Nat  BY <1>1, <1>3, <1>4, RowColNat
<1> QED  BY <1>2, <1>3, <1>4, <1>5, <1>6, <1>7

LEMMA StepIs ==
  ASSUME Typed, IsCell(data, block, cell), Step
  PROVE  /\ block' = NextBlockOf(data, block, cell) /\ cell' = NextCellOf(data, block, cell)
         /\ begun' \in BOOLEAN /\ (~ begun' => cell' = 0)
         /\ IF LastCell /\ block = Blocks - 1
            THEN block' = Total(data) /\ cell' = 0 /\ ~ begun'
            ELSE IsCell(data, block', cell')
         /\ LastCell => block' = block + 1 /\ cell' = 0 /\ ~ begun'
         /\ ~ LastCell => block' = block /\ cell' = cell + 1 /\ begun'
<1>1. IsArray(data) /\ Blocks = Total(data)  BY ArrayOf
<1>2. LastCell <=> cell = High(data, block) * Wide(data, block) - 1  BY Here
<1>3. block \in 0 .. Total(data) - 1 /\ Total(data) \in Nat  BY <1>1, TotalNat DEF IsCell
<1>4. CASE LastCell
  <2>1. block' = block + 1 /\ cell' = 0 /\ begun' = FALSE  BY <1>4 DEF Step
  <2>2. ASSUME block # Blocks - 1 PROVE IsCell(data, block + 1, 0)
    <3>1. block + 1 \in 0 .. Total(data) - 1 /\ block + 1 \in 0 .. Total(data)
      BY <2>2, <1>1, <1>3
    <3>2. High(data, block + 1) \in 1 .. Early(data.rows) /\ Wide(data, block + 1) \in Nat \ {0}
          /\ Early(data.rows) \in Nat
      BY <3>1, <1>1, BlockBounds
    <3>3. High(data, block + 1) \in Nat \ {0}  BY <3>2
    <3>4. High(data, block + 1) * Wide(data, block + 1) \in Nat \ {0}  BY <3>2, <3>3
    <3> QED  BY <3>1, <3>4 DEF IsCell
  <2>3. block + 1 = Total(data) \/ block # Blocks - 1  BY <1>1, <1>3
  <2> QED  BY <2>1, <2>2, <2>3, <1>1, <1>2, <1>3, <1>4 DEF NextBlockOf, NextCellOf
<1>5. CASE ~ LastCell
  <2>1. block' = block /\ cell' = cell + 1 /\ begun' = TRUE  BY <1>5 DEF Step
  <2>2. IsCell(data, block, cell + 1)  BY <1>1, <1>2, <1>5, LastIs
  <2> QED  BY <2>1, <2>2, <1>2, <1>5 DEF NextBlockOf, NextCellOf
<1> QED  BY <1>4, <1>5

-----------------------------------------------------------------------------
(* Coding a value                                                          *)

\* The buffers and the rebuilt array around the cell at work.
LEMMA InReach ==
  ASSUME Typed, IsCell(data, block, cell)
  PROVE  /\ Top(data, block) \in Nat /\ LeftOf(data, block) \in Nat
         /\ High(data, block) \in Nat \ {0} /\ Wide(data, block) \in Nat \ {0}
         /\ High(data, block) <= Early(data.rows) /\ Early(data.rows) \in Nat
         /\ Top(data, block) + High(data, block) <= data.rows
         /\ LeftOf(data, block) + Wide(data, block) <= data.cols
         /\ data.rows \in Nat \ {0} /\ data.cols \in Nat \ {0}
         /\ \A r \in 0 .. High(data, block), y \in 0 .. data.cols : <<r, y>> \in Strip
<1>1. /\ IsArray(data) /\ data.rows \in Nat \ {0} /\ data.cols \in Nat \ {0}
      /\ Early(data.rows) \in Nat
  BY ArrayOf
<1>2. block \in 0 .. Total(data) /\ block < Total(data)
  BY <1>1, TotalNat DEF IsCell
<1>3. /\ Top(data, block) \in Nat /\ LeftOf(data, block) \in Nat
      /\ High(data, block) \in 1 .. Early(data.rows) /\ Wide(data, block) \in Nat \ {0}
      /\ Top(data, block) + High(data, block) <= data.rows
      /\ LeftOf(data, block) + Wide(data, block) <= data.cols
  BY <1>1, <1>2, BlockBounds
<1> QED  BY <1>1, <1>3 DEF Strip

LEMMA CurHolds ==
  ASSUME Typed, Buffers, stage = "encode", begun, ~ ByPlane, IsCell(data, block, cell),
         NEW r \in 0 .. Row + 1, NEW y \in Y .. Y + 1, r # Row + 1 \/ y # Y + 1
  PROVE  cur[<<r, y>>] = Near(recon, Top(data, block) + r - 1, y - 1)
<1> DEFINE t == Top(data, block)
           l == LeftOf(data, block)
           h == High(data, block)
           w == Wide(data, block)
<1>1. /\ t \in Nat /\ l \in Nat /\ h \in Nat \ {0} /\ w \in Nat \ {0}
      /\ h <= Early(data.rows) /\ Early(data.rows) \in Nat /\ l + w <= data.cols
      /\ data.cols \in Nat
  BY InReach
<1>2. /\ Row \in 0 .. h - 1 /\ Col \in 0 .. w - 1
      /\ X = t + Row /\ Y = l + Col /\ block \in 0 .. Total(data) - 1
      /\ Row = RowIn(data, block, cell) /\ Col = ColIn(data, block, cell)
  BY Here, HereBounds
<1>3. /\ \A i \in 0 .. Early(data.rows) : cur[<<i, 0>>] = 0
      /\ \A j \in 0 .. data.cols - 1 : cur[<<0, j + 1>>] = Near(recon, t - 1, j)
      /\ \A i \in 0 .. h - 1 : cur[<<i + 1, l>>] = Near(recon, t + i, l - 1)
      /\ \A i \in 0 .. h - 1, k \in 0 .. w - 1 :
           /\ Done(data, block, cell, t + i, l + k)
           /\ begun /\ (indicator[block + 1] # 0 \/ k = w - 1)
           => cur[<<i + 1, l + k + 1>>] = recon[<<t + i, l + k>>]
  BY Zenon DEF Buffers
<1>4. indicator[block + 1] # 0  BY DEF ByPlane
<1>5. IsArray(data)  BY ArrayOf
<1>6. \A i \in 0 .. X, j \in 0 .. Y : i # X \/ j # Y => Done(data, block, cell, i, j)
  BY <1>2, <1>5, NeighboursDone
<1> HIDE DEF t, l, h, w
<1>7. CASE r = 0
  <2>1. CASE y = 0
    <3>1. cur[<<0, 0>>] = 0  BY <1>1, <1>3
    <3> QED  BY <3>1, <2>1, <1>7 DEF Near, t
  <2>2. CASE y # 0
    <3> DEFINE j == y - 1
    <3>1. j \in 0 .. data.cols - 1 /\ y = j + 1  BY <2>2, <1>1, <1>2
    <3>2. cur[<<0, j + 1>>] = Near(recon, t - 1, j)  BY <3>1, <1>3
    <3>3. t + r - 1 = t - 1  BY <1>1, <1>7
    <3> QED  BY <3>1, <3>2, <3>3, <1>7 DEF t
  <2> QED  BY <2>1, <2>2
<1>8. CASE r # 0
  <2> DEFINE i == r - 1
             k == y - 1 - l
  <2>1. i \in 0 .. h - 1 /\ r = i + 1 /\ t + r - 1 = t + i  BY <1>1, <1>2, <1>8
  <2>2. CASE y = l
    <3>1. cur[<<i + 1, l>>] = Near(recon, t + i, l - 1)  BY <2>1, <1>3
    <3> QED  BY <3>1, <2>1, <2>2 DEF t
  <2>3. CASE y # l
    <3>1. k \in 0 .. w - 1 /\ y = l + k + 1 /\ l + k = y - 1 /\ t + i \in Nat /\ l + k \in Nat
      BY <2>1, <2>3, <1>1, <1>2
    <3>2. t + i \in 0 .. X /\ l + k \in 0 .. Y /\ (t + i # X \/ l + k # Y)
      BY <2>1, <3>1, <1>1, <1>2
    <3>3. Done(data, block, cell, t + i, l + k)  BY <3>2, <1>6
    <3>4. cur[<<i + 1, l + k + 1>>] = recon[<<t + i, l + k>>]
      BY <2>1, <3>1, <3>3, <1>3, <1>4
    <3>5. Near(recon, t + i, l + k) = recon[<<t + i, l + k>>]  BY <3>1 DEF Near
    <3> QED  BY <2>1, <3>1, <3>4, <3>5 DEF t
  <2> QED  BY <2>2, <2>3
<1> QED  BY <1>7, <1>8

\* The compressor's Lorenzo predictor sees what the decompressor will see.
LEMMA AroundIs ==
  ASSUME Typed, Buffers, stage = "encode", begun, ~ ByPlane, IsCell(data, block, cell)
  PROVE  Around(cur) = Lorenzo(recon, X, Y)
<1>1. /\ Row \in Nat /\ Y \in Nat /\ X = Top(data, block) + Row /\ Top(data, block) \in Nat
  <2>1. Row \in Nat /\ Y \in 0 .. data.cols - 1 /\ data.cols \in Nat  BY HereBounds, InReach
  <2> QED  BY <2>1, Here, InReach
<1>2. /\ Row + 1 \in 0 .. Row + 1 /\ Row \in 0 .. Row + 1 /\ Row # Row + 1
      /\ Y \in Y .. Y + 1 /\ Y + 1 \in Y .. Y + 1 /\ Y # Y + 1
  BY <1>1
<1>3. /\ cur[<<Row + 1, Y>>] = Near(recon, Top(data, block) + (Row + 1) - 1, Y - 1)
      /\ cur[<<Row, Y + 1>>] = Near(recon, Top(data, block) + Row - 1, Y + 1 - 1)
      /\ cur[<<Row, Y>>] = Near(recon, Top(data, block) + Row - 1, Y - 1)
  BY <1>2, CurHolds
<1>4. Top(data, block) + (Row + 1) - 1 = X /\ Top(data, block) + Row - 1 = X - 1 /\ Y + 1 - 1 = Y
  BY <1>1
<1>5. /\ cur[<<Row + 1, Y>>] = Near(recon, X, Y - 1)
      /\ cur[<<Row, Y + 1>>] = Near(recon, X - 1, Y)
      /\ cur[<<Row, Y>>] = Near(recon, X - 1, Y - 1)
  BY <1>3, <1>4
<1> QED  BY <1>5 DEF Around, Lorenzo

LEMMA LorenzoInt ==
  ASSUME NEW a, IsArray(a), NEW f \in [(0 .. a.rows - 1) \X (0 .. a.cols - 1) -> Int],
         NEW x \in 0 .. a.rows - 1, NEW y \in 0 .. a.cols - 1
  PROVE  Lorenzo(f, x, y) \in Int
<1>1. a.rows \in Nat /\ a.cols \in Nat  BY DEF IsArray
<1>2. ASSUME NEW i \in {x - 1, x}, NEW j \in {y - 1, y} PROVE Near(f, i, j) \in Int
  <2>1. CASE i < 0 \/ j < 0  BY <2>1 DEF Near
  <2>2. CASE ~ (i < 0 \/ j < 0)
    <3>1. i \in 0 .. a.rows - 1 /\ j \in 0 .. a.cols - 1  BY <2>2, <1>1
    <3>2. f[<<i, j>>] \in Int  BY <3>1
    <3> QED  BY <3>2, <2>2 DEF Near
  <2> QED  BY <2>1, <2>2
<1>3. Near(f, x, y - 1) + Near(f, x - 1, y) - Near(f, x - 1, y - 1) \in Int  BY <1>2
<1> QED  BY <1>3, RoundInt DEF Lorenzo

\* What a write changes.
LEMMA WriteOne ==
  ASSUME NEW S, NEW f \in [S -> Int], NEW p \in S, NEW v \in Int
  PROVE  /\ [f EXCEPT ![p] = v] \in [S -> Int]
         /\ \A q \in S : [f EXCEPT ![p] = v][q] = IF q = p THEN v ELSE f[q]
OBVIOUS

StripWith(v) == IF Visible THEN [cur EXCEPT ![<<Row + 1, Y + 1>>] = v] ELSE cur
BelowWith(v) == IF Below THEN [next EXCEPT ![<<0, Y + 1>>] = v] ELSE next

\* The buffers once the value of the cell at work is in them: what they held
\* of the cells that were done they hold of this one too.
LEMMA Written ==
  ASSUME Typed, Buffers, stage = "encode", begun, IsCell(data, block, cell),
         NEW kept \in Int, recon' = [recon EXCEPT ![<<X, Y>>] = kept]
  PROVE  LET t == Top(data, block)
             l == LeftOf(data, block)
             h == High(data, block)
             w == Wide(data, block)
             strip == StripWith(kept)
             below == BelowWith(kept)
         IN
         /\ strip \in [Strip -> Int] /\ below \in [Strip -> Int] /\ recon' \in [Cells -> Int]
         /\ \A x \in 0 .. data.rows - 1, y \in 0 .. data.cols - 1 :
              recon'[<<x, y>>] = IF x = X /\ y = Y THEN kept ELSE recon[<<x, y>>]
         /\ \A r \in 0 .. Early(data.rows) : strip[<<r, 0>>] = 0 /\ below[<<r, 0>>] = 0
         /\ \A y \in 0 .. data.cols - 1 : strip[<<0, y + 1>>] = Near(recon', t - 1, y)
         /\ \A y \in 0 .. data.cols - 1 :
              Done(data, block, cell, t + h - 1, y) \/ (t + h - 1 = X /\ y = Y)
                => below[<<0, y + 1>>] = recon'[<<t + h - 1, y>>]
         /\ \A r \in 0 .. h - 1 : strip[<<r + 1, l>>] = Near(recon', t + r, l - 1)
         /\ \A r \in 0 .. h - 1, k \in 0 .. w - 1 :
              /\ Done(data, block, cell, t + r, l + k) \/ (t + r = X /\ l + k = Y)
              /\ indicator[block + 1] # 0 \/ k = w - 1
              => strip[<<r + 1, l + k + 1>>] = recon'[<<t + r, l + k>>]
<1> DEFINE t == Top(data, block)
           l == LeftOf(data, block)
           h == High(data, block)
           w == Wide(data, block)
           strip == StripWith(kept)
           below == BelowWith(kept)
<1> t = Top(data, block) /\ l = LeftOf(data, block) /\ h = High(data, block)
    /\ w = Wide(data, block) /\ strip = StripWith(kept) /\ below = BelowWith(kept)
  OBVIOUS
<1> HIDE DEF t, l, h, w, strip, below
<1>1. /\ t \in Nat /\ l \in Nat /\ h \in Nat \ {0} /\ w \in Nat \ {0}
      /\ h <= Early(data.rows) /\ Early(data.rows) \in Nat
      /\ t + h <= data.rows /\ l + w <= data.cols
      /\ data.rows \in Nat \ {0} /\ data.cols \in Nat \ {0}
      /\ \A r \in 0 .. h, y \in 0 .. data.cols : <<r, y>> \in Strip
  BY InReach
<1>2. /\ Row \in 0 .. h - 1 /\ Col \in 0 .. w - 1 /\ X = t + Row /\ Y = l + Col
      /\ X \in 0 .. data.rows - 1 /\ Y \in 0 .. data.cols - 1
      /\ Height = h /\ Width = w
      /\ Row = RowIn(data, block, cell) /\ Col = ColIn(data, block, cell)
  BY Here, HereBounds
<1>3. /\ \A r \in 0 .. Early(data.rows) : cur[<<r, 0>>] = 0 /\ next[<<r, 0>>] = 0
      /\ \A y \in 0 .. data.cols - 1 : cur[<<0, y + 1>>] = Near(recon, t - 1, y)
      /\ \A y \in 0 .. data.cols - 1 :
           Done(data, block, cell, t + h - 1, y) => next[<<0, y + 1>>] = recon[<<t + h - 1, y>>]
      /\ \A r \in 0 .. h - 1 : cur[<<r + 1, l>>] = Near(recon, t + r, l - 1)
      /\ \A r \in 0 .. h - 1, k \in 0 .. w - 1 :
           /\ Done(data, block, cell, t + r, l + k)
           /\ begun /\ (indicator[block + 1] # 0 \/ k = w - 1)
           => cur[<<r + 1, l + k + 1>>] = recon[<<t + r, l + k>>]
  BY Zenon DEF Buffers
<1>4. cur \in [Strip -> Int] /\ next \in [Strip -> Int] /\ recon \in [Cells -> Int]
  BY DEF Typed
<1>5. <<Row + 1, Y + 1>> \in Strip /\ <<0, Y + 1>> \in Strip /\ <<X, Y>> \in Cells
  <2>1. Row + 1 \in 0 .. h /\ 0 \in 0 .. h /\ Y + 1 \in 0 .. data.cols  BY <1>1, <1>2
  <2> QED  BY <2>1, <1>1, <1>2 DEF Cells
<1>6. /\ strip \in [Strip -> Int]
      /\ \A r \in 0 .. Early(data.rows), y \in 0 .. data.cols :
           strip[<<r, y>>] = IF Visible /\ r = Row + 1 /\ y = Y + 1 THEN kept ELSE cur[<<r, y>>]
  <2>1. \A r \in 0 .. Early(data.rows), y \in 0 .. data.cols : <<r, y>> \in Strip  BY DEF Strip
  <2>2. CASE Visible
    <3>1. strip = [cur EXCEPT ![<<Row + 1, Y + 1>>] = kept]  BY <2>2 DEF StripWith
    <3>2. /\ strip \in [Strip -> Int]
          /\ \A q \in Strip : strip[q] = IF q = <<Row + 1, Y + 1>> THEN kept ELSE cur[q]
      BY <3>1, <1>4, <1>5, WriteOne
    <3> QED  BY <3>2, <2>1, <2>2
  <2>3. CASE ~ Visible  BY <2>3, <1>4 DEF StripWith
  <2> QED  BY <2>2, <2>3
<1>7. /\ below \in [Strip -> Int]
      /\ \A r \in 0 .. Early(data.rows), y \in 0 .. data.cols :
           below[<<r, y>>] = IF Below /\ r = 0 /\ y = Y + 1 THEN kept ELSE next[<<r, y>>]
  <2>1. \A r \in 0 .. Early(data.rows), y \in 0 .. data.cols : <<r, y>> \in Strip  BY DEF Strip
  <2>2. CASE Below
    <3>1. below = [next EXCEPT ![<<0, Y + 1>>] = kept]  BY <2>2 DEF BelowWith
    <3>2. /\ below \in [Strip -> Int]
          /\ \A q \in Strip : below[q] = IF q = <<0, Y + 1>> THEN kept ELSE next[q]
      BY <3>1, <1>4, <1>5, WriteOne
    <3> QED  BY <3>2, <2>1, <2>2
  <2>3. CASE ~ Below  BY <2>3, <1>4 DEF BelowWith
  <2> QED  BY <2>2, <2>3
<1>8. /\ recon' \in [Cells -> Int]
      /\ \A x \in 0 .. data.rows - 1, y \in 0 .. data.cols - 1 :
           recon'[<<x, y>>] = IF x = X /\ y = Y THEN kept ELSE recon[<<x, y>>]
  <2>1. /\ recon' \in [Cells -> Int]
        /\ \A q \in Cells : recon'[q] = IF q = <<X, Y>> THEN kept ELSE recon[q]
    BY <1>4, <1>5, WriteOne
  <2>2. \A x \in 0 .. data.rows - 1, y \in 0 .. data.cols - 1 : <<x, y>> \in Cells  BY DEF Cells
  <2> QED  BY <2>1, <2>2
<1>9. ~ Done(data, block, cell, X, Y)
  BY <1>2, NotDone, ArrayOf
<1>10. Visible <=> (indicator[block + 1] # 0 \/ Col = w - 1)
  BY <1>2 DEF Visible, ByPlane
<1>11. Below <=> Row = h - 1  BY <1>2 DEF Below
<1>12. \A i, j \in Int : i < data.rows /\ j < data.cols /\ (i # X \/ j # Y)
                          => Near(recon', i, j) = Near(recon, i, j)
  <2> TAKE i, j \in Int
  <2>1. CASE i < 0 \/ j < 0  BY <2>1 DEF Near
  <2>2. CASE ~ (i < 0 \/ j < 0) /\ i < data.rows /\ j < data.cols
    <3>1. i \in 0 .. data.rows - 1 /\ j \in 0 .. data.cols - 1  BY <2>2, <1>1
    <3> QED  BY <3>1, <2>2, <1>8 DEF Near
  <2> QED  BY <2>1, <2>2
<1>13. ASSUME NEW r \in 0 .. Early(data.rows) PROVE strip[<<r, 0>>] = 0 /\ below[<<r, 0>>] = 0
  BY <1>1, <1>2, <1>3, <1>6, <1>7
<1>14. ASSUME NEW y \in 0 .. data.cols - 1 PROVE strip[<<0, y + 1>>] = Near(recon', t - 1, y)
  <2>1. /\ 0 \in 0 .. Early(data.rows) /\ y + 1 \in 0 .. data.cols /\ 0 # Row + 1
        /\ t - 1 \in Int /\ y \in Int /\ t - 1 < data.rows /\ t - 1 # X
    BY <1>1, <1>2
  <2>2. strip[<<0, y + 1>>] = cur[<<0, y + 1>>]  BY <2>1, <1>6
  <2>3. y < data.cols  BY <1>1
  <2>4. Near(recon', t - 1, y) = Near(recon, t - 1, y)  BY <2>1, <2>3, <1>12, Zenon
  <2> QED  BY <2>2, <2>4, <1>3
<1>15. ASSUME NEW y \in 0 .. data.cols - 1,
              Done(data, block, cell, t + h - 1, y) \/ (t + h - 1 = X /\ y = Y)
       PROVE  below[<<0, y + 1>>] = recon'[<<t + h - 1, y>>]
  <2>1. /\ 0 \in 0 .. Early(data.rows) /\ y + 1 \in 0 .. data.cols
        /\ t + h - 1 \in 0 .. data.rows - 1 /\ (t + h - 1 = X <=> Row = h - 1)
        /\ (y + 1 = Y + 1 <=> y = Y)
    BY <1>1, <1>2
  <2>2. /\ below[<<0, y + 1>>] = IF Below /\ y = Y THEN kept ELSE next[<<0, y + 1>>]
        /\ recon'[<<t + h - 1, y>>]
             = IF t + h - 1 = X /\ y = Y THEN kept ELSE recon[<<t + h - 1, y>>]
    BY <2>1, <1>7, <1>8
  <2> QED  BY <2>1, <2>2, <1>3, <1>9, <1>11, <1>15
<1>16. ASSUME NEW r \in 0 .. h - 1 PROVE strip[<<r + 1, l>>] = Near(recon', t + r, l - 1)
  <2>1. /\ r + 1 \in 0 .. Early(data.rows) /\ l \in 0 .. data.cols /\ l # Y + 1
        /\ t + r \in Int /\ l - 1 \in Int /\ t + r < data.rows /\ l - 1 < data.cols /\ l - 1 # Y
    BY <1>1, <1>2
  <2>2. strip[<<r + 1, l>>] = cur[<<r + 1, l>>]  BY <2>1, <1>6
  <2>3. Near(recon', t + r, l - 1) = Near(recon, t + r, l - 1)  BY <2>1, <1>12
  <2> QED  BY <2>2, <2>3, <1>3
<1>17. ASSUME NEW r \in 0 .. h - 1, NEW k \in 0 .. w - 1,
              Done(data, block, cell, t + r, l + k) \/ (t + r = X /\ l + k = Y),
              indicator[block + 1] # 0 \/ k = w - 1
       PROVE  strip[<<r + 1, l + k + 1>>] = recon'[<<t + r, l + k>>]
  <2>1. /\ r + 1 \in 0 .. Early(data.rows) /\ l + k + 1 \in 0 .. data.cols
        /\ t + r \in 0 .. data.rows - 1 /\ l + k \in 0 .. data.cols - 1
        /\ (r + 1 = Row + 1 <=> t + r = X) /\ (l + k + 1 = Y + 1 <=> l + k = Y)
        /\ (l + k = Y <=> k = Col)
    BY <1>1, <1>2
  <2>2. /\ strip[<<r + 1, l + k + 1>>]
             = IF Visible /\ t + r = X /\ l + k = Y THEN kept ELSE cur[<<r + 1, l + k + 1>>]
        /\ recon'[<<t + r, l + k>>]
             = IF t + r = X /\ l + k = Y THEN kept ELSE recon[<<t + r, l + k>>]
    BY <2>1, <1>6, <1>8
  <2>3. CASE t + r = X /\ l + k = Y
    <3>1. Visible  BY <2>1, <2>3, <1>10, <1>17
    <3> QED  BY <3>1, <2>2, <2>3
  <2>4. CASE ~ (t + r = X /\ l + k = Y)
    <3>1. cur[<<r + 1, l + k + 1>>] = recon[<<t + r, l + k>>]
      BY <2>4, <1>3, <1>17
    <3> QED  BY <3>1, <2>2, <2>4
  <2> QED  BY <2>3, <2>4
<1>18. /\ \A r \in 0 .. Early(data.rows) : strip[<<r, 0>>] = 0 /\ below[<<r, 0>>] = 0
       /\ \A y \in 0 .. data.cols - 1 : strip[<<0, y + 1>>] = Near(recon', t - 1, y)
       /\ \A r \in 0 .. h - 1 : strip[<<r + 1, l>>] = Near(recon', t + r, l - 1)
  BY <1>13, <1>14, <1>16
<1>19. \A y \in 0 .. data.cols - 1 :
         Done(data, block, cell, t + h - 1, y) \/ (t + h - 1 = X /\ y = Y)
           => below[<<0, y + 1>>] = recon'[<<t + h - 1, y>>]
  BY <1>15
<1>20. \A r \in 0 .. h - 1, k \in 0 .. w - 1 :
         /\ Done(data, block, cell, t + r, l + k) \/ (t + r = X /\ l + k = Y)
         /\ indicator[block + 1] # 0 \/ k = w - 1
         => strip[<<r + 1, l + k + 1>>] = recon'[<<t + r, l + k>>]
  BY <1>17
<1> QED  BY <1>6, <1>7, <1>8, <1>18, <1>19, <1>20, Zenon DEF t, l, h, w, strip, below

\* The prediction of the cell at work.
Prediction(f) == IF ByPlane THEN Plane(last, Row, Col) ELSE Lorenzo(f, X, Y)

LEMMA PredictionInt ==
  ASSUME Typed, IsCell(data, block, cell), NEW f \in [Cells -> Int]
  PROVE  Prediction(f) \in Int
<1>1. /\ Row \in Int /\ Col \in Int /\ X \in 0 .. data.rows - 1 /\ Y \in 0 .. data.cols - 1
  BY HereBounds
<1>2. last \in [1 .. 3 -> Int]  BY DEF Typed
<1>3. IsArray(data) /\ f \in [(0 .. data.rows - 1) \X (0 .. data.cols - 1) -> Int]
  BY ArrayOf DEF Cells
<1>4. Plane(last, Row, Col) \in Int  BY <1>1, <1>2, PlaneInt
<1>5. Lorenzo(f, X, Y) \in Int  BY <1>1, <1>3, LorenzoInt
<1> QED  BY <1>4, <1>5 DEF Prediction

\* What coding a value does, in one place.
LEMMA ValueCoded ==
  ASSUME Typed, Buffers, EncodeValue
  PROVE  /\ stage = "encode" /\ begun /\ IsCell(data, block, cell) /\ Step /\ data' = data
         /\ stage' = (IF LastCell /\ block = Blocks - 1 THEN "coded" ELSE "encode")
         /\ UNCHANGED <<last, indicator, coeffType, coeffExact, out, used, coeffIndex, coeffUsed>>
         /\ data.at[<<X, Y>>] \in Int
         /\ \E kept \in Int, t \in Int :
              /\ recon' = [recon EXCEPT ![<<X, Y>>] = kept]
              /\ type' = Append(type, t)
              /\ unpred' = IF t = 0 THEN Append(unpred, data.at[<<X, Y>>]) ELSE unpred
              /\ kept = IF t = 0 THEN data.at[<<X, Y>>]
                        ELSE Restored(Prediction(recon), t - Radius, Eb)
              /\ Abs(kept - data.at[<<X, Y>>]) <= Eb
              /\ IF LastCell /\ block % Across(data) = Across(data) - 1
                 THEN cur' = BelowWith(kept) /\ next' = StripWith(kept)
                 ELSE cur' = StripWith(kept) /\ next' = BelowWith(kept)
<1>1. /\ stage = "encode" /\ begun /\ Step /\ data' = data
      /\ stage' = (IF LastCell /\ block = Blocks - 1 THEN "coded" ELSE "encode")
      /\ UNCHANGED <<last, indicator, coeffType, coeffExact, out, used, coeffIndex, coeffUsed>>
  BY Zenon DEF EncodeValue, cursors
<1>2. IsCell(data, block, cell)  BY <1>1, Zenon DEF Typed
<1>3. X \in 0 .. data.rows - 1 /\ Y \in 0 .. data.cols - 1  BY <1>2, HereBounds
<1>4. data.at[<<X, Y>>] \in Int  BY <1>3, ArrayOf DEF IsArray
<1>5. PICK v : v = data.at[<<X, Y>>]  OBVIOUS
<1>6. PICK p : p = IF ByPlane THEN Plane(last, Row, Col) ELSE Around(cur)  OBVIOUS
<1>7. PICK capacity : capacity = IF ByPlane THEN Capacity ELSE Capacity - 2  OBVIOUS
<1>8. PICK kept : kept = KeptOf(v, p, capacity)  OBVIOUS
<1>9. PICK t : t = TypeOf(v, p, capacity)  OBVIOUS
<1>10. p = Prediction(recon)
  <2>1. CASE ByPlane  BY <2>1, <1>6 DEF Prediction
  <2>2. CASE ~ ByPlane
    <3>1. Around(cur) = Lorenzo(recon, X, Y)  BY <2>2, <1>1, <1>2, AroundIs
    <3> QED  BY <2>2, <3>1, <1>6 DEF Prediction
  <2> QED  BY <2>1, <2>2
<1>11. v \in Int /\ p \in Int /\ capacity \in {Capacity, Capacity - 2}
  <2>1. recon \in [Cells -> Int]  BY DEF Typed
  <2> QED  BY <2>1, <1>2, <1>4, <1>5, <1>7, <1>10, PredictionInt
<1>12. /\ kept \in Int /\ t \in Int /\ Abs(kept - v) <= Eb
       /\ (t = 0 <=> ~ Coded(v, p, Eb, capacity))
       /\ kept = IF t = 0 THEN v ELSE Restored(p, t - Radius, Eb)
  BY <1>8, <1>9, <1>11, Kept
<1>15. /\ type' = Append(type, t)
       /\ unpred' = IF Coded(v, p, Eb, capacity) THEN unpred ELSE Append(unpred, v)
       /\ recon' = [recon EXCEPT ![<<X, Y>>] = kept]
       /\ cur' = IF LastCell /\ BlockCol = NumBlocks(data.cols) - 1
                 THEN BelowWith(kept) ELSE StripWith(kept)
       /\ next' = IF LastCell /\ BlockCol = NumBlocks(data.cols) - 1
                  THEN StripWith(kept) ELSE BelowWith(kept)
  BY <1>5, <1>6, <1>7, <1>8, <1>9, Zenon
  DEF EncodeValue, KeptOf, TypeOf, StripWith, BelowWith
<1>16. BlockCol = block % Across(data) /\ NumBlocks(data.cols) = Across(data)
  BY <1>2, Here
<1>17. unpred' = IF t = 0 THEN Append(unpred, v) ELSE unpred  BY <1>12, <1>15
<1>18. IF LastCell /\ block % Across(data) = Across(data) - 1
       THEN cur' = BelowWith(kept) /\ next' = StripWith(kept)
       ELSE cur' = StripWith(kept) /\ next' = BelowWith(kept)
  BY <1>15, <1>16
<1>19. \E kept2 \in Int, t2 \in Int :
         /\ recon' = [recon EXCEPT ![<<X, Y>>] = kept2]
         /\ type' = Append(type, t2)
         /\ unpred' = IF t2 = 0 THEN Append(unpred, v) ELSE unpred
         /\ kept2 = IF t2 = 0 THEN v ELSE Restored(Prediction(recon), t2 - Radius, Eb)
         /\ Abs(kept2 - v) <= Eb
         /\ IF LastCell /\ block % Across(data) = Across(data) - 1
            THEN cur' = BelowWith(kept2) /\ next' = StripWith(kept2)
            ELSE cur' = StripWith(kept2) /\ next' = BelowWith(kept2)
  <2> kept \in Int /\ t \in Int  BY <1>12
  <2> WITNESS kept \in Int, t \in Int
  <2> QED  BY <1>10, <1>12, <1>15, <1>17, <1>18
<1> QED  BY <1>1, <1>2, <1>4, <1>5, <1>19

\* The buffers after the step, wherever it goes: on in the block, to the block
\* on the right, or to the next strip, where they have changed places.
LEMMA BuffersStep ==
  ASSUME Typed, Buffers, EncodeValue
  PROVE  Buffers'
<1> DEFINE t == Top(data, block)
           l == LeftOf(data, block)
           h == High(data, block)
           w == Wide(data, block)
<1> t = Top(data, block) /\ l = LeftOf(data, block) /\ h = High(data, block)
    /\ w = Wide(data, block)
  OBVIOUS
<1> PICK b : b = block'  OBVIOUS
<1> PICK c : c = cell'  OBVIOUS
<1>1. /\ stage = "encode" /\ begun /\ IsCell(data, block, cell) /\ Step /\ data' = data
      /\ stage' = (IF LastCell /\ block = Blocks - 1 THEN "coded" ELSE "encode")
      /\ indicator' = indicator
  BY ValueCoded
<1>0. PICK kept \in Int :
        /\ recon' = [recon EXCEPT ![<<X, Y>>] = kept]
        /\ IF LastCell /\ block % Across(data) = Across(data) - 1
           THEN cur' = BelowWith(kept) /\ next' = StripWith(kept)
           ELSE cur' = StripWith(kept) /\ next' = BelowWith(kept)
  BY ValueCoded
<1> DEFINE strip == StripWith(kept)
           below == BelowWith(kept)
<1>2. IF LastCell /\ block % Across(data) = Across(data) - 1
           THEN cur' = below /\ next' = strip
        ELSE cur' = strip /\ next' = below
  BY <1>0
<1>3. /\ \A r \in 0 .. Early(data.rows) : strip[<<r, 0>>] = 0 /\ below[<<r, 0>>] = 0
      /\ \A y \in 0 .. data.cols - 1 : strip[<<0, y + 1>>] = Near(recon', t - 1, y)
      /\ \A y \in 0 .. data.cols - 1 :
           Done(data, block, cell, t + h - 1, y) \/ (t + h - 1 = X /\ y = Y)
             => below[<<0, y + 1>>] = recon'[<<t + h - 1, y>>]
      /\ \A r \in 0 .. h - 1 : strip[<<r + 1, l>>] = Near(recon', t + r, l - 1)
      /\ \A r \in 0 .. h - 1, k \in 0 .. w - 1 :
           /\ Done(data, block, cell, t + r, l + k) \/ (t + r = X /\ l + k = Y)
           /\ indicator[block + 1] # 0 \/ k = w - 1
           => strip[<<r + 1, l + k + 1>>] = recon'[<<t + r, l + k>>]
  BY <1>0, <1>1, Written, Zenon
<1> HIDE DEF t, l, h, w, strip, below
<1>4. SUFFICES ASSUME stage' = "encode" PROVE Buffers'
  BY DEF Buffers
<1>5. IsArray(data)  BY ArrayOf
<1>6. /\ t \in Nat /\ l \in Nat /\ h \in Nat \ {0} /\ w \in Nat \ {0}
      /\ h <= Early(data.rows) /\ Early(data.rows) \in Nat
      /\ t + h <= data.rows /\ l + w <= data.cols
      /\ data.rows \in Nat \ {0} /\ data.cols \in Nat \ {0}
  BY <1>1, InReach
<1>7. /\ IsCell(data, b, c) /\ b = NextBlockOf(data, block, cell)
      /\ c = NextCellOf(data, block, cell)
      /\ LastCell => b = block + 1 /\ c = 0 /\ ~ begun'
      /\ ~ LastCell => b = block
  BY <1>1, <1>4, StepIs
<1>8. \A x \in 0 .. data.rows - 1, y \in 0 .. data.cols - 1 :
        Done(data, b, c, x, y) => Done(data, block, cell, x, y) \/ (x = X /\ y = Y)
  <2> TAKE x \in 0 .. data.rows - 1, y \in 0 .. data.cols - 1
  <2>1. Done(data, b, c, x, y) <=> Done(data, block, cell, x, y) \/ <<x, y>> = Place(data, block, cell)
    BY <1>1, <1>5, <1>7, NextDone
  <2>2. Place(data, block, cell) = <<X, Y>>  BY <1>1, HereBounds
  <2> QED  BY <2>1, <2>2
<1>9. \A y \in 0 .. data.cols - 1 :
        Done(data, b, c, t + h - 1, y) => below[<<0, y + 1>>] = recon'[<<t + h - 1, y>>]
  <2>1. t + h - 1 \in 0 .. data.rows - 1  BY <1>6
  <2> QED  BY <2>1, <1>3, <1>8
<1>10. \A r \in 0 .. h - 1, k \in 0 .. w - 1 :
         /\ Done(data, b, c, t + r, l + k) /\ (indicator[block + 1] # 0 \/ k = w - 1)
         => strip[<<r + 1, l + k + 1>>] = recon'[<<t + r, l + k>>]
  <2> TAKE r \in 0 .. h - 1, k \in 0 .. w - 1
  <2>1. t + r \in 0 .. data.rows - 1 /\ l + k \in 0 .. data.cols - 1  BY <1>6
  <2> QED  BY <2>1, <1>3, <1>8
<1> DEFINE t2 == Top(data, b)
           l2 == LeftOf(data, b)
           h2 == High(data, b)
           w2 == Wide(data, b)
<1>11. SUFFICES
         /\ \A r \in 0 .. Early(data.rows) : cur'[<<r, 0>>] = 0 /\ next'[<<r, 0>>] = 0
         /\ \A y \in 0 .. data.cols - 1 : cur'[<<0, y + 1>>] = Near(recon', t2 - 1, y)
         /\ \A y \in 0 .. data.cols - 1 :
              Done(data, b, c, t2 + h2 - 1, y)
                => next'[<<0, y + 1>>] = recon'[<<t2 + h2 - 1, y>>]
         /\ \A r \in 0 .. h2 - 1 : cur'[<<r + 1, l2>>] = Near(recon', t2 + r, l2 - 1)
         /\ \A r \in 0 .. h2 - 1, k \in 0 .. w2 - 1 :
              /\ Done(data, b, c, t2 + r, l2 + k)
              /\ begun' /\ (indicator[b + 1] # 0 \/ k = w2 - 1)
              => cur'[<<r + 1, l2 + k + 1>>] = recon'[<<t2 + r, l2 + k>>]
  BY <1>1, Zenon DEF Buffers
<1>12. CASE ~ LastCell
  <2>1. b = block /\ t2 = t /\ l2 = l /\ h2 = h /\ w2 = w  BY <1>7, <1>12
  <2>2. cur' = strip /\ next' = below  BY <1>2, <1>12
  <2> HIDE DEF t2, l2, h2, w2
  <2> QED  BY <2>1, <2>2, <1>3, <1>9, <1>10
<1>13. CASE LastCell /\ block % Across(data) # Across(data) - 1
  <2>1. b = block + 1 /\ c = 0 /\ ~ begun'  BY <1>7, <1>13
  <2>2. t2 = t /\ h2 = h /\ l2 = l + w
    <3>1. block \in 0 .. Total(data) - 1  BY <1>1, HereBounds
    <3> QED  BY <3>1, <2>1, <1>5, <1>13, NextBlock
  <2>3. cur' = strip /\ next' = below  BY <1>2, <1>13
  <2>4. \A r \in 0 .. h - 1 : strip[<<r + 1, l + w>>] = Near(recon', t + r, l + w - 1)
    <3> TAKE r \in 0 .. h - 1
    <3> DEFINE k == w - 1
    <3>1. k \in 0 .. w - 1 /\ l + k + 1 = l + w /\ l + k = l + w - 1 /\ t + r \in Nat /\ l + k \in Nat
      BY <1>6
    <3>2. t + r < t2 + h2 /\ l + k < l2  BY <2>2, <1>6
    <3>3. Done(data, b, c, t + r, l + k)  BY <3>2 DEF Done
    <3>4. strip[<<r + 1, l + k + 1>>] = recon'[<<t + r, l + k>>]  BY <3>1, <3>3, <1>10
    <3>5. Near(recon', t + r, l + k) = recon'[<<t + r, l + k>>]  BY <3>1 DEF Near
    <3> QED  BY <3>1, <3>4, <3>5
  <2>5. \A y \in 0 .. data.cols - 1 :
          Done(data, b, c, t2 + h2 - 1, y) => below[<<0, y + 1>>] = recon'[<<t2 + h2 - 1, y>>]
    BY <2>2, <1>9, Zenon
  <2>6. \A y \in 0 .. data.cols - 1 : strip[<<0, y + 1>>] = Near(recon', t2 - 1, y)
    BY <2>2, <1>3, Zenon
  <2>7. \A r \in 0 .. h2 - 1 : strip[<<r + 1, l2>>] = Near(recon', t2 + r, l2 - 1)
    <3> TAKE r \in 0 .. h2 - 1
    <3> HIDE DEF t2, l2, h2
    <3>1. r \in 0 .. h - 1  BY <2>2
    <3>2. strip[<<r + 1, l + w>>] = Near(recon', t + r, l + w - 1)  BY <2>4, <3>1
    <3> QED  BY <2>2, <3>2, <1>6
  <2> HIDE DEF t2, l2, h2, w2
  <2> QED  BY <2>1, <2>3, <2>5, <2>6, <2>7, <1>3
<1>14. CASE LastCell /\ block % Across(data) = Across(data) - 1
  <2>1. b = block + 1 /\ c = 0 /\ ~ begun'  BY <1>7, <1>14
  <2>2. t2 = t + h /\ l2 = 0
    <3>1. block \in 0 .. Total(data) - 1  BY <1>1, HereBounds
    <3> QED  BY <3>1, <2>1, <1>5, <1>14, NextBlock
  <2>3. cur' = below /\ next' = strip  BY <1>2, <1>14
  <2>4. /\ b \in 0 .. Total(data) /\ RowIn(data, b, c) = 0 /\ ColIn(data, b, c) = 0
        /\ b < Total(data)
    <3>1. b \in 0 .. Total(data) /\ b < Total(data)  BY <1>5, <1>7, TotalNat DEF IsCell
    <3> QED  BY <3>1, <2>1, <1>5, RowColZero
  <2>5. h2 \in Nat \ {0} /\ w2 \in Nat \ {0} /\ h2 <= Early(data.rows)
    <3>1. h2 \in 1 .. Early(data.rows) /\ w2 \in Nat \ {0}  BY <2>4, <1>5, BlockBounds
    <3> QED  BY <3>1, <1>6
  <2>6. \A y \in 0 .. data.cols - 1 : below[<<0, y + 1>>] = Near(recon', t2 - 1, y)
    <3> TAKE y \in 0 .. data.cols - 1
    <3>1. t + h - 1 < t2  BY <2>2, <1>6
    <3>2. Done(data, b, c, t + h - 1, y)  BY <3>1 DEF Done
    <3>3. below[<<0, y + 1>>] = recon'[<<t + h - 1, y>>]  BY <3>2, <1>9
    <3>4. t + h - 1 \in Nat /\ y \in Nat /\ t2 - 1 = t + h - 1  BY <2>2, <1>6
    <3>5. Near(recon', t + h - 1, y) = recon'[<<t + h - 1, y>>]  BY <3>4 DEF Near
    <3> QED  BY <3>3, <3>4, <3>5
  <2>7. \A y \in 0 .. data.cols - 1 : ~ Done(data, b, c, t2 + h2 - 1, y)
    <3> TAKE y \in 0 .. data.cols - 1
    <3>1. ~ (t2 + h2 - 1 < t2) /\ ~ (y < l2) /\ ~ (t2 + h2 - 1 - t2 < 0) /\ ~ (y - l2 < 0)
      BY <2>2, <2>5, <1>6
    <3> DEFINE x == t2 + h2 - 1
    <3>2. Done(data, b, c, x, y) <=>
            \/ x < t2
            \/ /\ x < t2 + h2
               /\ \/ y < l2
                  \/ y < l2 + w2 /\ (x - t2 < 0 \/ (x - t2 = 0 /\ y - l2 < 0))
      BY <2>4 DEF Done
    <3> HIDE DEF x, t2, l2, h2, w2
    <3>3. ~ (x < t2) /\ ~ (y < l2) /\ ~ (x - t2 < 0) /\ ~ (y - l2 < 0)
      BY <2>2, <2>5, <1>6 DEF x
    <3> QED  BY <3>2, <3>3 DEF x
  <2>8. \A r \in 0 .. h2 - 1 : below[<<r + 1, l2>>] = Near(recon', t2 + r, l2 - 1)
    <3> TAKE r \in 0 .. h2 - 1
    <3>1. r + 1 \in 0 .. Early(data.rows) /\ l2 - 1 < 0  BY <2>2, <2>5, <1>6
    <3>2. below[<<r + 1, 0>>] = 0  BY <3>1, <1>3
    <3>3. Near(recon', t2 + r, l2 - 1) = 0  BY <3>1 DEF Near
    <3> QED  BY <3>2, <3>3, <2>2
  <2> HIDE DEF t2, l2, h2, w2
  <2> QED  BY <2>1, <2>3, <2>6, <2>7, <2>8, <1>3
<1> QED  BY <1>12, <1>13, <1>14

\* The Lorenzo predictor reads only what is above and to the left.
LEMMA LorenzoSame ==
  ASSUME NEW f, NEW f2, NEW x \in Nat, NEW y \in Nat,
         \A i \in 0 .. x, j \in 0 .. y : i # x \/ j # y => f2[<<i, j>>] = f[<<i, j>>]
  PROVE  Lorenzo(f2, x, y) = Lorenzo(f, x, y)
<1>1. ASSUME NEW i \in {x - 1, x}, NEW j \in {y - 1, y}, i # x \/ j # y
      PROVE  Near(f2, i, j) = Near(f, i, j)
  <2>1. CASE i < 0 \/ j < 0  BY <2>1 DEF Near
  <2>2. CASE ~ (i < 0 \/ j < 0)
    <3>1. i \in 0 .. x /\ j \in 0 .. y  BY <2>2
    <3>2. f2[<<i, j>>] = f[<<i, j>>]  BY <3>1, <1>1
    <3> QED  BY <3>2, <2>2 DEF Near
  <2> QED  BY <2>1, <2>2
<1>2. x # x - 1 /\ y # y - 1  OBVIOUS
<1>3. /\ Near(f2, x, y - 1) = Near(f, x, y - 1)
      /\ Near(f2, x - 1, y) = Near(f, x - 1, y)
      /\ Near(f2, x - 1, y - 1) = Near(f, x - 1, y - 1)
  BY <1>1, <1>2
<1> QED  BY <1>3 DEF Lorenzo

\* What comes before the next cell is what comes before this one, and it.
LEMMA BeforeNext ==
  ASSUME NEW a, IsArray(a), NEW b, NEW c, IsCell(a, b, c), NEW B, NEW C, IsCell(a, B, C),
         Before(b, c, NextBlockOf(a, B, C), NextCellOf(a, B, C))
  PROVE  Before(b, c, B, C) \/ (b = B /\ c = C)
<1>1. b \in Nat /\ B \in Nat /\ c \in Nat /\ C \in Nat
  BY CellBounds, TotalNat
<1> DEFINE n == High(a, B) * Wide(a, B)
<1>2. /\ C \in 0 .. n - 1 /\ (b = B => c \in 0 .. n - 1)
      /\ NextBlockOf(a, B, C) = (IF C = n - 1 THEN B + 1 ELSE B)
      /\ NextCellOf(a, B, C) = (IF C = n - 1 THEN 0 ELSE C + 1)
  BY DEF IsCell, NextBlockOf, NextCellOf
<1>3. n \in Int
  <2>1. B \in 0 .. Total(a)  BY CellBounds
  <2>2. High(a, B) \in Int /\ Wide(a, B) \in Int  BY <2>1, BlockBounds
  <2> QED  BY <2>2
<1> HIDE DEF n
<1> QED  BY <1>1, <1>2, <1>3 DEF Before

LEMMA EncodeTyped ==
  ASSUME Typed, Lengths, Buffers, EncodeValue
  PROVE  Typed' /\ Lengths'
<1>1. /\ stage = "encode" /\ begun /\ IsCell(data, block, cell) /\ Step /\ data' = data
      /\ stage' = (IF LastCell /\ block = Blocks - 1 THEN "coded" ELSE "encode")
      /\ UNCHANGED <<last, indicator, coeffType, coeffExact, out, used, coeffIndex, coeffUsed>>
      /\ data.at[<<X, Y>>] \in Int
  BY ValueCoded
<1>2. PICK kept \in Int, t \in Int :
        /\ recon' = [recon EXCEPT ![<<X, Y>>] = kept]
        /\ type' = Append(type, t)
        /\ unpred' = IF t = 0 THEN Append(unpred, data.at[<<X, Y>>]) ELSE unpred
        /\ IF LastCell /\ block % Across(data) = Across(data) - 1
           THEN cur' = BelowWith(kept) /\ next' = StripWith(kept)
           ELSE cur' = StripWith(kept) /\ next' = BelowWith(kept)
  BY ValueCoded
<1>3. /\ StripWith(kept) \in [Strip -> Int] /\ BelowWith(kept) \in [Strip -> Int]
      /\ recon' \in [Cells -> Int]
  BY <1>1, <1>2, Written
<1>4. cur' \in [Strip -> Int] /\ next' \in [Strip -> Int]  BY <1>2, <1>3
<1>5. /\ block' = NextBlockOf(data, block, cell) /\ cell' = NextCellOf(data, block, cell)
      /\ begun' \in BOOLEAN /\ (~ begun' => cell' = 0)
      /\ IF LastCell /\ block = Blocks - 1
         THEN block' = Total(data) /\ cell' = 0 /\ ~ begun'
         ELSE IsCell(data, block', cell')
      /\ LastCell => block' = block + 1 /\ cell' = 0 /\ ~ begun'
      /\ ~ LastCell => block' = block /\ cell' = cell + 1 /\ begun'
  BY <1>1, StepIs
<1>6. /\ data \in Arrays /\ last \in [1 .. 3 -> Int] /\ indicator \in Seq({0, 1})
      /\ coeffType \in Seq([1 .. 3 -> Int]) /\ coeffExact \in [1 .. 3 -> Seq(Int)]
      /\ type \in Seq(Int) /\ unpred \in Seq(Int) /\ out \in [Cells -> Int]
  BY DEF Typed
<1>7. type' \in Seq(Int) /\ unpred' \in Seq(Int) /\ Len(type') = Len(type) + 1
  <2>1. type' \in Seq(Int) /\ Len(type') = Len(type) + 1  BY <1>2, <1>6, AppendAt
  <2>2. unpred' \in Seq(Int)  BY <1>1, <1>2, <1>6, AppendAt
  <2> QED  BY <2>1, <2>2
<1>8. /\ stage' \in {"encode", "coded", "decode", "done"}
      /\ stage' \in {"encode", "decode"} => IsCell(data', block', cell')
      /\ stage' \in {"coded", "done"} => block' = Total(data') /\ cell' = 0 /\ ~ begun'
  <2>1. CASE LastCell /\ block = Blocks - 1  BY <2>1, <1>1, <1>5
  <2>2. CASE ~ (LastCell /\ block = Blocks - 1)  BY <2>2, <1>1, <1>5
  <2> QED  BY <2>1, <2>2
<1>9. Cells' = Cells /\ Strip' = Strip  BY <1>1 DEF Cells, Strip
<1>10. /\ data' \in Arrays /\ last' \in [1 .. 3 -> Int] /\ indicator' \in Seq({0, 1})
       /\ coeffType' \in Seq([1 .. 3 -> Int]) /\ coeffExact' \in [1 .. 3 -> Seq(Int)]
       /\ out' \in [Cells' -> Int] /\ cur' \in [Strip' -> Int] /\ next' \in [Strip' -> Int]
       /\ recon' \in [Cells' -> Int] /\ begun' \in BOOLEAN /\ (~ begun' => cell' = 0)
  BY <1>1, <1>3, <1>4, <1>5, <1>6, <1>9
<1>11. Typed'  BY <1>7, <1>8, <1>10, Zenon DEF Typed
<1>12. Len(type') = Index(data, block', cell')
  <2>1. Len(type) = Index(data, block, cell)  BY <1>1 DEF Lengths
  <2>2. Index(data, block', cell') = Index(data, block, cell) + 1
    BY <1>1, <1>5, ArrayOf, NextIndex
  <2> QED  BY <2>1, <2>2, <1>7
<1>13. Len(indicator') = (IF begun' THEN block' + 1 ELSE block')
  <2>1. Len(indicator') = block + 1  BY <1>1 DEF Lengths
  <2> QED  BY <2>1, <1>5
<1>14. Lengths'
  <2>1. CASE stage' = "encode"  BY <2>1, <1>1, <1>12, <1>13 DEF Lengths
  <2>2. CASE stage' # "encode"
    <3>1. block' = Total(data) /\ cell' = 0 /\ ~ begun'  BY <2>2, <1>1, <1>5
    <3> QED  BY <2>2, <3>1, <1>1, <1>12, <1>13 DEF Lengths
  <2> QED  BY <2>1, <2>2
<1> QED  BY <1>11, <1>14

LEMMA EncodeBound ==
  ASSUME Typed, Buffers, WithinBound, EncodeValue
  PROVE  WithinBound'
<1>1. /\ stage = "encode" /\ begun /\ IsCell(data, block, cell) /\ Step /\ data' = data
      /\ stage' = (IF LastCell /\ block = Blocks - 1 THEN "coded" ELSE "encode")
  BY ValueCoded
<1>2. PICK kept \in Int :
        /\ recon' = [recon EXCEPT ![<<X, Y>>] = kept]
        /\ Abs(kept - data.at[<<X, Y>>]) <= Eb
  BY ValueCoded
<1>3. \A x \in 0 .. data.rows - 1, y \in 0 .. data.cols - 1 :
        recon'[<<x, y>>] = IF x = X /\ y = Y THEN kept ELSE recon[<<x, y>>]
  BY <1>1, <1>2, Written
<1>4. /\ block' = NextBlockOf(data, block, cell) /\ cell' = NextCellOf(data, block, cell)
      /\ LastCell /\ block = Blocks - 1 => block' = Total(data) /\ cell' = 0
  BY <1>1, StepIs
<1>5. IsArray(data)  BY ArrayOf
<1>6. SUFFICES ASSUME NEW x \in 0 .. data.rows - 1, NEW y \in 0 .. data.cols - 1,
                      stage' = "encode" => Done(data, block', cell', x, y)
               PROVE  Abs(recon'[<<x, y>>] - data.at[<<x, y>>]) <= Eb
  BY <1>1 DEF WithinBound
<1>7. Done(data, block', cell', x, y)
  <2>1. CASE stage' = "encode"  BY <2>1, <1>6
  <2>2. CASE stage' # "encode"
    <3>1. block' = Total(data) /\ cell' = 0  BY <2>2, <1>1, <1>4
    <3> QED  BY <3>1, <1>5, LastDone
  <2> QED  BY <2>1, <2>2
<1>8. Done(data, block, cell, x, y) \/ (x = X /\ y = Y)
  <2>1. Done(data, block, cell, x, y) \/ <<x, y>> = Place(data, block, cell)
    BY <1>1, <1>4, <1>5, <1>7, NextDone
  <2>2. Place(data, block, cell) = <<X, Y>>  BY <1>1, HereBounds
  <2> QED  BY <2>1, <2>2
<1>9. CASE x = X /\ y = Y
  <2>1. recon'[<<x, y>>] = kept  BY <1>3, <1>9
  <2> QED  BY <2>1, <1>2, <1>9
<1>10. CASE ~ (x = X /\ y = Y)
  <2>1. recon'[<<x, y>>] = recon[<<x, y>>]  BY <1>3, <1>10
  <2>2. Abs(recon[<<x, y>>] - data.at[<<x, y>>]) <= Eb  BY <1>8, <1>10 DEF WithinBound
  <2> QED  BY <2>1, <2>2
<1> QED  BY <1>9, <1>10

LEMMA EncodeStreams ==
  ASSUME Typed, Lengths, Buffers, EncodeValue, NEW g, NEW h, Streams(g, h), Caught(g, h)
  PROVE  \E g2 : Streams(g2, h)' /\ Caught(g2, h)'
<1> PICK n : n = Index(data, block, cell) + 1  OBVIOUS
<1>1. /\ stage = "encode" /\ begun /\ IsCell(data, block, cell) /\ Step /\ data' = data
      /\ stage' = (IF LastCell /\ block = Blocks - 1 THEN "coded" ELSE "encode")
      /\ UNCHANGED <<last, indicator, coeffType, coeffExact, out, used, coeffIndex, coeffUsed>>
      /\ data.at[<<X, Y>>] \in Int
  BY ValueCoded
<1>2. PICK kept \in Int, t \in Int :
        /\ recon' = [recon EXCEPT ![<<X, Y>>] = kept]
        /\ type' = Append(type, t)
        /\ unpred' = IF t = 0 THEN Append(unpred, data.at[<<X, Y>>]) ELSE unpred
        /\ kept = IF t = 0 THEN data.at[<<X, Y>>]
                  ELSE Restored(Prediction(recon), t - Radius, Eb)
  BY ValueCoded
<1>3. IsArray(data) /\ data.rows \in Nat \ {0} /\ data.cols \in Nat \ {0}  BY ArrayOf
<1>4. /\ Counts(g, type, unpred) /\ Follows(h, indicator, coeffType, coeffExact)
      /\ \A b, c : Encoded(b, c) => Described(g, h, b, c)
      /\ last = h[Len(indicator)].last
  BY <1>1 DEF Streams
<1>5. /\ type \in Seq(Int) /\ unpred \in Seq(Int) /\ indicator \in Seq({0, 1})
  BY DEF Typed
<1>6. /\ Len(type) + 1 = n /\ Len(indicator) = block + 1 /\ n \in Nat
      /\ block \in Nat
  <2>1. Len(type) = Index(data, block, cell) /\ Len(indicator) = block + 1
    BY <1>1 DEF Lengths
  <2>2. Index(data, block, cell) \in Nat  BY <1>1, <1>3, NextIndex
  <2>3. block \in Nat  BY <1>1, HereBounds, <1>3, TotalNat
  <2> QED  BY <2>1, <2>2, <2>3
<1>7. /\ unpred' \in Seq(Int) /\ Extends(unpred', unpred)
      /\ t = 0 => Entry(unpred', g[Len(type)] + 1) = data.at[<<X, Y>>]
      /\ \E g2 : Counts(g2, type', unpred') /\ \A m \in 0 .. Len(type) : g2[m] = g[m]
  <2> PICK v : v = data.at[<<X, Y>>]  OBVIOUS
  <2>1. v \in Int /\ unpred' = IF t = 0 THEN Append(unpred, v) ELSE unpred  BY <1>1, <1>2
  <2>2. /\ unpred' \in Seq(Int) /\ Extends(unpred', unpred)
        /\ t = 0 => Entry(unpred', g[Len(type)] + 1) = v
        /\ \E g2 : Counts(g2, type', unpred') /\ \A m \in 0 .. Len(type) : g2[m] = g[m]
    BY <2>1, <1>2, <1>4, <1>5, CountsAppend
  <2> QED  BY <2>2
<1>8. PICK g2 : Counts(g2, type', unpred') /\ \A m \in 0 .. Len(type) : g2[m] = g[m]
  BY <1>7
<1>9. /\ Len(type) \in Nat /\ Len(type') = n
      /\ Extends(type', type) /\ type'[n] = t
  <2>1. /\ Len(type) \in Nat /\ Len(type') = Len(type) + 1
        /\ \A m \in 1 .. Len(type) : type'[m] = type[m]
        /\ type'[Len(type) + 1] = t
    BY <1>2, <1>5, AppendAt
  <2> QED  BY <2>1, <1>6 DEF Extends
<1>10. /\ \A x \in 0 .. data.rows - 1, y \in 0 .. data.cols - 1 :
            recon'[<<x, y>>] = IF x = X /\ y = Y THEN kept ELSE recon[<<x, y>>]
  BY <1>1, <1>2, Written
<1>11. /\ X \in 0 .. data.rows - 1 /\ Y \in 0 .. data.cols - 1
       /\ Row = RowIn(data, block, cell) /\ Col = ColIn(data, block, cell)
       /\ X = Top(data, block) + Row /\ Y = LeftOf(data, block) + Col
       /\ block \in 0 .. Total(data) /\ cell \in Nat
  BY <1>1, Here, HereBounds
<1>12. ASSUME NEW b, NEW c, IsCell(data, b, c), Before(b, c, block, cell)
       PROVE  Described(g2, h, b, c)'
  <2>1. Described(g, h, b, c)  BY <1>4, <1>12 DEF Encoded
  <2> PICK x : x = Top(data, b) + RowIn(data, b, c)  OBVIOUS
  <2> PICK y : y = LeftOf(data, b) + ColIn(data, b, c)  OBVIOUS
  <2>2. x \in 0 .. data.rows - 1 /\ y \in 0 .. data.cols - 1
    <3>1. Place(data, b, c) \in (0 .. data.rows - 1) \X (0 .. data.cols - 1)
      BY <1>3, <1>12, CellBounds
    <3> QED  BY <3>1 DEF Place
  <2>3. Done(data, block, cell, x, y)
    BY <1>3, <1>11, <1>12, BeforeDone
  <2>4. ASSUME NEW i \in 0 .. x, NEW j \in 0 .. y
        PROVE  recon'[<<i, j>>] = recon[<<i, j>>]
    <3>1. x \in Nat /\ y \in Nat  BY <2>2, <1>3
    <3>2. Done(data, block, cell, i, j)  BY <2>3, <3>1, <1>3, <1>11, DoneClosed
    <3>3. ~ Done(data, block, cell, X, Y)  BY <1>1, <1>3, <1>11, NotDone
    <3>4. i \in 0 .. data.rows - 1 /\ j \in 0 .. data.cols - 1 /\ ~ (i = X /\ j = Y)
      BY <2>2, <3>2, <3>3, <1>3
    <3> QED  BY <3>4, <1>10
  <2>5. \A i \in 0 .. Top(data, b) + RowIn(data, b, c), j \in 0 .. LeftOf(data, b) + ColIn(data, b, c) :
          recon'[<<i, j>>] = recon[<<i, j>>]
    BY <2>4
  <2>6. /\ Extends(indicator', indicator) /\ Len(indicator') \in Nat
        /\ Len(unpred') \in Nat /\ Len(type') \in Nat
    <3>1. Len(indicator) \in Nat  BY <1>6
    <3>2. Extends(indicator', indicator)  BY <3>1, <1>1 DEF Extends
    <3> QED  BY <3>1, <3>2, <1>1, <1>6, <1>7, <1>9, LenProperties
  <2>7. \A m \in 0 .. Len(indicator) : h[m] = h[m]  OBVIOUS
  <2> QED
    BY <2>1, <2>5, <2>6, <2>7, <1>1, <1>3, <1>4, <1>5, <1>7, <1>8, <1>9, <1>12, DescribedStays
<1>13. ASSUME NEW b, b = block, NEW c, c = cell PROVE Described(g2, h, b, c)'
  <2>1. n \in 1 .. Len(type') /\ block + 1 \in 1 .. Len(indicator')
    BY <1>1, <1>6, <1>9
  <2>2. recon'[<<X, Y>>] = kept  BY <1>10, <1>11
  <2>3. t = 0 => Entry(unpred', g2[n - 1] + 1) = data.at[<<X, Y>>]
    <3>1. n - 1 = Len(type) /\ Len(type) \in 0 .. Len(type)  BY <1>6, <1>9
    <3> QED  BY <3>1, <1>7, <1>8
  <2>4. Lorenzo(recon', X, Y) = Lorenzo(recon, X, Y)
    <3>1. X \in Nat /\ Y \in Nat  BY <1>3, <1>11
    <3>2. \A i \in 0 .. X, j \in 0 .. Y : i # X \/ j # Y => recon'[<<i, j>>] = recon[<<i, j>>]
      <4> TAKE i \in 0 .. X, j \in 0 .. Y
      <4>1. i \in 0 .. data.rows - 1 /\ j \in 0 .. data.cols - 1  BY <1>3, <1>11
      <4> QED  BY <4>1, <1>10
    <3> QED  BY <3>1, <3>2, LorenzoSame
  <2> PICK i : i = RowIn(data, b, c)  OBVIOUS
  <2> PICK j : j = ColIn(data, b, c)  OBVIOUS
  <2> PICK x : x = Top(data, b) + i  OBVIOUS
  <2> PICK y : y = LeftOf(data, b) + j  OBVIOUS
  <2>5. Row = i /\ Col = j /\ X = x /\ Y = y  BY <1>11, <1>13
  <2>6. Prediction(recon) = IF indicator[b + 1] = 0 THEN Plane(h[b + 1].last, i, j)
                            ELSE Lorenzo(recon', x, y)
    <3>1. last = h[b + 1].last  BY <1>4, <1>6, <1>13
    <3> QED  BY <2>4, <2>5, <3>1, <1>13 DEF Prediction, ByPlane
  <2>7. recon'[<<x, y>>] = IF type'[n] = 0 THEN Entry(unpred', g2[n - 1] + 1)
          ELSE Restored(IF indicator'[b + 1] = 0 THEN Plane(h[b + 1].last, i, j)
                        ELSE Lorenzo(recon', x, y), type'[n] - Radius, Eb)
    BY <2>2, <2>3, <2>5, <2>6, <1>1, <1>2, <1>9
  <2>8. /\ n = Index(data', b, c) + 1 /\ i = RowIn(data', b, c) /\ j = ColIn(data', b, c)
        /\ x = Top(data', b) + i /\ y = LeftOf(data', b) + j
        /\ b + 1 \in 1 .. Len(indicator')
    BY <2>1, <1>1, <1>13
  <2> QED  BY <2>1, <2>7, <2>8 DEF Described
<1>14. \A b, c : Encoded(b, c)' => Described(g2, h, b, c)'
  <2> TAKE b, c
  <2> HAVE Encoded(b, c)'
  <2>1. IsCell(data, b, c) /\ (stage' = "encode" => Before(b, c, block', cell'))
    BY <1>1 DEF Encoded
  <2>2. /\ block' = NextBlockOf(data, block, cell) /\ cell' = NextCellOf(data, block, cell)
        /\ LastCell /\ block = Blocks - 1 => block' = Total(data) /\ cell' = 0
    BY <1>1, StepIs
  <2>3. Before(b, c, block', cell')
    <3>1. CASE stage' = "encode"  BY <2>1, <3>1
    <3>2. CASE stage' # "encode"
      <4>1. block' = Total(data)  BY <2>2, <3>2, <1>1
      <4>2. b < Total(data)  BY <2>1, <1>3, TotalNat DEF IsCell
      <4> QED  BY <4>1, <4>2 DEF Before
    <3> QED  BY <3>1, <3>2
  <2>4. Before(b, c, block, cell) \/ (b = block /\ c = cell)
    BY <2>1, <2>2, <2>3, <1>1, <1>3, BeforeNext
  <2> QED  BY <2>1, <2>4, <1>12, <1>13
<1>15. last' = h[Len(indicator')].last  BY <1>1, <1>4
<1>16. Streams(g2, h)'
  <2>1. Follows(h, indicator', coeffType', coeffExact')  BY <1>1, <1>4
  <2> QED  BY <2>1, <1>8, <1>14, <1>15, Zenon DEF Streams
<1>17. Caught(g2, h)'
  <2>1. used = 0 /\ coeffIndex = 0 /\ coeffUsed = NoPlane  BY <1>1 DEF Caught
  <2>2. stage' \in {"encode", "coded"}  BY <1>1
  <2> QED  BY <2>1, <2>2, <1>1 DEF Caught
<1> QED  BY <1>16, <1>17

LEMMA EncodeHolds == ASSUME IInv, EncodeValue PROVE IInv'
<1>1. /\ Typed /\ Lengths /\ Buffers /\ WithinBound
      /\ \E g, h : Streams(g, h) /\ Caught(g, h)
  BY DEF IInv
<1>2. PICK g, h : Streams(g, h) /\ Caught(g, h)  BY <1>1
<1>3. Typed' /\ Lengths'  BY <1>1, EncodeTyped
<1>4. Buffers'  BY <1>1, BuffersStep
<1>5. WithinBound'  BY <1>1, EncodeBound
<1>6. \E g2 : Streams(g2, h)' /\ Caught(g2, h)'  BY <1>1, <1>2, EncodeStreams
<1> QED  BY <1>3, <1>4, <1>5, <1>6 DEF IInv

-----------------------------------------------------------------------------
(* Beginning a block                                                       *)

\* What Buffers says after a step that leaves the array.
LEMMA BuffersThen ==
  ASSUME NEW b, NEW c, b = block', c = cell', data' = data,
         \A r \in 0 .. Early(data.rows) : cur'[<<r, 0>>] = 0 /\ next'[<<r, 0>>] = 0,
         \A y \in 0 .. data.cols - 1 :
           cur'[<<0, y + 1>>] = Near(recon', Top(data, b) - 1, y),
         \A y \in 0 .. data.cols - 1 :
           Done(data, b, c, Top(data, b) + High(data, b) - 1, y)
             => next'[<<0, y + 1>>] = recon'[<<Top(data, b) + High(data, b) - 1, y>>],
         \A r \in 0 .. High(data, b) - 1 :
           cur'[<<r + 1, LeftOf(data, b)>>] = Near(recon', Top(data, b) + r, LeftOf(data, b) - 1),
         \A r \in 0 .. High(data, b) - 1, k \in 0 .. Wide(data, b) - 1 :
           /\ Done(data, b, c, Top(data, b) + r, LeftOf(data, b) + k)
           /\ begun' /\ (indicator'[b + 1] # 0 \/ k = Wide(data, b) - 1)
           => cur'[<<r + 1, LeftOf(data, b) + k + 1>>]
                = recon'[<<Top(data, b) + r, LeftOf(data, b) + k>>]
  PROVE  Buffers'
BY Zenon DEF Buffers

LEMMA BeginKeeps ==
  ASSUME Typed, Lengths, Buffers, WithinBound, NEW g, NEW h, Streams(g, h), Caught(g, h),
         stage = "encode", ~ begun, begun' = TRUE,
         UNCHANGED <<data, stage, block, cell, cur, next, recon, type, unpred, out,
                     used, coeffIndex, coeffUsed>>,
         indicator' \in Seq({0, 1}), Len(indicator') = Len(indicator) + 1,
         Extends(indicator', indicator),
         coeffType' \in Seq([1 .. 3 -> Int]), coeffExact' \in [1 .. 3 -> Seq(Int)],
         last' \in [1 .. 3 -> Int],
         \E h2 : /\ Follows(h2, indicator', coeffType', coeffExact')
                 /\ h2[Len(indicator) + 1].last = last'
                 /\ \A n \in 0 .. Len(indicator) : h2[n] = h[n]
  PROVE  IInv'
<1>1. /\ IsCell(data, block, cell) /\ cell = 0 /\ Len(indicator) = block
      /\ Len(type) = Index(data, block, cell)
  BY DEF Typed, Lengths
<1>2. IsArray(data) /\ data.rows \in Nat \ {0} /\ data.cols \in Nat \ {0}  BY ArrayOf
<1>3. /\ type \in Seq(Int) /\ unpred \in Seq(Int) /\ indicator \in Seq({0, 1})
  BY DEF Typed
<1>4. Typed'
  <2>1. Cells' = Cells /\ Strip' = Strip  BY DEF Cells, Strip
  <2>2. /\ data \in Arrays /\ stage \in {"encode", "coded", "decode", "done"}
        /\ cur \in [Strip -> Int] /\ next \in [Strip -> Int] /\ recon \in [Cells -> Int]
        /\ out \in [Cells -> Int]
    BY DEF Typed
  <2> QED  BY <2>1, <2>2, <1>1, <1>3 DEF Typed
<1>5. Lengths'  BY <1>1 DEF Lengths
<1>6. Buffers'
  <2> PICK b : b = block'  OBVIOUS
  <2> PICK c : c = cell'  OBVIOUS
  <2> DEFINE t == Top(data, b)
             l == LeftOf(data, b)
             h0 == High(data, b)
             w == Wide(data, b)
  <2>0. b = block /\ c = cell /\ data' = data  OBVIOUS
  <2>1. t \in Nat /\ l \in Nat /\ h0 \in Nat /\ w \in Nat  BY <2>0, <1>1, InReach
  <2>2. RowIn(data, b, c) = 0 /\ ColIn(data, b, c) = 0
    BY <2>0, <1>1, <1>2, RowColZero, HereBounds
  <2>3. \A r \in 0 .. h0 - 1, k \in 0 .. w - 1 : ~ Done(data, b, c, t + r, l + k)
    <3> TAKE r \in 0 .. h0 - 1, k \in 0 .. w - 1
    <3> DEFINE x == t + r
               y == l + k
    <3>1. ~ (x < t) /\ ~ (y < l) /\ ~ (x - t < 0) /\ ~ (y - l < 0)  BY <2>1
    <3>2. Done(data, b, c, x, y) <=>
            \/ x < t
            \/ /\ x < t + h0
               /\ \/ y < l
                  \/ y < l + w /\ (x - t < 0 \/ (x - t = 0 /\ y - l < 0))
      BY <2>2 DEF Done
    <3> HIDE DEF x, y, t, l, h0, w
    <3>3. ~ Done(data, b, c, x, y)  BY <3>1, <3>2
    <3> QED  BY <3>3 DEF x, y
  <2>4. /\ \A r \in 0 .. Early(data.rows) : cur[<<r, 0>>] = 0 /\ next[<<r, 0>>] = 0
        /\ \A y \in 0 .. data.cols - 1 : cur[<<0, y + 1>>] = Near(recon, t - 1, y)
        /\ \A y \in 0 .. data.cols - 1 :
             Done(data, b, c, t + h0 - 1, y) => next[<<0, y + 1>>] = recon[<<t + h0 - 1, y>>]
        /\ \A r \in 0 .. h0 - 1 : cur[<<r + 1, l>>] = Near(recon, t + r, l - 1)
    BY <2>0, Zenon DEF Buffers
  <2> HIDE DEF t, l, h0, w
  <2>5. data' = data /\ cur' = cur /\ next' = next /\ recon' = recon  OBVIOUS
  <2> QED  BY <2>3, <2>4, <2>5, BuffersThen DEF t, l, h0, w
<1>7. WithinBound'  BY DEF WithinBound
<1>8. PICK h2 : /\ Follows(h2, indicator', coeffType', coeffExact')
                /\ h2[Len(indicator) + 1].last = last'
                /\ \A n \in 0 .. Len(indicator) : h2[n] = h[n]
  OBVIOUS
<1>9. Counts(g, type, unpred) /\ \A b, c : Encoded(b, c) => Described(g, h, b, c)
  BY DEF Streams
<1>10. \A b, c : Encoded(b, c)' => Described(g, h2, b, c)'
  <2> TAKE b, c
  <2> HAVE Encoded(b, c)'
  <2>1. Encoded(b, c)  BY DEF Encoded
  <2>2. Described(g, h, b, c) /\ IsCell(data, b, c)  BY <2>1, <1>9 DEF Encoded
  <2>3. /\ Len(type) \in Nat /\ Len(unpred) \in Nat /\ Len(indicator') \in Nat
        /\ Len(type') \in Nat /\ Len(unpred') \in Nat
    BY <1>3, LenProperties
  <2>4. Extends(type', type) /\ Extends(unpred', unpred)  BY <2>3 DEF Extends
  <2>5. \A n \in 0 .. Len(type) : g[n] = g[n]  OBVIOUS
  <2>6. \A i \in 0 .. Top(data, b) + RowIn(data, b, c), j \in 0 .. LeftOf(data, b) + ColIn(data, b, c) :
          recon'[<<i, j>>] = recon[<<i, j>>]
    OBVIOUS
  <2> QED  BY <2>2, <2>3, <2>4, <2>5, <2>6, <1>2, <1>3, <1>8, <1>9, DescribedStays
<1>11. Streams(g, h2)'
  <2>1. last' = h2[Len(indicator')].last  BY <1>8
  <2>2. Counts(g, type', unpred')  BY <1>9
  <2> QED  BY <2>1, <2>2, <1>8, <1>10 DEF Streams
<1>12. Caught(g, h2)'
  <2>1. used = 0 /\ coeffIndex = 0 /\ coeffUsed = NoPlane  BY DEF Caught
  <2> QED  BY <2>1 DEF Caught
<1> QED  BY <1>4, <1>5, <1>6, <1>7, <1>11, <1>12 DEF IInv

LEMMA BeginPlaneHolds == ASSUME IInv, NEW c \in Planes, BeginPlane(c) PROVE IInv'
<1>1. /\ Typed /\ Lengths /\ Buffers /\ WithinBound
      /\ \E g, h : Streams(g, h) /\ Caught(g, h)
  BY DEF IInv
<1>2. PICK g, h : Streams(g, h) /\ Caught(g, h)  BY <1>1
<1>3. /\ stage = "encode" /\ ~ begun /\ begun' = TRUE
      /\ UNCHANGED <<data, stage, block, cell, cur, next, recon, type, unpred, out,
                     used, coeffIndex, coeffUsed>>
  BY Zenon DEF BeginPlane, strips, cursors
<1>4. /\ Follows(h, indicator, coeffType, coeffExact) /\ last = h[Len(indicator)].last
  BY <1>2, <1>3 DEF Streams
<1>5. /\ indicator \in Seq({0, 1}) /\ last \in [1 .. 3 -> Int]
      /\ coeffType \in Seq([1 .. 3 -> Int]) /\ coeffExact \in [1 .. 3 -> Seq(Int)]
  BY <1>1 DEF Typed
<1>6. /\ indicator' \in Seq({0, 1}) /\ Len(indicator') = Len(indicator) + 1
      /\ Extends(indicator', indicator)
      /\ coeffType' \in Seq([1 .. 3 -> Int]) /\ coeffExact' \in [1 .. 3 -> Seq(Int)]
      /\ last' \in [1 .. 3 -> Int]
      /\ \E h2 : /\ Follows(h2, indicator', coeffType', coeffExact')
                 /\ h2[Len(indicator) + 1].last = last'
                 /\ \A n \in 0 .. Len(indicator) : h2[n] = h[n]
  BY <1>4, <1>5, FollowsPlane
<1> QED  BY <1>1, <1>2, <1>3, <1>6, BeginKeeps

LEMMA BeginLorenzoHolds == ASSUME IInv, BeginLorenzo PROVE IInv'
<1>1. /\ Typed /\ Lengths /\ Buffers /\ WithinBound
      /\ \E g, h : Streams(g, h) /\ Caught(g, h)
  BY DEF IInv
<1>2. PICK g, h : Streams(g, h) /\ Caught(g, h)  BY <1>1
<1>3. /\ stage = "encode" /\ ~ begun /\ begun' = TRUE /\ indicator' = Append(indicator, 1)
      /\ UNCHANGED <<data, stage, block, cell, cur, next, recon, type, unpred, out,
                     used, coeffIndex, coeffUsed>>
      /\ UNCHANGED <<last, coeffType, coeffExact>>
  BY Zenon DEF BeginLorenzo, strips, cursors
<1>4. /\ Follows(h, indicator, coeffType, coeffExact) /\ last = h[Len(indicator)].last
  BY <1>2, <1>3 DEF Streams
<1>5. /\ indicator \in Seq({0, 1}) /\ last \in [1 .. 3 -> Int]
      /\ coeffType \in Seq([1 .. 3 -> Int]) /\ coeffExact \in [1 .. 3 -> Seq(Int)]
  BY <1>1 DEF Typed
<1>6. PICK s : s = h[Len(indicator)]  OBVIOUS
<1>7. /\ s \in Side /\ s.index = Len(coeffType)
      /\ \A e \in 1 .. 3 : s.used[e] = Len(coeffExact[e])
  <2>1. Len(indicator) \in Nat /\ Len(indicator) \in 0 .. Len(indicator)  BY <1>5, LenProperties
  <2>2. h \in [0 .. Len(indicator) -> Side]  BY <1>4 DEF Follows
  <2> QED  BY <2>1, <2>2, <1>4, <1>6 DEF Follows
<1>8. /\ Extends(coeffType', coeffType) /\ Len(coeffType') \in Nat
      /\ \A e \in 1 .. 3 : Extends(coeffExact'[e], coeffExact[e]) /\ Len(coeffExact'[e]) \in Nat
  <2>1. Len(coeffType) \in Nat /\ \A e \in 1 .. 3 : Len(coeffExact[e]) \in Nat
    BY <1>5, LenProperties
  <2> QED  BY <2>1, <1>3 DEF Extends
<1>9. Taken(coeffType', coeffExact', h[Len(indicator)], s, 1)  BY <1>6 DEF Taken
<1>10. s.index = Len(coeffType') /\ \A e \in 1 .. 3 : s.used[e] = Len(coeffExact'[e])
  BY <1>3, <1>7
<1>11. 1 \in {0, 1}  OBVIOUS
<1>12. /\ indicator' \in Seq({0, 1}) /\ Len(indicator') = Len(indicator) + 1
       /\ Extends(indicator', indicator)
       /\ \E h2 : /\ Follows(h2, indicator', coeffType', coeffExact')
                  /\ h2[Len(indicator) + 1] = s
                  /\ \A n \in 0 .. Len(indicator) : h2[n] = h[n]
  BY <1>3, <1>4, <1>5, <1>7, <1>8, <1>9, <1>10, <1>11, FollowsAppend
<1>13. \E h2 : /\ Follows(h2, indicator', coeffType', coeffExact')
               /\ h2[Len(indicator) + 1].last = last'
               /\ \A n \in 0 .. Len(indicator) : h2[n] = h[n]
  <2>1. s.last = last'  BY <1>3, <1>4, <1>6
  <2> QED  BY <2>1, <1>12
<1>14. /\ coeffType' \in Seq([1 .. 3 -> Int]) /\ coeffExact' \in [1 .. 3 -> Seq(Int)]
       /\ last' \in [1 .. 3 -> Int]
  BY <1>3, <1>5
<1> QED  BY <1>1, <1>2, <1>3, <1>12, <1>13, <1>14, BeginKeeps

-----------------------------------------------------------------------------
(* Decompression                                                           *)

\* The decompressor leaves the streams, and what they say, alone.
LEMMA DecodeKeeps ==
  ASSUME NEW g, NEW h, Typed, Lengths, WithinBound, Streams(g, h),
         stage # "encode", stage' \in {"decode", "done"}, data' = data, recon' = recon,
         indicator' = indicator, coeffType' = coeffType, coeffExact' = coeffExact,
         type' = type, unpred' = unpred
  PROVE  Lengths' /\ Buffers' /\ WithinBound' /\ Streams(g, h)'
<1>1. stage' # "encode"  OBVIOUS
<1>2. Lengths'  BY <1>1 DEF Lengths
<1>3. Buffers'  BY <1>1 DEF Buffers
<1>4. WithinBound'
  <2>1. \A x \in 0 .. data.rows - 1, y \in 0 .. data.cols - 1 :
          Abs(recon[<<x, y>>] - data.at[<<x, y>>]) <= Eb
    BY DEF WithinBound
  <2>2. \A x \in 0 .. data'.rows - 1, y \in 0 .. data'.cols - 1 :
          Abs(recon'[<<x, y>>] - data'.at[<<x, y>>]) <= Eb
    BY <2>1
  <2> QED  BY <2>2 DEF WithinBound
<1>5. /\ Counts(g, type, unpred) /\ Follows(h, indicator, coeffType, coeffExact)
      /\ \A b, c : Encoded(b, c) => Described(g, h, b, c)
  BY DEF Streams
<1>6. \A b, c : Encoded(b, c)' => Described(g, h, b, c)'
  <2> TAKE b, c
  <2> HAVE Encoded(b, c)'
  <2>1. Encoded(b, c)  BY DEF Encoded
  <2>2. Described(g, h, b, c)  BY <2>1, <1>5
  <2> QED  BY <2>2, Zenon DEF Described
<1>7. Counts(g, type', unpred') /\ Follows(h, indicator', coeffType', coeffExact')  BY <1>5
<1>8. Streams(g, h)'  BY <1>1, <1>6, <1>7 DEF Streams
<1> QED  BY <1>2, <1>3, <1>4, <1>8

LEMMA DecodeTyped ==
  ASSUME Typed, stage' \in {"decode", "done"}, data' = data, recon' = recon,
         cur' = cur, next' = next,
         indicator' = indicator, coeffType' = coeffType, coeffExact' = coeffExact,
         type' = type, unpred' = unpred,
         begun' \in BOOLEAN, ~ begun' => cell' = 0,
         stage' = "decode" => IsCell(data, block', cell'),
         stage' = "done" => block' = Total(data) /\ cell' = 0 /\ ~ begun',
         last' \in [1 .. 3 -> Int], out' \in [Cells -> Int]
  PROVE  Typed'
<1>1. Cells' = Cells /\ Strip' = Strip  BY DEF Cells, Strip
<1>2. /\ stage' \in {"encode", "decode"} => IsCell(data', block', cell')
      /\ stage' \in {"coded", "done"} => block' = Total(data') /\ cell' = 0 /\ ~ begun'
  OBVIOUS
<1>3. /\ data' \in Arrays /\ stage' \in {"encode", "coded", "decode", "done"}
      /\ cur' \in [Strip' -> Int] /\ next' \in [Strip' -> Int] /\ recon' \in [Cells' -> Int]
      /\ out' \in [Cells' -> Int]
  BY <1>1 DEF Typed
<1>4. /\ indicator' \in Seq({0, 1}) /\ coeffType' \in Seq([1 .. 3 -> Int])
      /\ coeffExact' \in [1 .. 3 -> Seq(Int)] /\ type' \in Seq(Int) /\ unpred' \in Seq(Int)
  BY DEF Typed
<1> QED  BY <1>2, <1>3, <1>4 DEF Typed

LEMMA DecompressHolds == ASSUME IInv, Decompress PROVE IInv'
<1>1. /\ Typed /\ Lengths /\ WithinBound
      /\ \E g, h : Streams(g, h) /\ Caught(g, h)
  BY DEF IInv
<1>2. PICK g, h : Streams(g, h) /\ Caught(g, h)  BY <1>1
<1>3. /\ stage = "coded" /\ stage' = "decode" /\ block' = 0 /\ cell' = 0 /\ begun' = FALSE
      /\ last' = NoPlane
      /\ UNCHANGED <<data, recon, cur, next, indicator, coeffType, coeffExact, type, unpred,
                     out, used, coeffIndex, coeffUsed>>
  BY Zenon DEF Decompress, strips, streams, cursors
<1>4. IsArray(data)  BY <1>1, ArrayOf
<1>5. /\ IsCell(data, 0, 0) /\ Index(data, 0, 0) = 0
      /\ \A x, y \in Nat : ~ Done(data, 0, 0, x, y)
  BY <1>4, FirstDone
<1>6. Lengths' /\ Buffers' /\ WithinBound' /\ Streams(g, h)'
  BY <1>1, <1>2, <1>3, DecodeKeeps
<1>7. NoPlane \in [1 .. 3 -> Int] /\ out' \in [Cells -> Int]  BY <1>1, <1>3 DEF NoPlane, Typed
<1>8. Typed'
  BY <1>1, <1>3, <1>5, <1>7, DecodeTyped
<1>9. g[0] = 0 /\ h[0] = [index |-> 0, used |-> NoPlane, last |-> NoPlane]
  BY <1>2 DEF Streams, Counts, Follows
<1>10. used = 0 /\ coeffIndex = 0 /\ coeffUsed = NoPlane  BY <1>2, <1>3 DEF Caught
<1>11. \A x \in 0 .. data'.rows - 1, y \in 0 .. data'.cols - 1 :
         ~ Done(data', block', cell', x, y)
  <2>1. data.rows \in Nat /\ data.cols \in Nat  BY <1>4 DEF IsArray
  <2> QED  BY <2>1, <1>3, <1>5
<1>12. used' = g[Index(data', block', cell')]  BY <1>3, <1>5, <1>9, <1>10
<1>13. h[IF begun' THEN block' + 1 ELSE block']
         = [index |-> coeffIndex', used |-> coeffUsed', last |-> last']
  BY <1>3, <1>9, <1>10
<1>14. Caught(g, h)'  BY <1>3, <1>11, <1>12, <1>13 DEF Caught
<1> QED  BY <1>6, <1>8, <1>14 DEF IInv

\* What the coefficient streams say of the block at work.
LEMMA OpenTaken ==
  ASSUME Typed, Lengths, stage = "decode", ~ begun, NEW g, NEW h, Streams(g, h), Caught(g, h)
  PROVE  /\ Taken(coeffType, coeffExact,
                  [index |-> coeffIndex, used |-> coeffUsed, last |-> last],
                  h[block + 1], indicator[block + 1])
         /\ h[block + 1] \in Side
<1>1. Follows(h, indicator, coeffType, coeffExact)  BY DEF Streams
<1>2. h[block] = [index |-> coeffIndex, used |-> coeffUsed, last |-> last]
  BY DEF Caught
<1>3. block \in 0 .. Total(data) - 1 /\ Total(data) \in Nat /\ Len(indicator) = Total(data)
  <2>1. IsCell(data, block, cell)  BY DEF Typed
  <2>2. IsArray(data)  BY ArrayOf
  <2> QED  BY <2>1, <2>2, TotalNat DEF IsCell, Lengths
<1>4. block + 1 \in 1 .. Len(indicator) /\ block + 1 \in 0 .. Len(indicator)
      /\ (block + 1) - 1 = block
  BY <1>3
<1>5. Taken(coeffType, coeffExact, h[(block + 1) - 1], h[block + 1], indicator[block + 1])
  BY <1>1, <1>4 DEF Follows
<1>6. h \in [0 .. Len(indicator) -> Side]  BY <1>1 DEF Follows
<1> QED  BY <1>2, <1>4, <1>5, <1>6

\* Opening a block takes the decompressor from one entry of h to the next.
LEMMA OpenKeeps ==
  ASSUME IInv, stage = "decode", ~ begun, begun' = TRUE,
         UNCHANGED <<data, stage, block, cell, cur, next, recon, indicator, coeffType,
                     coeffExact, type, unpred, out, used>>,
         NEW g, NEW h, Streams(g, h), Caught(g, h), h[block + 1] \in Side,
         h[block + 1] = [index |-> coeffIndex', used |-> coeffUsed', last |-> last']
  PROVE  IInv'
<1>1. Typed /\ Lengths /\ WithinBound  BY DEF IInv
<1>2. Lengths' /\ Buffers' /\ WithinBound' /\ Streams(g, h)'
  BY <1>1, DecodeKeeps
<1>3. last' \in [1 .. 3 -> Int]
  <2>1. h[block + 1].last \in [1 .. 3 -> Int]  BY DEF Side
  <2> QED  BY <2>1
<1>4. Typed'
  <2>1. IsCell(data, block, cell) /\ out' \in [Cells -> Int]  BY <1>1 DEF Typed
  <2> QED  BY <1>1, <1>3, <2>1, DecodeTyped
<1>5. Caught(g, h)'
  <2>1. /\ \A x \in 0 .. data.rows - 1, y \in 0 .. data.cols - 1 :
             Done(data, block, cell, x, y) => out[<<x, y>>] = recon[<<x, y>>]
        /\ used = g[Index(data, block, cell)]
    BY DEF Caught
  <2>2. /\ \A x \in 0 .. data'.rows - 1, y \in 0 .. data'.cols - 1 :
             Done(data', block', cell', x, y) => out'[<<x, y>>] = recon'[<<x, y>>]
        /\ used' = g[Index(data', block', cell')]
    BY <2>1
  <2>3. h[IF begun' THEN block' + 1 ELSE block']
          = [index |-> coeffIndex', used |-> coeffUsed', last |-> last']
    OBVIOUS
  <2>4. stage' = "decode"  OBVIOUS
  <2> QED  BY <2>2, <2>3, <2>4 DEF Caught
<1> QED  BY <1>2, <1>4, <1>5 DEF IInv

LEMMA OpenLorenzoHolds == ASSUME IInv, OpenLorenzo PROVE IInv'
<1>1. Typed /\ Lengths /\ \E g, h : Streams(g, h) /\ Caught(g, h)  BY DEF IInv
<1>2. PICK g, h : Streams(g, h) /\ Caught(g, h)  BY <1>1
<1>3. /\ stage = "decode" /\ ~ begun /\ begun' = TRUE /\ indicator[block + 1] # 0
      /\ UNCHANGED <<data, stage, block, cell, cur, next, recon, indicator, coeffType,
                     coeffExact, type, unpred, out, used>>
      /\ UNCHANGED <<coeffIndex, coeffUsed, last>>
  BY Zenon DEF OpenLorenzo, ByPlane, strips, streams, cursors
<1>4. /\ h[block + 1] = [index |-> coeffIndex, used |-> coeffUsed, last |-> last]
      /\ h[block + 1] \in Side
  BY <1>1, <1>2, <1>3, OpenTaken DEF Taken
<1>5. h[block + 1] = [index |-> coeffIndex', used |-> coeffUsed', last |-> last']
  BY <1>3, <1>4
<1> QED  BY <1>2, <1>3, <1>4, <1>5, OpenKeeps

LEMMA OpenPlaneHolds == ASSUME IInv, OpenPlane PROVE IInv'
<1>1. Typed /\ Lengths /\ \E g, h : Streams(g, h) /\ Caught(g, h)  BY DEF IInv
<1>2. PICK g, h : Streams(g, h) /\ Caught(g, h)  BY <1>1
<1>3. /\ stage = "decode" /\ ~ begun /\ begun' = TRUE /\ indicator[block + 1] = 0
      /\ UNCHANGED <<data, stage, block, cell, cur, next, recon, indicator, coeffType,
                     coeffExact, type, unpred, out, used>>
  BY Zenon DEF OpenPlane, ByPlane, strips, streams
<1>4. /\ coeffIndex' = coeffIndex + 1
      /\ last' = [e \in 1 .. 3 |->
           IF coeffType[coeffIndex + 1][e] = 0 THEN Entry(coeffExact[e], coeffUsed[e] + 1)
           ELSE Restored(last[e], coeffType[coeffIndex + 1][e] - CoeffRadius, Precision[e])]
      /\ coeffUsed' = [e \in 1 .. 3 |->
           IF coeffType[coeffIndex + 1][e] = 0 THEN coeffUsed[e] + 1 ELSE coeffUsed[e]]
  BY Zenon DEF OpenPlane
<1> DEFINE r == [index |-> coeffIndex, used |-> coeffUsed, last |-> last]
<1>5. h[block + 1] = Opened(coeffType, coeffExact, r) /\ h[block + 1] \in Side
  BY <1>1, <1>2, <1>3, OpenTaken DEF Taken
<1>6. r.index = coeffIndex /\ r.used = coeffUsed /\ r.last = last  OBVIOUS
<1> HIDE DEF r
<1>7. Opened(coeffType, coeffExact, r)
        = [index |-> coeffIndex', used |-> coeffUsed', last |-> last']
  BY <1>4, <1>6, Zenon DEF Opened
<1>8. h[block + 1] = [index |-> coeffIndex', used |-> coeffUsed', last |-> last']
  BY <1>5, <1>7
<1> QED  BY <1>2, <1>3, <1>5, <1>8, OpenKeeps

\* What decoding a value does, in one place.
LEMMA ValueDecoded ==
  ASSUME IInv, DecodeValue, NEW g, NEW h, Streams(g, h), Caught(g, h)
  PROVE  /\ stage = "decode" /\ begun /\ IsCell(data, block, cell) /\ Step
         /\ stage' = (IF LastCell /\ block = Blocks - 1 THEN "done" ELSE "decode")
         /\ UNCHANGED <<data, recon, cur, next, indicator, coeffType, coeffExact, type, unpred,
                        coeffIndex, coeffUsed, last>>
         /\ out' = [out EXCEPT ![<<X, Y>>] = recon[<<X, Y>>]]
         /\ used' = g[Index(data, block, cell) + 1]
<1>1. /\ stage = "decode" /\ begun /\ Step
      /\ stage' = (IF LastCell /\ block = Blocks - 1 THEN "done" ELSE "decode")
      /\ UNCHANGED <<data, recon, cur, next, indicator, coeffType, coeffExact, type, unpred,
                     coeffIndex, coeffUsed, last>>
  BY Zenon DEF DecodeValue, strips, streams
<1>2. Typed /\ Lengths  BY DEF IInv
<1>3. IsCell(data, block, cell) /\ IsArray(data)  BY <1>1, <1>2, ArrayOf DEF Typed
<1>4. PICK n : n = Index(data, block, cell)  OBVIOUS
<1>5. TypeOfCell = type[n + 1]
  BY <1>4 DEF TypeOfCell, Index, Top, High, LeftOf, Across, Height, BlockRow, BlockCol
<1>6. n \in Nat  BY <1>3, <1>4, NextIndex
<1>7. PICK t : t = type[n + 1]  OBVIOUS
<1>8. \A i, j : Neighbour(i, j) = Near(out, i, j)  BY Zenon DEF Neighbour, Near
<1>9. (IF ByPlane THEN Plane(last, Row, Col)
       ELSE Round(Neighbour(X, Y - 1) + Neighbour(X - 1, Y) - Neighbour(X - 1, Y - 1)))
        = Prediction(out)
  BY <1>8, Zenon DEF Prediction, Lorenzo
<1>10. /\ out' = [out EXCEPT ![<<X, Y>>] = IF t = 0 THEN Entry(unpred, used + 1)
                                           ELSE Restored(Prediction(out), t - Radius, Eb)]
       /\ used' = IF t = 0 THEN used + 1 ELSE used
  BY <1>5, <1>7, <1>9, Zenon DEF DecodeValue, Advance
<1>11. Described(g, h, block, cell)
  BY <1>1, <1>3, Zenon DEF Streams, Encoded
<1>12. /\ Row = RowIn(data, block, cell) /\ Col = ColIn(data, block, cell)
       /\ X = Top(data, block) + Row /\ Y = LeftOf(data, block) + Col
  BY <1>3, Here
<1>13. /\ \A x \in 0 .. data.rows - 1, y \in 0 .. data.cols - 1 :
            Done(data, block, cell, x, y) => out[<<x, y>>] = recon[<<x, y>>]
       /\ used = g[n]
       /\ h[block + 1].last = last
  BY <1>1, <1>4 DEF Caught
<1>14. X \in 0 .. data.rows - 1 /\ Y \in 0 .. data.cols - 1 /\ X \in Nat /\ Y \in Nat
       /\ data.rows \in Nat /\ data.cols \in Nat
  <2>1. X \in 0 .. data.rows - 1 /\ Y \in 0 .. data.cols - 1  BY <1>2, <1>3, HereBounds
  <2>2. data.rows \in Nat /\ data.cols \in Nat  BY <1>3 DEF IsArray
  <2> QED  BY <2>1, <2>2
<1>15. Lorenzo(out, X, Y) = Lorenzo(recon, X, Y)
  <2>1. \A i \in 0 .. X, j \in 0 .. Y :
          i # X \/ j # Y => Done(data, block, cell, i, j)
    BY <1>3, <1>12, NeighboursDone
  <2>2. \A i \in 0 .. X, j \in 0 .. Y : i # X \/ j # Y => out[<<i, j>>] = recon[<<i, j>>]
    BY <2>1, <1>13, <1>14
  <2> QED  BY <2>2, <1>14, LorenzoSame
<1>16. Prediction(out) = Prediction(recon)  BY <1>15 DEF Prediction
<1>17. /\ n + 1 \in 1 .. Len(type)
       /\ recon[<<X, Y>>] = IF type[n + 1] = 0 THEN Entry(unpred, g[(n + 1) - 1] + 1)
                            ELSE Restored(IF indicator[block + 1] = 0
                                          THEN Plane(h[block + 1].last, Row, Col)
                                          ELSE Lorenzo(recon, X, Y),
                                          type[n + 1] - Radius, Eb)
  BY <1>4, <1>11, <1>12, Zenon DEF Described
<1>18. (IF indicator[block + 1] = 0 THEN Plane(h[block + 1].last, Row, Col)
        ELSE Lorenzo(recon, X, Y)) = Prediction(recon)
  BY <1>13, Zenon DEF Prediction, ByPlane
<1>19. recon[<<X, Y>>] = IF t = 0 THEN Entry(unpred, used + 1)
                         ELSE Restored(Prediction(recon), t - Radius, Eb)
  <2>1. (n + 1) - 1 = n  BY <1>6
  <2> QED  BY <2>1, <1>7, <1>13, <1>17, <1>18
<1>20. out' = [out EXCEPT ![<<X, Y>>] = recon[<<X, Y>>]]  BY <1>10, <1>16, <1>19
<1>21. used' = g[n + 1]
  <2>1. Counts(g, type, unpred)  BY DEF Streams
  <2>2. g[n + 1] = g[(n + 1) - 1] + (IF type[n + 1] = 0 THEN 1 ELSE 0)
        /\ g \in [0 .. Len(type) -> Nat]
    BY <2>1, <1>17 DEF Counts
  <2>3. Len(type) \in Nat  BY <1>2, LenProperties DEF Typed
  <2>4. n \in 0 .. Len(type) /\ (n + 1) - 1 = n  BY <2>3, <1>6, <1>17
  <2>5. g[n] \in Nat  BY <2>2, <2>4
  <2> QED  BY <2>2, <2>4, <2>5, <1>7, <1>10, <1>13
<1> QED  BY <1>1, <1>3, <1>4, <1>20, <1>21

LEMMA DecodeValueHolds == ASSUME IInv, DecodeValue PROVE IInv'
<1>1. Typed /\ Lengths /\ WithinBound /\ \E g, h : Streams(g, h) /\ Caught(g, h)
  BY DEF IInv
<1>2. PICK g, h : Streams(g, h) /\ Caught(g, h)  BY <1>1
<1>3. /\ stage = "decode" /\ begun /\ IsCell(data, block, cell) /\ Step
      /\ stage' = (IF LastCell /\ block = Blocks - 1 THEN "done" ELSE "decode")
      /\ UNCHANGED <<data, recon, cur, next, indicator, coeffType, coeffExact, type, unpred,
                     coeffIndex, coeffUsed, last>>
      /\ out' = [out EXCEPT ![<<X, Y>>] = recon[<<X, Y>>]]
      /\ used' = g[Index(data, block, cell) + 1]
  BY <1>2, ValueDecoded
<1>4. /\ block' = NextBlockOf(data, block, cell) /\ cell' = NextCellOf(data, block, cell)
      /\ begun' \in BOOLEAN /\ (~ begun' => cell' = 0)
      /\ IF LastCell /\ block = Blocks - 1
         THEN block' = Total(data) /\ cell' = 0 /\ ~ begun'
         ELSE IsCell(data, block', cell')
      /\ LastCell => block' = block + 1 /\ cell' = 0 /\ ~ begun'
      /\ ~ LastCell => block' = block /\ cell' = cell + 1 /\ begun'
  BY <1>1, <1>3, StepIs
<1>5. stage' \in {"decode", "done"}  BY <1>3
<1>6. Lengths' /\ Buffers' /\ WithinBound' /\ Streams(g, h)'
  BY <1>1, <1>2, <1>3, <1>5, DecodeKeeps
<1>7. /\ out \in [Cells -> Int] /\ recon \in [Cells -> Int] /\ last \in [1 .. 3 -> Int]
  BY <1>1 DEF Typed
<1>8. /\ X \in 0 .. data.rows - 1 /\ Y \in 0 .. data.cols - 1
      /\ <<X, Y>> = Place(data, block, cell) /\ IsArray(data)
  BY <1>1, <1>3, HereBounds, ArrayOf
<1>9. <<X, Y>> \in Cells  BY <1>8 DEF Cells
<1>10. out' \in [Cells -> Int]
  <2>1. recon[<<X, Y>>] \in Int  BY <1>7, <1>9
  <2> QED  BY <2>1, <1>3, <1>7
<1>11. Typed'
  <2>1. stage' = "decode" => IsCell(data, block', cell')  BY <1>3, <1>4
  <2>2. stage' = "done" => block' = Total(data) /\ cell' = 0 /\ ~ begun'  BY <1>3, <1>4
  <2>3. last' \in [1 .. 3 -> Int]  BY <1>3, <1>7
  <2> QED  BY <2>1, <2>2, <2>3, <1>1, <1>3, <1>4, <1>5, <1>10, DecodeTyped
<1>12. \A x \in 0 .. data'.rows - 1, y \in 0 .. data'.cols - 1 :
         Done(data', block', cell', x, y) => out'[<<x, y>>] = recon'[<<x, y>>]
  <2>1. data' = data  BY <1>3
  <2> SUFFICES ASSUME NEW x \in 0 .. data.rows - 1, NEW y \in 0 .. data.cols - 1,
                      Done(data, block', cell', x, y)
               PROVE  out'[<<x, y>>] = recon'[<<x, y>>]
    BY <2>1
  <2>2. Done(data, block, cell, x, y) \/ <<x, y>> = <<X, Y>>
    BY <1>3, <1>4, <1>8, NextDone
  <2>3. <<x, y>> \in Cells  BY DEF Cells
  <2>4. CASE <<x, y>> = <<X, Y>>  BY <2>3, <2>4, <1>3, <1>7
  <2>5. CASE <<x, y>> # <<X, Y>>
    <3>1. out[<<x, y>>] = recon[<<x, y>>]  BY <2>2, <2>5, <1>2, <1>3 DEF Caught
    <3>2. out'[<<x, y>>] = out[<<x, y>>]  BY <2>3, <2>5, <1>3, <1>7
    <3> QED  BY <3>1, <3>2, <1>3
  <2> QED  BY <2>4, <2>5
<1>13. used' = g[Index(data', block', cell')]
  <2>1. Index(data, block', cell') = Index(data, block, cell) + 1
    BY <1>3, <1>4, <1>8, NextIndex
  <2> QED  BY <2>1, <1>3
<1>14. h[IF begun' THEN block' + 1 ELSE block']
         = [index |-> coeffIndex', used |-> coeffUsed', last |-> last']
  <2>1. h[block + 1] = [index |-> coeffIndex, used |-> coeffUsed, last |-> last]
    BY <1>2, <1>3 DEF Caught
  <2>2. (IF begun' THEN block' + 1 ELSE block') = block + 1  BY <1>4
  <2> QED  BY <2>1, <2>2, <1>3
<1>15. Caught(g, h)'
  <2>1. stage' # "encode" /\ stage' # "coded"  BY <1>5
  <2> QED  BY <2>1, <1>12, <1>13, <1>14 DEF Caught
<1> QED  BY <1>6, <1>11, <1>15 DEF IInv

-----------------------------------------------------------------------------
(* The theorems                                                            *)

LEMMA StutterHolds == ASSUME IInv, UNCHANGED vars PROVE IInv'
<1>1. UNCHANGED <<data, stage, block, cell, begun, last, cur, next, recon, indicator,
                  coeffType, coeffExact, type, unpred, out, used, coeffIndex, coeffUsed>>
  BY Zenon DEF vars, strips, streams, cursors
<1> PICK g, h : Streams(g, h) /\ Caught(g, h)  BY DEF IInv
<1>2. Typed'  BY <1>1, Zenon DEF IInv, Typed, Cells, Strip
<1>3. Lengths' /\ Buffers' /\ WithinBound'
  <2>1. Lengths /\ Buffers /\ WithinBound  BY DEF IInv
  <2>2. Lengths'  BY <1>1, <2>1 DEF Lengths
  <2>3. WithinBound'  BY <1>1, <2>1 DEF WithinBound
  <2>4. Buffers'  BY <1>1, <2>1 DEF Buffers
  <2> QED  BY <2>2, <2>3, <2>4
<1>4. Streams(g, h)'
  <2>1. \A b, c : Encoded(b, c)' => Described(g, h, b, c)'
    <3> TAKE b, c
    <3> HAVE Encoded(b, c)'
    <3>1. Encoded(b, c)  BY <1>1 DEF Encoded
    <3>2. Described(g, h, b, c)  BY <3>1 DEF Streams
    <3> QED  BY <1>1, <3>2, Zenon DEF Described
  <2>2. Counts(g, type', unpred') /\ Follows(h, indicator', coeffType', coeffExact')
    BY <1>1 DEF Streams
  <2>3. stage' = "encode" => last' = h[Len(indicator')].last  BY <1>1 DEF Streams
  <2> QED  BY <2>1, <2>2, <2>3 DEF Streams
<1>5. Caught(g, h)'  BY <1>1, Zenon DEF Caught
<1> QED  BY <1>2, <1>3, <1>4, <1>5 DEF IInv

THEOREM Invariant == Spec => []IInv
<1>1. ASSUME IInv, [Next]_vars PROVE IInv'
  <2>1. CASE BeginLorenzo  BY <1>1, <2>1, BeginLorenzoHolds
  <2>2. ASSUME NEW c \in Planes, BeginPlane(c) PROVE IInv'  BY <1>1, <2>2, BeginPlaneHolds
  <2>3. CASE EncodeValue  BY <1>1, <2>3, EncodeHolds
  <2>4. CASE Decompress  BY <1>1, <2>4, DecompressHolds
  <2>5. CASE OpenLorenzo  BY <1>1, <2>5, OpenLorenzoHolds
  <2>6. CASE OpenPlane  BY <1>1, <2>6, OpenPlaneHolds
  <2>7. CASE DecodeValue  BY <1>1, <2>7, DecodeValueHolds
  <2>8. CASE UNCHANGED vars  BY <1>1, <2>8, StutterHolds
  <2> QED  BY <1>1, <2>1, <2>2, <2>3, <2>4, <2>5, <2>6, <2>7, <2>8 DEF Next
<1> QED  BY Start, <1>1, PTL DEF Spec

\* What the property calls rebuilt is what comes before the cell at work.
LEMMA RebuiltDone ==
  ASSUME Typed, stage \in {"decode", "done"}, NEW p \in Rebuilt
  PROVE  p \in Cells /\ Done(data, block, cell, p[1], p[2])
<1>1. IsArray(data) /\ DOMAIN data.at = Cells  BY ArrayOf
<1>2. CASE stage = "done"
  <2>1. p \in Cells  BY <1>1, <1>2 DEF Rebuilt
  <2>2. block = Total(data) /\ cell = 0  BY <1>2 DEF Typed
  <2>3. p[1] \in 0 .. data.rows - 1  BY <2>1 DEF Cells
  <2> QED  BY <2>1, <2>2, <2>3, <1>1, LastDone
<1>3. CASE stage = "decode"
  <2> DEFINE x == p[1]
             y == p[2]
  <2>1. p \in Cells  BY <1>1, <1>3 DEF Rebuilt
  <2>2. PICK b \in 0 .. block :
          /\ x - Top(data, b) \in 0 .. High(data, b) - 1
          /\ y - LeftOf(data, b) \in 0 .. Wide(data, b) - 1
          /\ b = block => ((x - Top(data, b)) * Wide(data, b)) + (y - LeftOf(data, b)) < cell
    BY <1>3, Zenon DEF Rebuilt, Top, LeftOf, High, Wide, Across
  <2>3. /\ IsCell(data, block, cell) /\ block \in 0 .. Total(data) - 1 /\ Total(data) \in Nat
        /\ block \in 0 .. Total(data) /\ cell \in Nat
    <3>1. IsCell(data, block, cell)  BY <1>3 DEF Typed
    <3> QED  BY <3>1, <1>1, TotalNat, HereBounds
  <2>4. b \in 0 .. Total(data) - 1 /\ b \in 0 .. Total(data) /\ b < Total(data) /\ b <= block
    BY <2>3
  <2> DEFINE h == High(data, b)
             w == Wide(data, b)
             i == x - Top(data, b)
             j == y - LeftOf(data, b)
             c == (w * i) + j
  <2>5. h \in Nat \ {0} /\ w \in Nat \ {0} /\ Top(data, b) \in Nat /\ LeftOf(data, b) \in Nat
    <3>1. h \in 1 .. Early(data.rows) /\ Early(data.rows) \in Nat /\ w \in Nat \ {0}
          /\ Top(data, b) \in Nat /\ LeftOf(data, b) \in Nat
      BY <1>1, <2>4, BlockBounds
    <3> HIDE DEF h, w
    <3> QED  BY <3>1
  <2>6. i \in 0 .. h - 1 /\ j \in 0 .. w - 1  BY <2>2
  <2>7. x = Top(data, b) + i /\ y = LeftOf(data, b) + j
    <3>1. x \in Int /\ y \in Int  BY <2>1 DEF Cells
    <3> HIDE DEF x, y
    <3> QED  BY <3>1, <2>5
  <2>8. c \in Nat /\ c \in 0 .. h * w - 1 /\ w * i = i * w
    <3> HIDE DEF h, w, i, j
    <3>1. i \in Nat /\ i <= h - 1 /\ h - 1 \in Nat  BY <2>5, <2>6
    <3>2. i * w <= (h - 1) * w /\ i * w \in Nat /\ (h - 1) * w \in Nat
      BY <2>5, <3>1, TimesMonotonic
    <3>3. (h - 1) * w = h * w - w /\ w * i = i * w /\ h * w \in Int  BY <2>5, <3>1
    <3> QED  BY <2>5, <2>6, <3>2, <3>3
  <2>9. c \div w = i /\ c % w = j
    <3> HIDE DEF h, w, i, j
    <3>1. i \in Nat /\ j \in 0 .. w - 1 /\ c \in Nat  BY <2>5, <2>6, <2>8
    <3>2. c = w * i + j  OBVIOUS
    <3> QED  BY <3>1, <3>2, <2>5, DivModUnique
  <2>10. IsCell(data, b, c)  BY <2>4, <2>8 DEF IsCell
  <2>11. RowIn(data, b, c) = i /\ ColIn(data, b, c) = j  BY <2>9 DEF RowIn, ColIn
  <2>12. Before(b, c, block, cell)
    <3>1. b = block => c < cell
      <4> ((x - Top(data, b)) * Wide(data, b)) + (y - LeftOf(data, b)) = (i * w) + j  OBVIOUS
      <4>1. b = block => (i * w) + j < cell  BY <2>2
      <4> QED  BY <4>1, <2>8
    <3>2. b < block \/ b = block  BY <2>3, <2>4
    <3> QED  BY <3>1, <3>2 DEF Before
  <2> HIDE DEF x, y, i, j, c
  <2>13. Done(data, block, cell, Top(data, b) + RowIn(data, b, c), LeftOf(data, b) + ColIn(data, b, c))
    BY <1>1, <2>3, <2>10, <2>12, BeforeDone
  <2>14. Done(data, block, cell, x, y)  BY <2>7, <2>11, <2>13
  <2> QED  BY <2>1, <2>14 DEF x, y
<1> QED  BY <1>2, <1>3

LEMMA RebuiltSame ==
  ASSUME IInv, stage \in {"decode", "done"}, NEW p \in Rebuilt
  PROVE  p \in Cells /\ out[p] = recon[p]
<1> PICK g, h : Streams(g, h) /\ Caught(g, h)  BY DEF IInv
<1>1. p \in Cells /\ Done(data, block, cell, p[1], p[2])  BY RebuiltDone DEF IInv
<1>2. p[1] \in 0 .. data.rows - 1 /\ p[2] \in 0 .. data.cols - 1 /\ p = <<p[1], p[2]>>
  BY <1>1 DEF Cells
<1>3. out[<<p[1], p[2]>>] = recon[<<p[1], p[2]>>]  BY <1>1, <1>2 DEF Caught
<1> QED  BY <1>1, <1>2, <1>3

\* The decompressor, which predicts from the whole array and restores each
\* plane from its codes, rebuilds every value as the compressor took it to,
\* which saw of the array only what its two strip buffers had kept.
THEOREM Synchronous == Spec => []InSync
<1>1. IInv => InSync  BY RebuiltSame DEF InSync
<1> QED  BY Invariant, <1>1, PTL

\* Every value that has been rebuilt is within the bound, whichever predictor
\* its block has and whatever plane was fitted to it.
THEOREM Bounded == Spec => []BoundKept
<1>1. IInv => BoundKept
  <2> SUFFICES ASSUME IInv, stage \in {"decode", "done"}, NEW p \in Rebuilt
               PROVE  Abs(out[p] - data.at[p]) <= Eb
    BY DEF BoundKept
  <2>1. p \in Cells /\ out[p] = recon[p]  BY RebuiltSame
  <2>2. p[1] \in 0 .. data.rows - 1 /\ p[2] \in 0 .. data.cols - 1 /\ p = <<p[1], p[2]>>
    BY <2>1 DEF Cells
  <2>3. WithinBound /\ stage # "encode"  BY DEF IInv
  <2>4. Abs(recon[<<p[1], p[2]>>] - data.at[<<p[1], p[2]>>]) <= Eb
    BY <2>2, <2>3 DEF WithinBound
  <2> QED  BY <2>1, <2>2, <2>4
<1> QED  BY Invariant, <1>1, PTL

\* When the array is rebuilt the decompressor has taken every exact value,
\* every plane and every exact coefficient, each once: its three cursors are
\* at the ends of their streams.
THEOREM Exhausted == Spec => []UsedUp
<1>1. IInv => UsedUp
  <2> SUFFICES ASSUME IInv, stage = "done"
               PROVE  /\ used = Len(unpred) /\ coeffIndex = Len(coeffType)
                      /\ \A e \in 1 .. 3 : coeffUsed[e] = Len(coeffExact[e])
    BY DEF UsedUp
  <2> PICK g, h : Streams(g, h) /\ Caught(g, h)  BY DEF IInv
  <2>1. block = Total(data) /\ cell = 0 /\ ~ begun  BY DEF IInv, Typed
  <2>2. Len(type) = Index(data, block, cell) /\ Len(indicator) = block
    BY <2>1 DEF IInv, Lengths
  <2>3. /\ used = g[Len(type)]
        /\ h[Len(indicator)] = [index |-> coeffIndex, used |-> coeffUsed, last |-> last]
    BY <2>1, <2>2 DEF Caught
  <2>4. g[Len(type)] = Len(unpred)  BY DEF Streams, Counts
  <2>5. /\ h[Len(indicator)].index = Len(coeffType)
        /\ \A e \in 1 .. 3 : h[Len(indicator)].used[e] = Len(coeffExact[e])
    BY DEF Streams, Follows
  <2> QED  BY <2>3, <2>4, <2>5
<1> QED  BY Invariant, <1>1, PTL
=============================================================================
