---------------------------- MODULE VarSetProofs ----------------------------
(***************************************************************************)
(* The linked list of the registered variables stays well formed whatever  *)
(* is called in whatever order, for any number of addresses, ids and names *)
(* and any width of the count: the last variable may be removed by its     *)
(* name, and a read of freed memory may give anything.  What such a call   *)
(* can spoil is where the next variable goes, and the theorems say until   *)
(* when it has not.                                                        *)
(*                                                                         *)
(* The list of the model is what following links from the header gives.    *)
(* The invariant says which nodes these are before any link is followed:   *)
(* there is a sequence of addresses, all different, all allocated, each of *)
(* which holds the next one.  A variable is added behind one of them, and  *)
(* then cuts off those after it, or behind a node that is none of them,    *)
(* and then is not on the list: either way there is such a sequence again. *)
(***************************************************************************)
EXTENDS VarSet, FiniteSetTheorems, SequenceTheorems, WellFoundedInduction, TLAPS

\* Where a link of the list is: in the header or in one of its nodes.
At(s, i) == IF i = 0 THEN Header ELSE s[i]

\* The nodes of s are different and follow each other from the header.
Prefixed(s) ==
  /\ \A i, j \in 1 .. Len(s) : s[i] = s[j] => i = j
  /\ \A i \in 0 .. Len(s) - 1 : heap[At(s, i)].next = s[i + 1]

\* The nodes of the list are those of s, in this order.
Chained(s) ==
  /\ \A i, j \in 1 .. Len(s) : s[i] = s[j] => i = j
  /\ \A i \in 0 .. Len(s) :
       heap[At(s, i)].next = IF i = Len(s) THEN Null ELSE s[i + 1]

\* All there is beside the links agrees with s, as long as it is relied on.
Linked(s) ==
  /\ Chained(s)
  /\ Header \in live /\ \A i \in 1 .. Len(s) : s[i] \in live
  /\ lastVar \in Addresses
  /\ ~stale => lastVar = At(s, Len(s))
  /\ ~lost => live = {Header} \cup {s[i] : i \in 1 .. Len(s)}
  /\ ~lost => count = Len(s) % CountValues

Node == [id : 0 .. 255, name : Names, next : Addresses \cup {Null}]

Typed ==
  /\ sz_varset \in {"NULL", "allocated", "freed"}
  /\ heap \in [Addresses -> Node]
  /\ status \in {"SZ_SCES", "SZ_NSCS"}
  /\ lastVar \in Addresses \cup {Null}
  /\ count \in 0 .. CountValues - 1
  /\ live \subseteq Addresses
  /\ stale \in BOOLEAN /\ lost \in BOOLEAN

Shape ==
  /\ sz_varset = "allocated" => \E s \in Seq(Slots) : Linked(s)
  /\ sz_varset = "NULL" => /\ live = {} /\ count = 0 /\ heap[Header].next = Null
                           /\ ~stale /\ ~lost
  /\ sz_varset = "freed" /\ ~lost => live = {}

IInv == Typed /\ Shape

-----------------------------------------------------------------------------
(* Numbers and sequences                                                   *)

LEMMA DivMod ==
  ASSUME NEW n \in Int, NEW d \in Nat \ {0}
  PROVE  n \div d \in Int /\ n % d \in 0 .. d - 1 /\ n = d * (n \div d) + (n % d)
OBVIOUS

LEMMA ModUnique ==
  ASSUME NEW n \in Int, NEW d \in Nat \ {0}, NEW q \in Int, NEW r \in 0 .. d - 1,
         n = d * q + r
  PROVE  n % d = r
<1> DEFINE p == n \div d
           s == n % d
<1>1. p \in Int /\ s \in 0 .. d - 1 /\ n = d * p + s  BY DivMod
<1> HIDE DEF p, s
<1>2. d * p \in Int /\ d * q \in Int  BY <1>1
<1>3. ASSUME p >= q + 1 PROVE FALSE
  <2>1. d * p >= d * (q + 1) /\ d * (q + 1) = d * q + d  BY <1>1, <1>3
  <2> QED  BY <1>1, <1>2, <2>1
<1>4. ASSUME p + 1 <= q PROVE FALSE
  <2>1. d * q >= d * (p + 1) /\ d * (p + 1) = d * p + d  BY <1>1, <1>4
  <2> QED  BY <1>1, <1>2, <2>1
<1>5. p = q  BY <1>1, <1>3, <1>4
<1> QED  BY <1>1, <1>2, <1>5 DEF p, s

LEMMA ModSteps ==
  ASSUME NEW n \in Nat, NEW d \in Nat \ {0}, NEW x \in {1, -1}
  PROVE  ((n % d) + x) % d = (n + x) % d
<1> DEFINE q == n \div d
           c == (n % d) + x
           p == c \div d
           s == c % d
<1>1. q \in Int /\ (n % d) \in Int /\ n = d * q + (n % d)  BY DivMod
<1>2. c \in Int  BY <1>1
<1> HIDE DEF q
<1>3. n + x = d * q + c  BY <1>1
<1> HIDE DEF c
<1>4. p \in Int /\ s \in 0 .. d - 1 /\ c = d * p + s  BY <1>2, DivMod
<1> HIDE DEF p, s
<1>5. d * q + d * p = d * (q + p) /\ d * q \in Int /\ d * p \in Int /\ q + p \in Int
  BY <1>1, <1>4
<1>6. n + x = d * (q + p) + s  BY <1>3, <1>4, <1>5
<1>7. n + x \in Int  OBVIOUS
<1>8. (n + x) % d = s  BY <1>4, <1>5, <1>6, <1>7, ModUnique
<1> QED  BY <1>8 DEF s, c
LEMMA LeastNat ==
  ASSUME NEW S \in SUBSET Nat, S # {}
  PROVE  \E m \in S : \A x \in S : m <= x
<1> DEFINE R == OpToRel(<, Nat)
<1>1. IsWellFoundedOn(R, Nat)  BY NatLessThanWellFounded
<1>2. \A x, y \in Nat : x < y => <<x, y>> \in R  BY DEF OpToRel
<1> HIDE DEF R
<1>3. PICK m \in S : \A y \in S : ~ (<<y, m>> \in R)  BY <1>1, WFMin
<1>4. ASSUME NEW x \in S PROVE m <= x
  <2>1. x \in Nat /\ m \in Nat  OBVIOUS
  <2>2. ~ (x < m)  BY <1>2, <1>3, <2>1, Zenon
  <2> QED  BY <2>1, <2>2
<1> QED  BY <1>4

\* A sequence without its k-th element.
Without(s, k) == [i \in 1 .. Len(s) - 1 |-> IF i < k THEN s[i] ELSE s[i + 1]]

LEMMA WithoutProperties ==
  ASSUME NEW S, NEW s \in Seq(S), NEW k \in 1 .. Len(s)
  PROVE  /\ Without(s, k) \in Seq(S)
         /\ Len(Without(s, k)) = Len(s) - 1
         /\ SubSeq(s, 1, k - 1) \o SubSeq(s, k + 1, Len(s)) = Without(s, k)
<1> DEFINE w == Without(s, k)
           a == SubSeq(s, 1, k - 1)
           b == SubSeq(s, k + 1, Len(s))
<1>1. Len(s) \in Nat /\ \A i \in 1 .. Len(s) : s[i] \in S  BY ElementOfSeq, LenProperties
<1>2. w \in Seq(S) /\ Len(w) = Len(s) - 1
  <2>1. \A i \in 1 .. Len(s) - 1 : (IF i < k THEN s[i] ELSE s[i + 1]) \in S  BY <1>1
  <2>2. Len(s) - 1 \in Nat  BY <1>1
  <2> QED  BY <2>1, <2>2 DEF Without
<1>3. a \in Seq(S) /\ Len(a) = k - 1 /\ \A i \in 1 .. k - 1 : a[i] = s[i]
  <2>1. \A i \in 1 .. k - 1 : s[i] \in S  BY <1>1
  <2>2. k - 1 \in Int /\ 1 \in Int  BY <1>1
  <2>3. /\ a \in Seq(S)
        /\ Len(a) = IF 1 <= k - 1 THEN k - 1 - 1 + 1 ELSE 0
        /\ \A i \in 1 .. k - 1 - 1 + 1 : a[i] = s[1 + i - 1]
    BY <2>1, <2>2, SubSeqProperties
  <2> QED  BY <1>1, <2>3
<1>4. b \in Seq(S) /\ Len(b) = Len(s) - k /\ \A i \in 1 .. Len(s) - k : b[i] = s[k + i]
  <2>1. \A i \in k + 1 .. Len(s) : s[i] \in S  BY <1>1
  <2>2. k + 1 \in Int /\ Len(s) \in Int  BY <1>1
  <2>3. /\ b \in Seq(S)
        /\ Len(b) = IF k + 1 <= Len(s) THEN Len(s) - (k + 1) + 1 ELSE 0
        /\ \A i \in 1 .. Len(s) - (k + 1) + 1 : b[i] = s[k + 1 + i - 1]
    BY <2>1, <2>2, SubSeqProperties
  <2> QED  BY <1>1, <2>3
<1> HIDE DEF w, a, b
<1>5. /\ a \o b \in Seq(S) /\ Len(a \o b) = Len(s) - 1
      /\ \A i \in 1 .. Len(s) - 1 : (a \o b)[i] = IF i <= k - 1 THEN a[i] ELSE b[i - (k - 1)]
  <2>1. a \in Seq(S) /\ b \in Seq(S)  BY <1>3, <1>4
  <2>2. /\ a \o b \in Seq(S) /\ Len(a \o b) = Len(a) + Len(b)
        /\ \A i \in 1 .. Len(a) + Len(b) :
             (a \o b)[i] = IF i <= Len(a) THEN a[i] ELSE b[i - Len(a)]
    BY <2>1, ConcatProperties
  <2>3. Len(a) = k - 1 /\ Len(a) + Len(b) = Len(s) - 1  BY <1>1, <1>3, <1>4
  <2> QED  BY <2>2, <2>3
<1>6. ASSUME NEW i \in 1 .. Len(s) - 1 PROVE (a \o b)[i] = w[i]
  <2>1. w[i] = IF i < k THEN s[i] ELSE s[i + 1]  BY <1>1 DEF w, Without
  <2>2. CASE i < k
    <3>1. i \in 1 .. k - 1 /\ i <= k - 1  BY <2>2, <1>1
    <3> QED  BY <2>1, <2>2, <3>1, <1>5, <1>3
  <2>3. CASE ~ (i < k)
    <3>1. ~ (i <= k - 1) /\ i - (k - 1) \in 1 .. Len(s) - k /\ k + (i - (k - 1)) = i + 1
      BY <2>3, <1>1
    <3> QED  BY <2>1, <2>3, <3>1, <1>5, <1>4
  <2> QED  BY <2>2, <2>3
<1>7. a \o b = w  BY <1>2, <1>5, <1>6, SeqEqual
<1> QED  BY <1>2, <1>7 DEF w, a, b

-----------------------------------------------------------------------------
(* Following links                                                         *)

\* A chain has no more nodes than there are addresses.
LEMMA ChainFits ==
  ASSUME NEW s \in Seq(Slots), Chained(s)
  PROVE  /\ Len(s) \in Nat /\ \A i \in 1 .. Len(s) : s[i] \in Slots
         /\ Cardinality(Slots) \in Nat /\ Len(s) <= Cardinality(Slots)
<1>1. Len(s) \in Nat /\ s \in [1 .. Len(s) -> Slots]  BY LenProperties
<1>2. \A i, j \in 1 .. Len(s) : s[i] = s[j] => i = j  BY DEF Chained
<1>3. s \in Injection(1 .. Len(s), Slots)  BY <1>1, <1>2 DEF Injection, IsInjective
<1>4. IsFiniteSet(Slots) /\ Cardinality(Slots) \in Nat
  BY VarSetAssumption, FS_CardinalityType
<1>5. Cardinality(1 .. Len(s)) <= Cardinality(Slots)  BY <1>3, <1>4, FS_Injection
<1>6. 1 \in Int /\ Len(s) \in Int  BY <1>1
<1>7. Cardinality(1 .. Len(s)) = IF 1 > Len(s) THEN 0 ELSE Len(s) - 1 + 1
  BY <1>6, FS_Interval
<1> QED  BY <1>1, <1>4, <1>5, <1>7

\* n links lead to the n-th node, and from the last one on to nothing.
LEMMA HopIs ==
  ASSUME NEW s \in Seq(Slots), Chained(s)
  PROVE  \A n \in 0 .. Cardinality(Slots) + 1 :
           Hop[n] = IF n <= Len(s) THEN At(s, n) ELSE Null
<1> DEFINE D == 0 .. Cardinality(Slots) + 1
           node(n) == IF n <= Len(s) THEN At(s, n) ELSE Null
           Follow(h) == [n \in D |-> IF n = 0 THEN Header
                                     ELSE IF h[n - 1] = Null THEN Null
                                     ELSE heap[h[n - 1]].next]
           path == [n \in D |-> node(n)]
<1>1. /\ Len(s) \in Nat /\ \A i \in 1 .. Len(s) : s[i] \in Slots
      /\ Cardinality(Slots) \in Nat /\ Len(s) <= Cardinality(Slots)
  BY ChainFits
<1>2. \A i \in 0 .. Len(s) : At(s, i) # Null /\ node(i) = At(s, i)
  <2> TAKE i \in 0 .. Len(s)
  <2>1. i = 0 \/ i \in 1 .. Len(s)  BY <1>1
  <2> QED  BY <2>1, <1>1, VarSetAssumption DEF At
<1>3. ASSUME NEW n \in D
      PROVE  node(n) = IF n = 0 THEN Header
                       ELSE IF node(n - 1) = Null THEN Null ELSE heap[node(n - 1)].next
  <2>1. CASE n = 0  BY <2>1, <1>1 DEF At
  <2>2. CASE n \in 1 .. Len(s)
    <3>1. n - 1 \in 0 .. Len(s) /\ n - 1 # Len(s) /\ n - 1 + 1 = n /\ n # 0 /\ n <= Len(s)
      BY <2>2, <1>1
    <3>2. node(n - 1) = At(s, n - 1) /\ At(s, n - 1) # Null  BY <3>1, <1>2
    <3>3. heap[At(s, n - 1)].next = s[n]  BY <3>1 DEF Chained
    <3>4. node(n) = s[n]  BY <3>1 DEF At
    <3> QED  BY <3>1, <3>2, <3>3, <3>4
  <2>3. CASE n = Len(s) + 1
    <3>1. n - 1 = Len(s) /\ n # 0 /\ ~ (n <= Len(s)) /\ Len(s) \in 0 .. Len(s)  BY <2>3, <1>1
    <3>2. node(n - 1) = At(s, Len(s)) /\ At(s, Len(s)) # Null  BY <3>1, <1>2
    <3>3. heap[At(s, Len(s))].next = Null  BY <3>1 DEF Chained
    <3>4. node(n) = Null  BY <3>1
    <3> QED  BY <3>1, <3>2, <3>3, <3>4
  <2>4. CASE n > Len(s) + 1
    <3>1. n # 0 /\ ~ (n <= Len(s)) /\ ~ (n - 1 <= Len(s))  BY <2>4, <1>1
    <3>2. node(n) = Null /\ node(n - 1) = Null  BY <3>1
    <3> QED  BY <3>1, <3>2
  <2>5. n = 0 \/ n \in 1 .. Len(s) \/ n = Len(s) + 1 \/ n > Len(s) + 1  BY <1>1
  <2> QED  BY <2>1, <2>2, <2>3, <2>4, <2>5
<1>4. path = Follow(path)
  <2> HIDE DEF node
  <2>1. ASSUME NEW n \in D, n # 0 PROVE path[n - 1] = node(n - 1)
    <3>1. n - 1 \in D  BY <2>1, <1>1
    <3> QED  BY <3>1
  <2>2. ASSUME NEW n \in D
        PROVE  node(n) = IF n = 0 THEN Header
                         ELSE IF path[n - 1] = Null THEN Null ELSE heap[path[n - 1]].next
    BY <1>3, <2>1
  <2> HIDE DEF D
  <2> QED  BY <2>2
<1>5. Hop = CHOOSE h : h = Follow(h)  BY DEF Hop
<1> DEFINE h == Hop
<1>6. h = Follow(h)
  <2> HIDE DEF Follow, path
  <2>1. \E f : f = Follow(f)  BY <1>4
  <2>2. (CHOOSE f : f = Follow(f)) = Follow(CHOOSE f : f = Follow(f))  BY <2>1, Zenon
  <2> QED  BY <1>5, <2>2
<1> HIDE DEF h
<1>7. ASSUME NEW n \in D
      PROVE  h[n] = IF n = 0 THEN Header
                    ELSE IF h[n - 1] = Null THEN Null ELSE heap[h[n - 1]].next
  BY <1>6, Zenon DEF Follow
<1> DEFINE Bad == {n \in D : h[n] # node(n)}
<1>8. Bad = {}
  <2> SUFFICES ASSUME Bad # {} PROVE FALSE  OBVIOUS
  <2>1. Bad \in SUBSET Nat  BY <1>1
  <2>2. PICK m \in Bad : \A x \in Bad : m <= x  BY <2>1, LeastNat
  <2>3. m \in D /\ h[m] # node(m)  BY <2>2
  <2>4. CASE m = 0  BY <2>3, <2>4, <1>3, <1>7
  <2>5. CASE m # 0
    <3>1. m - 1 \in D /\ ~ (m <= m - 1)  BY <2>3, <2>5, <1>1
    <3>2. h[m - 1] = node(m - 1)
      <4>1. m - 1 \notin Bad  BY <3>1, <2>2
      <4> QED  BY <4>1, <3>1
    <3> HIDE DEF node, Bad
    <3> QED  BY <2>3, <2>5, <3>2, <1>3, <1>7
  <2> QED  BY <2>4, <2>5
<1> QED  BY <1>8 DEF h

\* So the list of the model is the chain.
LEMMA ListIs ==
  ASSUME sz_varset = "allocated", NEW s \in Seq(Slots), Chained(s)
  PROVE  List = s /\ Length = Len(s) /\ \A n \in 0 .. Len(s) : Hop[n] = At(s, n)
<1>1. /\ Len(s) \in Nat /\ \A i \in 1 .. Len(s) : s[i] \in Slots
      /\ Cardinality(Slots) \in Nat /\ Len(s) <= Cardinality(Slots)
  BY ChainFits
<1>2. \A n \in 0 .. Len(s) : Hop[n] = At(s, n)
  <2> TAKE n \in 0 .. Len(s)
  <2>1. n \in 0 .. Cardinality(Slots) + 1 /\ n <= Len(s)  BY <1>1
  <2> QED  BY <2>1, HopIs
<1>3. {n \in 1 .. Cardinality(Slots) : Hop[n] # Null} = 1 .. Len(s)
  <2> SUFFICES ASSUME NEW n \in 1 .. Cardinality(Slots)
               PROVE  Hop[n] # Null <=> n <= Len(s)
    BY <1>1
  <2>1. n \in 0 .. Cardinality(Slots) + 1 /\ n # 0  BY <1>1
  <2>2. CASE n <= Len(s)
    <3>1. n \in 1 .. Len(s)  BY <2>1, <2>2
    <3>2. Hop[n] = s[n]  BY <2>1, <2>2, HopIs DEF At
    <3> QED  BY <3>1, <3>2, <2>2, <1>1, VarSetAssumption
  <2>3. CASE ~ (n <= Len(s))
    <3>1. Hop[n] = Null  BY <2>1, <2>3, HopIs
    <3> QED  BY <3>1, <2>3
  <2> QED  BY <2>2, <2>3
<1>4. Length = Len(s)
  <2>1. 1 \in Int /\ Len(s) \in Int  BY <1>1
  <2>2. Cardinality(1 .. Len(s)) = IF 1 > Len(s) THEN 0 ELSE Len(s) - 1 + 1
    BY <2>1, FS_Interval
  <2>3. Cardinality(1 .. Len(s)) = Len(s)  BY <2>2, <1>1
  <2>4. Length = Cardinality(1 .. Len(s))  BY <1>3, Zenon DEF Length
  <2> QED  BY <2>3, <2>4
<1>5. List = [n \in 1 .. Len(s) |-> Hop[n]]  BY <1>4 DEF List
<1>6. \A n \in 1 .. Len(s) : Hop[n] = s[n]
  <2> TAKE n \in 1 .. Len(s)
  <2>1. n \in 0 .. Len(s) /\ n # 0  BY <1>1
  <2> QED  BY <2>1, <1>2 DEF At
<1>7. s = [n \in 1 .. Len(s) |-> s[n]]  BY LenProperties
<1> HIDE DEF Hop, List, Length
<1>8. List = s  BY <1>5, <1>6, <1>7
<1> QED  BY <1>2, <1>4, <1>8

\* What a search for a field finds: the first node that has the value, or none.
LEMMA FirstIs ==
  ASSUME sz_varset = "allocated", NEW s \in Seq(Slots), Chained(s), NEW f, NEW v
  PROVE  \/ /\ First(f, v) = 0
            /\ \A n \in 1 .. Len(s) : heap[s[n]][f] # v
         \/ /\ First(f, v) \in 1 .. Len(s)
            /\ heap[s[First(f, v)]][f] = v
            /\ \A n \in 1 .. First(f, v) - 1 : heap[s[n]][f] # v
<1>1. List = s /\ Len(s) \in Nat /\ DOMAIN s = 1 .. Len(s)  BY ListIs, LenProperties
<1> DEFINE hits == {n \in 1 .. Len(s) : heap[s[n]][f] = v}
<1>2. First(f, v) = IF hits = {} THEN 0
                    ELSE CHOOSE n \in hits : \A m \in hits : n <= m
  <2> DEFINE found == {n \in DOMAIN List : heap[List[n]][f] = v}
  <2>1. First(f, v) = IF found = {} THEN 0
                      ELSE CHOOSE n \in found : \A m \in found : n <= m
    BY DEF First
  <2>2. hits = found  BY <1>1
  <2> HIDE DEF hits, found
  <2> QED  BY <2>1, <2>2
<1>3. CASE hits = {}  BY <1>2, <1>3
<1>4. CASE hits # {}
  <2>1. hits \in SUBSET Nat  BY <1>1
  <2>2. \E n \in hits : \A m \in hits : n <= m  BY <2>1, <1>4, LeastNat
  <2> HIDE DEF hits
  <2>3. First(f, v) \in hits /\ \A m \in hits : First(f, v) <= m  BY <2>2, <1>2, <1>4, Zenon
  <2> USE DEF hits
  <2>4. First(f, v) \in 1 .. Len(s) /\ heap[s[First(f, v)]][f] = v  BY <2>3
  <2>5. ASSUME NEW n \in 1 .. First(f, v) - 1 PROVE heap[s[n]][f] # v
    <3>1. n \in 1 .. Len(s) /\ ~ (First(f, v) <= n)  BY <2>4, <1>1
    <3> QED  BY <3>1, <2>3
  <2> QED  BY <2>4, <2>5
<1> QED  BY <1>3, <1>4

-----------------------------------------------------------------------------
(* What the operations do to the chain                                     *)

\* What a registration and an entry are to the callers.
Variable(a) == [id |-> heap[a].id, name |-> heap[a].name]
Entries(s) == [k \in 1 .. Len(s) |-> Variable(s[k])]

LEMMA NextSet ==
  ASSUME NEW r \in Node, NEW a \in Addresses \cup {Null}
  PROVE  /\ [r EXCEPT !.next = a] \in Node
         /\ [r EXCEPT !.next = a].next = a
         /\ [r EXCEPT !.next = a].id = r.id
         /\ [r EXCEPT !.next = a].name = r.name
BY DEF Node

LEMMA StoredIn ==
  ASSUME NEW i \in Ids
  PROVE  Stored(i) \in 0 .. 255
<1>1. i \in Int /\ 256 \in Nat \ {0}  BY VarSetAssumption
<1>2. i % 256 \in 0 .. 256 - 1  BY <1>1, DivMod
<1> QED  BY <1>2 DEF Stored

LEMMA Added ==
  ASSUME Typed, NEW s \in Seq(Slots), Prefixed(s), \A j \in 1 .. Len(s) : s[j] \in live,
         NEW i \in Ids, NEW n \in Names, NEW a \in Slots \ live,
         heap' = [heap EXCEPT ![a] = [id |-> Stored(i), name |-> n, next |-> Null],
                              ![At(s, Len(s))].next = a]
  PROVE  /\ Append(s, a) \in Seq(Slots) /\ Len(Append(s, a)) = Len(s) + 1
         /\ Chained(Append(s, a))'
         /\ {Append(s, a)[j] : j \in 1 .. Len(s) + 1} = {s[j] : j \in 1 .. Len(s)} \cup {a}
         /\ At(Append(s, a), Len(s) + 1) = a
         /\ heap' \in [Addresses -> Node]
         /\ Entries(Append(s, a))' = Append(Entries(s), [id |-> Stored(i), name |-> n])
<1> DEFINE t == Append(s, a)
           m == Len(s)
<1>1. m \in Nat /\ \A j \in 1 .. m : s[j] \in Slots  BY LenProperties, ElementOfSeq
<1>2. /\ t \in Seq(Slots) /\ Len(t) = m + 1
      /\ \A j \in 1 .. m : t[j] = s[j]
      /\ t[m + 1] = a
  BY <1>1
<1>3. \A j \in 1 .. m : s[j] # a  OBVIOUS
<1>4. At(s, m) \in Addresses /\ At(s, m) # a /\ a \in Addresses
  <2>1. CASE m = 0  BY <2>1, VarSetAssumption DEF At, Addresses
  <2>2. CASE m # 0
    <3>1. m \in 1 .. m  BY <1>1, <2>2
    <3> QED  BY <3>1, <2>2, <1>1, <1>3 DEF At, Addresses
  <2> QED  BY <2>1, <2>2
<1>5. Stored(i) \in 0 .. 255  BY StoredIn
<1>6. /\ heap'[a] = [id |-> Stored(i), name |-> n, next |-> Null]
      /\ heap'[At(s, m)] = [heap[At(s, m)] EXCEPT !.next = a]
      /\ \A b \in Addresses : b # a /\ b # At(s, m) => heap'[b] = heap[b]
  BY <1>4 DEF Typed
<1>7. heap' \in [Addresses -> Node]
  <2>1. heap \in [Addresses -> Node]  BY DEF Typed
  <2>2. [id |-> Stored(i), name |-> n, next |-> Null] \in Node  BY <1>5 DEF Node
  <2>3. [heap[At(s, m)] EXCEPT !.next = a] \in Node
    <3>1. heap[At(s, m)] \in Node /\ a \in Addresses \cup {Null}  BY <2>1, <1>4
    <3> QED  BY <3>1, NextSet
  <2>4. \A b \in Addresses : heap'[b] \in Node  BY <2>1, <2>2, <2>3, <1>6
  <2>5. heap' = [b \in Addresses |-> heap'[b]]  BY <2>1
  <2> QED  BY <2>4, <2>5
<1>8. \A b \in Addresses : b # At(s, m) => heap'[b].next = IF b = a THEN Null ELSE heap[b].next
  <2> SUFFICES ASSUME NEW b \in Addresses, b # At(s, m)
               PROVE  heap'[b].next = IF b = a THEN Null ELSE heap[b].next
    OBVIOUS
  <2>1. CASE b = a
    <3>1. heap'[a].next = Null  BY <1>6
    <3> QED  BY <3>1, <2>1
  <2>2. CASE b # a
    <3>1. heap'[b] = heap[b]  BY <2>2, <1>6
    <3> QED  BY <3>1, <2>2
  <2> QED  BY <2>1, <2>2
<1>9. heap'[At(s, m)].next = a
  <2>1. heap[At(s, m)] \in Node  BY <1>4 DEF Typed
  <2> QED  BY <2>1, <1>6 DEF Node
<1>10. \A j \in 0 .. m : At(t, j) = At(s, j)  BY <1>1, <1>2 DEF At
<1>11. At(t, m + 1) = a  BY <1>1, <1>2 DEF At
<1> HIDE DEF t
<1>12. Chained(t)'
  <2>1. ASSUME NEW j \in 1 .. m + 1, NEW k \in 1 .. m + 1, t[j] = t[k] PROVE j = k
    <3>1. \A x, y \in 1 .. m : s[x] = s[y] => x = y  BY DEF Prefixed
    <3>2. CASE j \in 1 .. m /\ k \in 1 .. m  BY <3>1, <3>2, <2>1, <1>2
    <3>3. CASE j = m + 1 /\ k \in 1 .. m  BY <3>3, <2>1, <1>2, <1>3
    <3>4. CASE k = m + 1 /\ j \in 1 .. m  BY <3>4, <2>1, <1>2, <1>3
    <3> QED  BY <3>2, <3>3, <3>4, <1>1
  <2>2. ASSUME NEW j \in 0 .. m + 1
        PROVE  heap'[At(t, j)].next = IF j = m + 1 THEN Null ELSE t[j + 1]
    <3>1. CASE j = m + 1
      <4>1. heap'[a].next = Null  BY <1>6
      <4> QED  BY <4>1, <3>1, <1>11
    <3>2. CASE j = m  BY <3>2, <1>1, <1>2, <1>9, <1>10
    <3>3. CASE j < m
      <4>1. /\ j \in 0 .. m /\ m \in 0 .. m /\ j + 1 \in 1 .. m /\ j # m
            /\ j \in 0 .. m - 1
        BY <3>3, <1>1
      <4>2. heap[At(s, j)].next = s[j + 1]  BY <4>1 DEF Prefixed
      <4>3. At(s, j) \in Addresses /\ At(s, j) # a
        <5>1. j = 0 \/ j \in 1 .. m  BY <4>1, <1>1
        <5> QED  BY <5>1, <1>1, <1>3, VarSetAssumption DEF At, Addresses
      <4>4. At(s, j) # At(s, m)
        <5>1. CASE j = 0
          <6>1. m \in 1 .. m /\ m # 0  BY <4>1, <1>1
          <6> QED  BY <6>1, <5>1, <1>1, VarSetAssumption DEF At
        <5>2. CASE j # 0
          <6>1. j \in 1 .. m /\ m \in 1 .. m /\ m # 0  BY <4>1, <5>2, <1>1
          <6> QED  BY <6>1, <5>2, <4>1 DEF At, Prefixed
        <5> QED  BY <5>1, <5>2
      <4>5. heap'[At(s, j)].next = s[j + 1]  BY <4>2, <4>3, <4>4, <1>8
      <4> QED  BY <4>1, <4>5, <1>2, <1>10, <3>3, <1>1
    <3> QED  BY <3>1, <3>2, <3>3, <1>1
  <2> QED  BY <2>1, <2>2, <1>2 DEF Chained
<1>13. {t[j] : j \in 1 .. m + 1} = {s[j] : j \in 1 .. m} \cup {a}
  <2>1. \A j \in 1 .. m + 1 : t[j] \in {s[k] : k \in 1 .. m} \cup {a}
    <3> TAKE j \in 1 .. m + 1
    <3>1. j \in 1 .. m \/ j = m + 1  BY <1>1
    <3> QED  BY <3>1, <1>2
  <2>2. \A j \in 1 .. m : s[j] \in {t[k] : k \in 1 .. m + 1}
    <3> TAKE j \in 1 .. m
    <3>1. j \in 1 .. m + 1 /\ t[j] = s[j]  BY <1>1, <1>2
    <3> QED  BY <3>1
  <2>3. a \in {t[k] : k \in 1 .. m + 1}
    <3>1. m + 1 \in 1 .. m + 1  BY <1>1
    <3> QED  BY <3>1, <1>2
  <2> QED  BY <2>1, <2>2, <2>3, <1>2
<1>16. Entries(t)' = Append(Entries(s), [id |-> Stored(i), name |-> n])
  <2> DEFINE e == Entries(s)
             v == [id |-> Stored(i), name |-> n]
             V == [id : 0 .. 255, name : Names]
  <2>1. \A b \in Addresses : b # a => heap'[b].id = heap[b].id /\ heap'[b].name = heap[b].name
    <3> SUFFICES ASSUME NEW b \in Addresses, b # a
                 PROVE  heap'[b].id = heap[b].id /\ heap'[b].name = heap[b].name
      OBVIOUS
    <3>1. heap[b] \in Node /\ a \in Addresses \cup {Null}  BY <1>4 DEF Typed
    <3>2. CASE b = At(s, m)
      <4>1. heap'[b] = [heap[b] EXCEPT !.next = a]  BY <3>2, <1>6
      <4> DEFINE r == [heap[b] EXCEPT !.next = a]
      <4>2. r.id = heap[b].id /\ r.name = heap[b].name  BY <3>1, NextSet
      <4> HIDE DEF r
      <4> QED  BY <4>1, <4>2 DEF r
    <3>3. CASE b # At(s, m)
      <4>1. heap'[b] = heap[b]  BY <3>3, <1>6
      <4> QED  BY <4>1
    <3> QED  BY <3>2, <3>3
  <2>2. \A j \in 1 .. m : Variable(s[j])' = Variable(s[j])
    BY <2>1, <1>1, <1>3 DEF Variable, Addresses
  <2>3. Variable(a)' = v
    <3>1. heap'[a].id = Stored(i) /\ heap'[a].name = n  BY <1>6
    <3> QED  BY <3>1 DEF Variable
  <2>4. \A j \in 1 .. m : Variable(s[j]) \in V
    <3> TAKE j \in 1 .. m
    <3>1. heap[s[j]] \in Node  BY <1>1 DEF Typed, Addresses
    <3> QED  BY <3>1 DEF Node, Variable
  <2>v. v \in V  BY <1>5
  <2> HIDE DEF v
  <2>5. e \in Seq(V) /\ Len(e) = m /\ \A j \in 1 .. m : e[j] = Variable(s[j])
    BY <2>4, <1>1 DEF Entries
  <2> HIDE DEF e
  <2>6. /\ DOMAIN Append(e, v) = 1 .. m + 1
        /\ \A j \in 1 .. m : Append(e, v)[j] = e[j]
        /\ Append(e, v)[m + 1] = v
        /\ Append(e, v) = [j \in 1 .. m + 1 |-> Append(e, v)[j]]
    <3>1. Append(e, v) \in Seq(V) /\ Len(Append(e, v)) = m + 1  BY <2>5, <2>v, AppendProperties
    <3>2. Append(e, v) \in [1 .. m + 1 -> V]  BY <3>1, LenProperties
    <3>3. \A j \in 1 .. m : Append(e, v)[j] = e[j]  BY <2>5, <2>v, AppendProperties
    <3>4. Append(e, v)[m + 1] = v  BY <2>5, <2>v, AppendProperties
    <3> QED  BY <3>2, <3>3, <3>4
  <2>7. Entries(t)' = [j \in 1 .. m + 1 |-> Variable(t[j])']  BY <1>2 DEF Entries
  <2>8. \A j \in 1 .. m + 1 : Variable(t[j])' = Append(e, v)[j]
    <3> TAKE j \in 1 .. m + 1
    <3>1. CASE j \in 1 .. m  BY <3>1, <1>2, <2>2, <2>5, <2>6
    <3>2. CASE j = m + 1  BY <3>2, <1>2, <2>3, <2>6
    <3>3. j \in 1 .. m \/ j = m + 1  BY <1>1
    <3> QED  BY <3>1, <3>2, <3>3, Zenon
  <2> QED  BY <2>6, <2>7, <2>8 DEF e, v
<1> QED  BY <1>2, <1>7, <1>11, <1>12, <1>13, <1>16 DEF t

LEMMA Unlinked ==
  ASSUME Typed, sz_varset = "allocated", NEW s \in Seq(Slots), Linked(s),
         NEW k \in 1 .. Len(s), Unlink(k), lastVar' \in Addresses,
         ~stale' => lastVar' = At(Without(s, k), Len(s) - 1)
  PROVE  /\ Without(s, k) \in Seq(Slots) /\ Len(Without(s, k)) = Len(s) - 1
         /\ Linked(Without(s, k))'
         /\ heap' \in [Addresses -> Node]
         /\ live' \subseteq Addresses /\ count' \in 0 .. CountValues - 1
         /\ Entries(Without(s, k))' = Without(Entries(s), k)
<1> DEFINE w == Without(s, k)
           m == Len(s)
           q == At(s, k - 1)
<1>1. /\ m \in Nat /\ \A j \in 1 .. m : s[j] \in Slots
      /\ Cardinality(Slots) \in Nat /\ m <= Cardinality(Slots)
      /\ Chained(s)
  BY ChainFits DEF Linked
<1>2. /\ w \in Seq(Slots) /\ Len(w) = m - 1
      /\ \A j \in 1 .. m - 1 : w[j] = IF j < k THEN s[j] ELSE s[j + 1]
  BY WithoutProperties DEF Without
<1>3. Hop[k - 1] = q /\ Hop[k] = s[k]
  <2>1. k - 1 \in 0 .. m /\ k \in 0 .. m /\ k # 0  BY <1>1
  <2>2. \A n \in 0 .. m : Hop[n] = At(s, n)  BY <1>1, ListIs
  <2> QED  BY <2>1, <2>2 DEF At
<1>4. q \in Addresses /\ \A j \in 0 .. m : At(s, j) \in Addresses
  <2>1. \A j \in 0 .. m : At(s, j) \in Addresses
    <3> TAKE j \in 0 .. m
    <3>1. j = 0 \/ j \in 1 .. m  BY <1>1
    <3> QED  BY <3>1, <1>1 DEF At, Addresses
  <2>2. k - 1 \in 0 .. m  BY <1>1
  <2> QED  BY <2>1, <2>2
<1>5. \A i, j \in 0 .. m : At(s, i) = At(s, j) => i = j
  <2> SUFFICES ASSUME NEW i \in 0 .. m, NEW j \in 0 .. m, At(s, i) = At(s, j)
               PROVE  i = j
    OBVIOUS
  <2>1. (i = 0 \/ i \in 1 .. m) /\ (j = 0 \/ j \in 1 .. m)  BY <1>1
  <2>2. CASE i = 0 \/ j = 0  BY <2>1, <2>2, <1>1, VarSetAssumption DEF At
  <2>3. CASE i # 0 /\ j # 0  BY <2>1, <2>3, <1>1 DEF At, Chained
  <2> QED  BY <2>2, <2>3
<1> DEFINE next == IF k = m THEN Null ELSE s[k + 1]
<1>6. heap[s[k]].next = next
  <2>1. k \in 0 .. m /\ k # 0  BY <1>1
  <2> QED  BY <2>1, <1>1 DEF Chained, At
<1>7. next \in Addresses \cup {Null}
  <2>1. k # m => k + 1 \in 1 .. m  BY <1>1
  <2> QED  BY <2>1, <1>1 DEF Addresses
<1>8. heap' = [heap EXCEPT ![q] = [heap[q] EXCEPT !.next = next]]
  BY <1>3, <1>6, Zenon DEF Unlink
<1> HIDE DEF next
<1>9. /\ heap'[q] = [heap[q] EXCEPT !.next = next]
      /\ \A b \in Addresses : b # q => heap'[b] = heap[b]
      /\ heap' = [b \in Addresses |-> heap'[b]]
  BY <1>8, <1>4 DEF Typed
<1>10. \A b \in Addresses : /\ heap[b] \in Node /\ heap'[b] \in Node
                            /\ heap'[b].next = IF b = q THEN next ELSE heap[b].next
                            /\ heap'[b].id = heap[b].id /\ heap'[b].name = heap[b].name
  <2> TAKE b \in Addresses
  <2>1. heap[b] \in Node  BY DEF Typed
  <2>2. CASE b = q
    <3> DEFINE r == [heap[b] EXCEPT !.next = next]
    <3>1. r \in Node /\ r.next = next /\ r.id = heap[b].id /\ r.name = heap[b].name
      BY <2>1, <1>7, NextSet
    <3> HIDE DEF r
    <3>2. heap'[b] = r  BY <2>2, <1>9 DEF r
    <3> QED  BY <3>1, <3>2, <2>1, <2>2
  <2>3. CASE b # q
    <3>1. heap'[b] = heap[b]  BY <2>3, <1>9
    <3> QED  BY <3>1, <2>1, <2>3
  <2> QED  BY <2>2, <2>3
<1>11. heap' \in [Addresses -> Node]  BY <1>9, <1>10
<1> HIDE DEF w
<1>12. \A j \in 0 .. m - 1 : At(w, j) = At(s, IF j < k THEN j ELSE j + 1)
  <2> TAKE j \in 0 .. m - 1
  <2>1. CASE j = 0
    <3>1. 0 < k  BY <1>1
    <3> QED  BY <2>1, <3>1 DEF At
  <2>2. CASE j # 0
    <3>1. j \in 1 .. m - 1 /\ j + 1 # 0  BY <2>2, <1>1
    <3> QED  BY <3>1, <2>2, <1>2 DEF At
  <2> QED  BY <2>1, <2>2
<1>13. Chained(w)'
  <2>1. ASSUME NEW i \in 1 .. m - 1, NEW j \in 1 .. m - 1, w[i] = w[j] PROVE i = j
    <3> DEFINE x == IF i < k THEN i ELSE i + 1
               y == IF j < k THEN j ELSE j + 1
    <3>1. x \in 1 .. m /\ y \in 1 .. m  BY <1>1
    <3>2. s[x] = s[y]  BY <2>1, <1>2
    <3>3. x = y  BY <3>1, <3>2, <1>1 DEF Chained
    <3> QED  BY <3>3, <1>1
  <2>2. ASSUME NEW j \in 0 .. m - 1
        PROVE  heap'[At(w, j)].next = IF j = m - 1 THEN Null ELSE w[j + 1]
    <3> DEFINE x == IF j < k THEN j ELSE j + 1
    <3>1. x \in 0 .. m /\ k - 1 \in 0 .. m /\ At(w, j) = At(s, x) /\ At(s, x) \in Addresses
      BY <1>1, <1>4, <1>12
    <3>2. heap[At(s, x)].next = IF x = m THEN Null ELSE s[x + 1]
      BY <3>1, <1>1 DEF Chained
    <3>3. At(s, x) = q <=> x = k - 1  BY <3>1, <1>5
    <3>4. heap'[At(s, x)].next = IF x = k - 1 THEN next ELSE heap[At(s, x)].next
      BY <3>1, <3>3, <1>10
    <3>5. CASE x = k - 1
      <4>1. j = k - 1  BY <3>5, <1>1
      <4>2. CASE k = m  BY <4>1, <4>2, <3>1, <3>4, <3>5, <1>1 DEF next
      <4>3. CASE k # m
        <5>1. j + 1 \in 1 .. m - 1 /\ j # m - 1 /\ ~ (j + 1 < k) /\ j + 1 + 1 = k + 1
          BY <4>1, <4>3, <1>1
        <5>2. w[j + 1] = s[k + 1]  BY <5>1, <1>2
        <5> QED  BY <5>1, <5>2, <4>3, <3>1, <3>4, <3>5 DEF next
      <4> QED  BY <4>2, <4>3
    <3>6. CASE x # k - 1
      <4>1. heap'[At(w, j)].next = IF x = m THEN Null ELSE s[x + 1]
        BY <3>1, <3>2, <3>4, <3>6
      <4>2. CASE j < k
        <5>1. x = j /\ x # m /\ j # m - 1 /\ j + 1 \in 1 .. m - 1 /\ j + 1 < k
          BY <4>2, <3>6, <1>1
        <5> QED  BY <4>1, <5>1, <1>2
      <4>3. CASE ~ (j < k)
        <5>1. x = j + 1 /\ (x = m <=> j = m - 1) /\ ~ (j + 1 < k)
              /\ (j # m - 1 => j + 1 \in 1 .. m - 1)
          BY <4>3, <1>1
        <5> QED  BY <4>1, <5>1, <1>2
      <4> QED  BY <4>2, <4>3
    <3> QED  BY <3>5, <3>6
  <2> QED  BY <2>1, <2>2, <1>2 DEF Chained
<1>14. {w[j] : j \in 1 .. m - 1} = {s[j] : j \in 1 .. m} \ {s[k]}
  <2>1. ASSUME NEW j \in 1 .. m - 1 PROVE w[j] \in {s[i] : i \in 1 .. m} \ {s[k]}
    <3> DEFINE x == IF j < k THEN j ELSE j + 1
    <3>1. x \in 1 .. m /\ x # k /\ w[j] = s[x]  BY <1>1, <1>2
    <3>2. s[x] # s[k]  BY <3>1, <1>1 DEF Chained
    <3> QED  BY <3>1, <3>2
  <2>2. ASSUME NEW x \in 1 .. m, s[x] # s[k] PROVE s[x] \in {w[i] : i \in 1 .. m - 1}
    <3> DEFINE j == IF x < k THEN x ELSE x - 1
    <3>1. x # k  BY <2>2
    <3>2. j \in 1 .. m - 1 /\ (IF j < k THEN j ELSE j + 1) = x  BY <3>1, <1>1
    <3>3. w[j] = s[x]  BY <3>2, <1>2
    <3> QED  BY <3>2, <3>3
  <2> QED  BY <2>1, <2>2
<1>15. live' = live \ {s[k]} /\ count' = (count - 1) % CountValues /\ lost' = lost
  BY <1>3 DEF Unlink
<1>18. Linked(w)'
  <2>1. Header \in live' /\ \A j \in 1 .. Len(w) : w[j] \in live'
    <3>1. s[k] # Header  BY <1>1, VarSetAssumption
    <3>2. \A j \in 1 .. m - 1 : w[j] # s[k] /\ w[j] \in {s[i] : i \in 1 .. m}  BY <1>14
    <3>3. Header \in live /\ \A i \in 1 .. m : s[i] \in live  BY DEF Linked
    <3> QED  BY <3>1, <3>2, <3>3, <1>2, <1>15
  <2>2. ~stale' => lastVar' = At(w, Len(w))  BY <1>2 DEF w
  <2>3. ~lost' => live' = {Header} \cup {w[j] : j \in 1 .. Len(w)}
    <3>1. ~lost => live = {Header} \cup {s[j] : j \in 1 .. m}  BY DEF Linked
    <3>2. s[k] # Header  BY <1>1, VarSetAssumption
    <3> QED  BY <3>1, <3>2, <1>14, <1>15, <1>2
  <2>4. ~lost' => count' = Len(w) % CountValues
    <3>1. ~lost => count = m % CountValues  BY DEF Linked
    <3>2. ((m % CountValues) + (-1)) % CountValues = (m + (-1)) % CountValues
      BY <1>1, VarSetAssumption, ModSteps
    <3>3. CountValues \in Nat \ {0} /\ m % CountValues \in Int
      BY <1>1, VarSetAssumption, DivMod
    <3>4. (m % CountValues) + (-1) = (m % CountValues) - 1 /\ m + (-1) = m - 1  BY <1>1, <3>3
    <3> QED  BY <3>1, <3>2, <3>4, <1>2, <1>15
  <2> QED  BY <1>13, <2>1, <2>2, <2>3, <2>4 DEF Linked
<1>16. live' \subseteq Addresses /\ count' \in 0 .. CountValues - 1
  <2>1. CountValues \in Nat \ {0} /\ count - 1 \in Int  BY VarSetAssumption DEF Typed
  <2>2. (count - 1) % CountValues \in 0 .. CountValues - 1  BY <2>1, DivMod
  <2> QED  BY <2>2, <1>15 DEF Typed
<1>17. Entries(w)' = Without(Entries(s), k)
  <2>1. \A j \in 1 .. m : Variable(s[j])' = Variable(s[j])
    BY <1>1, <1>10 DEF Variable, Addresses
  <2>2. Entries(w)' = [j \in 1 .. m - 1 |-> Variable(w[j])']  BY <1>2 DEF Entries
  <2>3. Len(Entries(s)) = m /\ \A j \in 1 .. m : Entries(s)[j] = Variable(s[j])
    BY <1>1 DEF Entries
  <2>4. \A j \in 1 .. m - 1 : Variable(w[j])' = IF j < k THEN Entries(s)[j] ELSE Entries(s)[j + 1]
    <3> TAKE j \in 1 .. m - 1
    <3>1. CASE j < k
      <4>1. j \in 1 .. m /\ w[j] = s[j]  BY <3>1, <1>1, <1>2
      <4> QED  BY <4>1, <3>1, <2>1, <2>3
    <3>2. CASE ~ (j < k)
      <4>1. j + 1 \in 1 .. m /\ w[j] = s[j + 1]  BY <3>2, <1>1, <1>2
      <4> QED  BY <4>1, <3>2, <2>1, <2>3
    <3> QED  BY <3>1, <3>2
  <2> QED  BY <2>2, <2>3, <2>4 DEF Without
<1> QED  BY <1>2, <1>11, <1>16, <1>17, <1>18 DEF w

-----------------------------------------------------------------------------
(* Steps                                                                   *)

\* The nodes up to the k-th, which is where a variable is added behind it.
LEMMA Cut ==
  ASSUME NEW s \in Seq(Slots), Chained(s), NEW k \in 0 .. Len(s)
  PROVE  /\ SubSeq(s, 1, k) \in Seq(Slots) /\ Len(SubSeq(s, 1, k)) = k
         /\ \A j \in 1 .. k : SubSeq(s, 1, k)[j] = s[j]
         /\ Prefixed(SubSeq(s, 1, k))
         /\ At(SubSeq(s, 1, k), k) = At(s, k)
         /\ Entries(SubSeq(s, 1, k)) = SubSeq(Entries(s), 1, k)
<1> DEFINE p == SubSeq(s, 1, k)
<1>1. Len(s) \in Nat /\ \A j \in 1 .. Len(s) : s[j] \in Slots  BY LenProperties, ElementOfSeq
<1>2. p \in Seq(Slots) /\ Len(p) = k /\ \A j \in 1 .. k : p[j] = s[j]
  <2>1. \A j \in 1 .. k : s[j] \in Slots  BY <1>1
  <2>2. 1 \in Int /\ k \in Int  BY <1>1
  <2>3. /\ p \in Seq(Slots)
        /\ Len(p) = IF 1 <= k THEN k - 1 + 1 ELSE 0
        /\ \A j \in 1 .. k - 1 + 1 : p[j] = s[1 + j - 1]
    BY <2>1, <2>2, SubSeqProperties
  <2> QED  BY <1>1, <2>3
<1> HIDE DEF p
<1>3. \A j \in 0 .. k : At(p, j) = At(s, j)  BY <1>1, <1>2 DEF At
<1>4. Prefixed(p)
  <2>1. \A i, j \in 1 .. k : p[i] = p[j] => i = j
    <3>1. \A i \in 1 .. k : i \in 1 .. Len(s)  BY <1>1
    <3> QED  BY <3>1, <1>2 DEF Chained
  <2>2. ASSUME NEW i \in 0 .. k - 1 PROVE heap[At(p, i)].next = p[i + 1]
    <3>1. i \in 0 .. Len(s) /\ i # Len(s) /\ i \in 0 .. k /\ i + 1 \in 1 .. k  BY <1>1
    <3>2. heap[At(s, i)].next = s[i + 1]  BY <3>1 DEF Chained
    <3> QED  BY <3>1, <3>2, <1>2, <1>3
  <2> QED  BY <2>1, <2>2, <1>2 DEF Prefixed
<1>5. Entries(p) = SubSeq(Entries(s), 1, k)
  <2> DEFINE e == Entries(s)
             E == {Variable(b) : b \in Slots}
             c == SubSeq(e, 1, k)
  <2>1. \A j \in 1 .. Len(s) : Variable(s[j]) \in E  BY <1>1
  <2>2. Len(e) = Len(s) /\ \A j \in 1 .. k : e[j] = Variable(s[j]) /\ e[j] \in E
    BY <1>1, <2>1 DEF Entries
  <2> HIDE DEF e, E
  <2>3. 1 \in Int /\ k \in Int  BY <1>1
  <2>4. /\ c \in Seq(E)
        /\ Len(c) = IF 1 <= k THEN k - 1 + 1 ELSE 0
        /\ \A j \in 1 .. k - 1 + 1 : c[j] = e[1 + j - 1]
    BY <2>2, <2>3, SubSeqProperties
  <2> HIDE DEF c
  <2>5. Len(c) = k /\ \A j \in 1 .. k : c[j] = Variable(p[j])  BY <1>2, <2>2, <2>4, <1>1
  <2>6. c = [j \in 1 .. k |-> c[j]]  BY <2>4, <2>5, LenProperties
  <2>7. Entries(p) = [j \in 1 .. k |-> Variable(p[j])]  BY <1>2 DEF Entries
  <2> QED  BY <2>5, <2>6, <2>7 DEF c, e
<1>6. At(p, k) = At(s, k)  BY <1>1, <1>3
<1> QED  BY <1>2, <1>4, <1>5, <1>6 DEF p

\* A variable that is added behind a node that is not on the chain leaves it.
LEMMA Missed ==
  ASSUME Typed, NEW s \in Seq(Slots), Chained(s), \A j \in 1 .. Len(s) : s[j] \in live,
         NEW a \in Slots \ live, NEW r \in Node, NEW last \in Addresses,
         \A k \in 0 .. Len(s) : last # At(s, k),
         heap' = [heap EXCEPT ![a] = r, ![last].next = a]
  PROVE  Chained(s)' /\ heap' \in [Addresses -> Node] /\ Entries(s)' = Entries(s)
<1>1. Len(s) \in Nat /\ \A j \in 1 .. Len(s) : s[j] \in Slots  BY LenProperties, ElementOfSeq
<1>2. heap \in [Addresses -> Node] /\ a \in Addresses  BY DEF Typed, Addresses
<1>3. \A j \in 0 .. Len(s) : At(s, j) \in Addresses /\ At(s, j) # a /\ At(s, j) # last
  <2> TAKE j \in 0 .. Len(s)
  <2>1. j = 0 \/ j \in 1 .. Len(s)  BY <1>1
  <2>2. At(s, j) \in Addresses /\ At(s, j) # a
    BY <2>1, <1>1, VarSetAssumption DEF At, Addresses
  <2> QED  BY <2>2
<1> DEFINE h == [heap EXCEPT ![a] = r]
<1>4. h \in [Addresses -> Node]  BY <1>2
<1>5. heap' = [h EXCEPT ![last] = [h[last] EXCEPT !.next = a]]  BY <1>2
<1>6. [h[last] EXCEPT !.next = a] \in Node
  <2>1. h[last] \in Node /\ a \in Addresses \cup {Null}  BY <1>2, <1>4
  <2> HIDE DEF h
  <2> QED  BY <2>1, NextSet
<1>7. \A b \in Addresses : b # a => h[b] = heap[b]  BY <1>2
<1> HIDE DEF h
<1>8. heap' \in [Addresses -> Node]  BY <1>4, <1>5, <1>6
<1>9. \A b \in Addresses : b # a /\ b # last => heap'[b] = heap[b]  BY <1>4, <1>5, <1>7
<1>10. \A j \in 0 .. Len(s) : heap'[At(s, j)] = heap[At(s, j)]  BY <1>3, <1>9
<1>11. Chained(s)'  BY <1>10 DEF Chained
<1>12. \A j \in 1 .. Len(s) : Variable(s[j])' = Variable(s[j])
  <2> TAKE j \in 1 .. Len(s)
  <2>1. j \in 0 .. Len(s) /\ j # 0  BY <1>1
  <2>2. heap'[s[j]] = heap[s[j]]  BY <2>1, <1>10 DEF At
  <2> QED  BY <2>2 DEF Variable
<1>13. Entries(s)' = Entries(s)  BY <1>12 DEF Entries
<1> QED  BY <1>8, <1>11, <1>13

\* What a registration does, also the first one, which makes the set: s is
\* the list before, t the list after.
LEMMA Registering ==
  ASSUME IInv, NEW i \in Ids, NEW n \in Names, SZ_batchAddVar(i, n)
  PROVE  \E s \in Seq(Slots), t \in Seq(Slots) :
           /\ sz_varset = "allocated" => Linked(s)
           /\ sz_varset # "allocated" => s = << >>
           /\ Linked(t)'
           /\ \/ Entries(t)' = Append(Entries(s), [id |-> Stored(i), name |-> n])
              \/ stale /\ Entries(t)' = Entries(s)
              \/ /\ stale
                 /\ \E k \in 0 .. Len(s) :
                      Entries(t)' = Append(SubSeq(Entries(s), 1, k),
                                           [id |-> Stored(i), name |-> n])
           /\ sz_varset' = "allocated" /\ UNCHANGED <<status, stale>>
           /\ Typed'
<1> DEFINE last == IF sz_varset = "NULL" THEN Header ELSE lastVar
           r == [id |-> Stored(i), name |-> n, next |-> Null]
           v == [id |-> Stored(i), name |-> n]
<1>1. PICK a \in Slots \ live :
        /\ heap' = [heap EXCEPT ![a] = r, ![last].next = a]
        /\ live' = live \cup {Header, a}
        /\ lastVar' = a
  BY Zenon DEF SZ_batchAddVar
<1>2. /\ count' = (count + 1) % CountValues /\ sz_varset' = "allocated"
      /\ UNCHANGED <<status, stale>> /\ (lost' <=> lost \/ stale) /\ lost' \in BOOLEAN
      /\ sz_varset \in {"NULL", "allocated"}
  BY DEF SZ_batchAddVar, IInv, Typed
<1>3. PICK s \in Seq(Slots) :
        /\ sz_varset = "allocated" => Linked(s)
        /\ sz_varset # "allocated" => s = << >>
        /\ Chained(s) /\ last \in Addresses
        /\ \A j \in 1 .. Len(s) : s[j] \in live
        /\ ~stale => last = At(s, Len(s))
        /\ ~lost => /\ live \cup {Header} = {Header} \cup {s[j] : j \in 1 .. Len(s)}
                    /\ count = Len(s) % CountValues
  <2>1. CASE sz_varset = "NULL"
    <3> DEFINE e == << >>
    <3>1. e \in Seq(Slots) /\ Len(e) = 0  OBVIOUS
    <3> HIDE DEF e
    <3>2. live = {} /\ count = 0 /\ heap[Header].next = Null  BY <2>1 DEF IInv, Shape
    <3>3. Chained(e)  BY <3>1, <3>2 DEF Chained, At
    <3>4. {e[j] : j \in 1 .. Len(e)} = {}  BY <3>1
    <3>5. last = At(e, Len(e)) /\ last \in Addresses  BY <2>1, <3>1 DEF At, Addresses
    <3>6. 0 % CountValues = 0
      <4>1. CountValues \in Nat \ {0}  BY VarSetAssumption
      <4>2. 0 \in 0 .. CountValues - 1 /\ 0 = CountValues * 0 + 0  BY <4>1
      <4> QED  BY <4>1, <4>2, ModUnique
    <3>7. \A j \in 1 .. Len(e) : e[j] \in live  BY <3>1
    <3> QED  BY <2>1, <3>1, <3>2, <3>3, <3>4, <3>5, <3>6, <3>7 DEF e
  <2>2. CASE sz_varset = "allocated"
    <3>1. PICK s \in Seq(Slots) : Linked(s)  BY <2>2 DEF IInv, Shape
    <3>2. last = lastVar  BY <2>2
    <3> HIDE DEF last
    <3>3. ~lost => live \cup {Header} = {Header} \cup {s[j] : j \in 1 .. Len(s)}
      BY <3>1 DEF Linked
    <3> QED  BY <2>2, <3>1, <3>2, <3>3 DEF Linked
  <2> QED  BY <1>2, <2>1, <2>2
<1>4. Typed /\ Len(s) \in Nat /\ a \in Addresses
  BY <1>1, <1>3, LenProperties DEF IInv, Addresses
<1>5. r \in Node  BY StoredIn DEF Node
<1>6. live' \subseteq Addresses /\ count' \in 0 .. CountValues - 1
  <2>1. CountValues \in Nat \ {0} /\ count + 1 \in Int  BY <1>4, VarSetAssumption DEF Typed
  <2>2. (count + 1) % CountValues \in 0 .. CountValues - 1  BY <2>1, DivMod
  <2> QED  BY <2>2, <1>1, <1>2, <1>4 DEF Typed, Addresses
<1>7. ASSUME heap' \in [Addresses -> Node] PROVE Typed'
  BY <1>1, <1>2, <1>4, <1>6, <1>7 DEF Typed
<1> HIDE DEF last, r
<1>8. CASE \E k \in 0 .. Len(s) : last = At(s, k)
  <2>1. PICK k \in 0 .. Len(s) : last = At(s, k) /\ (~stale => k = Len(s))
    <3>1. Len(s) \in 0 .. Len(s)  BY <1>4
    <3> QED  BY <3>1, <1>3, <1>8
  <2>2. PICK p \in Seq(Slots) :
          /\ Len(p) = k /\ \A j \in 1 .. k : p[j] = s[j]
          /\ Prefixed(p) /\ At(p, k) = At(s, k)
          /\ Entries(p) = SubSeq(Entries(s), 1, k)
    BY <1>3, Cut
  <2>3. \A j \in 1 .. Len(p) : p[j] \in live
    <3>1. \A j \in 1 .. k : j \in 1 .. Len(s)  BY <1>4
    <3> QED  BY <3>1, <2>2, <1>3
  <2>4. heap' = [heap EXCEPT ![a] = [id |-> Stored(i), name |-> n, next |-> Null],
                             ![At(p, Len(p))].next = a]
    BY <1>1, <2>1, <2>2, Zenon DEF r
  <2>5. PICK t \in Seq(Slots) :
          /\ Len(t) = k + 1 /\ Chained(t)'
          /\ {t[j] : j \in 1 .. k + 1} = {p[j] : j \in 1 .. k} \cup {a}
          /\ At(t, k + 1) = a
          /\ heap' \in [Addresses -> Node]
          /\ Entries(t)' = Append(Entries(p), v)
    <3>1. /\ Append(p, a) \in Seq(Slots) /\ Len(Append(p, a)) = Len(p) + 1
          /\ Chained(Append(p, a))'
          /\ {Append(p, a)[j] : j \in 1 .. Len(p) + 1} = {p[j] : j \in 1 .. Len(p)} \cup {a}
          /\ At(Append(p, a), Len(p) + 1) = a
          /\ heap' \in [Addresses -> Node]
          /\ Entries(Append(p, a))' = Append(Entries(p), v)
      BY <1>4, <2>2, <2>3, <2>4, Added, Zenon
    <3> QED  BY <3>1, <2>2, Zenon
  <2>6. \A j \in 1 .. Len(t) : t[j] \in live'
    <3> TAKE j \in 1 .. Len(t)
    <3>1. t[j] \in {p[x] : x \in 1 .. k} \cup {a}  BY <2>5
    <3> QED  BY <3>1, <2>2, <2>3, <1>1
  <2>7. ~lost' => /\ live' = {Header} \cup {t[j] : j \in 1 .. Len(t)}
                  /\ count' = Len(t) % CountValues
    <3> SUFFICES ASSUME ~lost'
                 PROVE  /\ live' = {Header} \cup {t[j] : j \in 1 .. Len(t)}
                        /\ count' = Len(t) % CountValues
      OBVIOUS
    <3>1. ~lost /\ ~stale /\ k = Len(s)  BY <1>2, <2>1
    <3>2. {p[j] : j \in 1 .. k} = {s[j] : j \in 1 .. Len(s)}  BY <2>2, <3>1
    <3>3. live' = {Header} \cup {t[j] : j \in 1 .. Len(t)}
      BY <3>1, <3>2, <1>1, <1>3, <2>5
    <3>4. ((Len(s) % CountValues) + 1) % CountValues = (Len(s) + 1) % CountValues
      BY <1>4, VarSetAssumption, ModSteps
    <3>5. count' = Len(t) % CountValues  BY <3>1, <3>4, <1>2, <1>3, <2>5
    <3> QED  BY <3>3, <3>5
  <2>8. Linked(t)'
    <3>1. Header \in live' /\ lastVar' \in Addresses  BY <1>1, <1>4
    <3>2. lastVar' = At(t, Len(t))  BY <1>1, <2>5
    <3> QED  BY <2>5, <2>6, <2>7, <3>1, <3>2 DEF Linked
  <2>9. \/ Entries(t)' = Append(Entries(s), v)
        \/ stale /\ Entries(t)' = Append(SubSeq(Entries(s), 1, k), v)
    <3>1. CASE stale  BY <3>1, <2>2, <2>5
    <3>2. CASE ~stale
      <4>1. k = Len(s)  BY <3>2, <2>1
      <4>2. p = s  BY <4>1, <2>2, SeqEqual
      <4> QED  BY <4>2, <2>5
    <3> QED  BY <3>1, <3>2
  <2>10. Typed'  BY <2>5, <1>7
  <2> QED  BY <1>2, <1>3, <2>5, <2>8, <2>9, <2>10, Zenon
<1>9. CASE ~ \E k \in 0 .. Len(s) : last = At(s, k)
  <2>1. stale
    <3>1. Len(s) \in 0 .. Len(s)  BY <1>4
    <3> QED  BY <3>1, <1>3, <1>9
  <2>2. Chained(s)' /\ heap' \in [Addresses -> Node] /\ Entries(s)' = Entries(s)
    BY <1>1, <1>3, <1>4, <1>5, <1>9, Missed
  <2>3. Linked(s)'
    <3>1. Header \in live' /\ \A j \in 1 .. Len(s) : s[j] \in live'  BY <1>1, <1>3
    <3>2. lastVar' \in Addresses /\ stale' /\ lost'  BY <1>1, <1>2, <1>4, <2>1
    <3> QED  BY <2>2, <3>1, <3>2 DEF Linked
  <2>4. Typed'  BY <2>2, <1>7
  <2> QED  BY <1>2, <1>3, <2>1, <2>2, <2>3, <2>4, Zenon
<1> QED  BY <1>8, <1>9

\* What stale may be after a removal by f, of the last node or another.
Left(f, isLast) ==
  IF isLast THEN IF f = "id" THEN BOOLEAN ELSE {TRUE}
  ELSE IF f = "id" THEN {stale, TRUE} ELSE {stale}

\* What a deregistration does, by the id or by the name.
LEMMA Deregistering ==
  ASSUME IInv, NEW f \in {"id", "name"}, NEW v,
         \/ f = "id" /\ SZ_batchDelVar_ID(v)
         \/ f = "name" /\ SZ_batchDelVar(v)
  PROVE  \E s \in Seq(Slots) :
           /\ sz_varset = "allocated" /\ sz_varset' = "allocated"
           /\ Linked(s)
           /\ \/ /\ \A j \in 1 .. Len(s) : heap[s[j]][f] # v
                 /\ status' = "SZ_NSCS"
                 /\ UNCHANGED <<heap, live, lastVar, count, stale, lost>>
              \/ \E k \in 1 .. Len(s) :
                   /\ heap[s[k]][f] = v
                   /\ \A j \in 1 .. k - 1 : heap[s[j]][f] # v
                   /\ status' = "SZ_SCES"
                   /\ Without(s, k) \in Seq(Slots)
                   /\ Linked(Without(s, k))'
                   /\ Entries(Without(s, k))' = Without(Entries(s), k)
                   /\ stale' \in Left(f, k = Len(s))
                   /\ Typed'
<1>1. sz_varset = "allocated"  BY DEF SZ_batchDelVar_ID, SZ_batchDelVar
<1>2. PICK s \in Seq(Slots) : Linked(s)  BY <1>1 DEF IInv, Shape
<1>3. /\ Chained(s) /\ Typed /\ lastVar \in Addresses
      /\ ~stale => lastVar = At(s, Len(s))
  BY <1>2 DEF Linked, IInv
<1> DEFINE m == Len(s)
<1>4. /\ m \in Nat
      /\ \A j \in 0 .. m : Hop[j] = At(s, j)
      /\ List = s /\ Len(List) = m
      /\ \/ First(f, v) = 0 /\ \A j \in 1 .. m : heap[s[j]][f] # v
         \/ /\ First(f, v) \in 1 .. m /\ heap[s[First(f, v)]][f] = v
            /\ \A j \in 1 .. First(f, v) - 1 : heap[s[j]][f] # v
  BY <1>1, <1>3, ChainFits, ListIs, FirstIs
<1>5. CASE NotFound(f, v)
  <2>1. First(f, v) = 0  BY <1>5 DEF NotFound
  <2>2. \A j \in 1 .. m : heap[s[j]][f] # v  BY <1>4, <2>1
  <2> QED  BY <1>1, <1>2, <1>5, <2>2 DEF NotFound
<1>6. CASE ~ NotFound(f, v)
  <2>0. First(f, v) # 0 /\ Unlink(First(f, v))
    BY <1>6 DEF SZ_batchDelVar_ID, SZ_batchDelVar
  <2>2. PICK k \in 1 .. m :
          /\ k = First(f, v) /\ heap[s[k]][f] = v
          /\ \A j \in 1 .. k - 1 : heap[s[j]][f] # v
    BY <1>4, <2>0
  <2>1. k # 0 /\ Unlink(k)  BY <2>0, <2>2, <1>4
  <2>3. Hop[k - 1] = At(s, k - 1) /\ Hop[k] = s[k]
    <3>1. k - 1 \in 0 .. m /\ k \in 0 .. m  BY <1>4, <2>2
    <3> QED  BY <1>4, <2>1, <3>1 DEF At
  <2>4. At(s, k - 1) \in Addresses
    <3>1. k - 1 = 0 \/ k - 1 \in 1 .. m  BY <1>4, <2>2
    <3>2. \A j \in 1 .. m : s[j] \in Slots  BY <1>3, ChainFits
    <3> QED  BY <3>1, <3>2 DEF At, Addresses
  <2>5. /\ lastVar' \in Addresses /\ stale' \in Left(f, k = m)
        /\ ~stale' => lastVar' = At(Without(s, k), m - 1)
    <3> DEFINE w == Without(s, k)
    <3>1. \A j \in 1 .. m - 1 : w[j] = IF j < k THEN s[j] ELSE s[j + 1]
      BY <1>4 DEF Without
    <3> HIDE DEF w
    <3>2. ASSUME k # m PROVE At(w, m - 1) = At(s, m)
      <4>1. m - 1 \in 1 .. m - 1 /\ m - 1 # 0 /\ ~ (m - 1 < k) /\ m - 1 + 1 = m /\ m # 0
        <5>1. m \in Nat /\ k \in 1 .. m /\ k # m  BY <1>4, <2>2, <3>2
        <5> HIDE DEF m
        <5> QED  BY <5>1
      <4> QED  BY <3>1, <4>1 DEF At
    <3>3. ASSUME k = m PROVE At(w, m - 1) = At(s, k - 1)
      <4>1. CASE m = 1  BY <4>1, <3>3 DEF At
      <4>2. CASE m # 1
        <5>1. m - 1 \in 1 .. m - 1 /\ m - 1 # 0 /\ m - 1 < k /\ k - 1 = m - 1
          BY <4>2, <3>3, <1>4, <2>2
        <5> QED  BY <3>1, <5>1 DEF At
      <4> QED  BY <4>1, <4>2
    <3>4. stale \in BOOLEAN  BY <1>3 DEF Typed
    <3>5. CASE f = "id" /\ SZ_batchDelVar_ID(v)
      <4>1. PICK readNull \in BOOLEAN :
              /\ lastVar' = IF readNull THEN Hop[k - 1] ELSE lastVar
              /\ stale' = IF k = m THEN ~readNull ELSE stale \/ readNull
        BY <3>5, <1>4, <1>6, <2>2, Zenon DEF SZ_batchDelVar_ID
      <4>2. CASE readNull
        <5>1. lastVar' = At(s, k - 1)  BY <4>1, <4>2, <2>3
        <5>2. stale' = (k # m)  BY <4>1, <4>2
        <5> QED  BY <5>1, <5>2, <2>4, <3>3, <3>5 DEF Left, w
      <4>3. CASE ~readNull
        <5>1. lastVar' = lastVar  BY <4>1, <4>3
        <5>2. stale' = IF k = m THEN TRUE ELSE stale  BY <4>1, <4>3, <3>4
        <5> QED  BY <5>1, <5>2, <1>3, <3>2, <3>5 DEF Left, w
      <4> QED  BY <4>2, <4>3
    <3>6. CASE f = "name" /\ SZ_batchDelVar(v)
      <4>1. lastVar' = lastVar /\ stale' = (stale \/ k = m)
        BY <3>6, <1>4, <1>6, <2>2, Zenon DEF SZ_batchDelVar
      <4>2. stale' = IF k = m THEN TRUE ELSE stale  BY <4>1, <3>4
      <4> QED  BY <4>1, <4>2, <1>3, <3>2, <3>6 DEF Left, w
    <3> QED  BY <3>5, <3>6
  <2>6. /\ Without(s, k) \in Seq(Slots) /\ Len(Without(s, k)) = Len(s) - 1
        /\ Linked(Without(s, k))'
        /\ heap' \in [Addresses -> Node]
        /\ live' \subseteq Addresses /\ count' \in 0 .. CountValues - 1
        /\ Entries(Without(s, k))' = Without(Entries(s), k)
    <3>1. k \in 1 .. Len(s)  BY <2>2
    <3>2. /\ lastVar' \in Addresses
          /\ ~stale' => lastVar' = At(Without(s, k), Len(s) - 1)
      BY <2>5
    <3>3. Unlink(k)  BY <2>1
    <3> QED  BY <1>1, <1>2, <1>3, <3>1, <3>2, <3>3, Unlinked, Zenon
  <2>7. status' = "SZ_SCES" /\ sz_varset' = "allocated" /\ lost' = lost
    BY <2>1, <1>1 DEF Unlink
  <2>8. Typed'
    <3>1. stale' \in BOOLEAN  BY <2>5, <1>3 DEF Left, Typed
    <3> QED  BY <1>3, <2>5, <2>6, <2>7, <3>1 DEF Typed
  <2>9. \E j \in 1 .. Len(s) :
          /\ heap[s[j]][f] = v
          /\ \A i \in 1 .. j - 1 : heap[s[i]][f] # v
          /\ status' = "SZ_SCES"
          /\ Without(s, j) \in Seq(Slots)
          /\ Linked(Without(s, j))'
          /\ Entries(Without(s, j))' = Without(Entries(s), j)
          /\ stale' \in Left(f, j = Len(s))
          /\ Typed'
    BY <2>2, <2>5, <2>6, <2>7, <2>8, Zenon
  <2> QED  BY <1>1, <1>2, <2>7, <2>9
<1> QED  BY <1>5, <1>6

\* Nothing is done to a set that was freed, and a free takes the whole chain.
LEMMA Freeing ==
  ASSUME IInv, SZ_freeVarSet
  PROVE  /\ sz_varset' = "freed" /\ Typed' /\ UNCHANGED <<status, stale, lost>>
         /\ ~lost => live' = {}
<1>1. sz_varset = "allocated"  BY DEF SZ_freeVarSet
<1>2. PICK s \in Seq(Slots) : Linked(s)  BY <1>1 DEF IInv, Shape
<1>3. List = s  BY <1>1, <1>2, ListIs DEF Linked
<1>4. DOMAIN s = 1 .. Len(s)  BY LenProperties
<1>5. ~lost => live = {Header} \cup {List[k] : k \in DOMAIN List}
  BY <1>2, <1>3, <1>4 DEF Linked
<1>6. live' = live \ ({Header} \cup {List[k] : k \in DOMAIN List})
  BY Zenon DEF SZ_freeVarSet
<1>7. (~lost => live' = {}) /\ live' \subseteq live  BY <1>5, <1>6, Zenon
<1>8. sz_varset' = "freed" /\ UNCHANGED <<heap, lastVar, count, status, stale, lost>>
  BY Zenon DEF SZ_freeVarSet
<1>9. Typed'  BY <1>7, <1>8 DEF IInv, Typed
<1> QED  BY <1>7, <1>8, <1>9

-----------------------------------------------------------------------------
(* The invariant                                                           *)

LEMMA BlankIsNode == Blank \in Node
<1>1. (CHOOSE n \in Names : TRUE) \in Names  BY VarSetAssumption
<1> QED  BY <1>1 DEF Blank, Node

LEMMA Initially == Init => IInv
<1> SUFFICES ASSUME Init PROVE IInv  OBVIOUS
<1>1. heap \in [Addresses -> Node]  BY BlankIsNode DEF Init
<1>2. heap[Header].next = Null  BY DEF Init, Blank, Addresses
<1>3. 0 \in 0 .. CountValues - 1  BY VarSetAssumption
<1> QED  BY <1>1, <1>2, <1>3 DEF Init, IInv, Typed, Shape

LEMMA Preserved ==
  ASSUME IInv, [Next]_vars
  PROVE  IInv'
<1>1. ASSUME NEW i \in Ids, NEW n \in Names, SZ_batchAddVar(i, n) PROVE IInv'
  <2>1. \E t \in Seq(Slots) : Linked(t)' /\ sz_varset' = "allocated" /\ Typed'
    BY <1>1, Registering, Zenon
  <2> QED  BY <2>1 DEF IInv, Shape
<1>2. ASSUME NEW f \in {"id", "name"}, NEW v,
             \/ f = "id" /\ SZ_batchDelVar_ID(v)
             \/ f = "name" /\ SZ_batchDelVar(v)
      PROVE  IInv'
  <2>1. PICK s \in Seq(Slots) :
          /\ sz_varset = "allocated" /\ sz_varset' = "allocated" /\ Linked(s)
          /\ \/ status' = "SZ_NSCS" /\ UNCHANGED <<heap, live, lastVar, count, stale, lost>>
             \/ \E k \in 1 .. Len(s) :
                  Without(s, k) \in Seq(Slots) /\ Linked(Without(s, k))' /\ Typed'
    BY <1>2, Deregistering, Zenon
  <2>2. CASE status' = "SZ_NSCS" /\ UNCHANGED <<heap, live, lastVar, count, stale, lost>>
    <3>1. Linked(s)'  BY <2>1, <2>2 DEF Linked, Chained
    <3>2. Typed'  BY <2>1, <2>2 DEF IInv, Typed
    <3> QED  BY <2>1, <3>1, <3>2 DEF IInv, Shape
  <2>3. CASE \E k \in 1 .. Len(s) :
               Without(s, k) \in Seq(Slots) /\ Linked(Without(s, k))' /\ Typed'
    <3>1. \E t \in Seq(Slots) : Linked(t)'  BY <2>3, Zenon
    <3> QED  BY <2>1, <2>3, <3>1 DEF IInv, Shape
  <2> QED  BY <2>1, <2>2, <2>3
<1>3. ASSUME SZ_freeVarSet PROVE IInv'  BY <1>3, Freeing DEF IInv, Shape
<1>4. ASSUME UNCHANGED vars PROVE IInv'
  BY <1>4 DEF vars, IInv, Typed, Shape, Linked, Chained
<1> QED  BY <1>1, <1>2, <1>3, <1>4 DEF Next

LEMMA Invariant == Spec => []IInv
<1>1. Init => IInv  BY Initially
<1>2. IInv /\ [Next]_vars => IInv'  BY Preserved
<1> QED  BY <1>1, <1>2, PTL DEF Spec

-----------------------------------------------------------------------------
(* The properties of the list                                              *)

LEMMA ListHolds ==
  ASSUME IInv
  PROVE  TypeOK /\ WalkSafe /\ CountMatches /\ LastIsLast /\ AllReachable
<1>1. ASSUME sz_varset = "allocated"
      PROVE  /\ lastVar # Null
             /\ \A k \in DOMAIN List : List[k] \in live
             /\ Hop[Len(List) + 1] = Null
             /\ ~lost => count = Len(List) % CountValues
             /\ ~stale => lastVar = Hop[Len(List)]
             /\ ~lost => live = {Header} \cup {List[k] : k \in DOMAIN List}
  <2>1. PICK s \in Seq(Slots) : Linked(s)  BY <1>1 DEF IInv, Shape
  <2>2. /\ List = s /\ Len(s) \in Nat /\ DOMAIN s = 1 .. Len(s)
        /\ \A n \in 0 .. Len(s) : Hop[n] = At(s, n)
        /\ Cardinality(Slots) \in Nat /\ Len(s) <= Cardinality(Slots)
    BY <1>1, <2>1, ListIs, ChainFits, LenProperties DEF Linked
  <2>3. Hop[Len(s)] = At(s, Len(s))
    <3>1. Len(s) \in 0 .. Len(s)  BY <2>2
    <3> QED  BY <2>2, <3>1
  <2>4. Hop[Len(s) + 1] = Null
    <3>1. Len(s) + 1 \in 0 .. Cardinality(Slots) + 1 /\ ~ (Len(s) + 1 <= Len(s))  BY <2>2
    <3> QED  BY <3>1, <2>1, HopIs DEF Linked
  <2>5. lastVar # Null  BY <2>1, VarSetAssumption DEF Linked, Addresses
  <2> HIDE DEF List, Hop
  <2> QED  BY <2>1, <2>2, <2>3, <2>4, <2>5 DEF Linked
<1>2. TypeOK  BY <1>1 DEF IInv, Typed, TypeOK, Node
<1>3. WalkSafe /\ CountMatches /\ LastIsLast
  BY <1>1 DEF WalkSafe, CountMatches, LastIsLast
<1>4. ASSUME sz_varset # "allocated", ~lost PROVE live = {}
  BY <1>2, <1>4 DEF IInv, Shape, TypeOK
<1>5. AllReachable  BY <1>1, <1>4 DEF AllReachable, AlwaysReachable
<1> QED  BY <1>2, <1>3, <1>5

\* Type correctness; of the pointers: while there is a set, lastVar points at
\* the header or at a variable, live or not, and never at nothing.
THEOREM TypeCorrect == Spec => []TypeOK
<1>1. IInv => TypeOK  BY ListHolds
<1> QED  BY Invariant, <1>1, PTL

\* No walk along the list touches freed memory or goes round in a circle,
\* whatever was registered and deregistered, and however lastVar went wrong
\* (VarSet.c:126, 152, 173, 215).
THEOREM Walked == Spec => []WalkSafe
<1>1. IInv => WalkSafe  BY ListHolds
<1> QED  BY Invariant, <1>1, PTL

\* The count SZ_compress_ts takes steps by (sz.c:1076) is the length of the
\* list, reduced to its unsigned short, until a variable is lost.
THEOREM Counted == Spec => []CountMatches
<1>1. IInv => CountMatches  BY ListHolds
<1> QED  BY Invariant, <1>1, PTL

\* lastVar is the last variable of the list, until a removal of the last one
\* by name, or one by id that reads another link from the freed node.
THEOREM LastKnown == Spec => []LastIsLast
<1>1. IInv => LastIsLast  BY ListHolds
<1> QED  BY Invariant, <1>1, PTL

\* Until a variable is added while lastVar is wrong, none is cut off from the
\* list: what is allocated is the header and the nodes that links lead to, and
\* nothing once SZ_freeVarSet has been called.
THEOREM Reachable == Spec => []AllReachable
<1>1. IInv => AllReachable  BY ListHolds
<1> QED  BY Invariant, <1>1, PTL

-----------------------------------------------------------------------------
(* The list implements the registry                                        *)

\* What VarRegistry's registered stands for.
Registered == [k \in 1 .. Len(List) |->
                [id |-> heap[List[k]].id, name |-> heap[List[k]].name]]

RegisteredIs ==
  /\ sz_varset # "allocated" => Registered = << >>
  /\ sz_varset = "allocated" =>
       \A s \in Seq(Slots) : Linked(s) => Registered = Entries(s)

LEMMA RegisteredHolds == RegisteredIs
<1>1. ASSUME sz_varset # "allocated" PROVE Registered = << >>
  <2>1. List = << >>  BY <1>1 DEF List
  <2>2. Len(List) = 0  BY <2>1
  <2> HIDE DEF List
  <2> QED  BY <2>2 DEF Registered
<1>2. ASSUME sz_varset = "allocated", NEW s \in Seq(Slots), Linked(s)
      PROVE  Registered = Entries(s)
  <2>1. List = s  BY <1>2, ListIs DEF Linked
  <2> HIDE DEF List
  <2> QED  BY <2>1 DEF Registered, Entries, Variable
<1> QED  BY <1>1, <1>2 DEF RegisteredIs

LEMMA EntriesAre ==
  ASSUME NEW s \in Seq(Slots)
  PROVE  /\ Entries(s) \in Seq([id : {heap[a].id : a \in Slots}, name : {heap[a].name : a \in Slots}])
         /\ Len(Entries(s)) = Len(s) /\ DOMAIN Entries(s) = 1 .. Len(s)
         /\ \A k \in 1 .. Len(s), f \in {"id", "name"} : Entries(s)[k][f] = heap[s[k]][f]
<1>1. Len(s) \in Nat /\ \A k \in 1 .. Len(s) : s[k] \in Slots
  BY LenProperties, ElementOfSeq
<1> DEFINE V == [id : {heap[a].id : a \in Slots}, name : {heap[a].name : a \in Slots}]
<1>2. \A k \in 1 .. Len(s) : Variable(s[k]) \in V  BY <1>1 DEF Variable
<1> HIDE DEF V
<1>3. Entries(s) \in Seq(V) /\ Len(Entries(s)) = Len(s) /\ DOMAIN Entries(s) = 1 .. Len(s)
  BY <1>1, <1>2 DEF Entries
<1>4. \A k \in 1 .. Len(s), f \in {"id", "name"} : Entries(s)[k][f] = heap[s[k]][f]
  BY DEF Entries, Variable
<1> QED  BY <1>3, <1>4 DEF V

LEMMA RegisterRefines ==
  ASSUME IInv, RegisteredIs, RegisteredIs',
         NEW i \in Ids, NEW n \in Names, SZ_batchAddVar(i, n)
  PROVE  Registry!Register(i, n)
<1> DEFINE v == [id |-> i % 256, name |-> n]
<1>1. PICK s \in Seq(Slots), t \in Seq(Slots) :
        /\ sz_varset = "allocated" => Linked(s)
        /\ sz_varset # "allocated" => s = << >>
        /\ Linked(t)'
        /\ \/ Entries(t)' = Append(Entries(s), v)
           \/ stale /\ Entries(t)' = Entries(s)
           \/ /\ stale
              /\ \E k \in 0 .. Len(s) : Entries(t)' = Append(SubSeq(Entries(s), 1, k), v)
        /\ sz_varset' = "allocated" /\ UNCHANGED <<status, stale>>
  BY Registering, Zenon DEF Stored
<1>2. Registered = Entries(s)
  <2>1. CASE sz_varset = "allocated"  BY <2>1, <1>1 DEF RegisteredIs
  <2>2. CASE sz_varset # "allocated"
    <3>1. Registered = << >>  BY <2>2 DEF RegisteredIs
    <3>2. s = << >> /\ Len(s) = 0  BY <2>2, <1>1
    <3>3. Entries(s) = << >>  BY <3>2 DEF Entries
    <3> QED  BY <3>1, <3>3
  <2> QED  BY <2>1, <2>2
<1>3. Registered' = Entries(t)'  BY <1>1 DEF RegisteredIs
<1>4. Len(Registered) = Len(s)  BY <1>2, EntriesAre
<1>5. \/ Registered' = Append(Registered, v)
      \/ stale /\ Registered' = Registered
      \/ /\ stale
         /\ \E k \in 0 .. Len(Registered) :
              Registered' = Append(SubSeq(Registered, 1, k), v)
  BY <1>1, <1>2, <1>3, <1>4, Zenon
<1> QED  BY <1>1, <1>5, Zenon DEF Registry!Register, Registered

LEMMA DeregisterRefines ==
  ASSUME IInv, RegisteredIs, RegisteredIs',
         NEW f \in {"id", "name"}, NEW v,
         \/ f = "id" /\ SZ_batchDelVar_ID(v)
         \/ f = "name" /\ SZ_batchDelVar(v),
         NEW p, DOMAIN p = {f}, p[f] = v
  PROVE  Registry!Deregister(p)
<1>1. PICK s \in Seq(Slots) :
        /\ sz_varset = "allocated" /\ sz_varset' = "allocated"
        /\ Linked(s)
        /\ \/ /\ \A j \in 1 .. Len(s) : heap[s[j]][f] # v
              /\ status' = "SZ_NSCS"
              /\ UNCHANGED <<heap, live, lastVar, count, stale, lost>>
           \/ \E k \in 1 .. Len(s) :
                /\ heap[s[k]][f] = v
                /\ \A j \in 1 .. k - 1 : heap[s[j]][f] # v
                /\ status' = "SZ_SCES"
                /\ Without(s, k) \in Seq(Slots)
                /\ Linked(Without(s, k))'
                /\ Entries(Without(s, k))' = Without(Entries(s), k)
                /\ stale' \in Left(f, k = Len(s))
                /\ Typed'
  BY Deregistering
<1>2. Registered = Entries(s)  BY <1>1 DEF RegisteredIs
<1>3. /\ DOMAIN Registered = 1 .. Len(s) /\ Len(Registered) = Len(s) /\ Len(s) \in Nat
      /\ \A k \in 1 .. Len(s) : Registered[k][f] = heap[s[k]][f]
  BY <1>2, EntriesAre, LenProperties
<1>4. \A k \in 1 .. Len(s) : Registry!Matches(p, k) <=> heap[s[k]][f] = v
  <2>1. \A k \in 1 .. Len(s) : Registry!Matches(p, k) <=> Registered[k][f] = v
    BY Zenon DEF Registry!Matches, Registered
  <2> QED  BY <2>1, <1>3
<1>5. CASE /\ \A j \in 1 .. Len(s) : heap[s[j]][f] # v
           /\ status' = "SZ_NSCS"
           /\ UNCHANGED <<heap, live, lastVar, count, stale, lost>>
  <2>1. Linked(s)'  BY <1>1, <1>5 DEF Linked, Chained
  <2>2. Registered' = Entries(s)'  BY <1>1, <2>1 DEF RegisteredIs
  <2>3. Entries(s)' = Entries(s)  BY <1>5 DEF Entries, Variable
  <2>4. Registered' = Registered  BY <1>2, <2>2, <2>3
  <2>5. \A k \in DOMAIN Registered : ~ Registry!Matches(p, k)  BY <1>3, <1>4, <1>5
  <2> QED  BY <1>5, <2>4, <2>5, Zenon DEF Registry!Deregister, Registered
<1>6. ASSUME NEW k \in 1 .. Len(s), heap[s[k]][f] = v,
             \A j \in 1 .. k - 1 : heap[s[j]][f] # v,
             status' = "SZ_SCES", Without(s, k) \in Seq(Slots), Linked(Without(s, k))',
             Entries(Without(s, k))' = Without(Entries(s), k),
             stale' \in Left(f, k = Len(s))
      PROVE  Registry!Deregister(p)
  <2>1. Registered' = Without(Registered, k)  BY <1>1, <1>2, <1>6 DEF RegisteredIs
  <2>2. Without(Registered, k)
          = SubSeq(Registered, 1, k - 1) \o SubSeq(Registered, k + 1, Len(Registered))
    <3>1. \E V : Registered \in Seq(V)  BY <1>2, EntriesAre, Zenon
    <3>2. k \in 1 .. Len(Registered)  BY <1>3
    <3> QED  BY <3>1, <3>2, WithoutProperties, Zenon
  <2>3. k \in DOMAIN Registered /\ Registry!Matches(p, k)  BY <1>3, <1>4, <1>6
  <2>4. \A j \in 1 .. k - 1 : ~ Registry!Matches(p, j)
    <3>1. \A j \in 1 .. k - 1 : j \in 1 .. Len(s)  BY <1>3
    <3> QED  BY <3>1, <1>4, <1>6
  <2>5. Registered' = SubSeq(Registered, 1, k - 1)
                        \o SubSeq(Registered, k + 1, Len(Registered))
    BY <2>1, <2>2
  <2>6. stale' \in Registry!Ends(p, k)
    <3>1. "id" \in DOMAIN p <=> f = "id"  OBVIOUS
    <3>2. Len(Registered) = Len(s)  BY <1>3
    <3> QED  BY <1>6, <3>1, <3>2, Zenon DEF Registry!Ends, Left, Registered
  <2> QED  BY <1>6, <2>3, <2>4, <2>5, <2>6, Zenon DEF Registry!Deregister, Registered
<1> QED  BY <1>1, <1>5, <1>6, Zenon

\* To its callers the list is a sequence of variables in the order of
\* registration: deregistering by id or by name takes out the first that
\* matches, says whether there was one, and leaves the others alone; only what
\* is added after the end has gone stale comes elsewhere, and the only ones
\* that can get lost are it and those behind the place where it comes.
THEOREM Refinement == Spec => RegistryImplemented
<1>1. Init /\ RegisteredIs => Registry!Init
  BY DEF Init, RegisteredIs, Registered, Registry!Init
<1>2. ASSUME IInv, RegisteredIs, RegisteredIs', [Next]_vars
      PROVE  [Registry!Next]_(Registry!vars)
  <2>1. ASSUME NEW i \in Ids, NEW n \in Names, SZ_batchAddVar(i, n)
        PROVE  Registry!Next
    BY <1>2, <2>1, RegisterRefines DEF Registry!Next
  <2>2. ASSUME NEW i \in Ids, SZ_batchDelVar_ID(i) PROVE Registry!Next
    <3> DEFINE p == [id |-> i]
    <3>1. DOMAIN p = {"id"} /\ p["id"] = i  OBVIOUS
    <3>2. Registry!Deregister(p)
      <4> HIDE DEF p
      <4> QED  BY <1>2, <2>2, <3>1, DeregisterRefines
    <3> QED  BY <3>2, Zenon DEF Registry!Next
  <2>3. ASSUME NEW n \in Names, SZ_batchDelVar(n) PROVE Registry!Next
    <3> DEFINE p == [name |-> n]
    <3>1. DOMAIN p = {"name"} /\ p["name"] = n  OBVIOUS
    <3>2. Registry!Deregister(p)
      <4> HIDE DEF p
      <4> QED  BY <1>2, <2>3, <3>1, DeregisterRefines
    <3> QED  BY <3>2, Zenon DEF Registry!Next
  <2>4. CASE SZ_freeVarSet
    <3>1. sz_varset' = "freed" /\ UNCHANGED <<status, stale>>  BY <1>2, <2>4, Freeing
    <3>2. Registered' = << >>  BY <1>2, <3>1 DEF RegisteredIs
    <3> QED  BY <3>1, <3>2, Zenon DEF Registry!Next, Registry!Clear, Registered
  <2>5. CASE UNCHANGED vars
    <3>1. Registered' = Registered /\ status' = status /\ stale' = stale
      BY <2>5 DEF vars, Registered, List, Length, Hop
    <3> QED  BY <3>1 DEF Registry!vars, Registered
  <2> QED  BY <1>2, <2>1, <2>2, <2>3, <2>4, <2>5, Zenon DEF Next
<1> QED
  BY Invariant, RegisteredHolds, <1>1, <1>2, PTL DEF Spec, RegistryImplemented, Registry!Spec
=============================================================================
