------------------------------- MODULE Huffman -------------------------------
(***************************************************************************)
(* The Huffman coder (Huffman.c): the tree is built with a binary heap,    *)
(* numbered in preorder and stored in arrays whose elements are one, two   *)
(* or four bytes wide; the codes are put one after the other into bytes    *)
(* through writes of a whole long; the reader takes the tree from the      *)
(* arrays and walks it, bit by bit or with a table for the first bits.     *)
(*                                                                         *)
(* A code longer than a long needs more elements than memory holds, and is *)
(* left out.  A node is known by its place in the pool.                    *)
(***************************************************************************)
EXTENDS Integers, Sequences, SequencesExt, FiniteSetsExt, TLC

CONSTANTS
  Inputs,    \* sequences to encode
  ByteNodes, \* nodes that fit indices of a byte (256)
  ShortNodes,\* nodes that fit indices of two bytes (65536)
  LongBits,  \* bits of a long (64)
  TableBits  \* largest number of bits looked up in a table (16)

ASSUME HuffmanAssumption ==
  /\ Inputs \subseteq Seq(Nat) \ {<< >>}
  /\ ByteNodes \in Nat /\ ShortNodes \in Nat /\ ByteNodes <= ShortNodes
  /\ LongBits \in {8 * n : n \in 1 .. 8} /\ TableBits \in Nat \ {0}

VARIABLES
  s,         \* the sequence
  swapped,   \* the reader has the other byte order
  msst19,    \* encode_withTree_MSST19 and decode_MSST19 are called
  stage,     \* "build", "encode", "reconstruct", "decode", "done"
  pending,   \* the states that have no leaf yet
  pool,      \* the nodes: frequency, state, and children, 0 for a leaf's
  qq,        \* the heap, of nodes
  code,      \* of each state, a sequence of bits
  stored,    \* the tree as stored: L, R and C, from index 0 on
  i, p, lackBits, enCodeSize, \* encode: the next value, byte, free bits of the byte before it
  bits,      \* its output, bit by bit
  tree,      \* the arrays as the reader has them
  taken,     \* bits taken from the output, of which ...
  window,    \* ... decode_MSST19 has these still to use
  n,         \* index of the node decode has come to
  out

heap == <<pending, pool, qq>>
encoder == <<i, p, lackBits, enCodeSize, bits>>
decoder == <<taken, window, n, out>>
vars == <<s, swapped, msst19, stage, heap, code, stored, encoder, tree, decoder>>

Garbage == 2
At(f, x) == IF x \in DOMAIN f THEN f[x] ELSE Garbage

-----------------------------------------------------------------------------
(* The queue                                                               *)

Freq(c) == Cardinality({j \in DOMAIN s : s[j] = c})
States == {s[j] : j \in DOMAIN s}

Over(f, q, size) == [j \in 1 .. size |-> IF j \in DOMAIN f THEN f[j] ELSE q[j]]

\* qinsert: a node moves up past those of a greater frequency.
qinsert(nodes, q, node) ==
  LET up[k \in 1 .. Len(q) + 1] ==
        IF k = 1 THEN k :> node
        ELSE IF nodes[q[k \div 2]].freq <= nodes[node].freq THEN k :> node
        ELSE (k :> q[k \div 2]) @@ up[k \div 2]
  IN Over(up[Len(q) + 1], q, Len(q) + 1)

\* Mutant of qremove: only the first child is looked at.
qremoveLeft(nodes, q) ==
  LET size == Len(q) - 1
      f(k) == nodes[q[k]].freq
      down[k \in 1 .. size] ==
        LET child == 2 * k
        IN IF child <= size /\ f(Len(q)) > f(child) THEN (k :> q[child]) @@ down[child]
           ELSE k :> q[Len(q)]
  IN IF size = 0 THEN << >> ELSE Over(down[1], q, size)
\* qremove: the last node moves down from the top past those of a smaller one.
qremove(nodes, q) ==
  LET size == Len(q) - 1
      f(k) == nodes[q[k]].freq
      down[k \in 1 .. size] ==
        LET l == 2 * k
            child == IF l + 1 <= size /\ f(l + 1) < f(l) THEN l + 1 ELSE l
        IN IF l <= size /\ f(Len(q)) > f(child) THEN (k :> q[child]) @@ down[child]
           ELSE k :> q[Len(q)]
  IN IF size = 0 THEN << >> ELSE Over(down[1], q, size)

Leaf(c) == [freq |-> Freq(c), c |-> c, left |-> 0, right |-> 0]
Inner(a, b) == [freq |-> pool[a].freq + pool[b].freq, c |-> 0, left |-> a, right |-> b]

Insert ==
  /\ stage = "build" /\ pending # {}
  /\ LET c == Min(pending)
     IN /\ pool' = Append(pool, Leaf(c))
        /\ qq' = qinsert(pool', qq, Len(pool'))
        /\ pending' = pending \ {c}
  /\ UNCHANGED <<s, swapped, msst19, stage, code, stored, encoder, tree, decoder>>

\* Two nodes become children of a new one; which of the two calls of qremove
\* comes first is up to the compiler.
Merge ==
  /\ stage = "build" /\ pending = {} /\ Len(qq) > 1
  /\ LET rest == qremove(pool, qq)
         a == Head(qq)
         b == Head(rest)
     IN \E children \in {<<a, b>>, <<b, a>>} :
          /\ pool' = Append(pool, Inner(children[1], children[2]))
          /\ qq' = qinsert(pool', qremove(pool, rest), Len(pool'))
  /\ UNCHANGED <<s, swapped, msst19, stage, pending, code, stored, encoder, tree, decoder>>

-----------------------------------------------------------------------------
(* Codes and the stored tree                                               *)

Root == qq[1]
IsLeaf(node) == pool[node].left = 0
Parent(node) == CHOOSE m \in DOMAIN pool : node \in {pool[m].left, pool[m].right}

\* build_code
Path ==
  LET path[node \in DOMAIN pool] ==
        IF node = Root THEN << >>
        ELSE Append(path[Parent(node)], IF pool[Parent(node)].left = node THEN 0 ELSE 1)
  IN path

\* pad_tree: the nodes are numbered in preorder.
Preorder ==
  LET below[node \in DOMAIN pool] ==
        IF IsLeaf(node) THEN <<node>>
        ELSE <<node>> \o below[pool[node].left] \o below[pool[node].right]
  IN below[Root]

nodeCount == 2 * Cardinality(States) - 1
\* Mutant of Widths: one node more than an index can tell apart.
WidthsOneMore(count) ==
  IF count <= ByteNodes + 1 THEN ByteNodes ELSE IF count <= ShortNodes + 1 THEN ShortNodes ELSE 2 ^ 30
\* How many values an index may have, of a tree with so many nodes.
Widths(count) ==
  IF count <= ByteNodes THEN ByteNodes ELSE IF count <= ShortNodes THEN ShortNodes ELSE 2 ^ 30

\* convert_HuffTree_to_bytes_anyStates: 0 where there is no child.  A node of
\* the stored arrays is a leaf if its t says so.
Stored ==
  LET order == Preorder
      index(node) ==
        IF node = 0 THEN 0
        ELSE (CHOOSE k \in 0 .. nodeCount - 1 : order[k + 1] = node) % Widths(nodeCount)
  IN [k \in 0 .. nodeCount - 1 |->
        LET node == order[k + 1]
        IN [L |-> index(pool[node].left), R |-> index(pool[node].right),
            C |-> pool[node].c, t |-> IsLeaf(node)]]

StoreTree ==
  /\ stage = "build" /\ pending = {} /\ Len(qq) = 1
  /\ code' = [c \in States |->
                Path[CHOOSE node \in DOMAIN pool : IsLeaf(node) /\ pool[node].c = c]]
  /\ stored' = Stored
  /\ stage' = "encode"
  /\ UNCHANGED <<s, swapped, msst19, heap, encoder, tree, decoder>>

-----------------------------------------------------------------------------
(* encode                                                                  *)

\* Mutant of Ceil8: bytes that are not full are not counted.
Floor8(m) == m \div 8
\* Bytes for m bits.
Ceil8(m) == (m + 7) \div 8

\* Mutant of Write: the second long of a code is written even if it has no bits.
WriteBoth(b, q, new) ==
  [k \in 8 * q .. 8 * q + 2 * LongBits - 1 |->
     IF k - 8 * q < Len(new) THEN new[k - 8 * q + 1] ELSE 0] @@ b
\* longToBytes_bigEndian: bits at byte q, and zeros up to the end of the long.
Write(b, q, new) ==
  [k \in 8 * q .. 8 * q + LongBits - 1 |->
     IF k - 8 * q < Len(new) THEN new[k - 8 * q + 1] ELSE 0] @@ b

\* The free bits of byte p take the first bits of a code.
Fill(b, c) ==
  LET first == 8 * (p + 1) - lackBits
  IN [k \in first .. first + Min({lackBits, Len(c)}) - 1 |->
        IF At(b, k) = 0 THEN c[k - first + 1] ELSE IF At(b, k) = 1 THEN 1 ELSE Garbage] @@ b

\* The free bits of the last byte after m bits from the beginning of one.
Free(m) == (8 - (m % 8)) % 8

EncodeNext ==
  /\ stage = "encode" /\ i <= Len(s)
  /\ i' = i + 1
  /\ LET c == code[s[i]]
         filled == Fill(bits, c)
         start == IF lackBits = 0 THEN p ELSE p + 1
         rest == Len(c) - lackBits
     IN IF lackBits = 0 \/ rest > 0
        THEN /\ bits' = Write(filled, start, SubSeq(c, lackBits + 1, Len(c)))
             /\ p' = start + rest \div 8
             /\ enCodeSize' = enCodeSize + Ceil8(rest)
             /\ lackBits' = Free(rest)
        ELSE /\ bits' = filled
             /\ p' = IF rest = 0 THEN p + 1 ELSE p
             /\ lackBits' = -rest
             /\ UNCHANGED enCodeSize
  /\ UNCHANGED <<s, swapped, msst19, stage, heap, code, stored, tree, decoder>>

EncodeEnd ==
  /\ stage = "encode" /\ i > Len(s)
  /\ stage' = "reconstruct"
  /\ UNCHANGED <<s, swapped, msst19, heap, code, stored, encoder, tree, decoder>>

-----------------------------------------------------------------------------
(* The reader                                                              *)

\* reconstruct_HuffTree_from_bytes_anyStates.  With two-byte indices the loop
\* over the states begins with the i and p of the loop over the indices, and
\* ends after one turn: the states keep the byte order of the writer, in which
\* only 0 reads the same.
Reconstruct ==
  /\ stage = "reconstruct"
  /\ LET unswapped == swapped /\ Widths(nodeCount) = ShortNodes
         state(c) == IF unswapped /\ c # 0 THEN -c ELSE c
     IN tree' = [k \in DOMAIN stored |-> [stored[k] EXCEPT !.C = state(@)]]
  /\ stage' = "decode"
  /\ UNCHANGED <<s, swapped, msst19, heap, code, stored, encoder, decoder>>

\* The bits looked up in the table: those of the longest code, if not too many.
maxBits == Min({TableBits, Max({Len(code[c]) : c \in States})})

Child(node, bit) == IF bit = 0 THEN tree[node].L ELSE tree[node].R

\* All states are the same.
DecodeConstant ==
  /\ stage = "decode" /\ tree[0].t
  /\ out' = [k \in DOMAIN s |-> tree[0].C]
  /\ stage' = "done"
  /\ UNCHANGED <<s, swapped, msst19, heap, code, stored, encoder, tree, taken, window, n>>

\* decode: one turn of the loop over the bits.
DecodeBit ==
  /\ stage = "decode" /\ ~ msst19 /\ ~ tree[0].t
  /\ Len(out) < Len(s)
  /\ LET next == Child(n, At(bits, taken))
     IN IF tree[next].t THEN n' = 0 /\ out' = Append(out, tree[next].C)
        ELSE n' = next /\ UNCHANGED out
  /\ taken' = taken + 1
  /\ UNCHANGED <<s, swapped, msst19, stage, heap, code, stored, encoder, tree, window>>

Bytes(from, count) == [k \in 1 .. 8 * count |-> At(bits, from + k - 1)]

\* decode_MSST19: the window is filled to maxBits; the table has the node that
\* its first maxBits bits lead to, or an ancestor that is a leaf; from a node
\* that is not, the walk goes on bit by bit, a byte being added to the window
\* when it is empty.
DecodeTable ==
  /\ stage = "decode" /\ msst19 /\ ~ tree[0].t
  /\ Len(out) < Len(s)
  /\ LET lack == Ceil8(Max({0, maxBits - Len(window)}))
         full == window \o Bytes(taken, lack)
         \* the longest path that can be needed, with what may have to be added
         more == full \o Bytes(taken + 8 * lack, nodeCount \div 8 + 1)
         step(at, bit) == IF tree[at.node].t THEN at
                          ELSE [node |-> Child(at.node, bit), used |-> at.used + 1]
         end == FoldLeft(step, [node |-> 0, used |-> 0], more)
         added == Ceil8(Max({0, end.used - Len(full)}))
     IN /\ out' = Append(out, tree[end.node].C)
        /\ window' = SubSeq(more, end.used + 1, Len(full) + 8 * added)
        /\ taken' = taken + 8 * (lack + added)
  /\ UNCHANGED <<s, swapped, msst19, stage, heap, code, stored, encoder, tree, n>>

DecodeEnd ==
  /\ stage = "decode" /\ ~ tree[0].t /\ Len(out) = Len(s)
  /\ stage' = "done"
  /\ UNCHANGED <<s, swapped, msst19, heap, code, stored, encoder, tree, decoder>>

Init ==
  /\ s \in Inputs /\ swapped \in BOOLEAN /\ msst19 \in BOOLEAN
  /\ stage = "build" /\ pending = States /\ pool = << >> /\ qq = << >>
  /\ code = << >> /\ stored = << >> /\ tree = << >>
  /\ i = 1 /\ p = 0 /\ lackBits = 0 /\ enCodeSize = 0 /\ bits = << >>
  /\ taken = 0 /\ window = << >> /\ n = 0 /\ out = << >>

\* Every call comes to an end: stopping anywhere else would be a deadlock.
Terminated == stage = "done" /\ UNCHANGED vars

Next ==
  \/ Insert \/ Merge \/ StoreTree
  \/ EncodeNext \/ EncodeEnd
  \/ Reconstruct \/ DecodeConstant \/ DecodeBit \/ DecodeTable \/ DecodeEnd
  \/ Terminated

Spec == Init /\ [][Next]_vars

-----------------------------------------------------------------------------
(* Properties                                                              *)

\* Every variable has its type, and the free bits are fewer than a byte.
TypeOK ==
  /\ pending \subseteq States
  /\ \A k \in DOMAIN qq : qq[k] \in DOMAIN pool
  /\ lackBits \in 0 .. 7 /\ i \in 1 .. Len(s) + 1
  /\ \A k \in DOMAIN bits : bits[k] \in {0, 1}
  /\ Len(out) <= Len(s)

\* The sum over a set of small numbers.
SumOver(set, f(_)) ==
  LET top == Max(set \cup {0})
      sum[c \in 0 .. top] ==
        (IF c \in set THEN f(c) ELSE 0) + (IF c = 0 THEN 0 ELSE sum[c - 1])
  IN sum[top]

\* No prefix code is shorter on this sequence, in whatever order the compiler
\* calls qremove: by Kraft's inequality, none whose lengths could be those of a
\* prefix code (Huffman.c:165-185).
TotalBits(len) == SumOver(States, LAMBDA c : Freq(c) * len[c])
Optimal ==
  stage = "encode" /\ i = 1 =>
    LET size == Cardinality(States)
        total == TotalBits([c \in States |-> Len(code[c])])
        kraft(len) == SumOver(States, LAMBDA c : 2 ^ (size - len[c])) <= 2 ^ size
    IN \A len \in [States -> 0 .. size - 1] : kraft(len) => total <= TotalBits(len)

\* The bytes counted are those the codes need, all of them have been written,
\* and the decoder uses no bit beyond them: the caller appends that many bytes
\* to the stream (Huffman.c:205-308, 812).
SizeRight ==
  /\ stage \notin {"build", "encode"} =>
       /\ enCodeSize = Ceil8(TotalBits([c \in States |-> Len(code[c])]))
       /\ 0 .. 8 * enCodeSize - 1 \subseteq DOMAIN bits
  /\ taken - Len(window) <= 8 * enCodeSize

\* encode always writes a whole long; the buffer of encode_withTree has four
\* bytes for each element, of which eight are taken by the header
\* (Huffman.c:802-812).
FitsBuffer ==
  Len(s) >= 4 => \A k \in DOMAIN bits : k < 8 * (4 * Len(s) - 8)

\* Every element comes back, from either decoder, also where the byte order
\* differs (Huffman.c:310-441).
RoundTrip == IsPrefix(out, s) /\ (stage = "done" => out = s)

\* As RoundTrip, except with two-byte indices, whose states the reader leaves
\* in the byte order of the writer (Huffman.c:705-731).
RoundTripUnlessShort == (swapped /\ Widths(nodeCount) = ShortNodes) \/ RoundTrip
=============================================================================
