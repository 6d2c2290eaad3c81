--------------------------- MODULE MCIntegerCodec ---------------------------
(***************************************************************************)
(* Bytes have two bits, so that types of one, two and four bytes have 4,   *)
(* 16 and 256 values: all 8-bit blocks, and 16- and 32-bit blocks of       *)
(* values at the ends, around the middle and a power of two apart.         *)
(***************************************************************************)
EXTENDS IntegerCodec

Of(bytes, signed, width, lengths, values) ==
  {[type |-> [bytes |-> bytes, signed |-> signed], cols |-> width, data |-> d] :
     d \in UNION {[1 .. m -> values] : m \in lengths}}

MCInputs ==
  UNION {Of(1, TRUE, w, {4}, -2 .. 1) \cup Of(1, FALSE, w, {4}, 0 .. 3) : w \in {0, 2}}
    \cup UNION {Of(2, TRUE, w, {4}, {-8, -3, -1, 1, 7}) : w \in {0, 2}}
    \cup Of(2, FALSE, 3, {6}, {0, 2, 15})
    \cup Of(4, TRUE, 0, {4}, {-128, -10, 0, 2, 6, 125, 127})
    \cup Of(4, TRUE, 2, {4}, {-128, -10, 0, 2, 6, 127})
    \cup Of(4, TRUE, 3, {6}, {-9, 1, 8})
    \cup UNION {Of(4, FALSE, w, {4}, {0, 120, 131, 136, 255}) : w \in {0, 2}}

\* In quarters.
MCNums == {2, 3, 4, 6}

MCBehind == {<<0, 1>>}
=============================================================================
