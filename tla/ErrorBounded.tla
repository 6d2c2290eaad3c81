---------------------------- MODULE ErrorBounded ----------------------------
(***************************************************************************)
(* What an error-bounded lossy compressor promises its caller: it accepts  *)
(* values, the caller seals the block, and reading the block back returns  *)
(* as many values, in order, each within Eb of the one that was put in.    *)
(* Quantizer.tla is shown to implement this specification.                 *)
(***************************************************************************)
EXTENDS Integers, Sequences

CONSTANTS
  Values,   \* the numbers a caller may put in
  Eb,       \* the absolute error bound
  MaxLen    \* bound: the most values in one block

VARIABLES
  data,     \* what the caller put in
  out,      \* what has been read back
  sealed    \* no more values can be put in

vars == <<data, out, sealed>>

Init == data = << >> /\ out = << >> /\ sealed = FALSE

Accept(v) ==
  /\ ~sealed
  /\ Len(data) < MaxLen
  /\ data' = Append(data, v)
  /\ UNCHANGED <<out, sealed>>

Seal ==
  /\ ~sealed
  /\ sealed' = TRUE
  /\ UNCHANGED <<data, out>>

Return ==
  /\ sealed
  /\ Len(out) < Len(data)
  /\ LET v == data[Len(out) + 1]
     IN \E x \in (v - Eb) .. (v + Eb) : out' = Append(out, x)
  /\ UNCHANGED <<data, sealed>>

Next ==
  \/ \E v \in Values : Accept(v)
  \/ Seal
  \/ Return

Spec == Init /\ [][Next]_vars
=============================================================================
