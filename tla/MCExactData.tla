---------------------------- MODULE MCExactData ----------------------------
(***************************************************************************)
(* Zero, which begins like the values before the first; two single and     *)
(* three double-precision values that begin with the same bytes; and a     *)
(* negative power of two, beyond the range by rounding.                    *)
(***************************************************************************)
EXTENDS ExactData

MCWords ==
  {<<0, 0, 0, 0>>, <<65, 90, 60, 165>>, <<65, 90, 60, 102>>, <<65, 90, 195, 90>>,
   <<193, 128, 0, 0>>,
   <<0, 0, 0, 0, 0, 0, 0, 0>>, <<64, 43, 72, 165, 60, 90, 195, 129>>,
   <<64, 43, 72, 165, 90, 60, 102, 24>>, <<192, 48, 0, 0, 0, 0, 0, 0>>}

\* Every number of bits from the least to all of them, and beyond both ends.
MCSettings == ({4} \X {3} \X (-20 .. 5)) \cup ({8} \X {3} \X (-50 .. 4))
=============================================================================
