---------------------------- MODULE MCRegression ----------------------------
(***************************************************************************)
(* Blocks of two for TLC.  A 5 x 4 array has strips of 3 and 2 rows and    *)
(* two blocks in each; a 7 x 3 array has three strips, so that the third   *)
(* works in the buffer of the first, which was taller; a 3 x 5 array has   *)
(* one strip of blocks of 3 and 2 columns.  Each array is a slope with a   *)
(* spike somewhere: its neighbours are out of range of their predictions   *)
(* from it.  Above Mantissa = 8 only even numbers exist, so quantised      *)
(* values and coefficients are rounded past their bound, and stored.       *)
(***************************************************************************)
EXTENDS Regression

MCArray(rows, cols, f(_, _)) ==
  [rows |-> rows, cols |-> cols,
   at |-> [p \in (0 .. rows - 1) \X (0 .. cols - 1) |-> f(p[1], p[2])]]

MCShapes == {<<5, 4>>, <<7, 3>>, <<3, 5>>}
MCSpikes == {<<0, 0>>, <<2, 1>>, <<1, 2>>, <<2, 2>>, <<0, 1>>, <<2, 0>>}
MCSlopes == {<<0, 0>>, <<3, 1>>, <<1, -2>>, <<5, -6>>}

MCArrays ==
  {MCArray(s[1], s[2],
           LAMBDA i, j : IF <<i, j>> = q THEN 24
                         ELSE LET v == (g[1] * i) + (g[2] * j)
                              IN IF v > 8 THEN 2 * (v \div 2) ELSE v) :
     s \in MCShapes, q \in MCSpikes, g \in MCSlopes}

MCPlanes == {<<3, 1, 7>>, <<0, -2, 10>>, <<-4, 5, 0>>}
MCPrecision == <<1, 1, 1>>
=============================================================================
