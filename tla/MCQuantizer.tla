----------------------------- MODULE MCQuantizer -----------------------------
(***************************************************************************)
(* Small blocks for TLC.  With Eb = 1 and Radius = 4 the range test is at  *)
(* 7, which is the distance between -1 and 6 and between 3 and -4.  Above  *)
(* Mantissa = 4 only even numbers exist: 6 predicted from 3 is rebuilt as  *)
(* 7, which rounds to 8, so the double-check has something to reject.      *)
(***************************************************************************)
EXTENDS Quantizer

MCValues == {-4, -1, 0, 3, 6}
MCNoHist == {0}
\* Distances on both sides of 7, and on it: 6 from -4 to 2, 7 from -4 to 3,
\* 10 from -4 to 6.
MCStepValues == {-4, 0, 2, 3, 6}
MCTemporalValues == {-4, 3, 6, 8}
MCTemporalHist == {-1, 3}
=============================================================================
