----------------------------- MODULE MCContainer -----------------------------
(***************************************************************************)
(* All settings and kinds.  What one stream can do to another it does      *)
(* through exe_params, so one stream at a time is enough.  Memory holds    *)
(* zeros, the bit of raw streams, the bit of wide sizes, or all others.    *)
(***************************************************************************)
EXTENDS Container

MCAllEntropyTypes == 0 .. 2
MCHuffman == {0}
MCProtect == BOOLEAN
MCNoProtect == {FALSE}
MCLeftover == {{}, {16}, {64}, {2, 4, 8, 32, 128}}
=============================================================================
