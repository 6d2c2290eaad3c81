------------------------------ MODULE MCSession ------------------------------
(***************************************************************************)
(* Absolute bounds of 10 and 20, and 10 percent of ranges of 10, 40 and    *)
(* 200, which is 1, 4 and 20: below, between and above; data of range 10   *)
(* are constant to an absolute bound.  Streams as this library writes them *)
(* after a search (capacity 32) or with 64 intervals asked for.            *)
(***************************************************************************)
EXTENDS Session

MCModes == {"ABS", "REL", "ABS_AND_REL"}
MCAllModes == MCModes \cup {"ABS_OR_REL", "PSNR"}
MCAbsBounds == {10, 20}
MCPercents == {10}
MCRanges == {10, 40, 200}
MCIntervals == {0, 64}
MCStreams ==
  [optQuantMode : {1}, intervals : {32}, codec : {"snapshot", "integer"}]
    \cup [optQuantMode : {0}, intervals : {64}, codec : {"snapshot", "integer"}]
=============================================================================
