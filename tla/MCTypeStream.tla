---------------------------- MODULE MCTypeStream ----------------------------
(***************************************************************************)
(* Codes at the edges of the classes, on both sides of the middle code and *)
(* at both ends of the alphabet.                                           *)
(***************************************************************************)
EXTENDS TypeStream

MCEdges == {0, 1, 15, 16, 17, 23, 24, 31, 32, 47, 48, 63, 64, 65, 127, 128,
            4095, 4096, 8191, 8192, 16383}
MCTypes ==
  LET around == {md + d : d \in MCEdges} \cup {md - d : d \in MCEdges}
  IN {0, 1, Intervals - 1} \cup {t \in around : 0 < t /\ t < Intervals}
MCFewTypes == {0, 1, md, Intervals - 1}
MCAllCoders == {"huffman", "zstd", "adt-fse"}
MCZstd == {"zstd"}
MCAdtFse == {"adt-fse"}
=============================================================================
