----------------------------- MODULE MCHuffman -----------------------------
(***************************************************************************)
(* Trees of up to three nodes are stored with byte indices, of five and    *)
(* seven with two-byte indices, of nine with four-byte indices.            *)
(***************************************************************************)
EXTENDS Huffman

\* All short sequences of three states, and longer ones whose frequencies make
\* trees of every shape with up to five leaves and codes across several bytes.
MCInputs ==
  UNION {[1 .. m -> 0 .. 2] : m \in 1 .. 4}
    \cup {<<0, 1, 1, 2, 2, 2, 2, 3, 3, 3, 3, 3, 3, 3, 3>>, <<3, 2, 3, 0, 3, 1, 2, 3>>,
          <<0, 1, 2, 3, 4>>, <<4, 3, 3, 2, 1, 0, 0>>, <<0, 0, 1, 1, 2, 2, 3, 3, 4, 1>>,
          <<0, 1, 1, 2, 2, 2, 3, 3, 3, 3, 3, 4, 4, 4, 4, 4, 4, 4, 4>>}
=============================================================================
