---------------------------- MODULE MCOmpBlocks ----------------------------
(***************************************************************************)
(* Five threads make four blocks, two rows by two.  Arrays whose sides the *)
(* grid divides, and does not; blocks of one value, whose strays are the   *)
(* values of others.                                                       *)
(***************************************************************************)
EXTENDS OmpBlocks

MCShapes == {<<2, 2, 2>>, <<3, 3, 2>>}
MCThin == {<<2, 2, 1>>}
\* Eight parts of a code array of twenty: the first seven need more than there is.
MCShortLast == {<<2, 2, 5>>}
\* Blocks with and without unpredictable values, with codes of several lengths.
MCLoads == {[id \in 0 .. 126 |-> <<(2 * id) % 3, 1 + (id % 2)>>],
            [id \in 0 .. 126 |-> <<(id + 1) % 2, 2>>]}
MCLoad == {[id \in 0 .. 126 |-> <<2 * (id % 2), 1 + (id % 2)>>]}
MCOne == {<<3, 2, 2>>}
=============================================================================
