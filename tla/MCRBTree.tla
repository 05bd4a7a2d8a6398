------------------------------ MODULE MCRBTree ------------------------------
(* Two keys, so that runs of eight insertions are within reach: the first at *)
(* which recolourings below the root follow one another.  The keys differ in *)
(* their sizes; MCVmSearch has different addresses.                          *)
EXTENDS RBTreeIndex

TwoKeys == [addr : {1}, size : 1..2]

=============================================================================
