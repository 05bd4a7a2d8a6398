---------------------------- MODULE RBTreeIndex -----------------------------
(***************************************************************************)
(* The tree of RBTree implements AddressIndex.  A call of insert counts    *)
(* when it returns: while it runs, the index does not hold its node yet.   *)
(***************************************************************************)
EXTENDS RBTree

Running == pc \in {"descend", "rebalance", "outer", "stopped"}

Held == Attached \ (IF Running THEN {x} ELSE {})

Index == INSTANCE AddressIndex WITH
            content <- {[id |-> n, key |-> key[n]] : n \in Held},
            used    <- IF Running THEN count - 1 ELSE count

\* The nodes that can be reached in the tree are the content of an index that
\* loses at most the object being inserted, and only strictly inside its range.
ImplementsIndex == Index!IndexSpec

=============================================================================
