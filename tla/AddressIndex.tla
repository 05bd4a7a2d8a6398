---------------------------- MODULE AddressIndex ----------------------------
(***************************************************************************)
(* What hsakmt_rbtree_insert promises its callers, without the tree: an    *)
(* index of objects by key.  Inserting an object adds it and touches no    *)
(* other; it may fail to add it, silently, but only when the key falls     *)
(* strictly inside the range of keys the index holds.  Objects whose       *)
(* addresses only grow, or only fall, are therefore never lost.            *)
(***************************************************************************)
EXTENDS Integers

CONSTANTS MaxNodes, Keys

VARIABLES
    content,    \* the objects that can be found: records [id, key]
    used        \* how many objects were given to insert

indexVars == <<content, used>>

KeyLess(a, b) == a.addr < b.addr \/ (a.addr = b.addr /\ a.size < b.size)

\* A key at or past the last one, or before the first.
AtAnEnd(k) ==
    \/ \A o \in content : ~KeyLess(k, o.key)
    \/ \A o \in content : KeyLess(k, o.key)

IndexInit == content = {} /\ used = 0

Add(k) ==
    /\ used < MaxNodes
    /\ used' = used + 1
    /\ content' = content \cup {[id |-> used + 1, key |-> k]}

Lose(k) ==
    /\ used < MaxNodes
    /\ ~AtAnEnd(k)
    /\ used' = used + 1
    /\ UNCHANGED content

IndexNext == \E k \in Keys : Add(k) \/ Lose(k)

IndexSpec == IndexInit /\ [][IndexNext]_indexVars

=============================================================================
