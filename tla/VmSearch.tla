------------------------------ MODULE VmSearch ------------------------------
(***************************************************************************)
(* The range search of fmm.rs over the tree of RBTree: which object covers *)
(* an address?  It takes a node at or right of the address, a node left of *)
(* it, and walks from the one to the other with hsakmt_rbtree_prev.        *)
(*                                                                         *)
(* An object with key [addr, size] covers addr .. addr + size - 1.  Calls  *)
(* of insert and of the search follow one another (&mut access), so a      *)
(* search starts when insert is idle and the tree rests until it ends.     *)
(***************************************************************************)
EXTENDS RBTree

CONSTANT Addresses      \* the addresses that are searched for

ASSUME AddressesAssumption == Addresses \subseteq Nat

\* mmap refuses an area of 0 bytes, and an object has the size of its area.
ASSUME SizesAssumption == \A k \in Keys : k.size > 0

VARIABLES
    phase,              \* none, scan (the while loop), prev (inside prev), done
    address, userptr,   \* the arguments
    rn, ln,             \* the two nodes of the walk
    at,                 \* `node' of hsakmt_rbtree_prev
    found               \* the object returned

search     == <<phase, address, userptr, rn, ln, at, found>>
searchVars == <<vars, search>>

-----------------------------------------------------------------------------
(* Look-ups: rbtree_amd.rs.  They walk over the nodes of the tree only.      *)

\* Faulty: the loop that follows the side is missing.
ExtremeOneStep(p, s) == p

\* rbtree_min and rbtree_max: follow one side to its end.
Extreme(p, s) ==
    LET end[q \in Attached] == IF child[q][s] = Sentinel THEN q ELSE end[child[q][s]]
    IN  end[p]

MinMax(s) == IF root = Sentinel THEN Null ELSE Extreme(root, s)

\* Faulty: where nothing is found, the place where the look-up ended is returned.
LookupNearestOrEnd(k, s) ==
    LET walk[p \in Attached \cup {Sentinel}] ==
            IF p # Sentinel /\ KeyCompare(k, key[p]) < 0 THEN walk[child[p]["left"]] ELSE p
    IN  walk[root]

\* rbtree_lookup_nearest.  A step to the left goes on, with p for `n' on a look-up
\* to the right: it is the result unless the rest of the walk has one.  The step
\* to the right leaves the loop (the `break' before `continue').
LookupNearest(k, s) ==
    LET walk[p \in Attached \cup {Sentinel}] ==
            IF p = Sentinel THEN Null
            ELSE CASE KeyCompare(k, key[p]) < 0 ->
                        IF s = "right" /\ walk[child[p]["left"]] = Null
                        THEN p ELSE walk[child[p]["left"]]
                   [] KeyCompare(k, key[p]) > 0 -> IF s = "left" THEN p ELSE Null
                   [] OTHER -> p
    IN  walk[root]

-----------------------------------------------------------------------------
(* vm_find_object_by_address_userptr_range *)

Covers(n, a) == key[n].addr <= a /\ a < key[n].addr + key[n].size

\* Faulty: the walk starts at the wrong end of the tree.
RightEndIsLeft(a) ==
    LET n == LookupNearest([addr |-> a, size |-> 0], "right")
    IN  IF n = Null THEN MinMax("left") ELSE n

RightEnd(a) ==
    LET n == LookupNearest([addr |-> a, size |-> 0], "right")
    IN  IF n = Null THEN MinMax("right") ELSE n

\* Faulty: user pointers are looked up like addresses.
LeftEndOfAddress(a, u) == LookupNearest([addr |-> a, size |-> -1], "left")

LeftEnd(a, u) ==
    IF u THEN MinMax("left") ELSE LookupNearest([addr |-> a, size |-> -1], "left")

SearchInit ==
    /\ Init
    /\ phase = "none" /\ address = 0 /\ userptr = FALSE
    /\ rn = Null /\ ln = Null /\ at = Null /\ found = Null

FindBegin(a, u) ==
    /\ pc = "idle" /\ phase = "none"
    /\ address' = a /\ userptr' = u
    /\ rn' = RightEnd(a) /\ ln' = LeftEnd(a, u)
    /\ phase' = IF LeftEnd(a, u) = Null THEN "done" ELSE "scan"
    /\ UNCHANGED <<vars, at, found>>

Scan ==
    /\ phase = "scan"
    /\ IF rn = Null \/ (~Covers(rn, address) /\ rn = ln)
       THEN phase' = "done" /\ UNCHANGED <<at, found>>
       ELSE IF Covers(rn, address)
       THEN phase' = "done" /\ found' = rn /\ UNCHANGED at
       ELSE phase' = "prev" /\ at' = rn /\ UNCHANGED found
    /\ UNCHANGED <<vars, address, userptr, rn, ln>>

\* hsakmt_rbtree_prev.  Its loop moves `node' but reads the parent of the node
\* it was called with.
\* Faulty: what rbtree_max found is dropped.
PrevBelowForgets ==
    /\ phase = "prev" /\ child[rn]["left"] # Sentinel
    /\ phase' = "scan"
    /\ UNCHANGED <<vars, address, userptr, rn, ln, at, found>>

PrevBelow ==
    /\ phase = "prev" /\ child[rn]["left"] # Sentinel
    /\ rn' = Extreme(child[rn]["left"], "right")
    /\ phase' = "scan"
    /\ UNCHANGED <<vars, address, userptr, ln, at, found>>

PrevUp ==
    /\ phase = "prev" /\ child[rn]["left"] = Sentinel
    /\ IF at = root THEN rn' = Null /\ phase' = "scan" /\ at' = at
       ELSE IF at = child[parent[rn]]["right"]
       THEN rn' = parent[rn] /\ phase' = "scan" /\ at' = at
       ELSE at' = parent[rn] /\ UNCHANGED <<rn, phase>>
    /\ UNCHANGED <<vars, address, userptr, ln, found>>

\* The caller takes the result.
Return ==
    /\ phase = "done"
    /\ phase' = "none" /\ address' = 0 /\ userptr' = FALSE
    /\ rn' = Null /\ ln' = Null /\ at' = Null /\ found' = Null
    /\ UNCHANGED vars

FindStep == Scan \/ PrevBelow \/ PrevUp

InsertNext == phase = "none" /\ Next /\ UNCHANGED search

SearchNext ==
    \/ InsertNext
    \/ \E a \in Addresses, u \in BOOLEAN : FindBegin(a, u)
    \/ FindStep
    \/ Return

SearchSpec == SearchInit /\ [][SearchNext]_searchVars

FairSearchSpec == SearchSpec /\ WF_searchVars(FindStep)

-----------------------------------------------------------------------------
(* Properties *)

SearchTypeOK ==
    /\ phase \in {"none", "scan", "prev", "done"}
    /\ address \in Addresses \cup {0}
    /\ userptr \in BOOLEAN
    /\ phase \in {"scan", "prev"} => {rn, ln} \subseteq Attached \cup {Null}
    /\ phase = "prev" => at \in Attached /\ rn # Null
    /\ found \in Attached \cup {Null}

\* The walk stays between its ends: it never steps left of ln, so it never
\* runs off the tree or into a node that was lost, although rn comes from a look-up
\* that misses nodes.
WalkStaysInBounds ==
    /\ SearchTypeOK
    /\ phase \in {"scan", "prev"} => rn # Null /\ AtMost(key[ln], key[rn])

\* A search that returns NULL has missed no object that covers the address, with
\* two exceptions, and none for user pointers: the look-up with size -1 (fmm.rs:535)
\* compares signed sizes and passes over an object that starts at the address; and
\* an object further right that ends before the address hides one that reaches it.
HiddenBy(m, n) ==
    /\ AtMost(key[n], key[m])
    /\ key[m].addr <= address /\ ~Covers(m, address)

FindsCovering ==
    phase = "done" /\ found = Null =>
        \A n \in Attached :
            Covers(n, address) => /\ ~userptr
                                  /\ \/ key[n].addr = address
                                     \/ \E m \in Attached : HiddenBy(m, n)

\* When prev returns a node it is the predecessor: no node of the tree has a
\* key strictly between the two.
PrevIsPredecessor ==
    [][phase = "prev" /\ phase' = "scan" /\ rn' # Null =>
        /\ AtMost(key[rn'], key[rn])
        /\ \A m \in Attached : AtMost(key[m], key[rn']) \/ AtMost(key[rn], key[m])]_searchVars

\* A search that does not return spins in prev, at the parent of a node that is
\* not its right child: the walk over the nodes cannot go round.
Spins == phase = "prev" /\ at = parent[rn] /\ at # root /\ child[at]["right"] # rn
EndsUnlessPrevSpins == []<>(phase \in {"none", "done"}) \/ <>[]Spins

=============================================================================
