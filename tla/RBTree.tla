------------------------------- MODULE RBTree -------------------------------
(***************************************************************************)
(* The intrusive red-black tree of hsakmt-rs (rbtree.rs, rbtree_amd.rs),   *)
(* in which every aperture keeps its VM objects by address and size.       *)
(*                                                                         *)
(* The heap is modelled as the code uses it: a node is a pointer, its      *)
(* fields are functions from pointers, and `tree.sentinel' is one more     *)
(* node that the rotations read and write like any other.  A "left"        *)
(* routine and its mirror image are one operator with a side argument.     *)
(*                                                                         *)
(* Locals of hsakmt_rbtree_insert keep their names: x is `node_st', which  *)
(* stays at the inserted node for the whole call, node is the pointer the  *)
(* loop moves, cur is `temp' of hsakmt_rbtree_insert_value.                *)
(***************************************************************************)
EXTENDS Integers, FiniteSets

CONSTANTS
    MaxNodes,   \* bound: how many objects are ever inserted
    Keys        \* the keys, records [addr, size], an object may have

Sentinel == 0
Null     == -1
Nodes    == 1..MaxNodes
Ptr      == Nodes \cup {Sentinel}
Side     == {"left", "right"}
Opp(s)   == IF s = "left" THEN "right" ELSE "left"

\* The key of the default sentinel.  A root with this key would be taken for
\* the sentinel; no object has it, since objects have a size.
ZeroKey  == [addr |-> 0, size |-> 0]

ASSUME MaxNodesAssumption == MaxNodes \in Nat \ {0}
ASSUME KeysAssumption == Keys \subseteq [addr : Nat, size : Int] \ {ZeroKey}

VARIABLES
    root,       \* tree.root
    key, child, parent, red,    \* the fields of the nodes and the sentinel
    count,      \* how many nodes were given to insert; node i was the i-th
    pc,         \* where insert is: idle, descend, rebalance, outer, stopped
    x, node, cur,               \* locals of insert and insert_value
    par, grand, side            \* node_parent, node_parent_parent, the case

locals == <<x, node, cur, par, grand, side>>
vars   == <<root, key, child, parent, red, count, pc, locals>>

-----------------------------------------------------------------------------
(* Keys *)

\* rbtree_key_compare for LKP_ALL, which every caller passes.
KeyCompare(a, b) ==
    IF a.addr # b.addr THEN IF a.addr > b.addr THEN 1 ELSE -1
    ELSE IF a.size # b.size THEN IF a.size > b.size THEN 1 ELSE -1
    ELSE 0

\* Faulty: the lookup flags of another caller, by address alone.
TurnIgnoringSize(k, p) == IF k.addr < key[p].addr THEN "left" ELSE "right"

\* The side on which insert_value descends at node p.
Turn(k, p) == IF KeyCompare(k, key[p]) < 0 THEN "left" ELSE "right"

-----------------------------------------------------------------------------
(* Rotations.  Rotate(n, s, col) is rbtree_left_rotate for s = "left" and    *)
(* rbtree_right_rotate for s = "right"; col are the colours at the time of   *)
(* the call.  The code compares *nodes*, field by field, and not pointers.   *)

Moved(n, s) == child[child[n][Opp(s)]][s]

\* Faulty: the node that moves up keeps its old parent.
RotatedParentKeepsTemp(n, s) ==
    [p \in Ptr |->
        IF p = n THEN child[n][Opp(s)]
        ELSE IF p = Moved(n, s) /\ p # Sentinel THEN n
        ELSE parent[p]]

RotatedParent(n, s) ==
    LET temp == child[n][Opp(s)]
    IN  [p \in Ptr |->
            IF p = n THEN temp
            ELSE IF p = temp THEN parent[n]
            ELSE IF p = Moved(n, s) /\ p # Sentinel THEN n
            ELSE parent[p]]

\* Faulty: the keys alone are compared.
SameKey(p, q, ch, pa, col) == key[p] = key[q]

SameNode(p, q, ch, pa, col) ==
    /\ key[p] = key[q]
    /\ ch[p] = ch[q]
    /\ pa[p] = pa[q]
    /\ col[p] = col[q]

Rotate(n, s, col) ==
    LET temp == child[n][Opp(s)]
        ch   == [child EXCEPT ![n][Opp(s)] = Moved(n, s)]
        pa   == [RotatedParent(n, s) EXCEPT ![n] = parent[n]]
        up   == parent[n]
    IN  /\ parent' = RotatedParent(n, s)
        /\ IF SameNode(n, root, ch, pa, col)
           THEN /\ root' = temp
                /\ child' = [ch EXCEPT ![temp][s] = n]
           ELSE LET slot == IF SameNode(n, child[up][s], ch, pa, col)
                            THEN s ELSE Opp(s)
                IN  /\ root' = root
                    /\ child' = [ch EXCEPT ![up][slot] = temp, ![temp][s] = n]

\* The rotation forms a reference from a NULL pointer (to the parent of the
\* root, or to a child of the sentinel) that it does not read.
NullReference(n, s) == parent[n] = Null \/ Moved(n, s) = Null

-----------------------------------------------------------------------------
(* hsakmt_rbtree_insert *)

NoLocals ==
    /\ x' = Null /\ node' = Null /\ cur' = Null
    /\ par' = Null /\ grand' = Null /\ side' = "left"

Init ==
    /\ root = Sentinel
    /\ key = [p \in Ptr |-> ZeroKey]
    /\ child = [p \in Ptr |-> [s \in Side |-> Null]]
    /\ parent = [p \in Ptr |-> Null]
    /\ red = [p \in Ptr |-> FALSE]
    /\ count = 0
    /\ pc = "idle"
    /\ x = Null /\ node = Null /\ cur = Null
    /\ par = Null /\ grand = Null /\ side = "left"

\* The first node becomes the black root; no rebalancing.
InsertFirst(k) ==
    /\ pc = "idle" /\ count < MaxNodes
    /\ key[root] = key[Sentinel]
    /\ LET n == count + 1
       IN  /\ key' = [key EXCEPT ![n] = k]
           /\ parent' = [parent EXCEPT ![n] = Null]
           /\ child' = [child EXCEPT ![n] = [s \in Side |-> Sentinel]]
           /\ red' = [red EXCEPT ![n] = FALSE]
           /\ root' = n
           /\ count' = n
    /\ UNCHANGED <<pc, locals>>

\* Faulty: descends from the root without looking whether there is one.
InsertBeginAnywhere(k) ==
    /\ pc = "idle" /\ count < MaxNodes
    /\ key' = [key EXCEPT ![count + 1] = k]
    /\ count' = count + 1
    /\ x' = count + 1
    /\ cur' = root
    /\ pc' = "descend"
    /\ UNCHANGED <<root, child, parent, red, node, par, grand, side>>

InsertBegin(k) ==
    /\ pc = "idle" /\ count < MaxNodes
    /\ key[root] # key[Sentinel]
    /\ key' = [key EXCEPT ![count + 1] = k]
    /\ count' = count + 1
    /\ x' = count + 1
    /\ cur' = root
    /\ pc' = "descend"
    /\ UNCHANGED <<root, child, parent, red, node, par, grand, side>>

\* Faulty: the loop does not move to the child.
DescendNowhere ==
    /\ pc = "descend"
    /\ child[cur][Turn(key[x], cur)] \notin {Sentinel, Null}
    /\ UNCHANGED vars

Descend ==
    /\ pc = "descend"
    /\ child[cur][Turn(key[x], cur)] \notin {Sentinel, Null}
    /\ cur' = child[cur][Turn(key[x], cur)]
    /\ UNCHANGED <<root, key, child, parent, red, count, pc, x, node, par, grand, side>>

Attach ==
    /\ pc = "descend"
    /\ child[cur][Turn(key[x], cur)] \in {Sentinel, Null}
    /\ child' = [child EXCEPT ![cur][Turn(key[x], cur)] = x,
                              ![x] = [s \in Side |-> Sentinel]]
    /\ parent' = [parent EXCEPT ![x] = cur]
    /\ red' = [red EXCEPT ![x] = TRUE]
    /\ node' = x
    /\ pc' = "rebalance"
    /\ UNCHANGED <<root, key, count, x, cur, par, grand, side>>

\* Faulty: the loop's second condition is dropped.
RebalancingToRoot == pc = "rebalance" /\ node # root

\* The loop of lines 200-254.  Its condition and its body name node_st, the
\* inserted node, wherever they do not name `node'.
Rebalancing == pc = "rebalance" /\ node # root /\ red[parent[x]]
Parent      == parent[x]
Grand       == parent[parent[x]]
ParentSide  == IF Parent = child[Grand]["left"] THEN "left" ELSE "right"
Uncle       == child[Grand][Opp(ParentSide)]
\* Faulty: the sides of the test are swapped.
IsInnerSwapped == node = child[Parent][ParentSide]

IsInner     == node = child[Parent][Opp(ParentSide)]

\* Faulty: the uncle stays red.
RecolourNotUncle ==
    /\ Rebalancing /\ red[Uncle]
    /\ red' = [red EXCEPT ![Parent] = FALSE, ![Grand] = TRUE]
    /\ node' = Grand
    /\ UNCHANGED <<root, key, child, parent, count, pc, x, cur, par, grand, side>>

Recolour ==
    /\ Rebalancing /\ red[Uncle]
    /\ red' = [red EXCEPT ![Parent] = FALSE, ![Uncle] = FALSE, ![Grand] = TRUE]
    /\ node' = Grand
    /\ UNCHANGED <<root, key, child, parent, count, pc, x, cur, par, grand, side>>

\* The inner case moves `node' to the parent and rotates, but at node_st.
InnerRotate ==
    /\ Rebalancing /\ ~red[Uncle] /\ IsInner
    /\ Rotate(x, ParentSide, red)
    /\ node' = Parent
    /\ par' = Parent /\ grand' = Grand /\ side' = ParentSide
    /\ pc' = "outer"
    /\ UNCHANGED <<key, red, count, x, cur>>

\* Lines 219-222 and 245-248: recolour, then rotate at the grandparent.
RotateGrand(p, g, s) ==
    /\ red' = [red EXCEPT ![p] = FALSE, ![g] = TRUE]
    /\ Rotate(g, Opp(s), red')

OuterRotate ==
    /\ Rebalancing /\ ~red[Uncle] /\ ~IsInner
    /\ RotateGrand(Parent, Grand, ParentSide)
    /\ UNCHANGED <<key, count, pc, locals>>

\* Faulty: parent and grandparent are read again, through the inserted node.
OuterAfterInnerRereads ==
    /\ pc = "outer"
    /\ RotateGrand(node, parent[x], side)
    /\ pc' = "rebalance"
    /\ UNCHANGED <<key, count, locals>>

OuterAfterInner ==
    /\ pc = "outer"
    /\ RotateGrand(par, grand, side)
    /\ pc' = "rebalance"
    /\ UNCHANGED <<key, count, locals>>

\* The loop is left and the root, whichever node it is now, becomes black.
Finish ==
    /\ pc = "rebalance" /\ (node = root \/ ~red[parent[x]])
    /\ red' = [red EXCEPT ![root] = FALSE]
    /\ pc' = "idle"
    /\ NoLocals
    /\ UNCHANGED <<root, key, child, parent, count>>

\* Undefined behaviour: a build that checks references stops the program when
\* a rotation forms one from NULL; any other build goes on.
StopOnNullReference ==
    /\ \/ Rebalancing /\ ~red[Uncle] /\ IsInner /\ NullReference(x, ParentSide)
       \/ /\ Rebalancing /\ ~red[Uncle] /\ ~IsInner
          /\ NullReference(Grand, Opp(ParentSide))
       \/ pc = "outer" /\ NullReference(grand, Opp(side))
    /\ pc' = "stopped"
    /\ UNCHANGED <<root, key, child, parent, red, count, locals>>

InsertStep ==
    \/ Descend \/ Attach
    \/ Recolour \/ InnerRotate \/ OuterRotate \/ OuterAfterInner
    \/ Finish
    \/ StopOnNullReference

Next ==
    \/ \E k \in Keys : InsertFirst(k) \/ InsertBegin(k)
    \/ InsertStep

Spec == Init /\ [][Next]_vars

\* A caller's thread runs the call it is in; nothing makes it start another.
FairSpec == Spec /\ WF_vars(InsertStep)

-----------------------------------------------------------------------------
(* Reachability *)

\* What is reached from p along the links ch: the least set of nodes that holds
\* p, if p is a node, and with every node its children.
Reach(ch, p) ==
    LET closed == {S \in SUBSET Nodes :
                      \A m \in S, s \in Side : ch[m][s] \in Nodes => ch[m][s] \in S}
    IN  {n \in Nodes : \A S \in closed : p \in S => n \in S} \ (IF p \in Nodes THEN {} ELSE Nodes)

Subtree(p) == Reach(child, p)
Attached   == Subtree(root)

AtMost(a, b) == KeyCompare(a, b) <= 0

-----------------------------------------------------------------------------
(* Properties *)

\* Every field and local has its type; while a node is inserted x is that node
\* and cur, then node, is a node of the heap and not the sentinel.
TypeOK ==
    /\ root \in Ptr
    /\ key \in [Ptr -> Keys \cup {ZeroKey}]
    /\ child \in [Ptr -> [Side -> Ptr \cup {Null}]]
    /\ parent \in [Ptr -> Ptr \cup {Null}]
    /\ red \in [Ptr -> BOOLEAN]
    /\ count \in 0..MaxNodes
    /\ pc \in {"idle", "descend", "rebalance", "outer", "stopped"}
    /\ {x, node, cur, par, grand} \subseteq Nodes \cup {Null}
    /\ pc \in {"descend", "rebalance", "outer"} => x = count /\ x \in Nodes /\ cur \in Nodes
    /\ pc \in {"rebalance", "outer"} => node \in Nodes
    /\ pc = "outer" => par \in Nodes /\ grand \in Nodes
    /\ side \in Side

\* "a sentinel must be black" (rbtree.rs:53), though the loop recolours through
\* pointers that may reach it and the inner rotation re-parents it.
SentinelIsBlack == ~red[Sentinel] /\ key[Sentinel] = ZeroKey

\* Every pointer the rebalancing loop reads through is a node or the sentinel,
\* which stays what it was: a red parent always has a grandparent, though the loop
\* reads them through the inserted node, after rotations, and never re-reads
\* `node'.
ReadsAreValid ==
    /\ SentinelIsBlack
    /\ Rebalancing => /\ Parent \in Nodes
                      /\ Grand \in Nodes
                      /\ Uncle \in Ptr
                      /\ ParentSide = "right" => Parent = child[Grand]["right"]

\* Between calls the tree is a search tree for the order of the keys, whatever
\* rotations and lost nodes came before.
SearchOrder ==
    pc = "idle" =>
        \A n \in Attached :
            /\ \A m \in Subtree(child[n]["left"])  : AtMost(key[m], key[n])
            /\ \A m \in Subtree(child[n]["right"]) : AtMost(key[n], key[m])

\* Between calls links agree: the root has no parent, a child's parent is the
\* node that points to it and to which no other side points, and the root is
\* black.  The walk of hsakmt_rbtree_prev relies on it.
LinksAgree ==
    pc = "idle" =>
        /\ root \in Nodes => parent[root] = Null /\ ~red[root]
        /\ \A n \in Attached, s \in Side :
              /\ child[n][s] \in Ptr
              /\ child[n][s] # Sentinel =>
                    parent[child[n][s]] = n /\ child[n][Opp(s)] # child[n][s]

\* Between calls every path from the root to a free slot has the same number of
\* black nodes, although the loop never carries a recolouring upwards and an
\* inner rotation drops a node: what is left of the tree's balance.
BlackAbove(n) == {m \in Attached : n \in Subtree(m) /\ ~red[m]}
HasSlot(n)    == \E s \in Side : child[n][s] = Sentinel
SlotDepths    == {Cardinality(BlackAbove(n)) : n \in {m \in Attached : HasSlot(m)}}
BlackHeightsAgree == pc = "idle" => \A d, e \in SlotDepths : d = e

\* What the search relies on, and what its cost does.
OrderAndBalance == SearchOrder /\ BlackHeightsAgree

\* Every call of insert ends: the loop, whose condition reads the parent of a
\* node the loop does not move, cannot spin.
InsertReturns == pc = "descend" ~> pc \in {"idle", "stopped"}

\* Violated.  Insertion keeps every inserted node in the tree.
NothingIsLost == pc = "idle" => Attached = 1..count

=============================================================================
