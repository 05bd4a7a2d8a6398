---------------------------- MODULE RBTreeProofs ----------------------------
(***************************************************************************)
(* Theorems about RBTree, for every number of nodes and every set of keys: *)
(* what the rebalancing loop reads is valid, the links of the tree agree,  *)
(* it stays a balanced search tree, and it implements AddressIndex.        *)
(*                                                                         *)
(* The loop ends after one round, so a node of the tree is touched only    *)
(* when it is one of the lowest: there LowNodes says what is around it.    *)
(* A rotation at Grand moves a subtree of two or three nodes, that of an   *)
(* inserted node drops it.  What lies below the others is computed from    *)
(* the lemmas of the first part, in which Reach is Subtree with the links  *)
(* as an argument.                                                         *)
(***************************************************************************)
EXTENDS RBTreeIndex, FiniteSetTheorems, TLAPS

\* A tree of links: what is below the root are nodes that were inserted, each
\* the child of one node at most, which is its parent.  What the sentinel's own
\* fields point to is lost.
Linked ==
    /\ Attached \subseteq 1 .. count
    /\ root \in Attached \cup {Sentinel}
    /\ \A n \in Attached : key[n] \in Keys
    /\ \A n \in Attached, s \in Side :
          /\ child[n][s] \in Attached \cup {Sentinel}
          /\ child[n][s] # Sentinel => /\ parent[child[n][s]] = n
                                       /\ child[n][Opp(s)] # child[n][s]
    /\ root # Sentinel => parent[root] = Null
    /\ \A s \in Side : child[Sentinel][s] \in (1 .. count) \cup {Null}
    /\ \A s \in Side : child[Sentinel][s] \notin Attached

\* The lowest nodes, of a tree in which e is not counted: where one child is
\* missing or a red leaf the other is, too, and a node above a red leaf is black.
RedLeafIn(ch, rd, e, n) == n \in Nodes \ {e} /\ rd[n] /\ \A s \in Side : ch[n][s] \in {Sentinel, e}
LowIn(ch, rd, e, n)     == n \in {Sentinel, e} \/ RedLeafIn(ch, rd, e, n)
LowNodesIn(A, ch, rd, e) ==
    \A n \in A, s \in Side :
        LowIn(ch, rd, e, ch[n][s]) => /\ LowIn(ch, rd, e, ch[n][Opp(s)])
                                      /\ RedLeafIn(ch, rd, e, ch[n][s]) => ~rd[n]

\* The node that is inserted does not count while its place is not settled.
Unsettled == IF Rebalancing THEN x ELSE Sentinel
LowNodes  == LowNodesIn(Attached, child, red, Unsettled)

RootIsBlack == pc # "rebalance" \/ Rebalancing => ~red[root]

InOrder(n, s, m) == IF s = "left" THEN AtMost(key[m], key[n]) ELSE AtMost(key[n], key[m])

Ordered == \A n \in Attached, s \in Side : \A m \in Subtree(child[n][s]) : InOrder(n, s, m)

Balanced == \A d, e \in SlotDepths : d = e

\* The descent would lead the key of x to p.
Fits(p) ==
    \A n \in Attached, s \in Side :
        p \in Subtree(child[n][s]) => Turn(key[x], n) = s

Descending ==
    /\ key[x] \in Keys /\ x \notin Attached /\ cur \in Attached /\ Fits(cur)
    /\ \A s \in Side : child[Sentinel][s] # x

\* A node that was lost lies strictly inside the range of the others.
Inside ==
    \/ x \in Attached
    \/ /\ \E n \in Attached : KeyCompare(key[x], key[n]) < 0
       /\ \E n \in Attached : KeyCompare(key[x], key[n]) >= 0

Settling ==
    /\ key[x] \in Keys /\ Inside
    /\ Rebalancing => /\ node = x /\ x \in Attached /\ x # root /\ red[x] /\ Fits(x)
                      /\ \A s \in Side : child[x][s] = Sentinel

Rotating ==
    /\ key[x] \in Keys /\ x \notin Attached /\ Inside /\ parent[x] = Sentinel
    /\ par \in Attached /\ grand \in Attached
    /\ child[grand][side] = par /\ child[grand][Opp(side)] = Sentinel
    /\ \A s \in Side : child[par][s] = Sentinel
    /\ red[par] /\ ~red[grand]

TreeInv ==
    pc # "stopped" =>
        /\ Linked /\ LowNodes /\ RootIsBlack /\ Ordered /\ Balanced
        /\ pc = "descend"   => Descending
        /\ pc = "rebalance" => Settling
        /\ pc = "outer"     => Rotating

IInv == TypeOK /\ SentinelIsBlack /\ TreeInv
-----------------------------------------------------------------------------
(* What can be reached *)

Closed(S, ch) == \A m \in S, s \in Side : ch[m][s] \in Nodes => ch[m][s] \in S
LEMMA ReachFacts ==
    ASSUME NEW ch, NEW p
    PROVE  /\ Reach(ch, p) \subseteq Nodes
           /\ p \in Nodes => p \in Reach(ch, p)
           /\ p \notin Nodes => Reach(ch, p) = {}
           /\ \A m \in Reach(ch, p), s \in Side :
                 ch[m][s] \in Nodes => ch[m][s] \in Reach(ch, p)
BY DEF Reach, Closed

LEMMA ReachLeast ==
    ASSUME NEW ch, NEW p, NEW S \in SUBSET Nodes, p \in S \/ p \notin Nodes, Closed(S, ch)
    PROVE  Reach(ch, p) \subseteq S
BY DEF Reach, Closed

LEMMA ReachTrans ==
    ASSUME NEW ch, NEW p, NEW q \in Reach(ch, p)
    PROVE  Reach(ch, q) \subseteq Reach(ch, p)
BY ReachFacts, ReachLeast DEF Closed

\* What is reached is reached from its parent.
LEMMA ReachPred ==
    ASSUME NEW ch, NEW p, NEW c \in Reach(ch, p), c # p
    PROVE  \E m \in Reach(ch, p), s \in Side : ch[m][s] = c
<1> SUFFICES ASSUME \A m \in Reach(ch, p), s \in Side : ch[m][s] # c
             PROVE  FALSE
  OBVIOUS
<1> DEFINE S == Reach(ch, p) \ {c}
<1>1. S \in SUBSET Nodes /\ Closed(S, ch)
  BY ReachFacts DEF Closed
<1>2. p \in S \/ p \notin Nodes
  BY ReachFacts
<1>3. Reach(ch, p) \subseteq S
  BY <1>1, <1>2, ReachLeast
<1> QED
  BY <1>3

LEMMA ReachLeaf ==
    ASSUME NEW ch, NEW p \in Nodes, \A s \in Side : ch[p][s] \notin Nodes
    PROVE  Reach(ch, p) = {p}
<1>1. {p} \in SUBSET Nodes /\ Closed({p}, ch)
  BY DEF Closed
<1> QED
  BY <1>1, ReachLeast, ReachFacts

\* A leaf e hung into a free slot t of c.
LEMMA ReachHung ==
    ASSUME NEW ch, NEW ch2, NEW B \in SUBSET Nodes, Closed(B, ch),
           NEW e \in Nodes \ B, NEW c \in B, NEW t \in Side,
           ch[c][t] \notin Nodes, ch2[c][t] = e,
           \A m \in B, s \in Side : m # c \/ s # t => ch2[m][s] = ch[m][s],
           \A s \in Side : ch2[e][s] \notin Nodes
    PROVE  /\ Reach(ch2, e) = {e}
           /\ \A p \in B : Reach(ch2, p) =
                 Reach(ch, p) \cup (IF c \in Reach(ch, p) THEN {e} ELSE {})
<1>1. Reach(ch2, e) = {e}
  BY ReachLeaf
<1>2. ASSUME NEW p \in B
      PROVE  Reach(ch2, p) = Reach(ch, p) \cup (IF c \in Reach(ch, p) THEN {e} ELSE {})
  <2> DEFINE R  == Reach(ch, p)
             R2 == R \cup (IF c \in R THEN {e} ELSE {})
  <2>1. R \subseteq B /\ p \in R
    BY ReachLeast, ReachFacts
  <2>2. R2 \in SUBSET Nodes /\ Closed(R2, ch2) /\ p \in R2
    BY <2>1, ReachFacts DEF Closed
  <2>3. Reach(ch2, p) \subseteq R2
    BY <2>2, ReachLeast
  <2>4. Reach(ch2, p) \cap R \in SUBSET Nodes /\ Closed(Reach(ch2, p) \cap R, ch)
    BY <2>1, ReachFacts DEF Closed
  <2>5. R \subseteq Reach(ch2, p)
    BY <2>1, <2>4, ReachLeast, ReachFacts
  <2>6. c \in R => e \in Reach(ch2, p)
    BY <2>5, ReachFacts
  <2> QED
    BY <2>3, <2>5, <2>6
<1> QED
  BY <1>1, <1>2

\* The rotation at g that moves p, its child on side s, up.  Below p is at most
\* the leaf e, on the same side.
LEMMA ReachRotated ==
    ASSUME NEW ch, NEW ch2, NEW B \in SUBSET Nodes, Closed(B, ch),
           NEW g \in B, NEW p \in B, g # p, NEW s \in Side, NEW e,
           e \in Nodes => e # g /\ e # p /\ \A t \in Side : ch[e][t] \notin Nodes,
           ch[g][s] = p, ch[g][Opp(s)] \notin Nodes,
           ch[p][s] = e, ch[p][Opp(s)] \notin Nodes,
           \A m \in B, t \in Side : ch[m][t] = p => m = g,
           ch2[p][s] = e, ch2[p][Opp(s)] = g,
           \A t \in Side : ch2[g][t] \notin Nodes,
           \A m \in B \ {g, p}, t \in Side :
               ch2[m][t] = IF ch[m][t] = g THEN p ELSE ch[m][t]
    PROVE  /\ Reach(ch, g)  = {g, p} \cup ({e} \cap Nodes)
           /\ Reach(ch, p)  = {p} \cup ({e} \cap Nodes)
           /\ Reach(ch2, g) = {g}
           /\ Reach(ch2, p) = {g, p} \cup ({e} \cap Nodes)
           /\ \A q \in B \ {g, p} : Reach(ch2, q) = Reach(ch, q)
<1> DEFINE Three == {g, p} \cup ({e} \cap Nodes)
           Two   == {p} \cup ({e} \cap Nodes)
<1>s. Opp(s) \in Side /\ \A t \in Side : t = s \/ t = Opp(s)
  BY DEF Side, Opp
<1>e. e \in B \/ e \notin Nodes
  BY DEF Closed
<1>1. Reach(ch, g) = Three
  <2>1. Three \in SUBSET Nodes /\ Closed(Three, ch)
    BY <1>s DEF Closed
  <2>2. Three \subseteq Reach(ch, g)
    BY <1>s, ReachFacts
  <2> QED
    BY <2>1, <2>2, ReachLeast
<1>2. Reach(ch, p) = Two
  <2>1. Two \in SUBSET Nodes /\ Closed(Two, ch)
    BY <1>s DEF Closed
  <2>2. Two \subseteq Reach(ch, p)
    BY <1>s, ReachFacts
  <2> QED
    BY <2>1, <2>2, ReachLeast
<1>3. Reach(ch2, g) = {g}
  BY ReachLeaf
<1>e2. e \in Nodes => \A t \in Side : ch2[e][t] \notin Nodes
  BY <1>e
<1>4. Reach(ch2, p) = Three
  <2>1. Three \in SUBSET Nodes /\ Closed(Three, ch2)
    BY <1>s, <1>e2 DEF Closed
  <2>2. Three \subseteq Reach(ch2, p)
    BY <1>s, ReachFacts
  <2> QED
    BY <2>1, <2>2, ReachLeast
<1>5. ASSUME NEW q \in B \ {g, p}
      PROVE  Reach(ch2, q) = Reach(ch, q)
  <2> DEFINE R  == Reach(ch, q)
             R2 == Reach(ch2, q)
  <2>1. R \in SUBSET Nodes /\ R \subseteq B /\ q \in R /\ q \in R2
    BY ReachLeast, ReachFacts
  <2>2. p \in R => g \in R
    BY <2>1, ReachPred
  <2>3. Closed(R, ch2)
    <3> SUFFICES ASSUME NEW m \in R, NEW t \in Side, ch2[m][t] \in Nodes
                 PROVE  ch2[m][t] \in R
      BY DEF Closed
    <3>1. CASE m = g
      BY <3>1
    <3>2. CASE m = p
      BY <3>2, <2>2, <1>s, ReachFacts
    <3>3. CASE m \notin {g, p}
      BY <3>3, <2>1, <1>s, ReachFacts
    <3> QED
      BY <3>1, <3>2, <3>3
  <2>4. R2 \subseteq R
    BY <2>1, <2>3, ReachLeast
  <2>5. g \in R2 => p \in R2
    <3> SUFFICES ASSUME g \in R2, p \notin R2
                 PROVE  FALSE
      OBVIOUS
    <3>1. PICK m \in R2, t \in Side : ch2[m][t] = g
      BY ReachPred
    <3>2. m \in B \ {g, p}
      BY <3>1, <2>1, <2>4
    <3> QED
      BY <3>1, <3>2
  <2>6. Closed(R2, ch)
    <3> SUFFICES ASSUME NEW m \in R2, NEW t \in Side, ch[m][t] \in Nodes
                 PROVE  ch[m][t] \in R2
      BY DEF Closed
    <3>1. CASE m = g
      BY <3>1, <2>5, <1>s
    <3>2. CASE m = p
      BY <3>2, <1>s, ReachFacts
    <3>3. CASE m \notin {g, p}
      <4>1. ch2[m][t] = IF ch[m][t] = g THEN p ELSE ch[m][t]
        BY <3>3, <2>1, <2>4
      <4>2. CASE ch[m][t] = g
        <5>1. p \in R2
          BY <4>1, <4>2, ReachFacts
        <5> QED
          BY <5>1, <4>2, <1>s, ReachFacts
      <4>3. CASE ch[m][t] # g
        BY <4>1, <4>3, ReachFacts
      <4> QED
        BY <4>2, <4>3
    <3> QED
      BY <3>1, <3>2, <3>3
  <2>7. R2 \in SUBSET Nodes
    BY ReachFacts
  <2>8. R \subseteq R2
    BY <2>1, <2>6, <2>7, ReachLeast
  <2> QED
    BY <2>4, <2>8
<1> QED
  BY <1>1, <1>2, <1>3, <1>4, <1>5

-----------------------------------------------------------------------------
(* What the invariant says of the nodes around x *)

LEMMA SideFacts ==
    ASSUME NEW s \in Side
    PROVE  /\ Opp(s) \in Side /\ Opp(s) # s /\ Opp(Opp(s)) = s
           /\ \A t \in Side : t = s \/ t = Opp(s)
BY DEF Side, Opp

LEMMA Pointers ==
    /\ Nodes \subseteq Nat /\ Sentinel \notin Nodes /\ Null \notin Ptr /\ Null # Sentinel
    /\ Ptr = Nodes \cup {Sentinel} /\ IsFiniteSet(Nodes)
BY MaxNodesAssumption, FS_Interval DEF Nodes, Ptr, Sentinel, Null

LEMMA LinkedFacts ==
    ASSUME TypeOK, Linked
    PROVE  /\ Attached \in SUBSET Nodes /\ Closed(Attached, child)
           /\ \A n \in Attached \ {root} :
                 parent[n] \in Attached /\ \E s \in Side : child[parent[n]][s] = n
           /\ \A m, n \in Attached, s, t \in Side :
                 child[m][s] = child[n][t] /\ child[m][s] # Sentinel => m = n /\ s = t
           /\ \A n \in Attached : Subtree(n) \subseteq Attached
           /\ \A n \in Attached, s \in Side : root \notin Subtree(child[n][s])
<1>1. Attached \in SUBSET Nodes /\ Closed(Attached, child)
  BY ReachFacts DEF Attached, Subtree, Closed
<1>2. ASSUME NEW n \in Attached \ {root}
      PROVE  parent[n] \in Attached /\ \E s \in Side : child[parent[n]][s] = n
  <2>1. PICK m \in Attached, s \in Side : child[m][s] = n
    BY ReachPred DEF Attached, Subtree
  <2> QED
    BY <2>1, <1>1, Pointers DEF Linked
<1>3. \A m, n \in Attached, s, t \in Side :
         child[m][s] = child[n][t] /\ child[m][s] # Sentinel => m = n /\ s = t
  BY SideFacts DEF Linked
<1>4. \A n \in Attached : Subtree(n) \subseteq Attached
  BY ReachTrans DEF Attached, Subtree
<1>5. ASSUME NEW n \in Attached, NEW s \in Side, root \in Subtree(child[n][s])
      PROVE  FALSE
  <2>1. root \in Nodes /\ parent[root] = Null /\ child[n][s] \in Nodes
    BY <1>5, ReachFacts, Pointers DEF Subtree, Linked
  <2>2. child[n][s] \in Attached /\ child[n][s] # root
    BY <1>1, <2>1, Pointers DEF Linked, Ptr
  <2>3. PICK m \in Subtree(child[n][s]), t \in Side : child[m][t] = root
    BY <1>5, <2>2, ReachPred DEF Subtree
  <2>4. m \in Attached
    BY <1>4, <2>2, <2>3
  <2> QED
    BY <1>1, <2>1, <2>3, <2>4, Pointers DEF Linked, Ptr
<1> QED
  BY <1>1, <1>2, <1>3, <1>4, <1>5

\* x hangs below a red node, alone; that hangs below a black one, alone or beside
\* another red leaf.
LEMMA AroundX ==
    ASSUME IInv, Rebalancing
    PROVE  /\ x \in Attached /\ node = x /\ red[x] /\ key[x] \in Keys
           /\ \A s \in Side : child[x][s] = Sentinel
           /\ Parent \in Attached /\ red[Parent] /\ Parent # root /\ Parent # x
           /\ Grand \in Attached /\ ~red[Grand] /\ Grand \notin {x, Parent}
           /\ ParentSide \in Side /\ child[Grand][ParentSide] = Parent
           /\ \E t \in Side : child[Parent][t] = x /\ child[Parent][Opp(t)] = Sentinel
           /\ Uncle # Sentinel => /\ Uncle \in Attached \ {x, Parent, Grand, root}
                                  /\ red[Uncle]
                                  /\ \A s \in Side : child[Uncle][s] = Sentinel
<1>1. pc = "rebalance" /\ node # root /\ red[parent[x]]
  BY DEF Rebalancing
<1>2. Linked /\ LowNodes /\ ~red[root] /\ Settling /\ TypeOK
  BY <1>1 DEF IInv, TreeInv, RootIsBlack
<1>3. /\ x \in Attached /\ node = x /\ red[x] /\ key[x] \in Keys /\ x # root
      /\ \A s \in Side : child[x][s] = Sentinel
  BY <1>1, <1>2 DEF Settling
<1>4. Attached \in SUBSET Nodes
  BY <1>2, LinkedFacts
<1>5. Parent \in Attached /\ red[Parent] /\ Parent # root
  BY <1>1, <1>2, <1>3, LinkedFacts DEF Parent
<1>6. PICK t \in Side : child[Parent][t] = x
  BY <1>2, <1>3, LinkedFacts DEF Parent
<1>7. Parent # x /\ x # Sentinel
  BY <1>3, <1>4, <1>6, Pointers
<1>e. /\ Unsettled = x
      /\ \A n \in Attached, s \in Side :
            LowIn(child, red, x, child[n][s]) =>
               /\ LowIn(child, red, x, child[n][Opp(s)])
               /\ RedLeafIn(child, red, x, child[n][s]) => ~red[n]
  BY <1>2 DEF Unsettled, LowNodes, LowNodesIn
<1>8. Opp(t) \in Side /\ Opp(Opp(t)) = t /\ Opp(t) # t
  BY SideFacts
<1>9. LowIn(child, red, x, child[Parent][Opp(t)])
  BY <1>e, <1>5, <1>6 DEF LowIn
<1>10. child[Parent][Opp(t)] # x
  BY <1>2, <1>5, <1>6, <1>7 DEF Linked
<1>11. ~RedLeafIn(child, red, x, child[Parent][Opp(t)])
  BY <1>e, <1>5, <1>8, <1>9
<1>12. child[Parent][Opp(t)] = Sentinel
  BY <1>9, <1>10, <1>11 DEF LowIn
<1>13. RedLeafIn(child, red, x, Parent)
  BY <1>4, <1>5, <1>6, <1>7, <1>12, SideFacts DEF RedLeafIn
<1>14. Grand \in Attached /\ \E s \in Side : child[Grand][s] = Parent
  BY <1>2, <1>5, LinkedFacts DEF Grand, Parent
<1>15. Grand # Parent /\ Grand # x
  BY <1>3, <1>4, <1>5, <1>6, <1>7, <1>12, <1>14, Pointers, SideFacts
<1>16. ParentSide \in Side /\ child[Grand][ParentSide] = Parent
  BY <1>14 DEF ParentSide, Side
<1>17. LowIn(child, red, x, child[Grand][ParentSide])
  BY <1>13, <1>16 DEF LowIn
<1>18. ~red[Grand] /\ LowIn(child, red, x, child[Grand][Opp(ParentSide)])
  BY <1>e, <1>13, <1>14, <1>16, <1>17
<1>19. Opp(ParentSide) \in Side /\ Opp(ParentSide) # ParentSide
  BY <1>16, SideFacts
<1>20. Uncle \in Attached \cup {Sentinel} /\ Uncle # Parent
  BY <1>2, <1>5, <1>4, <1>14, <1>16, <1>19, Pointers DEF Linked, Uncle
<1>21. Uncle # x
  BY <1>2, <1>5, <1>6, <1>7, <1>14, <1>15, <1>19, LinkedFacts DEF Uncle
<1>22. ASSUME Uncle # Sentinel
       PROVE  /\ Uncle \in Attached \ {x, Parent, Grand, root}
              /\ red[Uncle]
              /\ \A s \in Side : child[Uncle][s] = Sentinel
  <2>1. RedLeafIn(child, red, x, Uncle)
    BY <1>18, <1>21, <1>22 DEF LowIn, Uncle
  <2>2. Uncle # Grand
    BY <2>1, <1>18 DEF RedLeafIn
  <2>3. ASSUME NEW s \in Side, child[Uncle][s] = x
        PROVE  FALSE
    BY <2>3, <1>20, <1>22, <1>2, <1>5, <1>6, <1>7, LinkedFacts
  <2>4. \A s \in Side : child[Uncle][s] = Sentinel
    BY <2>1, <2>3 DEF RedLeafIn
  <2> QED
    BY <2>1, <2>2, <2>4, <1>2, <1>20, <1>21, <1>22 DEF RedLeafIn
<1> QED
  BY <1>3, <1>5, <1>6, <1>7, <1>12, <1>14, <1>15, <1>16, <1>18, <1>22

-----------------------------------------------------------------------------
(* What the rotations do.  The nodes they compare are the same only if the    *)
(* pointers are: the fields of the others differ.                             *)

\* p, red, hangs below g on side s; beside it g has nothing, p at most a leaf.
LowPair(p, g, s) ==
    /\ s \in Side /\ p \in Attached /\ g \in Attached /\ p # g /\ red[p] /\ ~red[g]
    /\ child[g][s] = p /\ child[g][Opp(s)] = Sentinel /\ child[p][Opp(s)] = Sentinel
    /\ child[p][s] # Sentinel => /\ child[p][s] \in Attached \ {g, p}
                                 /\ red[child[p][s]]
                                 /\ \A t \in Side : child[child[p][s]][t] = Sentinel

LEMMA OuterPair ==
    ASSUME IInv, Rebalancing, ~red[Uncle], ~IsInner
    PROVE  LowPair(Parent, Grand, ParentSide) /\ child[Parent][ParentSide] = x
<1>1. Uncle = Sentinel
  BY AroundX
<1>2. PICK t \in Side : child[Parent][t] = x /\ child[Parent][Opp(t)] = Sentinel
  BY AroundX
<1>3. t = ParentSide
  BY <1>2, AroundX, SideFacts DEF IsInner
<1>4. child[Grand][Opp(ParentSide)] = Sentinel
  BY <1>1 DEF Uncle
<1> QED
  BY <1>2, <1>3, <1>4, AroundX DEF LowPair

LEMMA RotatingPair ==
    ASSUME IInv, pc = "outer"
    PROVE  LowPair(par, grand, side) /\ child[par][side] = Sentinel
<1>1. Rotating /\ side \in Side
  BY DEF IInv, TreeInv, TypeOK
<1>2. par # grand
  BY <1>1 DEF Rotating
<1> QED
  BY <1>1, <1>2, SideFacts DEF Rotating, LowPair

LEMMA GrandRotated ==
    ASSUME TypeOK, SentinelIsBlack, Linked, LowNodes,
           NEW p, NEW g, NEW s, LowPair(p, g, s), RotateGrand(p, g, s),
           Rebalancing => x \notin {g, p}
    PROVE  /\ red' = [red EXCEPT ![p] = FALSE, ![g] = TRUE]
           /\ root' = IF g = root THEN p ELSE root
           /\ parent' = [parent EXCEPT ![g] = p, ![p] = parent[g]]
           /\ child' \in [Ptr -> [Side -> Ptr \cup {Null}]]
           /\ \A t \in Side : child'[g][t] = Sentinel
           /\ child'[p][s] = child[p][s] /\ child'[p][Opp(s)] = g
           /\ \A m \in Attached \ {g, p}, t \in Side :
                 child'[m][t] = IF child[m][t] = g THEN p ELSE child[m][t]
           /\ child'[Sentinel] = child[Sentinel]
<1> DEFINE o  == Opp(s)
           ch == [child EXCEPT ![g][s] = Sentinel]
           pa == [parent EXCEPT ![p] = parent[g]]
           up == parent[g]
<1>1. /\ o \in Side /\ s \in Side /\ o # s /\ Opp(o) = s /\ \A t \in Side : t = s \/ t = o
      /\ p \in Attached /\ g \in Attached /\ p # g /\ red[p] /\ ~red[g]
      /\ child[g][s] = p /\ child[g][o] = Sentinel /\ child[p][o] = Sentinel
      /\ p \in Nodes /\ g \in Nodes /\ p \in Ptr /\ g \in Ptr
      /\ Attached \subseteq Nodes
  BY SideFacts, LinkedFacts, Pointers DEF LowPair
<1>2. Moved(g, o) = Sentinel
  BY <1>1 DEF Moved
<1>3. red' = [red EXCEPT ![p] = FALSE, ![g] = TRUE]
  BY DEF RotateGrand
<1>4. Rotate(g, o, red')
  BY DEF RotateGrand
<1>5. RotatedParent(g, o) = [parent EXCEPT ![g] = p, ![p] = parent[g]]
  BY <1>1, <1>2 DEF RotatedParent, TypeOK
<1>6. parent' = [parent EXCEPT ![g] = p, ![p] = parent[g]]
  BY <1>4, <1>5 DEF Rotate
<1>7. [RotatedParent(g, o) EXCEPT ![g] = parent[g]] = pa
  BY <1>1, <1>5 DEF TypeOK
<1>8. /\ [child EXCEPT ![g][Opp(o)] = Moved(g, o)] = ch
      /\ child[g][Opp(o)] = p
  BY <1>1, <1>2
<1>9. \/ /\ SameNode(g, root, ch, pa, red')
         /\ root' = p /\ child' = [ch EXCEPT ![p][o] = g]
      \/ /\ ~SameNode(g, root, ch, pa, red') /\ root' = root
         /\ \/ SameNode(g, child[up][o], ch, pa, red') /\ child' = [ch EXCEPT ![up][o] = p, ![p][o] = g]
            \/ /\ ~SameNode(g, child[up][o], ch, pa, red')
               /\ child' = [ch EXCEPT ![up][s] = p, ![p][o] = g]
  BY <1>1, <1>4, <1>7, <1>8 DEF Rotate
<1>10. ch \in [Ptr -> [Side -> Ptr \cup {Null}]] /\ ch[g] = [t \in Side |-> Sentinel]
  BY <1>1 DEF TypeOK, Ptr
<1>11. CASE g = root
  <2>1. SameNode(g, root, ch, pa, red')
    BY <1>11 DEF SameNode
  <2>2. root' = p /\ child' = [ch EXCEPT ![p][o] = g]
    BY <1>9, <2>1
  <2>3. \A m \in Attached, t \in Side : child[m][t] # g
    BY <1>1, <1>11, Pointers DEF Linked, TypeOK
  <2> QED
    BY <1>1, <1>3, <1>6, <1>10, <1>11, <2>2, <2>3, Pointers DEF TypeOK
<1>12. CASE g # root
  <2>1. up \in Attached /\ up # g /\ up # p
    <3>1. up \in Attached
      BY <1>1, <1>12, LinkedFacts
    <3>2. PICK t \in Side : child[up][t] = g
      BY <1>1, <1>12, LinkedFacts
    <3> QED
      BY <1>1, <3>1, <3>2, Pointers DEF LowPair
  <2>2. ~SameNode(g, root, ch, pa, red')
    <3>1. root \in Nodes /\ root # p
      BY <1>1, <1>12, Pointers DEF Linked, Attached, Subtree, Reach
    <3>2. pa[root] = Null /\ pa[g] = up
      BY <1>1, <3>1, Pointers DEF Linked, TypeOK
    <3> QED
      BY <2>1, <3>2, <1>1, Pointers DEF SameNode
  <2>3. PICK u \in Side : child[up][u] = g
    BY <1>1, <1>12, LinkedFacts
  <2>4. ASSUME u = s
        PROVE  ~SameNode(g, child[up][o], ch, pa, red')
    <3> DEFINE q == child[up][o]
    <3>1. q \in Attached \cup {Sentinel} /\ q # g
      <4>1. q \in Attached \cup {Sentinel}
        BY <1>1, <2>1 DEF Linked
      <4>2. child[up][s] = g /\ g # Sentinel
        BY <1>1, <2>3, <2>4, Pointers
      <4> QED
        BY <1>1, <2>1, <4>1, <4>2, LinkedFacts
    <3>2. CASE q = Sentinel
      <4>1. key[g] # key[q]
        BY <1>1, <3>2, KeysAssumption DEF Linked, SentinelIsBlack
      <4> QED
        BY <4>1 DEF SameNode
    <3>3. CASE q # Sentinel
      <4>1. q # p
        BY <1>1, <2>1, <3>3, LinkedFacts
      <4> SUFFICES ASSUME SameNode(g, q, ch, pa, red')
                   PROVE  FALSE
        OBVIOUS
      <4>2. red'[g] = red'[q] /\ ch[g] = ch[q]
        BY DEF SameNode
      <4>3. q \in Attached /\ q \in Ptr
        BY <1>1, <3>1, <3>3, Pointers
      <4>4. red[q]
        BY <1>1, <1>3, <3>1, <4>1, <4>2, <4>3 DEF TypeOK
      <4>5. \A t \in Side : child[q][t] = Sentinel
        <5>1. ch[q] = child[q]
          BY <3>1
        <5> QED
          BY <5>1, <1>10, <4>2
      <4>6. LowIn(child, red, Unsettled, child[up][o])
        BY <1>1, <4>3, <4>4, <4>5 DEF LowIn, RedLeafIn
      <4>7. LowIn(child, red, Unsettled, child[up][s])
        BY <1>1, <2>1, <4>6 DEF LowNodes, LowNodesIn
      <4>8. Unsettled # g /\ g # Sentinel
        BY <1>1, Pointers DEF Unsettled
      <4> QED
        BY <2>3, <2>4, <4>7, <4>8, <1>1 DEF LowIn, RedLeafIn
    <3> QED
      BY <3>1, <3>2, <3>3
  <2>5. root' = root /\ child' = [ch EXCEPT ![up][u] = p, ![p][o] = g]
    <3>1. CASE u = s
      BY <3>1, <1>9, <2>2, <2>4
    <3>2. CASE u = o
      <4>1. SameNode(g, child[up][o], ch, pa, red')
        BY <3>2, <2>3 DEF SameNode
      <4> QED
        BY <3>2, <4>1, <1>9, <2>2
    <3> QED
      BY <3>1, <3>2, <1>1
  <2>6. \A m \in Attached, t \in Side : child[m][t] = g => m = up /\ t = u
    <3>1. \A m, n \in Attached, t, v \in Side :
             child[m][t] = child[n][v] /\ child[m][t] # Sentinel => m = n /\ t = v
      BY LinkedFacts
    <3>2. up \in Attached /\ child[up][u] = g /\ g # Sentinel
      BY <1>1, <2>1, <2>3, Pointers
    <3> QED
      BY <3>1, <3>2
  <2>7. up \in Ptr /\ up # Sentinel /\ p # Sentinel /\ g # Sentinel
    BY <1>1, <2>1, Pointers
  <2>8. child' \in [Ptr -> [Side -> Ptr \cup {Null}]]
    BY <1>1, <1>10, <2>5, <2>7
  <2>9. /\ \A t \in Side : child'[g][t] = Sentinel
        /\ child'[p][s] = child[p][s] /\ child'[p][o] = g
        /\ child'[Sentinel] = child[Sentinel]
    BY <1>1, <1>10, <2>1, <2>5, <2>7, Pointers DEF TypeOK
  <2>10. \A m \in Attached \ {g, p}, t \in Side :
            child'[m][t] = IF child[m][t] = g THEN p ELSE child[m][t]
    BY <1>1, <1>10, <2>1, <2>3, <2>5, <2>6, <2>7, Pointers DEF TypeOK
  <2> QED
    BY <1>3, <1>6, <1>12, <2>5, <2>8, <2>9, <2>10
<1> QED
  BY <1>11, <1>12
-----------------------------------------------------------------------------
(* The balance, with the tree as an argument *)

AboveIn(ch, r, rd, n) == {m \in Reach(ch, r) : n \in Reach(ch, m) /\ ~rd[m]}
DepthsIn(ch, r, rd) ==
    {Cardinality(AboveIn(ch, r, rd, n)) :
        n \in {m \in Reach(ch, r) : \E s \in Side : ch[m][s] = Sentinel}}

LEMMA DepthsAre ==
    /\ \A n : BlackAbove(n) = AboveIn(child, root, red, n)
    /\ SlotDepths = DepthsIn(child, root, red)
    /\ SlotDepths' = DepthsIn(child', root', red')
BY DEF SlotDepths, DepthsIn, AboveIn, HasSlot, BlackAbove, Attached, Subtree

LEMMA TreeUnchanged ==
    ASSUME UNCHANGED <<root, child, red>>
    PROVE  Attached' = Attached /\ SlotDepths' = SlotDepths /\ \A p : Subtree(p)' = Subtree(p)
BY DepthsAre DEF Attached, Subtree

LEMMA AboveFinite ==
    ASSUME NEW ch, NEW r, NEW rd, NEW n
    PROVE  /\ IsFiniteSet(AboveIn(ch, r, rd, n))
           /\ Cardinality(AboveIn(ch, r, rd, n)) \in Nat
<1>1. AboveIn(ch, r, rd, n) \subseteq Nodes
  BY ReachFacts DEF AboveIn
<1> QED
  BY <1>1, Pointers, FS_Subset, FS_CardinalityType

LEMMA SwapCardinality ==
    ASSUME NEW S, IsFiniteSet(S), NEW a \in S, NEW b, b \notin S
    PROVE  Cardinality((S \ {a}) \cup {b}) = Cardinality(S)
<1>1. IsFiniteSet(S \ {a}) /\ Cardinality(S \ {a}) = Cardinality(S) - 1
  BY FS_RemoveElement
<1>2. Cardinality((S \ {a}) \cup {b}) = Cardinality(S \ {a}) + 1
  BY <1>1, FS_AddElement
<1> QED
  BY <1>1, <1>2, FS_CardinalityType

\* The balance stays if each free slot has as many black nodes above it as some
\* free slot had.
LEMMA DepthsFrom ==
    ASSUME NEW ch, NEW r, NEW rd, NEW ch2, NEW r2, NEW rd2,
           \A n \in Reach(ch2, r2) : (\E s \in Side : ch2[n][s] = Sentinel) =>
              \E m \in Reach(ch, r) :
                 /\ \E s \in Side : ch[m][s] = Sentinel
                 /\ Cardinality(AboveIn(ch2, r2, rd2, n)) = Cardinality(AboveIn(ch, r, rd, m))
    PROVE  DepthsIn(ch2, r2, rd2) \subseteq DepthsIn(ch, r, rd)
BY DEF DepthsIn

\* The rotation at x, which is a leaf, takes the sentinel for the child that moves
\* up: x is hung below it, out of the tree.
LEMMA InnerRotated ==
    ASSUME IInv, InnerRotate
    PROVE  /\ Uncle = Sentinel
           /\ child[Parent][Opp(ParentSide)] = x /\ child[Parent][ParentSide] = Sentinel
           /\ root' = root
           /\ parent' \in [Ptr -> Ptr \cup {Null}] /\ parent'[x] = Sentinel
           /\ \A n \in Attached \ {x} : parent'[n] = parent[n]
           /\ child' \in [Ptr -> [Side -> Ptr \cup {Null}]]
           /\ child'[Parent][Opp(ParentSide)] = Sentinel
           /\ \A m \in Attached \ {x}, t \in Side :
                 m # Parent \/ t # Opp(ParentSide) => child'[m][t] = child[m][t]
           /\ \A t \in Side : child'[Sentinel][t] \in {x, child[Sentinel][t]}
<1> DEFINE s  == ParentSide
           o  == Opp(s)
           up == Parent
           lost == child[Sentinel][s]
           ch == [child EXCEPT ![x][o] = lost]
           pa == [RotatedParent(x, s) EXCEPT ![x] = up]
<1>1. Rebalancing /\ ~red[Uncle] /\ IsInner /\ Rotate(x, s, red)
  BY DEF InnerRotate
<1>2. TypeOK /\ SentinelIsBlack /\ Linked
  BY <1>1 DEF IInv, TreeInv, Rebalancing
<1>3. /\ s \in Side /\ o \in Side /\ o # s /\ Opp(o) = s /\ \A t \in Side : t = s \/ t = o
  BY <1>1, AroundX, SideFacts
<1>4. /\ x \in Attached /\ up \in Attached /\ up # x /\ x \in Nodes /\ up \in Nodes
      /\ x \in Ptr /\ up \in Ptr /\ Sentinel \in Ptr /\ x # Sentinel /\ up # Sentinel
      /\ Attached \subseteq Nodes /\ up # root
      /\ \A t \in Side : child[x][t] = Sentinel
  BY <1>1, <1>2, AroundX, LinkedFacts, Pointers
<1>5. child[up][o] = x /\ child[up][s] = Sentinel
  BY <1>1, <1>3, <1>4, AroundX DEF IsInner
<1>6. Uncle = Sentinel
  BY <1>1, AroundX
<1>7. Moved(x, s) = lost /\ lost \in (1 .. count) \cup {Null} /\ lost \notin Attached
  BY <1>2, <1>3, <1>4 DEF Moved, Linked
<1>8. lost # Sentinel /\ lost \in Ptr \cup {Null}
  BY <1>2, <1>3, <1>7, Pointers DEF TypeOK, Sentinel, Null
<1>9. RotatedParent(x, s) = [p \in Ptr |-> IF p = x THEN Sentinel
                                           ELSE IF p = Sentinel THEN up
                                           ELSE IF p = lost THEN x ELSE parent[p]]
  BY <1>3, <1>4, <1>7, <1>8 DEF RotatedParent, Parent
<1>10. parent' = RotatedParent(x, s)
  BY <1>1 DEF Rotate
<1>11. /\ parent' \in [Ptr -> Ptr \cup {Null}] /\ parent'[x] = Sentinel
       /\ \A n \in Attached \ {x} : parent'[n] = parent[n]
  BY <1>2, <1>4, <1>7, <1>9, <1>10, Pointers DEF TypeOK
<1>12. parent[x] = up /\ child[x][o] = Sentinel
  BY <1>3, <1>4 DEF Parent
<1>13. ~SameNode(x, root, ch, pa, red)
  <2>1. root \in Attached /\ root # x /\ root \in Ptr
    BY <1>1, <1>2, <1>4, AroundX, Pointers DEF Linked, Rebalancing, Attached, Subtree, Reach
  <2>2. pa[root] = parent[root] /\ pa[x] = up
    BY <1>4, <1>9, <1>10, <1>11, <2>1
  <2>3. parent[root] = Null
    BY <1>2, <1>4, <2>1, Pointers DEF Linked
  <2> QED
    BY <2>2, <2>3, <1>4, Pointers DEF SameNode
<1>14. ~SameNode(x, child[up][s], ch, pa, red)
  <2>1. key[x] # key[Sentinel]
    BY <1>2, <1>4, KeysAssumption DEF Linked, SentinelIsBlack
  <2> QED
    BY <2>1, <1>5 DEF SameNode
<1>15. root' = root /\ child' = [ch EXCEPT ![up][o] = Sentinel, ![Sentinel][s] = x]
  BY <1>1, <1>7, <1>12, <1>13, <1>14 DEF Rotate
<1>16. ch \in [Ptr -> [Side -> Ptr \cup {Null}]]
  BY <1>2, <1>3, <1>4, <1>8 DEF TypeOK
<1>17. child' \in [Ptr -> [Side -> Ptr \cup {Null}]]
  BY <1>3, <1>4, <1>15, <1>16
<1>18. /\ child'[up][o] = Sentinel
       /\ \A m \in Attached \ {x}, t \in Side : m # up \/ t # o => child'[m][t] = child[m][t]
       /\ \A t \in Side : child'[Sentinel][t] \in {x, child[Sentinel][t]}
  BY <1>2, <1>3, <1>4, <1>15, <1>16, Pointers DEF TypeOK
<1> QED
  BY <1>5, <1>6, <1>11, <1>15, <1>17, <1>18

-----------------------------------------------------------------------------
(* The steps that leave the links alone *)

LEMMA Inserted ==
    ASSUME IInv, NEW k \in Keys, InsertFirst(k)
    PROVE  IInv' /\ Attached = {} /\ Attached' = {count + 1}
<1> DEFINE n == count + 1
<1>1. /\ TypeOK /\ SentinelIsBlack /\ Linked /\ pc = "idle" /\ count < MaxNodes
      /\ key[root] = key[Sentinel]
  BY DEF InsertFirst, IInv, TreeInv
<1>2. root = Sentinel /\ Attached = {}
  <2>1. root \notin Attached
    BY <1>1, KeysAssumption DEF Linked, SentinelIsBlack
  <2> QED
    BY <1>1, <2>1, Pointers, ReachFacts DEF Linked, Attached, Subtree
<1>3. n \in Nodes /\ n \in Ptr /\ n # Sentinel /\ n \in 1 .. count'
  BY <1>1, MaxNodesAssumption, Pointers DEF InsertFirst, TypeOK, Nodes
<1>4. TypeOK' /\ SentinelIsBlack'
  BY <1>1, <1>3, Pointers DEF InsertFirst, TypeOK, SentinelIsBlack, locals, Nodes
<1>5. \A s \in Side : child'[n][s] = Sentinel
  BY <1>1, <1>3 DEF InsertFirst, TypeOK
<1>6. Attached' = {n} /\ root' = n
  BY <1>3, <1>5, ReachLeaf, Pointers DEF InsertFirst, Attached, Subtree
<1>7. Linked'
  <2>1. child'[Sentinel] = child[Sentinel] /\ key'[n] = k /\ parent'[n] = Null
    BY <1>1, <1>3, Pointers DEF InsertFirst, TypeOK
  <2> QED
    BY <1>1, <1>3, <1>5, <1>6, <2>1 DEF Linked, InsertFirst, TypeOK, Sentinel, Null
<1>8. LowNodes' /\ RootIsBlack'
  BY <1>1, <1>3, <1>5, <1>6, SideFacts, Pointers
     DEF LowNodes, LowNodesIn, LowIn, RedLeafIn, Unsettled, RootIsBlack, Rebalancing, InsertFirst, TypeOK
<1>9. Ordered'
  BY <1>5, <1>6, ReachFacts, Pointers DEF Ordered, Subtree
<1>10. Balanced'
  BY <1>6 DEF Balanced, SlotDepths
<1> QED
  BY <1>1, <1>2, <1>4, <1>6, <1>7, <1>8, <1>9, <1>10 DEF IInv, TreeInv, InsertFirst

LEMMA Begun ==
    ASSUME IInv, NEW k \in Keys, InsertBegin(k)
    PROVE  IInv' /\ Attached' = Attached /\ x' \notin Attached
<1> DEFINE n == count + 1
<1>1. /\ TypeOK /\ SentinelIsBlack /\ Linked /\ pc = "idle" /\ count < MaxNodes
      /\ LowNodes /\ RootIsBlack /\ Ordered /\ Balanced
      /\ key[root] # key[Sentinel] /\ key' = [key EXCEPT ![n] = k]
      /\ UNCHANGED <<root, child, parent, red>>
      /\ pc' = "descend" /\ count' = n /\ x' = n /\ cur' = root
  BY DEF InsertBegin, IInv, TreeInv
<1>2. root \in Attached /\ root \in Nodes
  BY <1>1, LinkedFacts DEF Linked
<1>3. n \in Nodes /\ n \in Ptr /\ n # Sentinel /\ n \notin 1 .. count /\ 1 .. count \subseteq 1 .. n
  BY <1>1, MaxNodesAssumption, Pointers DEF TypeOK, Nodes
<1>4. TypeOK' /\ SentinelIsBlack'
  BY <1>1, <1>2, <1>3, Pointers DEF InsertBegin, TypeOK, SentinelIsBlack, Nodes
<1>5. Attached' = Attached /\ n \notin Attached /\ \A p : Subtree(p)' = Subtree(p)
  BY <1>1, <1>3, TreeUnchanged DEF Linked
<1>6. \A m \in Attached : key'[m] = key[m]
  BY <1>1, <1>5 DEF TypeOK
<1>7. Linked'
  BY <1>1, <1>3, <1>5, <1>6 DEF Linked
<1>8. LowNodes' /\ RootIsBlack'
  BY <1>1, <1>5 DEF LowNodes, Unsettled, RootIsBlack, Rebalancing
<1>9. Ordered'
  <2>1. \A m \in Attached, s \in Side : Subtree(child[m][s]) \subseteq Attached
    BY <1>1, LinkedFacts, ReachFacts, Pointers DEF Linked, Subtree
  <2> QED
    BY <1>1, <1>5, <1>6, <2>1 DEF Ordered, InOrder, Subtree
<1>10. Balanced'
  BY <1>1, TreeUnchanged DEF Balanced
<1>11. Descending'
  <2>1. Fits(cur)'
    BY <1>1, <1>5, LinkedFacts DEF Fits, Subtree
  <2> QED
    BY <1>1, <1>2, <1>3, <1>5, <2>1, Pointers DEF Descending, Linked, TypeOK, Null
<1> QED
  BY <1>1, <1>4, <1>5, <1>7, <1>8, <1>9, <1>10, <1>11 DEF IInv, TreeInv

LEMMA Descended ==
    ASSUME IInv, Descend
    PROVE  IInv' /\ Attached' = Attached
<1> DEFINE t == Turn(key[x], cur)
<1>1. /\ TypeOK /\ SentinelIsBlack /\ Linked /\ pc = "descend" /\ Descending
      /\ LowNodes /\ RootIsBlack /\ Ordered /\ Balanced
      /\ child[cur][t] \notin {Sentinel, Null} /\ cur' = child[cur][t]
      /\ UNCHANGED <<root, key, child, parent, red, count, pc, x, node, par, grand, side>>
  BY DEF Descend, IInv, TreeInv
<1>2. t \in Side /\ cur \in Attached /\ cur' \in Attached /\ Attached \subseteq Nodes
  BY <1>1, LinkedFacts DEF Turn, Side, Descending, Linked
<1>3. TypeOK' /\ SentinelIsBlack'
  BY <1>1, <1>2 DEF TypeOK, SentinelIsBlack
<1>4. Attached' = Attached /\ \A p : Subtree(p)' = Subtree(p)
  BY <1>1, TreeUnchanged
<1>5. Linked' /\ LowNodes' /\ RootIsBlack' /\ Ordered' /\ Balanced'
  <2>1. Linked'
    BY <1>1, <1>4 DEF Linked
  <2>2. LowNodes' /\ RootIsBlack'
    BY <1>1, <1>4 DEF LowNodes, Unsettled, RootIsBlack, Rebalancing
  <2>3. Ordered'
    BY <1>1, <1>4 DEF Ordered, InOrder, Subtree
  <2>4. Balanced'
    BY <1>1, TreeUnchanged DEF Balanced
  <2> QED
    BY <2>1, <2>2, <2>3, <2>4
<1>6. Fits(cur)'
  <2> SUFFICES ASSUME NEW n \in Attached, NEW s \in Side, child[cur][t] \in Subtree(child[n][s])
               PROVE  Turn(key[x], n) = s
    BY <1>1, <1>4 DEF Fits, Subtree, Turn
  <2>1. CASE child[n][s] = child[cur][t]
    BY <2>1, <1>1, <1>2, LinkedFacts
  <2>2. CASE child[n][s] # child[cur][t]
    <3>1. PICK m \in Subtree(child[n][s]), u \in Side : child[m][u] = child[cur][t]
      BY <2>2, ReachPred DEF Subtree
    <3>2. m \in Attached
      BY <3>1, <1>1, LinkedFacts, ReachFacts, Pointers DEF Linked, Subtree
    <3>3. m = cur
      BY <3>1, <3>2, <1>1, <1>2, LinkedFacts
    <3> QED
      BY <3>1, <3>3, <1>1 DEF Descending, Fits
  <2> QED
    BY <2>1, <2>2
<1> QED
  BY <1>1, <1>2, <1>3, <1>4, <1>5, <1>6 DEF IInv, TreeInv, Descending

-----------------------------------------------------------------------------
(* The new node is hung into its slot *)

LEMMA TurnInOrder ==
    ASSUME TypeOK, Linked, key[x] \in Keys, NEW n \in Attached, NEW s \in Side,
           Turn(key[x], n) = s
    PROVE  InOrder(n, s, x)
<1>1. key[n] \in Keys
  BY DEF Linked
<1>2. /\ key[n].addr \in Int /\ key[n].size \in Int
      /\ key[x].addr \in Int /\ key[x].size \in Int
  BY <1>1, KeysAssumption
<1> QED
  BY <1>2 DEF InOrder, Turn, AtMost, KeyCompare

\* The lowest nodes when e is hung into slot t of c: e may stay uncounted, and
\* must where c is red.
HungIn(A, ch, rd, ch2, rd2, e, c, t) ==
    /\ A \in SUBSET Nodes /\ e \in Nodes \ A /\ c \in A /\ t \in Side
    /\ \A n \in A, s \in Side : ch[n][s] \in A \cup {Sentinel}
    /\ ch[c][t] = Sentinel /\ ch2[c][t] = e /\ \A s \in Side : ch2[e][s] = Sentinel
    /\ \A n \in A, s \in Side : n # c \/ s # t => ch2[n][s] = ch[n][s]
    /\ \A n \in A : rd2[n] = rd[n]

LEMMA LowHung ==
    ASSUME NEW A, NEW ch, NEW rd, NEW ch2, NEW rd2, NEW e, NEW c, NEW t,
           HungIn(A, ch, rd, ch2, rd2, e, c, t), LowNodesIn(A, ch, rd, Sentinel)
    PROVE  /\ LowNodesIn(A \cup {e}, ch2, rd2, e)
           /\ ~rd[c] /\ rd2[e] => LowNodesIn(A \cup {e}, ch2, rd2, Sentinel)
<1> USE DEF HungIn
<1>s. /\ \A s \in Side : Opp(s) \in Side /\ Opp(s) # s /\ Opp(Opp(s)) = s
      /\ \A s, u \in Side : s = u \/ s = Opp(u)
  BY SideFacts
<1>n. Sentinel \notin Nodes
  BY Pointers
<1>l. \A n \in A, s \in Side :
         LowIn(ch, rd, Sentinel, ch[n][s]) =>
            /\ LowIn(ch, rd, Sentinel, ch[n][Opp(s)])
            /\ RedLeafIn(ch, rd, Sentinel, ch[n][s]) => ~rd[n]
  BY DEF LowNodesIn
<1>1. LowNodesIn(A \cup {e}, ch2, rd2, e)
  <2>1. \A n \in A : RedLeafIn(ch2, rd2, e, n) <=> RedLeafIn(ch, rd, Sentinel, n)
    BY <1>n DEF RedLeafIn
  <2>2. \A n \in A, s \in Side : /\ LowIn(ch2, rd2, e, ch2[n][s]) <=> LowIn(ch, rd, Sentinel, ch[n][s])
                                 /\ RedLeafIn(ch2, rd2, e, ch2[n][s]) => RedLeafIn(ch, rd, Sentinel, ch[n][s])
    BY <2>1, <1>n DEF LowIn, RedLeafIn
  <2>3. \A s \in Side : LowIn(ch2, rd2, e, ch2[e][s]) /\ ~RedLeafIn(ch2, rd2, e, ch2[e][s])
    BY <1>n DEF LowIn, RedLeafIn
  <2> QED
    BY <2>2, <2>3, <1>s, <1>l DEF LowNodesIn
<1>2. ASSUME ~rd[c], rd2[e]
      PROVE  LowNodesIn(A \cup {e}, ch2, rd2, Sentinel)
  <2>1. \A n \in A : RedLeafIn(ch2, rd2, Sentinel, n) <=> RedLeafIn(ch, rd, Sentinel, n)
    BY <1>2, <1>n DEF RedLeafIn
  <2>2. RedLeafIn(ch2, rd2, Sentinel, e)
    BY <1>2, <1>n DEF RedLeafIn
  <2>3. \A n \in A, s \in Side :
           n # c \/ s # t => /\ LowIn(ch2, rd2, Sentinel, ch2[n][s]) <=> LowIn(ch, rd, Sentinel, ch[n][s])
                             /\ RedLeafIn(ch2, rd2, Sentinel, ch2[n][s]) <=> RedLeafIn(ch, rd, Sentinel, ch[n][s])
    BY <2>1, <1>n DEF LowIn, RedLeafIn
  <2>4. LowIn(ch2, rd2, Sentinel, ch2[c][t]) /\ LowIn(ch2, rd2, Sentinel, ch2[c][Opp(t)])
    <3>1. LowIn(ch, rd, Sentinel, ch[c][Opp(t)])
      BY <1>l DEF LowIn
    <3> QED
      BY <3>1, <2>2, <2>3, <1>s DEF LowIn
  <2>5. ASSUME NEW n \in A, NEW s \in Side, LowIn(ch2, rd2, Sentinel, ch2[n][s])
        PROVE  /\ LowIn(ch2, rd2, Sentinel, ch2[n][Opp(s)])
               /\ RedLeafIn(ch2, rd2, Sentinel, ch2[n][s]) => ~rd2[n]
    <3>1. CASE n = c
      BY <3>1, <2>4, <1>2, <1>s
    <3>2. CASE n # c
      BY <3>2, <2>3, <2>5, <1>l, <1>s
    <3> QED
      BY <3>1, <3>2
  <2>6. \A s \in Side : LowIn(ch2, rd2, Sentinel, ch2[e][s]) /\ ~RedLeafIn(ch2, rd2, Sentinel, ch2[e][s])
    BY <1>n DEF LowIn, RedLeafIn
  <2> QED
    BY <2>5, <2>6, <1>s DEF LowNodesIn
<1> QED
  BY <1>1, <1>2

LEMMA Hung ==
    ASSUME IInv, Attach
    PROVE  IInv' /\ x \notin Attached /\ Attached' = Attached \cup {x}
<1> DEFINE t == Turn(key[x], cur)
<1>1. /\ TypeOK /\ SentinelIsBlack /\ Linked /\ pc = "descend" /\ Descending
      /\ LowNodes /\ ~red[root] /\ Ordered /\ Balanced /\ ~Rebalancing
      /\ child[cur][t] \in {Sentinel, Null}
      /\ child' = [child EXCEPT ![cur][t] = x, ![x] = [s \in Side |-> Sentinel]]
      /\ parent' = [parent EXCEPT ![x] = cur]
      /\ red' = [red EXCEPT ![x] = TRUE]
      /\ node' = x /\ pc' = "rebalance"
      /\ UNCHANGED <<root, key, count, x, cur, par, grand, side>>
  BY DEF Attach, IInv, TreeInv, RootIsBlack, Rebalancing
<1>2. /\ t \in Side /\ Opp(t) \in Side /\ Opp(t) # t /\ cur \in Attached /\ x \notin Attached
      /\ x # cur /\ x = count /\ x \in Nodes /\ x \in Ptr /\ x # Sentinel /\ cur \in Ptr
      /\ cur # Sentinel /\ Attached \subseteq Nodes /\ Attached \subseteq Ptr
      /\ Attached \in SUBSET Nodes /\ Closed(Attached, child)
      /\ Sentinel \notin Attached /\ Sentinel \in Ptr
  BY <1>1, LinkedFacts, SideFacts, Pointers DEF Turn, Side, Descending, TypeOK
<1>3. child[cur][t] = Sentinel
  BY <1>1, <1>2, Pointers DEF Linked
<1>4. /\ child'[cur][t] = x /\ \A s \in Side : child'[x][s] = Sentinel
      /\ \A m \in Attached \cup {Sentinel}, s \in Side : m # cur \/ s # t => child'[m][s] = child[m][s]
      /\ \A m \in Attached : red'[m] = red[m] /\ parent'[m] = parent[m]
      /\ red'[x] /\ parent'[x] = cur
  BY <1>1, <1>2 DEF TypeOK
<1>b. \A n \in Attached, s \in Side :
         /\ child[n][s] \in Attached \cup {Sentinel}
         /\ child[n][s] # Sentinel => parent[child[n][s]] = n /\ child[n][Opp(s)] # child[n][s]
  BY <1>1 DEF Linked
<1>5. TypeOK' /\ SentinelIsBlack'
  BY <1>1, <1>2 DEF TypeOK, SentinelIsBlack
<1>6. /\ Reach(child', x) = {x}
      /\ \A p \in Attached : Reach(child', p) =
            Reach(child, p) \cup (IF cur \in Reach(child, p) THEN {x} ELSE {})
  BY <1>2, <1>3, <1>4, ReachHung, Pointers
<1>7. root \in Attached /\ root' = root
  <2>1. root # Sentinel
    BY <1>2, ReachFacts, Pointers DEF Attached, Subtree
  <2> QED
    BY <1>1, <2>1 DEF Linked
<1>8. Attached' = Attached \cup {x}
  BY <1>2, <1>6, <1>7 DEF Attached, Subtree
<1>9. Linked'
  <2>1. \A n \in Attached', s \in Side : child'[n][s] \in Attached' \cup {Sentinel}
    BY <1>b, <1>2, <1>4, <1>8
  <2>2. \A n \in Attached, s \in Side : child[n][s] # x
    BY <1>b, <1>2
  <2>3. ASSUME NEW n \in Attached', NEW s \in Side, child'[n][s] # Sentinel
        PROVE  parent'[child'[n][s]] = n /\ child'[n][Opp(s)] # child'[n][s]
    <3>1. n \in Attached
      BY <2>3, <1>4, <1>8
    <3>2. CASE n = cur /\ s = t
      BY <3>2, <1>2, <1>4, <2>2
    <3>3. CASE ~(n = cur /\ s = t)
      <4>1. child'[n][s] = child[n][s] /\ child[n][s] \in Attached /\ Opp(s) \in Side
        BY <2>3, <3>1, <3>3, <1>b, <1>4, SideFacts
      <4>2. parent[child[n][s]] = n /\ child[n][Opp(s)] # child[n][s]
        BY <1>b, <2>3, <3>1, <4>1
      <4>3. child'[n][Opp(s)] \in {child[n][Opp(s)], x}
        BY <3>1, <4>1, <1>4
      <4> QED
        BY <4>1, <4>2, <4>3, <1>2, <1>4
    <3> QED
      BY <3>2, <3>3
  <2>4. x \in 1 .. count' /\ \A n \in Attached' : n \in 1 .. count' /\ key'[n] \in Keys
    BY <1>1, <1>2, <1>8, Pointers DEF Linked, Descending, Nodes
  <2>5. parent'[root'] = Null
    BY <1>1, <1>2, <1>4, <1>7 DEF Linked
  <2>6. \A s \in Side : child'[Sentinel][s] = child[Sentinel][s]
    BY <1>2, <1>4
  <2>7. /\ \A s \in Side : child[Sentinel][s] \in (1 .. count) \cup {Null}
        /\ \A s \in Side : child[Sentinel][s] \notin Attached'
    BY <1>1, <1>8 DEF Linked, Descending
  <2>8. count' = count
    BY <1>1
  <2> QED
    BY <1>7, <1>8, <2>1, <2>3, <2>4, <2>5, <2>6, <2>7, <2>8 DEF Linked
<1>10. Rebalancing' <=> red[cur]
  BY <1>1, <1>2, <1>4, <1>7 DEF Rebalancing
<1>11. LowNodes'
  <2>1. LowNodesIn(Attached, child, red, Sentinel)
    BY <1>1 DEF LowNodes, Unsettled
  <2>2. /\ LowNodesIn(Attached \cup {x}, child', red', x)
        /\ ~red[cur] /\ red'[x] => LowNodesIn(Attached \cup {x}, child', red', Sentinel)
    <3>1. HungIn(Attached, child, red, child', red', x, cur, t)
      BY <1>b, <1>2, <1>3, <1>4 DEF HungIn
    <3> QED
      BY <2>1, <3>1, LowHung
  <2>3. Unsettled' = IF red[cur] THEN x ELSE Sentinel
    BY <1>1, <1>10 DEF Unsettled
  <2> QED
    BY <2>2, <2>3, <1>4, <1>8 DEF LowNodes
<1>12. RootIsBlack'
  BY <1>1, <1>4, <1>7 DEF RootIsBlack
<1>13. ASSUME NEW n \in Attached', NEW s \in Side
       PROVE  /\ n = x => Reach(child', child'[n][s]) = {}
              /\ n # x => Reach(child', child'[n][s]) = Reach(child, child[n][s])
                             \cup (IF (n = cur /\ s = t) \/ cur \in Reach(child, child[n][s])
                                   THEN {x} ELSE {})
  <2>1. CASE n = x
    BY <2>1, <1>4, ReachFacts, Pointers
  <2>2. CASE n = cur /\ s = t
    BY <2>2, <1>2, <1>3, <1>4, <1>6, ReachFacts, Pointers
  <2>3. CASE n # x /\ ~(n = cur /\ s = t)
    <3>1. n \in Attached /\ child'[n][s] = child[n][s]
      BY <2>3, <1>4, <1>8
    <3>2. CASE child[n][s] = Sentinel
      BY <3>1, <3>2, <2>3, ReachFacts, Pointers
    <3>3. CASE child[n][s] # Sentinel
      BY <3>1, <3>3, <2>3, <1>b, <1>6
    <3> QED
      BY <3>2, <3>3
  <2> QED
    BY <2>1, <2>2, <2>3, <1>2
<1>14. ASSUME NEW n \in Attached, NEW s \in Side
       PROVE  /\ Reach(child, child[n][s]) \subseteq Attached
              /\ cur \in Reach(child, child[n][s]) => Turn(key[x], n) = s
  <2>1. Reach(child, child[n][s]) \subseteq Attached
    BY <1>1, LinkedFacts, ReachFacts, Pointers DEF Linked, Subtree
  <2> QED
    BY <2>1, <1>1 DEF Descending, Fits, Subtree
<1>15. Ordered'
  <2> SUFFICES ASSUME NEW n \in Attached', NEW s \in Side, NEW m \in Reach(child', child'[n][s])
               PROVE  InOrder(n, s, m)
    BY <1>1 DEF Ordered, Subtree, InOrder
  <2>1. n # x /\ n \in Attached
    BY <1>8, <1>13
  <2>2. CASE m \in Reach(child, child[n][s])
    BY <2>1, <2>2, <1>1 DEF Ordered, Subtree
  <2>3. CASE m \notin Reach(child, child[n][s])
    <3>1. m = x /\ Turn(key[x], n) = s
      BY <2>1, <2>3, <1>13, <1>14
    <3> QED
      BY <2>1, <3>1, <1>1, TurnInOrder DEF Descending
  <2> QED
    BY <2>2, <2>3
<1>16. Balanced'
  <2> DEFINE Above(n)  == AboveIn(child, root, red, n)
             Above2(n) == AboveIn(child', root', red', n)
  <2>1. \A n \in Attached : Above2(n) = Above(n)
    BY <1>2, <1>4, <1>6, <1>8 DEF AboveIn, Attached, Subtree
  <2>2. Above2(x) = Above(cur)
    <3>1. \A m \in Attached : x \notin Reach(child, m)
      BY <1>1, <1>2, LinkedFacts DEF Subtree
    <3> QED
      BY <3>1, <1>2, <1>4, <1>6, <1>8 DEF AboveIn, Attached, Subtree
  <2>3. \A n \in Attached, s \in Side : child'[n][s] = Sentinel => child[n][s] = Sentinel
    BY <1>2, <1>4
  <2>4. \A n \in Attached' : (\E s \in Side : child'[n][s] = Sentinel) =>
           \E m \in Attached : /\ \E s \in Side : child[m][s] = Sentinel
                               /\ Cardinality(Above2(n)) = Cardinality(Above(m))
    BY <2>1, <2>2, <2>3, <1>2, <1>3, <1>8
  <2>5. SlotDepths' \subseteq SlotDepths
    BY <2>4, DepthsFrom, DepthsAre DEF Attached, Subtree
  <2> QED
    BY <2>5, <1>1 DEF Balanced
<1>17. Settling'
  <2>1. Fits(x)'
    <3> SUFFICES ASSUME NEW n \in Attached', NEW s \in Side, x \in Reach(child', child'[n][s])
                 PROVE  Turn(key[x], n) = s
      BY <1>1 DEF Fits, Subtree, Turn
    <3>1. n # x /\ n \in Attached
      BY <1>8, <1>13
    <3> QED
      BY <3>1, <1>2, <1>13, <1>14
  <2> QED
    <3>1. key'[x'] \in Keys /\ x' = x /\ node' = x
      BY <1>1 DEF Descending
    <3> QED
      BY <2>1, <3>1, <1>2, <1>4, <1>7, <1>8 DEF Settling, Inside
<1> QED
  BY <1>1, <1>2, <1>5, <1>8, <1>9, <1>11, <1>12, <1>15, <1>16, <1>17 DEF IInv, TreeInv

-----------------------------------------------------------------------------
(* Recolouring, where the uncle is red *)

\* The red leaf e hangs below p on side t, p and the leaf u below g.
FamilyIn(A, ch, e, p, g, u, s, t) ==
    /\ A \in SUBSET Nodes /\ {e, p, g, u} \subseteq A /\ s \in Side /\ t \in Side
    /\ \A n \in A, v \in Side : ch[n][v] \in A \cup {Sentinel}
    /\ \A m, n \in A, v, w \in Side :
          ch[m][v] = ch[n][w] /\ ch[m][v] # Sentinel => m = n /\ v = w
    /\ \A v \in Side : ch[e][v] = Sentinel /\ ch[u][v] = Sentinel
    /\ ch[p][t] = e /\ ch[p][Opp(t)] = Sentinel /\ ch[g][s] = p /\ ch[g][Opp(s)] = u
    /\ e # p /\ e # u

RecolouredIn(A, rd, rd2, e, p, g, u) ==
    /\ rd[e] /\ ~rd[g] /\ rd2[g] /\ ~rd2[p] /\ ~rd2[u]
    /\ \A n \in A \ {g, p, u} : rd2[n] = rd[n]

LEMMA LowRecoloured ==
    ASSUME NEW A, NEW ch, NEW rd, NEW rd2, NEW e, NEW p, NEW g, NEW u, NEW s, NEW t,
           FamilyIn(A, ch, e, p, g, u, s, t), RecolouredIn(A, rd, rd2, e, p, g, u),
           LowNodesIn(A, ch, rd, e)
    PROVE  LowNodesIn(A, ch, rd2, Sentinel)
<1> USE DEF FamilyIn, RecolouredIn
<1>s. /\ \A v \in Side : Opp(v) \in Side /\ Opp(v) # v /\ Opp(Opp(v)) = v
      /\ \A v, w \in Side : v = w \/ v = Opp(w)
  BY SideFacts
<1>n. Sentinel \notin Nodes /\ A \subseteq Nodes
  BY Pointers
<1>l. \A n \in A, v \in Side :
         LowIn(ch, rd, e, ch[n][v]) => /\ LowIn(ch, rd, e, ch[n][Opp(v)])
                                       /\ RedLeafIn(ch, rd, e, ch[n][v]) => ~rd[n]
  BY DEF LowNodesIn
<1>1. g # u /\ g # p /\ g # e /\ p # u
  BY <1>s, <1>n
<1>2. /\ \A n \in A \ {p}, v \in Side : ch[n][v] # e
      /\ \A n \in A \ {g}, v \in Side : ch[n][v] # p /\ ch[n][v] # u
  BY <1>s, <1>n
<1>3. \A n \in A \ {e, p, u, g} : RedLeafIn(ch, rd2, Sentinel, n) <=> RedLeafIn(ch, rd, e, n)
  BY <1>n, <1>2 DEF RedLeafIn
<1>4. /\ ~RedLeafIn(ch, rd2, Sentinel, p) /\ ~RedLeafIn(ch, rd2, Sentinel, u)
      /\ ~RedLeafIn(ch, rd2, Sentinel, g) /\ ~RedLeafIn(ch, rd, e, g)
      /\ ~RedLeafIn(ch, rd2, Sentinel, Sentinel) /\ ~RedLeafIn(ch, rd, e, Sentinel)
  BY <1>n, <1>1 DEF RedLeafIn
<1>5. ASSUME NEW n \in A, NEW v \in Side, LowIn(ch, rd2, Sentinel, ch[n][v])
      PROVE  /\ LowIn(ch, rd2, Sentinel, ch[n][Opp(v)])
             /\ RedLeafIn(ch, rd2, Sentinel, ch[n][v]) => ~rd2[n]
  <2>1. CASE n \notin {e, p, u, g}
    <3>1. \A w \in Side : ch[n][w] \in (A \ {e, p, u}) \cup {Sentinel}
      BY <2>1, <1>2
    <3>2. \A w \in Side :
             /\ RedLeafIn(ch, rd2, Sentinel, ch[n][w]) <=> RedLeafIn(ch, rd, e, ch[n][w])
             /\ LowIn(ch, rd2, Sentinel, ch[n][w]) <=> LowIn(ch, rd, e, ch[n][w])
      BY <3>1, <1>n, <1>1, <1>3, <1>4 DEF LowIn
    <3> QED
      BY <2>1, <3>2, <1>5, <1>l, <1>s
  <2>2. CASE n = p
    <3>1. \A w \in Side : ch[n][w] \in {e, Sentinel}
      BY <2>2, <1>s
    <3>2. RedLeafIn(ch, rd2, Sentinel, e)
      BY <1>1, <1>n DEF RedLeafIn
    <3> QED
      BY <2>2, <3>1, <3>2, <1>s DEF LowIn
  <2>3. CASE n \in {e, u}
    BY <2>3, <1>4, <1>s DEF LowIn
  <2>4. CASE n = g
    <3>1. \A w \in Side : ~LowIn(ch, rd2, Sentinel, ch[n][w])
      BY <2>4, <1>4, <1>n, <1>s DEF LowIn
    <3> QED
      BY <3>1, <1>5
  <2> QED
    BY <2>1, <2>2, <2>3, <2>4
<1> QED
  BY <1>5 DEF LowNodesIn

LEMMA ReachFamily ==
    ASSUME NEW A, NEW ch, NEW e, NEW p, NEW g, NEW u, NEW s, NEW t,
           FamilyIn(A, ch, e, p, g, u, s, t)
    PROVE  /\ Reach(ch, e) = {e} /\ Reach(ch, u) = {u} /\ Reach(ch, p) = {p, e}
           /\ Reach(ch, g) = {g, p, u, e}
<1> USE DEF FamilyIn
<1>s. \A v \in Side : Opp(v) \in Side /\ \A w \in Side : w = v \/ w = Opp(v)
  BY SideFacts
<1>n. Sentinel \notin Nodes /\ e \in Nodes /\ p \in Nodes /\ g \in Nodes /\ u \in Nodes
  BY Pointers
<1>1. Reach(ch, e) = {e} /\ Reach(ch, u) = {u}
  BY <1>n, ReachLeaf
<1>2. Reach(ch, p) = {p, e}
  <2>1. Closed({p, e}, ch)
    BY <1>n, <1>s DEF Closed
  <2>2. {p, e} \subseteq Reach(ch, p)
    BY <1>n, ReachFacts
  <2> QED
    BY <2>1, <2>2, <1>n, ReachLeast
<1>3. Reach(ch, g) = {g, p, u, e}
  <2>1. Closed({g, p, u, e}, ch)
    BY <1>n, <1>s DEF Closed
  <2>2. {g, p, u, e} \subseteq Reach(ch, g)
    BY <1>n, <1>s, ReachFacts
  <2> QED
    BY <2>1, <2>2, <1>n, ReachLeast
<1> QED
  BY <1>1, <1>2, <1>3

\* No node but g has more or fewer black ones above it.
LEMMA AboveRecoloured ==
    ASSUME NEW ch, NEW r, NEW rd, NEW rd2, NEW e, NEW p, NEW g, NEW u, NEW s, NEW t,
           FamilyIn(Reach(ch, r), ch, e, p, g, u, s, t),
           RecolouredIn(Reach(ch, r), rd, rd2, e, p, g, u), rd[p], rd[u],
           NEW n \in Reach(ch, r) \ {g}
    PROVE  Cardinality(AboveIn(ch, r, rd2, n)) = Cardinality(AboveIn(ch, r, rd, n))
<1> DEFINE Old == AboveIn(ch, r, rd, n)
           New == AboveIn(ch, r, rd2, n)
<1>1. /\ Reach(ch, e) = {e} /\ Reach(ch, u) = {u} /\ Reach(ch, p) = {p, e}
      /\ Reach(ch, g) = {g, p, u, e}
  BY ReachFamily
<1>2. /\ {e, p, g, u} \subseteq Reach(ch, r) /\ p # u /\ g # u /\ g # p /\ g # e /\ e # p /\ e # u
  BY SideFacts, Pointers DEF FamilyIn
<1>3. /\ ~rd[g] /\ rd2[g] /\ ~rd2[p] /\ ~rd2[u]
      /\ \A m \in Reach(ch, r) \ {g, p, u} : rd2[m] = rd[m]
  BY DEF RecolouredIn
<1>4. IsFiniteSet(Old)
  BY AboveFinite
<1>5. CASE n \notin {p, u, e}
  <2>1. New = Old
    BY <1>1, <1>3, <1>5 DEF AboveIn
  <2> QED
    BY <2>1
<1>6. CASE n \in {p, e}
  <2>1. New = (Old \ {g}) \cup {p} /\ g \in Old /\ p \notin Old
    BY <1>1, <1>2, <1>3, <1>6 DEF AboveIn
  <2> QED
    BY <2>1, <1>4, SwapCardinality
<1>7. CASE n = u
  <2>1. New = (Old \ {g}) \cup {u} /\ g \in Old /\ u \notin Old
    BY <1>1, <1>2, <1>3, <1>7 DEF AboveIn
  <2> QED
    BY <2>1, <1>4, SwapCardinality
<1> QED
  BY <1>5, <1>6, <1>7

LEMMA Recoloured ==
    ASSUME IInv, Recolour
    PROVE  IInv' /\ Attached' = Attached /\ ~Rebalancing'
<1> DEFINE p == Parent
           g == Grand
           u == Uncle
<1>1. /\ Rebalancing /\ red[u]
      /\ red' = [red EXCEPT ![p] = FALSE, ![u] = FALSE, ![g] = TRUE]
      /\ node' = g
      /\ UNCHANGED <<root, key, child, parent, count, pc, x, cur, par, grand, side>>
  BY DEF Recolour
<1>2. /\ TypeOK /\ SentinelIsBlack /\ Linked /\ LowNodes /\ Ordered /\ Balanced /\ Settling
      /\ pc = "rebalance"
  BY <1>1 DEF IInv, TreeInv, Rebalancing
<1>3. PICK t \in Side : child[p][t] = x /\ child[p][Opp(t)] = Sentinel
  BY <1>1, AroundX
<1>4. FamilyIn(Attached, child, x, p, g, u, ParentSide, t)
  <2>1. u \in Attached \ {x, p, g} /\ \A v \in Side : child[u][v] = Sentinel
    BY <1>1, <1>2, AroundX DEF SentinelIsBlack
  <2>2. child[g][Opp(ParentSide)] = u
    BY DEF Uncle
  <2> QED
    BY <1>1, <1>2, <1>3, <2>1, <2>2, AroundX, LinkedFacts DEF FamilyIn, Linked
<1>5. /\ {x, p, g, u} \subseteq Attached /\ Attached \subseteq Nodes /\ Attached \subseteq Ptr
      /\ Sentinel \notin {p, g, u} /\ Sentinel \in Ptr
      /\ p # u /\ g # u /\ g # p /\ g # x /\ x # p /\ x # u
  BY <1>4, SideFacts, Pointers DEF FamilyIn
<1>6. RecolouredIn(Attached, red, red', x, p, g, u) /\ red[p]
  BY <1>1, <1>2, <1>5, AroundX DEF RecolouredIn, TypeOK
<1>7. TypeOK' /\ SentinelIsBlack'
  BY <1>1, <1>2, <1>5 DEF TypeOK, SentinelIsBlack
<1>8. ~Rebalancing' /\ Unsettled = x /\ Unsettled' = Sentinel
  BY <1>1, <1>6 DEF Rebalancing, RecolouredIn, Parent, Unsettled
<1>9. Attached' = Attached /\ \A q : Subtree(q)' = Subtree(q)
  BY <1>1 DEF Attached, Subtree
<1>10. Linked'
  BY <1>1, <1>2, <1>9 DEF Linked
<1>11. LowNodes'
  <2>1. LowNodesIn(Attached, child, red', Sentinel)
    BY <1>2, <1>4, <1>6, <1>8, LowRecoloured DEF LowNodes
  <2> QED
    BY <2>1, <1>1, <1>8, <1>9 DEF LowNodes
<1>12. RootIsBlack'
  BY <1>1, <1>2, <1>8 DEF RootIsBlack
<1>13. Ordered'
  BY <1>1, <1>2, <1>9 DEF Ordered, InOrder, Subtree
<1>14. Balanced'
  <2>1. \A n \in Attached \ {g} :
           Cardinality(AboveIn(child, root, red', n)) = Cardinality(AboveIn(child, root, red, n))
    BY <1>1, <1>4, <1>6, AboveRecoloured DEF Attached, Subtree
  <2>2. \A s \in Side : child[g][s] # Sentinel
    BY <1>4, <1>5, SideFacts DEF FamilyIn
  <2>3. DepthsIn(child, root, red') \subseteq DepthsIn(child, root, red)
    BY <2>1, <2>2, DepthsFrom DEF Attached, Subtree
  <2> QED
    BY <2>3, <1>1, <1>2, DepthsAre DEF Balanced
<1>15. Settling'
  BY <1>1, <1>2, <1>5, <1>8, <1>9 DEF Settling, Inside
<1> QED
  BY <1>1, <1>2, <1>7, <1>8, <1>9, <1>10, <1>11, <1>12, <1>13, <1>14, <1>15 DEF IInv, TreeInv

-----------------------------------------------------------------------------
(* The inner rotation: x is dropped *)

LEMMA LowDropped ==
    ASSUME NEW A, NEW ch, NEW rd, NEW ch2, NEW e, NEW c, NEW t,
           HungIn(A, ch, rd, ch2, rd, e, c, t), LowNodesIn(A \cup {e}, ch2, rd, e)
    PROVE  LowNodesIn(A, ch, rd, Sentinel)
<1> USE DEF HungIn
<1>s. \A s \in Side : Opp(s) \in Side /\ Opp(Opp(s)) = s
  BY SideFacts
<1>n. Sentinel \notin Nodes
  BY Pointers
<1>1. \A n \in A : RedLeafIn(ch2, rd, e, n) <=> RedLeafIn(ch, rd, Sentinel, n)
  BY <1>n DEF RedLeafIn
<1>2. \A n \in A, s \in Side :
         /\ LowIn(ch2, rd, e, ch2[n][s]) <=> LowIn(ch, rd, Sentinel, ch[n][s])
         /\ RedLeafIn(ch2, rd, e, ch2[n][s]) <=> RedLeafIn(ch, rd, Sentinel, ch[n][s])
  BY <1>1, <1>n DEF LowIn, RedLeafIn
<1> QED
  BY <1>2, <1>s DEF LowNodesIn

LEMMA Dropped ==
    ASSUME IInv, InnerRotate
    PROVE  IInv' /\ Attached' = Attached \ {x}
<1> DEFINE s == ParentSide
           o == Opp(s)
           p == Parent
           g == Grand
           B == Attached \ {x}
<1>1. /\ Rebalancing /\ node' = p /\ par' = p /\ grand' = g /\ side' = s /\ pc' = "outer"
      /\ UNCHANGED <<key, red, count, x, cur>>
  BY DEF InnerRotate
<1>2. /\ TypeOK /\ SentinelIsBlack /\ Linked /\ LowNodes /\ RootIsBlack /\ Ordered
      /\ Balanced /\ Settling /\ Fits(x) /\ pc = "rebalance" /\ root # x /\ key[x] \in Keys
      /\ red[root] = FALSE
  <2>1. /\ pc = "rebalance" /\ TypeOK /\ SentinelIsBlack /\ Linked /\ LowNodes /\ RootIsBlack
        /\ Ordered /\ Balanced /\ Settling
    BY <1>1 DEF IInv, TreeInv, Rebalancing
  <2> QED
    BY <2>1, <1>1 DEF Settling, RootIsBlack, TypeOK
<1>3. /\ Uncle = Sentinel /\ child[p][o] = x /\ child[p][s] = Sentinel /\ root' = root
      /\ parent' \in [Ptr -> Ptr \cup {Null}] /\ parent'[x] = Sentinel
      /\ \A n \in B : parent'[n] = parent[n]
      /\ child' \in [Ptr -> [Side -> Ptr \cup {Null}]]
      /\ child'[p][o] = Sentinel
      /\ \A m \in B, t \in Side : m # p \/ t # o => child'[m][t] = child[m][t]
      /\ \A t \in Side : child'[Sentinel][t] \in {x, child[Sentinel][t]}
  BY InnerRotated
<1>4. /\ x \in Attached /\ p \in Attached /\ g \in Attached /\ x # p /\ x # g /\ p # g
      /\ red[x] /\ red[p] /\ ~red[g] /\ child[g][s] = p /\ child[g][o] = Sentinel
      /\ \A t \in Side : child[x][t] = Sentinel
  BY <1>1, <1>3, AroundX DEF Uncle
<1>5. /\ s \in Side /\ o \in Side /\ o # s /\ \A t \in Side : t = s \/ t = o
      /\ Attached \in SUBSET Nodes /\ Sentinel \notin Nodes
  BY <1>1, <1>2, AroundX, SideFacts, LinkedFacts, Pointers
<1>6. \A n \in Attached, t \in Side :
         /\ child[n][t] \in Attached \cup {Sentinel}
         /\ child[n][t] # Sentinel => parent[child[n][t]] = n /\ child[n][Opp(t)] # child[n][t]
  BY <1>2 DEF Linked
<1>7. \A n \in B, t \in Side : child'[n][t] \in B \cup {Sentinel}
  <2>1. \A n \in Attached, t \in Side : child[n][t] = x => n = p /\ t = o
    BY <1>2, <1>3, <1>4, <1>5, LinkedFacts
  <2> QED
    BY <2>1, <1>3, <1>6
<1>8. root \in B
  BY <1>2, <1>4, ReachFacts, Pointers DEF Linked, Attached, Subtree
<1>9. Closed(B, child')
  BY <1>7, <1>5 DEF Closed
<1>h. HungIn(B, child', red, child, red, x, p, o)
  BY <1>3, <1>4, <1>5, <1>7 DEF HungIn
<1>10. /\ Reach(child, x) = {x}
       /\ \A q \in B : Reach(child, q) =
             Reach(child', q) \cup (IF p \in Reach(child', q) THEN {x} ELSE {})
       /\ \A q \in B : Reach(child', q) \subseteq B
  <2>1. \A q \in B : Reach(child', q) \subseteq B
    BY <1>5, <1>9, ReachLeast
  <2>2. /\ B \in SUBSET Nodes /\ x \in Nodes \ B /\ p \in B /\ o \in Side
        /\ child'[p][o] \notin Nodes /\ child[p][o] = x
        /\ \A t \in Side : child[x][t] \notin Nodes
    BY <1>3, <1>4, <1>5
  <2>3. \A m \in B, t \in Side : m # p \/ t # o => child[m][t] = child'[m][t]
    BY <1>3
  <2> QED
    BY <2>1, <2>2, <2>3, <1>9, ReachHung
<1>11. Attached' = B
  BY <1>3, <1>8, <1>10 DEF Attached, Subtree
<1>12. TypeOK' /\ SentinelIsBlack'
  BY <1>1, <1>2, <1>3, <1>4, <1>5 DEF TypeOK, SentinelIsBlack
<1>13. Linked'
  <2>1. ASSUME NEW n \in B, NEW t \in Side, child'[n][t] # Sentinel
        PROVE  parent'[child'[n][t]] = n /\ child'[n][Opp(t)] # child'[n][t]
    <3>1. child'[n][t] = child[n][t] /\ child[n][t] \in B /\ Opp(t) \in Side
      BY <2>1, <1>3, <1>7, SideFacts
    <3>2. child'[n][Opp(t)] \in {child[n][Opp(t)], Sentinel}
      BY <3>1, <1>3
    <3> QED
      BY <2>1, <3>1, <3>2, <1>3, <1>6
  <2>2. \A n \in B : n \in 1 .. count /\ key[n] \in Keys
    BY <1>2 DEF Linked
  <2>3. parent'[root] = Null
    BY <1>2, <1>3, <1>5, <1>8 DEF Linked
  <2>4. \A t \in Side : child'[Sentinel][t] \in (1 .. count) \cup {Null} /\ child'[Sentinel][t] \notin B
    BY <1>2, <1>3, <1>4 DEF Linked
  <2> QED
    BY <2>1, <2>2, <2>3, <2>4, <1>1, <1>3, <1>7, <1>8, <1>11 DEF Linked
<1>14. LowNodes' /\ RootIsBlack'
  <2>1. Unsettled = x /\ Unsettled' = Sentinel
    BY <1>1 DEF Unsettled, Rebalancing
  <2>2. B \cup {x} = Attached
    BY <1>4
  <2>3. LowNodesIn(B, child', red, Sentinel)
    BY <2>1, <2>2, <1>2, <1>h, LowDropped DEF LowNodes
  <2> QED
    BY <2>1, <2>3, <1>1, <1>2, <1>3, <1>11 DEF LowNodes, RootIsBlack
<1>15. Ordered'
  <2> SUFFICES ASSUME NEW n \in B, NEW t \in Side, NEW m \in Reach(child', child'[n][t])
               PROVE  InOrder(n, t, m)
    BY <1>1, <1>11 DEF Ordered, Subtree, InOrder
  <2>1. child'[n][t] \in B
    BY <1>5, <1>7, ReachFacts
  <2>2. child'[n][t] = child[n][t]
    BY <2>1, <1>3, <1>5
  <2>3. m \in Subtree(child[n][t])
    BY <2>1, <2>2, <1>10 DEF Subtree
  <2> QED
    BY <2>3, <1>2 DEF Ordered
<1>16. Balanced'
  <2>1. ASSUME NEW n \in B
        PROVE  AboveIn(child', root, red, n) = AboveIn(child, root, red, n)
    <3>1. \A m \in B : n \in Reach(child', m) <=> n \in Reach(child, m)
      BY <1>10
    <3> QED
      BY <3>1, <1>3, <1>10, <1>11 DEF AboveIn, Attached, Subtree
  <2>2. \A n \in B, t \in Side : child'[n][t] = Sentinel => \E v \in Side : child[n][v] = Sentinel
    BY <1>3, <1>5
  <2>3. Reach(child', root) = B /\ B \subseteq Reach(child, root)
    BY <1>3, <1>11 DEF Attached, Subtree
  <2>4. DepthsIn(child', root, red) \subseteq DepthsIn(child, root, red)
    BY <2>1, <2>2, <2>3, DepthsFrom
  <2> QED
    BY <2>4, <1>1, <1>2, <1>3, DepthsAre DEF Balanced
<1>17. Rotating'
  <2>1. Turn(key[x], p) = o /\ Turn(key[x], g) = s
    <3>1. x \in Reach(child, child[p][o])
      BY <1>3, <1>10
    <3>2. x \in Reach(child, child[g][s])
      BY <3>1, <1>3, <1>4, <1>5, ReachFacts
    <3> QED
      BY <3>1, <3>2, <1>2, <1>4, <1>5 DEF Fits, Subtree
  <2>2. /\ KeyCompare(key[x], key[p]) < 0 \/ KeyCompare(key[x], key[g]) < 0
        /\ KeyCompare(key[x], key[p]) >= 0 \/ KeyCompare(key[x], key[g]) >= 0
    BY <2>1, <1>5 DEF Turn, KeyCompare
  <2>3. Inside'
    BY <2>2, <1>1, <1>4, <1>11 DEF Inside
  <2> QED
    BY <2>3, <1>1, <1>2, <1>3, <1>4, <1>5, <1>11 DEF Rotating
<1> QED
  BY <1>1, <1>2, <1>11, <1>12, <1>13, <1>14, <1>15, <1>16, <1>17 DEF IInv, TreeInv


-----------------------------------------------------------------------------
(* The rotation at the grandparent *)

\* p, red, with at most the red leaf e below it, moves above the black g.
RotatedIn(A, ch, ch2, g, p, s, e) ==
    /\ A \in SUBSET Nodes /\ g \in A /\ p \in A /\ g # p /\ s \in Side
    /\ e \in (A \ {g, p}) \cup {Sentinel}
    /\ \A n \in A, v \in Side : ch[n][v] \in A \cup {Sentinel}
    /\ \A m, n \in A, v, w \in Side :
          ch[m][v] = ch[n][w] /\ ch[m][v] # Sentinel => m = n /\ v = w
    /\ e # Sentinel => \A v \in Side : ch[e][v] = Sentinel
    /\ ch[g][s] = p /\ ch[g][Opp(s)] = Sentinel /\ ch[p][s] = e /\ ch[p][Opp(s)] = Sentinel
    /\ ch2[p][s] = e /\ ch2[p][Opp(s)] = g /\ \A t \in Side : ch2[g][t] = Sentinel
    /\ \A m \in A \ {g, p}, t \in Side :
          ch2[m][t] = IF ch[m][t] = g THEN p ELSE ch[m][t]

Swapped(A, rd, rd2, g, p, e) ==
    /\ rd[p] /\ ~rd[g] /\ ~rd2[p] /\ rd2[g] /\ (e # Sentinel => rd[e])
    /\ \A n \in A \ {g, p} : rd2[n] = rd[n]

LEMMA LowRotated ==
    ASSUME NEW A, NEW ch, NEW rd, NEW ch2, NEW rd2, NEW g, NEW p, NEW s, NEW e,
           RotatedIn(A, ch, ch2, g, p, s, e), Swapped(A, rd, rd2, g, p, e),
           LowNodesIn(A, ch, rd, e)
    PROVE  LowNodesIn(A, ch2, rd2, Sentinel)
<1> USE DEF RotatedIn, Swapped
<1>s. /\ \A v \in Side : Opp(v) \in Side /\ Opp(v) # v /\ Opp(Opp(v)) = v
      /\ \A v, w \in Side : v = w \/ v = Opp(w)
  BY SideFacts
<1>n. Sentinel \notin Nodes /\ A \subseteq Nodes
  BY Pointers
<1>l. \A n \in A, v \in Side :
         LowIn(ch, rd, e, ch[n][v]) => /\ LowIn(ch, rd, e, ch[n][Opp(v)])
                                       /\ RedLeafIn(ch, rd, e, ch[n][v]) => ~rd[n]
  BY DEF LowNodesIn
<1>1. /\ \A n \in A \ {p}, v \in Side : e # Sentinel => ch[n][v] # e
      /\ \A n \in A \ {g}, v \in Side : ch[n][v] # p
  BY <1>s, <1>n
<1>2. \A n \in A \ {g, p, e} : RedLeafIn(ch2, rd2, Sentinel, n) <=> RedLeafIn(ch, rd, e, n)
  BY <1>n, <1>1 DEF RedLeafIn
<1>3. /\ ~LowIn(ch2, rd2, Sentinel, p) /\ ~LowIn(ch, rd, e, g)
      /\ ~RedLeafIn(ch2, rd2, Sentinel, Sentinel) /\ ~RedLeafIn(ch, rd, e, Sentinel)
  BY <1>n DEF LowIn, RedLeafIn
<1>4. RedLeafIn(ch2, rd2, Sentinel, g) /\ LowIn(ch2, rd2, Sentinel, e)
  BY <1>n DEF LowIn, RedLeafIn
<1>5. ASSUME NEW n \in A, NEW v \in Side, LowIn(ch2, rd2, Sentinel, ch2[n][v])
      PROVE  /\ LowIn(ch2, rd2, Sentinel, ch2[n][Opp(v)])
             /\ RedLeafIn(ch2, rd2, Sentinel, ch2[n][v]) => ~rd2[n]
  <2>1. CASE n \notin {g, p, e}
    <3>1. \A w \in Side :
             \/ ch2[n][w] = p /\ ch[n][w] = g
             \/ ch2[n][w] = ch[n][w] /\ ch[n][w] \in (A \ {g, p, e}) \cup {Sentinel}
      BY <2>1, <1>1
    <3>2. \A w \in Side :
             /\ LowIn(ch2, rd2, Sentinel, ch2[n][w]) <=> LowIn(ch, rd, e, ch[n][w])
             /\ RedLeafIn(ch2, rd2, Sentinel, ch2[n][w]) => RedLeafIn(ch, rd, e, ch[n][w])
      BY <3>1, <1>n, <1>2, <1>3 DEF LowIn
    <3> QED
      BY <2>1, <3>2, <1>5, <1>l, <1>s
  <2>2. CASE n = p
    <3>1. \A w \in Side : ch2[n][w] \in {e, g}
      BY <2>2, <1>s
    <3> QED
      BY <2>2, <3>1, <1>4, <1>s DEF LowIn
  <2>3. CASE n = g \/ (n = e /\ e # Sentinel)
    <3>1. \A w \in Side : ch2[n][w] = Sentinel
      BY <2>3, <1>n
    <3> QED
      BY <3>1, <1>3, <1>s DEF LowIn
  <2> QED
    BY <2>1, <2>2, <2>3, <1>n
<1> QED
  BY <1>5 DEF LowNodesIn

LEMMA ReachLow ==
    ASSUME NEW A, NEW ch, NEW ch2, NEW g, NEW p, NEW s, NEW e,
           RotatedIn(A, ch, ch2, g, p, s, e)
    PROVE  /\ Reach(ch, g)  = {g, p} \cup ({e} \cap Nodes)
           /\ Reach(ch, p)  = {p} \cup ({e} \cap Nodes)
           /\ Reach(ch2, g) = {g}
           /\ Reach(ch2, p) = {g, p} \cup ({e} \cap Nodes)
           /\ \A q \in A \ {g, p} : Reach(ch2, q) = Reach(ch, q)
<1> USE DEF RotatedIn
<1>n. Sentinel \notin Nodes /\ A \in SUBSET Nodes /\ g \in Nodes /\ p \in Nodes
  BY Pointers
<1>1. Closed(A, ch)
  BY <1>n DEF Closed
<1>2. e \in Nodes => e # g /\ e # p /\ \A t \in Side : ch[e][t] \notin Nodes
  BY <1>n
<1>3. /\ ch[g][Opp(s)] \notin Nodes /\ ch[p][Opp(s)] \notin Nodes
      /\ \A t \in Side : ch2[g][t] \notin Nodes
  BY <1>n
<1>4. \A m \in A, t \in Side : ch[m][t] = p => m = g
  BY <1>n
<1>5. /\ ch[g][s] = p /\ ch[p][s] = e /\ ch2[p][s] = e /\ ch2[p][Opp(s)] = g
      /\ \A m \in A \ {g, p}, t \in Side : ch2[m][t] = IF ch[m][t] = g THEN p ELSE ch[m][t]
  OBVIOUS
<1> QED
  BY <1>n, <1>1, <1>2, <1>3, <1>4, <1>5, ReachRotated

\* The black node above the moved ones is now p.
LEMMA AboveRotated ==
    ASSUME NEW ch, NEW r, NEW rd, NEW ch2, NEW r2, NEW rd2,
           NEW g, NEW p, NEW s, NEW e,
           RotatedIn(Reach(ch, r), ch, ch2, g, p, s, e),
           Swapped(Reach(ch, r), rd, rd2, g, p, e), Reach(ch2, r2) = Reach(ch, r),
           NEW n \in Reach(ch, r)
    PROVE  Cardinality(AboveIn(ch2, r2, rd2, n)) = Cardinality(AboveIn(ch, r, rd, n))
<1> DEFINE A   == Reach(ch, r)
           Old == AboveIn(ch, r, rd, n)
           New == AboveIn(ch2, r2, rd2, n)
<1>1. /\ Reach(ch, g)  = {g, p} \cup ({e} \cap Nodes)
      /\ Reach(ch, p)  = {p} \cup ({e} \cap Nodes)
      /\ Reach(ch2, g) = {g}
      /\ Reach(ch2, p) = {g, p} \cup ({e} \cap Nodes)
      /\ \A q \in A \ {g, p} : Reach(ch2, q) = Reach(ch, q)
  BY ReachLow
<1>2. g \in A /\ p \in A /\ g # p
  BY DEF RotatedIn
<1>3. rd[p] /\ ~rd[g] /\ ~rd2[p] /\ rd2[g] /\ \A m \in A \ {g, p} : rd2[m] = rd[m]
  BY DEF Swapped
<1>4. IsFiniteSet(Old)
  BY AboveFinite
<1>5. CASE n \in Reach(ch, g)
  <2>1. g \in Old /\ p \notin Old
    BY <1>2, <1>3, <1>5 DEF AboveIn
  <2>2. n \in Reach(ch2, p)
    BY <1>1, <1>5
  <2>3. New = (Old \ {g}) \cup {p}
    BY <1>1, <1>2, <1>3, <2>2 DEF AboveIn
  <2> QED
    BY <1>4, <2>1, <2>3, SwapCardinality
<1>6. CASE n \notin Reach(ch, g)
  <2>1. /\ n \notin Reach(ch, p) /\ n \notin Reach(ch2, p) /\ n \notin Reach(ch2, g)
    BY <1>1, <1>6
  <2>2. New = Old
    BY <1>1, <1>2, <1>3, <1>6, <2>1 DEF AboveIn
  <2> QED
    BY <2>2
<1> QED
  BY <1>5, <1>6

\* Whichever pair the loop rotates, the tree it leaves is one, with the same nodes.
LEMMA RotatedTree ==
    ASSUME TypeOK, SentinelIsBlack, Linked, LowNodes, Ordered, Balanced,
           NEW p, NEW g, NEW s, LowPair(p, g, s), child[p][s] = Unsettled,
           RotateGrand(p, g, s), Rebalancing => x \notin {g, p},
           UNCHANGED <<key, count, locals>>, pc' = "rebalance",
           pc \in {"rebalance", "outer"}
    PROVE  /\ TypeOK' /\ SentinelIsBlack' /\ Linked' /\ Ordered' /\ Balanced'
           /\ LowNodesIn(Attached, child', red', Sentinel)
           /\ Attached' = Attached
           /\ parent' = [parent EXCEPT ![g] = p, ![p] = parent[g]]
           /\ red' = [red EXCEPT ![p] = FALSE, ![g] = TRUE]
<1> DEFINE o == Opp(s)
           e == child[p][s]
           A == Attached
<1>1. /\ red' = [red EXCEPT ![p] = FALSE, ![g] = TRUE]
      /\ root' = IF g = root THEN p ELSE root
      /\ parent' = [parent EXCEPT ![g] = p, ![p] = parent[g]]
      /\ child' \in [Ptr -> [Side -> Ptr \cup {Null}]]
      /\ \A t \in Side : child'[g][t] = Sentinel
      /\ child'[p][s] = child[p][s] /\ child'[p][o] = g
      /\ \A m \in A \ {g, p}, t \in Side :
            child'[m][t] = IF child[m][t] = g THEN p ELSE child[m][t]
      /\ child'[Sentinel] = child[Sentinel]
  BY GrandRotated
<1>c. /\ \A t \in Side : child'[g][t] = Sentinel
      /\ child'[p][s] = e /\ child'[p][o] = g /\ child'[Sentinel] = child[Sentinel]
      /\ \A m \in A \ {g, p}, t \in Side :
            child'[m][t] = IF child[m][t] = g THEN p ELSE child[m][t]
  BY <1>1
<1>r. root' = IF g = root THEN p ELSE root
  BY <1>1
<1>u. key' = key /\ count' = count
  OBVIOUS
<1>2. /\ o \in Side /\ s \in Side /\ o # s /\ \A t \in Side : t = s \/ t = o
      /\ p \in A /\ g \in A /\ p # g /\ red[p] /\ ~red[g]
      /\ child[g][s] = p /\ child[g][o] = Sentinel /\ child[p][o] = Sentinel
      /\ A \in SUBSET Nodes /\ Sentinel \notin Nodes /\ A \subseteq Ptr /\ Sentinel \in Ptr
      /\ e # Sentinel => e \in A \ {g, p} /\ red[e] /\ \A t \in Side : child[e][t] = Sentinel
  BY SideFacts, LinkedFacts, Pointers DEF LowPair
<1>3. \A n \in A, t \in Side :
         /\ child[n][t] \in A \cup {Sentinel}
         /\ child[n][t] # Sentinel => parent[child[n][t]] = n /\ child[n][Opp(t)] # child[n][t]
  BY DEF Linked
<1>4. RotatedIn(A, child, child', g, p, s, e)
  <2>1. \A m, n \in A, v, w \in Side :
           child[m][v] = child[n][w] /\ child[m][v] # Sentinel => m = n /\ v = w
    BY LinkedFacts
  <2> QED
    BY <2>1, <1>1, <1>2, <1>3 DEF RotatedIn
<1>5. Swapped(A, red, red', g, p, e)
  BY <1>1, <1>2 DEF Swapped, TypeOK
<1>6. /\ Reach(child, g)  = {g, p} \cup ({e} \cap Nodes)
      /\ Reach(child', g) = {g}
      /\ Reach(child', p) = {g, p} \cup ({e} \cap Nodes)
      /\ \A q \in A \ {g, p} : Reach(child', q) = Reach(child, q)
  BY <1>4, ReachLow
<1>7. root \in A /\ root # p
  <2>1. root \in A /\ root # Sentinel
    BY <1>2, ReachFacts DEF Linked, Attached, Subtree
  <2>2. parent[root] = Null /\ g # Null
    <3>1. g # Null
      BY <1>2, Pointers
    <3> QED
      BY <2>1, <3>1 DEF Linked
  <2>3. parent[p] = g
    BY <1>2, <1>3
  <2> QED
    BY <2>1, <2>2, <2>3
<1>8. Attached' = A /\ Reach(child', root') = Reach(child, root)
  BY <1>1, <1>6, <1>7 DEF Attached, Subtree
<1>9. TypeOK' /\ SentinelIsBlack'
  <2>1. TypeOK'
    BY <1>1, <1>2 DEF TypeOK, locals
  <2>2. Sentinel \notin {g, p}
    BY <1>2
  <2> QED
    BY <1>1, <1>2, <2>1, <2>2 DEF SentinelIsBlack, TypeOK
<1>10. \A m \in A : /\ m \notin {g, p} => parent'[m] = parent[m]
                    /\ m = g => parent'[m] = p
                    /\ m = p => parent'[m] = parent[g]
  BY <1>1, <1>2 DEF TypeOK
<1>11. \A m \in A, t \in Side : child[m][t] = p => m = g
  BY <1>2, <1>3
<1>12. Linked'
  <2>1. \A n \in A, t \in Side : child'[n][t] \in A \cup {Sentinel}
    BY <1>c, <1>2, <1>3
  <2>2. ASSUME NEW n \in A, NEW t \in Side, child'[n][t] # Sentinel
        PROVE  parent'[child'[n][t]] = n /\ child'[n][Opp(t)] # child'[n][t]
    <3>t. Opp(t) \in Side /\ (t = s => Opp(t) = o) /\ (t = o => Opp(t) = s)
      BY <1>2, SideFacts
    <3>1. CASE n = g
      BY <3>1, <2>2, <1>c
    <3>2. CASE n = p /\ t = o
      BY <3>2, <3>t, <1>c, <1>2, <1>10
    <3>3. CASE n = p /\ t = s
      BY <3>3, <3>t, <2>2, <1>c, <1>2, <1>3, <1>10
    <3>4. CASE n \notin {g, p} /\ child[n][t] = g
      <4>1. child'[n][t] = p /\ parent'[p] = n
        BY <3>4, <1>c, <1>2, <1>3, <1>10
      <4>2. child[n][Opp(t)] # g /\ child[n][Opp(t)] # p
        BY <3>4, <3>t, <1>2, <1>3, <1>11
      <4> QED
        BY <4>1, <4>2, <3>4, <3>t, <1>c
    <3>5. CASE n \notin {g, p} /\ child[n][t] # g
      <4>1. child'[n][t] = child[n][t] /\ child[n][t] \in A \ {g, p}
        BY <3>5, <2>2, <1>c, <1>3, <1>11
      <4>2. parent'[child'[n][t]] = n
        BY <4>1, <1>3, <1>10, <1>2
      <4>3. child[n][Opp(t)] # child[n][t] /\ child'[n][Opp(t)] \in {p, child[n][Opp(t)]}
        BY <4>1, <3>5, <3>t, <1>c, <1>2, <1>3
      <4> QED
        BY <4>1, <4>2, <4>3
    <3> QED
      BY <3>1, <3>2, <3>3, <3>4, <3>5, <1>2
  <2>3. A \subseteq 1 .. count /\ \A n \in A : key[n] \in Keys
    BY DEF Linked
  <2>4. root' \in A /\ parent'[root'] = Null
    <3>1. parent[root] = Null
      BY <1>2, <1>7 DEF Linked
    <3> QED
      BY <3>1, <1>r, <1>2, <1>7, <1>10
  <2>5. \A t \in Side : child[Sentinel][t] \in (1 .. count) \cup {Null} /\ child[Sentinel][t] \notin A
    BY DEF Linked
  <2> QED
    BY <2>1, <2>2, <2>3, <2>4, <2>5, <1>c, <1>u, <1>8 DEF Linked
<1>13. LowNodesIn(A, child', red', Sentinel)
  BY <1>4, <1>5, LowRotated DEF LowNodes
<1>14. Ordered'
  <2> SUFFICES ASSUME NEW n \in A, NEW t \in Side, NEW m \in Reach(child', child'[n][t])
               PROVE  InOrder(n, t, m)
    BY <1>8 DEF Ordered, Subtree, InOrder
  <2>0. \A q \in A, v \in Side : \A l \in Reach(child, child[q][v]) : InOrder(q, v, l)
    BY DEF Ordered, Subtree
  <2>1. CASE n = g
    BY <2>1, <1>c, <1>2, ReachFacts
  <2>2. CASE n = p /\ t = s
    <3>1. e \in A \ {g, p}
      BY <2>2, <1>c, <1>2, ReachFacts
    <3>2. m \in Reach(child, child[p][s])
      BY <3>1, <2>2, <1>c, <1>6
    <3> QED
      BY <2>0, <2>2, <3>2, <1>2
  <2>3. CASE n = p /\ t = o
    <3>1. m = g
      BY <2>3, <1>c, <1>6
    <3>2. p \in Reach(child, child[g][s])
      BY <1>2, ReachFacts
    <3>3. InOrder(g, s, p)
      BY <2>0, <3>2, <1>2
    <3> QED
      BY <2>3, <3>1, <3>3 DEF InOrder, Opp, Side
  <2>4. CASE n \notin {g, p}
    <3>1. m \in Reach(child, child[n][t])
      <4>1. CASE child[n][t] = g
        BY <4>1, <2>4, <1>c, <1>6
      <4>2. CASE child[n][t] = Sentinel
        BY <4>2, <2>4, <1>c, <1>2, ReachFacts
      <4>3. CASE child[n][t] \notin {g, Sentinel}
        <5>1. child[n][t] \in A \ {g, p}
          BY <4>3, <2>4, <1>3, <1>11
        <5> QED
          BY <5>1, <4>3, <2>4, <1>c, <1>6
      <4> QED
        BY <4>1, <4>2, <4>3
    <3> QED
      BY <2>0, <3>1
  <2> QED
    BY <2>1, <2>2, <2>3, <2>4, <1>2
<1>15. Balanced'
  <2>1. \A n \in A : Cardinality(AboveIn(child', root', red', n))
                     = Cardinality(AboveIn(child, root, red, n))
    BY <1>4, <1>5, <1>8, AboveRotated DEF Attached, Subtree
  <2>2. \A n \in A : (\E t \in Side : child'[n][t] = Sentinel) =>
                        \E t \in Side : child[n][t] = Sentinel
    BY <1>c, <1>2
  <2>3. A = Reach(child, root) /\ A = Reach(child', root')
    BY <1>8 DEF Attached, Subtree
  <2>4. \A n \in Reach(child', root') : (\E t \in Side : child'[n][t] = Sentinel) =>
           \E m \in Reach(child, root) :
              /\ \E t \in Side : child[m][t] = Sentinel
              /\ Cardinality(AboveIn(child', root', red', n))
                    = Cardinality(AboveIn(child, root, red, m))
    BY <2>1, <2>2, <2>3
  <2>5. DepthsIn(child', root', red') \subseteq DepthsIn(child, root, red)
    BY <2>4, DepthsFrom
  <2> QED
    BY <2>5, DepthsAre DEF Balanced
<1> QED
  BY <1>1, <1>8, <1>9, <1>12, <1>13, <1>14, <1>15

LEMMA OuterRotated ==
    ASSUME IInv, OuterRotate
    PROVE  IInv' /\ Attached' = Attached /\ ~Rebalancing'
<1> DEFINE p == Parent
           g == Grand
           s == ParentSide
<1>1. /\ Rebalancing /\ ~red[Uncle] /\ ~IsInner /\ RotateGrand(p, g, s)
      /\ UNCHANGED <<key, count, locals>> /\ pc' = pc
  BY DEF OuterRotate
<1>2. /\ TypeOK /\ SentinelIsBlack /\ Linked /\ LowNodes /\ Ordered /\ Balanced /\ Settling
      /\ pc = "rebalance"
  BY <1>1 DEF IInv, TreeInv, Rebalancing
<1>3. LowPair(p, g, s) /\ child[p][s] = x
  BY <1>1, OuterPair
<1>4. Unsettled = x
  BY <1>1 DEF Unsettled
<1>5. x \in Attached /\ x \notin {g, p} /\ key[x] \in Keys /\ p \in Ptr /\ g \in Ptr /\ p # g
      /\ x \in Ptr
  BY <1>1, <1>2, AroundX, LinkedFacts, Pointers
<1>6. /\ TypeOK' /\ SentinelIsBlack' /\ Linked' /\ Ordered' /\ Balanced'
      /\ LowNodesIn(Attached, child', red', Sentinel)
      /\ Attached' = Attached
      /\ parent' = [parent EXCEPT ![g] = p, ![p] = parent[g]]
      /\ red' = [red EXCEPT ![p] = FALSE, ![g] = TRUE]
  <2>1. child[p][s] = Unsettled /\ (Rebalancing => x \notin {g, p})
    BY <1>3, <1>4, <1>5
  <2>2. UNCHANGED <<key, count, locals>> /\ pc' = "rebalance" /\ pc \in {"rebalance", "outer"}
    BY <1>1, <1>2
  <2> QED
    BY <1>1, <1>2, <1>3, <2>1, <2>2, RotatedTree
<1>7. parent'[x] = p /\ ~red'[p] /\ x' = x /\ key' = key
  BY <1>1, <1>2, <1>5, <1>6 DEF TypeOK, Parent, locals
<1>8. ~Rebalancing' /\ Unsettled' = Sentinel
  BY <1>7 DEF Rebalancing, Unsettled
<1>9. LowNodes' /\ RootIsBlack'
  BY <1>1, <1>2, <1>6, <1>8 DEF LowNodes, RootIsBlack
<1>10. Settling'
  BY <1>5, <1>6, <1>7, <1>8 DEF Settling, Inside
<1> QED
  BY <1>1, <1>2, <1>6, <1>8, <1>9, <1>10 DEF IInv, TreeInv

LEMMA OuterAfterInnerRotated ==
    ASSUME IInv, OuterAfterInner
    PROVE  IInv' /\ Attached' = Attached /\ ~Rebalancing'
<1> DEFINE p == par
           g == grand
           s == side
<1>1. /\ pc = "outer" /\ RotateGrand(p, g, s) /\ pc' = "rebalance"
      /\ UNCHANGED <<key, count, locals>>
  BY DEF OuterAfterInner
<1>2. /\ TypeOK /\ SentinelIsBlack /\ Linked /\ LowNodes /\ Ordered /\ Balanced /\ Rotating
  BY <1>1 DEF IInv, TreeInv
<1>3. LowPair(p, g, s) /\ child[p][s] = Sentinel
  BY <1>1, RotatingPair
<1>4. ~Rebalancing /\ Unsettled = Sentinel
  BY <1>1 DEF Unsettled, Rebalancing
<1>5. /\ x \notin Attached /\ p \in Attached /\ g \in Attached /\ parent[x] = Sentinel
      /\ key[x] \in Keys /\ Inside /\ p \in Ptr /\ g \in Ptr /\ x \in Ptr /\ p # g
  BY <1>1, <1>2, <1>3, LinkedFacts, Pointers DEF Rotating, TypeOK, LowPair
<1>6. /\ TypeOK' /\ SentinelIsBlack' /\ Linked' /\ Ordered' /\ Balanced'
      /\ LowNodesIn(Attached, child', red', Sentinel)
      /\ Attached' = Attached
      /\ parent' = [parent EXCEPT ![g] = p, ![p] = parent[g]]
      /\ red' = [red EXCEPT ![p] = FALSE, ![g] = TRUE]
  <2>1. child[p][s] = Unsettled /\ (Rebalancing => x \notin {g, p})
    BY <1>3, <1>4
  <2>2. UNCHANGED <<key, count, locals>> /\ pc' = "rebalance" /\ pc \in {"rebalance", "outer"}
    BY <1>1
  <2> QED
    BY <1>1, <1>2, <1>3, <2>1, <2>2, RotatedTree
<1>7. parent'[x] = Sentinel /\ ~red'[Sentinel] /\ x' = x /\ key' = key
  BY <1>1, <1>2, <1>5, <1>6 DEF TypeOK, locals, SentinelIsBlack
<1>8. ~Rebalancing' /\ Unsettled' = Sentinel
  BY <1>7 DEF Rebalancing, Unsettled
<1>9. LowNodes' /\ RootIsBlack'
  BY <1>1, <1>6, <1>8 DEF LowNodes, RootIsBlack
<1>10. Settling'
  BY <1>5, <1>6, <1>7, <1>8 DEF Settling, Inside
<1> QED
  BY <1>1, <1>6, <1>8, <1>9, <1>10 DEF IInv, TreeInv

-----------------------------------------------------------------------------
(* The end of the call *)

LEMMA Finished ==
    ASSUME IInv, Finish
    PROVE  IInv' /\ Attached' = Attached
<1>1. /\ pc = "rebalance" /\ red' = [red EXCEPT ![root] = FALSE] /\ pc' = "idle"
      /\ UNCHANGED <<root, key, child, parent, count>> /\ ~Rebalancing /\ NoLocals
  BY DEF Finish, Rebalancing
<1>2. /\ TypeOK /\ SentinelIsBlack /\ Linked /\ LowNodes /\ Ordered /\ Balanced /\ Settling
  BY <1>1 DEF IInv, TreeInv
<1>3. root \in Attached /\ Attached \in SUBSET Nodes /\ Sentinel \notin Nodes
  <2>1. Attached # {}
    BY <1>2 DEF Settling, Inside
  <2> QED
    BY <2>1, <1>2, LinkedFacts, ReachFacts, Pointers DEF Linked, Attached, Subtree
<1>4. TypeOK' /\ SentinelIsBlack'
  BY <1>1, <1>2, <1>3 DEF TypeOK, SentinelIsBlack, NoLocals, Side
<1>5. Attached' = Attached /\ \A q : Subtree(q)' = Subtree(q)
  BY <1>1 DEF Attached, Subtree
<1>6. Linked' /\ Ordered'
  BY <1>1, <1>2, <1>5 DEF Linked, Ordered, InOrder, Subtree
<1>7. ~red'[root] /\ \A n \in Nodes \ {root} : red'[n] = red[n]
  BY <1>1, <1>2, <1>3, Pointers DEF TypeOK
<1>8. RootIsBlack'
  BY <1>1, <1>7 DEF RootIsBlack
<1>9. LowNodes'
  <2>1. Unsettled = Sentinel /\ Unsettled' = Sentinel
    BY <1>1 DEF Unsettled, Rebalancing
  <2>2. \A n \in Attached, v \in Side : child[n][v] # root /\ Opp(v) \in Side
    BY <1>2, <1>3, Pointers, SideFacts DEF Linked, TypeOK
  <2>3. \A n \in Attached, v \in Side :
           LowIn(child, red, Sentinel, child[n][v]) =>
              /\ LowIn(child, red, Sentinel, child[n][Opp(v)])
              /\ RedLeafIn(child, red, Sentinel, child[n][v]) => ~red[n]
    BY <1>2, <2>1 DEF LowNodes, LowNodesIn
  <2>4. \A n \in Attached, v \in Side :
           /\ LowIn(child, red', Sentinel, child[n][v]) <=> LowIn(child, red, Sentinel, child[n][v])
           /\ RedLeafIn(child, red', Sentinel, child[n][v])
                 <=> RedLeafIn(child, red, Sentinel, child[n][v])
    BY <1>7, <2>2 DEF LowIn, RedLeafIn
  <2>5. LowNodesIn(Attached, child, red', Sentinel)
    BY <1>3, <1>7, <2>2, <2>3, <2>4 DEF LowNodesIn
  <2> QED
    BY <1>1, <1>5, <2>1, <2>5 DEF LowNodes
<1>10. Balanced'
  <2> DEFINE Old(n) == AboveIn(child, root, red, n)
             New(n) == AboveIn(child, root, red', n)
  <2>1. CASE ~red[root]
    <3>1. \A n \in Attached : red'[n] <=> red[n]
      BY <1>3, <1>7, <2>1
    <3>2. \A n : New(n) = Old(n)
      BY <3>1 DEF AboveIn, Attached, Subtree
    <3>3. SlotDepths' = SlotDepths
      BY <1>1, <3>2, DepthsAre DEF DepthsIn
    <3> QED
      BY <3>3, <1>2 DEF Balanced
  <2>2. CASE red[root]
    <3>1. ASSUME NEW n \in Attached
          PROVE  Cardinality(New(n)) = Cardinality(Old(n)) + 1 /\ Cardinality(Old(n)) \in Nat
      <4>1. New(n) = Old(n) \cup {root} /\ root \notin Old(n)
        BY <1>3, <1>7, <2>2 DEF AboveIn, Attached, Subtree
      <4> QED
        BY <4>1, AboveFinite, FS_AddElement
    <3>2. \A d \in DepthsIn(child, root, red') : d - 1 \in DepthsIn(child, root, red) /\ d \in Int
      BY <3>1 DEF DepthsIn, Attached, Subtree
    <3> QED
      BY <3>2, <1>1, <1>2, DepthsAre DEF Balanced
  <2> QED
    BY <2>1, <2>2
<1> QED
  BY <1>1, <1>4, <1>5, <1>6, <1>8, <1>9, <1>10 DEF IInv, TreeInv

\* Where references are checked the program may stop in the middle: what it has
\* of the tree then is not used again.
LEMMA Stopped ==
    ASSUME IInv, StopOnNullReference
    PROVE  IInv' /\ Attached' = Attached
<1>1. /\ UNCHANGED <<root, key, child, parent, red, count, locals>> /\ pc' = "stopped"
  BY DEF StopOnNullReference
<1>2. TypeOK' /\ SentinelIsBlack'
  BY <1>1 DEF IInv, TypeOK, SentinelIsBlack, locals
<1>3. TreeInv' /\ Attached' = Attached
  BY <1>1 DEF TreeInv, Attached, Subtree
<1> QED
  BY <1>2, <1>3 DEF IInv

LEMMA Stuttered ==
    ASSUME IInv, UNCHANGED vars
    PROVE  IInv' /\ Attached' = Attached
<1>1. /\ UNCHANGED <<root, key, child, parent, red, count, pc, x, node, cur, par, grand, side>>
  BY DEF vars, locals
<1>2. TypeOK' /\ SentinelIsBlack'
  BY <1>1 DEF IInv, TypeOK, SentinelIsBlack
<1>3. Attached' = Attached /\ SlotDepths' = SlotDepths /\ \A q : Subtree(q)' = Subtree(q)
  BY <1>1, TreeUnchanged
<1>4. /\ Linked => Linked'
      /\ LowNodes => LowNodes'
      /\ RootIsBlack => RootIsBlack'
      /\ Ordered => Ordered'
      /\ Balanced => Balanced'
  BY <1>1, <1>3 DEF Linked, LowNodes, Unsettled, RootIsBlack, Rebalancing, Ordered, InOrder,
                    Subtree, Balanced
<1>5. /\ Descending => Descending'
      /\ Settling => Settling'
      /\ Rotating => Rotating'
  BY <1>1, <1>3 DEF Descending, Settling, Rotating, Inside, Fits, Rebalancing, Subtree, Turn
<1> QED
  BY <1>1, <1>2, <1>3, <1>4, <1>5 DEF IInv, TreeInv

LEMMA Started ==
    ASSUME Init
    PROVE  IInv /\ Attached = {}
<1>1. TypeOK /\ SentinelIsBlack
  BY MaxNodesAssumption, Pointers DEF Init, TypeOK, SentinelIsBlack, Side
<1>2. Attached = {}
  BY ReachFacts, Pointers DEF Init, Attached, Subtree
<1>3. Linked
  BY <1>2, Pointers DEF Linked, Init, Null
<1>4. LowNodes /\ RootIsBlack /\ Ordered /\ Balanced
  BY <1>1, <1>2 DEF LowNodes, LowNodesIn, RootIsBlack, Ordered, Balanced, SlotDepths, Init, SentinelIsBlack
<1> QED
  BY <1>1, <1>2, <1>3, <1>4 DEF IInv, TreeInv, Init

-----------------------------------------------------------------------------
(* The theorems *)

LEMMA NextIInv ==
    ASSUME IInv, [Next]_vars
    PROVE  IInv'
<1>1. CASE \E k \in Keys : InsertFirst(k) \/ InsertBegin(k)
  BY <1>1, Inserted, Begun
<1>2. CASE Descend
  BY <1>2, Descended
<1>3. CASE Attach
  BY <1>3, Hung
<1>4. CASE Recolour
  BY <1>4, Recoloured
<1>5. CASE InnerRotate
  BY <1>5, Dropped
<1>6. CASE OuterRotate
  BY <1>6, OuterRotated
<1>7. CASE OuterAfterInner
  BY <1>7, OuterAfterInnerRotated
<1>8. CASE Finish
  BY <1>8, Finished
<1>9. CASE StopOnNullReference
  BY <1>9, Stopped
<1>10. CASE UNCHANGED vars
  BY <1>10, Stuttered
<1> QED
  BY <1>1, <1>2, <1>3, <1>4, <1>5, <1>6, <1>7, <1>8, <1>9, <1>10 DEF Next, InsertStep

\* The inductive invariant: the shape of the tree in the middle of a call of
\* hsakmt_rbtree_insert.
THEOREM TreeInvariant == Spec => []IInv
<1>1. Init => IInv
  BY Started
<1>2. IInv /\ [Next]_vars => IInv'
  BY NextIInv
<1> QED
  BY <1>1, <1>2, PTL DEF Spec

\* Every field and local of the tree keeps its type: while a node is inserted,
\* the pointers the descent and the loop move are nodes and not the sentinel.
THEOREM TreeTypes == Spec => []TypeOK
<1>1. IInv => TypeOK
  BY DEF IInv
<1> QED
  BY <1>1, TreeInvariant, PTL

\* The loop of hsakmt_rbtree_insert reads through nodes of the tree only, and the
\* sentinel it shares with every leaf stays black, whatever it was re-parented to.
THEOREM LoopReadsAreValid == Spec => []ReadsAreValid
<1>1. IInv => ReadsAreValid
  <2> SUFFICES ASSUME IInv, Rebalancing
               PROVE  /\ Parent \in Nodes
                      /\ Grand \in Nodes
                      /\ Uncle \in Ptr
                      /\ ParentSide = "right" => Parent = child[Grand]["right"]
    BY DEF ReadsAreValid, IInv
  <2>1. TypeOK /\ Linked
    BY DEF IInv, TreeInv, Rebalancing
  <2>2. Parent \in Nodes /\ Grand \in Nodes
    BY <2>1, AroundX, LinkedFacts
  <2>3. Uncle \in Ptr
    BY <2>1, <2>2, AroundX, LinkedFacts, Pointers
  <2>4. child[Grand][ParentSide] = Parent
    BY AroundX
  <2> QED
    BY <2>2, <2>3, <2>4
<1> QED
  BY <1>1, TreeInvariant, PTL

\* Between calls every child's parent is the one node and side that points to it,
\* and the root is black and has no parent: hsakmt_rbtree_prev and the deletion
\* can climb.
THEOREM LinksStayAgreed == Spec => []LinksAgree
<1>1. IInv => LinksAgree
  <2> SUFFICES ASSUME IInv, pc = "idle"
               PROVE  /\ root \in Nodes => parent[root] = Null /\ ~red[root]
                      /\ \A n \in Attached, s \in Side :
                            /\ child[n][s] \in Ptr
                            /\ child[n][s] # Sentinel =>
                                  parent[child[n][s]] = n /\ child[n][Opp(s)] # child[n][s]
    BY DEF LinksAgree
  <2>1. TypeOK /\ Linked /\ RootIsBlack
    BY DEF IInv, TreeInv
  <2>2. \A n \in Attached, s \in Side : child[n][s] \in Ptr
    BY <2>1, LinkedFacts, Pointers DEF Linked
  <2> QED
    BY <2>1, <2>2, Pointers DEF Linked, RootIsBlack
<1> QED
  BY <1>1, TreeInvariant, PTL

\* Between calls the tree is a search tree and every path to a free slot has the
\* same number of black nodes, though a call runs its loop once at most, never
\* carries a recolouring up and may drop a node.
THEOREM TreeStaysSorted == Spec => []OrderAndBalance
<1>1. IInv => OrderAndBalance
  <2> SUFFICES ASSUME IInv, pc = "idle"
               PROVE  SearchOrder /\ BlackHeightsAgree
    BY DEF OrderAndBalance, SearchOrder, BlackHeightsAgree
  <2>1. Ordered /\ Balanced
    BY DEF IInv, TreeInv
  <2> QED
    BY <2>1 DEF SearchOrder, BlackHeightsAgree, Ordered, InOrder, Balanced, Side
<1> QED
  BY <1>1, TreeInvariant, PTL

\* A call runs the loop once at most: after a recolouring or a rotation its
\* condition, which reads the parent of the inserted node, is false.
OneRound == [][Rebalancing \/ pc = "outer" => ~Rebalancing']_vars

THEOREM LoopRunsOnce == Spec => OneRound
<1>1. IInv /\ [Next]_vars => [Rebalancing \/ pc = "outer" => ~Rebalancing']_vars
  <2> SUFFICES ASSUME IInv, Next, Rebalancing \/ pc = "outer"
               PROVE  ~Rebalancing'
    OBVIOUS
  <2>1. pc \in {"rebalance", "outer"} /\ (Rebalancing => node # root /\ red[parent[x]])
    BY DEF Rebalancing
  <2>2. CASE Recolour
    BY <2>2, Recoloured
  <2>3. CASE InnerRotate
    BY <2>3 DEF InnerRotate, Rebalancing
  <2>4. CASE OuterRotate
    BY <2>4, OuterRotated
  <2>5. CASE OuterAfterInner
    BY <2>5, OuterAfterInnerRotated
  <2>6. CASE Finish \/ StopOnNullReference
    BY <2>6 DEF Finish, StopOnNullReference, Rebalancing
  <2>7. ~Descend /\ ~Attach /\ \A k \in Keys : ~InsertFirst(k) /\ ~InsertBegin(k)
    BY <2>1 DEF Descend, Attach, InsertFirst, InsertBegin
  <2> QED
    BY <2>2, <2>3, <2>4, <2>5, <2>6, <2>7 DEF Next, InsertStep
<1> QED
  BY <1>1, TreeInvariant, PTL DEF Spec, OneRound

LEMMA NotAtAnEnd ==
    ASSUME TypeOK, Linked, key[x] \in Keys, Inside, x \notin Attached,
           Held = Attached
    PROVE  ~Index!AtAnEnd(key[x])
<1>1. \A n \in Attached : KeyCompare(key[x], key[n]) < 0 <=> Index!KeyLess(key[x], key[n])
  <2> SUFFICES ASSUME NEW n \in Attached
               PROVE  KeyCompare(key[x], key[n]) < 0 <=> Index!KeyLess(key[x], key[n])
    OBVIOUS
  <2>1. /\ key[n].addr \in Int /\ key[n].size \in Int
        /\ key[x].addr \in Int /\ key[x].size \in Int
    BY KeysAssumption DEF Linked
  <2> QED
    BY <2>1 DEF KeyCompare, Index!KeyLess
<1>2. \A n \in Attached : KeyCompare(key[x], key[n]) \in Int
  BY DEF KeyCompare
<1>3. PICK m, n \in Attached : /\ KeyCompare(key[x], key[m]) < 0
                               /\ KeyCompare(key[x], key[n]) >= 0
  BY DEF Inside
<1> DEFINE o(l) == [id |-> l, key |-> key[l]]
<1>4. /\ o(m) \in {[id |-> l, key |-> key[l]] : l \in Held}
      /\ o(n) \in {[id |-> l, key |-> key[l]] : l \in Held}
      /\ o(m).key = key[m] /\ o(n).key = key[n]
  OBVIOUS
<1>5. Index!KeyLess(key[x], key[m]) /\ ~Index!KeyLess(key[x], key[n])
  BY <1>1, <1>2, <1>3
<1> QED
  BY <1>4, <1>5 DEF Index!AtAnEnd

\* Where neither the nodes held nor their keys change, the index does not.
LEMMA SameIndex ==
    ASSUME Held' = Held, \A n \in Held : key'[n] = key[n],
           (IF Running THEN count - 1 ELSE count)' = IF Running THEN count - 1 ELSE count
    PROVE  UNCHANGED Index!indexVars
BY DEF Index!indexVars

LEMMA IndexStep ==
    ASSUME IInv, [Next]_vars
    PROVE  [Index!IndexNext]_(Index!indexVars)
<1> USE DEF Running
<1>t. TypeOK /\ IInv'
  BY NextIInv DEF IInv
<1>1. ASSUME NEW k \in Keys, InsertFirst(k)
      PROVE  Index!Add(k)
  <2>1. /\ pc = "idle" /\ pc' = "idle" /\ count < MaxNodes /\ count' = count + 1
        /\ key' = [key EXCEPT ![count + 1] = k] /\ count + 1 \in Ptr
    BY <1>1, <1>t, MaxNodesAssumption DEF InsertFirst, TypeOK, Ptr, Nodes
  <2>2. Held = {} /\ Held' = {count + 1}
    BY <1>1, <2>1, Inserted DEF Held
  <2>3. key'[count + 1] = k
    BY <2>1, <1>t DEF TypeOK
  <2> QED
    BY <2>1, <2>2, <2>3 DEF Index!Add
<1>2. ASSUME NEW k \in Keys, InsertBegin(k)
      PROVE  UNCHANGED Index!indexVars
  <2>1. /\ pc = "idle" /\ pc' = "descend" /\ count' = count + 1 /\ x' = count + 1
        /\ key' = [key EXCEPT ![count + 1] = k]
    BY <1>2 DEF InsertBegin
  <2>2. Attached' = Attached /\ x' \notin Attached
    BY <1>2, Begun
  <2>3. Held = Attached /\ Held' = Attached
    BY <2>1, <2>2 DEF Held
  <2>4. \A n \in Held : key'[n] = key[n]
    BY <2>1, <2>2, <2>3, <1>t, ReachFacts DEF TypeOK, Attached, Subtree, Ptr
  <2>5. count \in Int
    BY <1>t DEF TypeOK
  <2> QED
    BY <2>1, <2>3, <2>4, <2>5, SameIndex
<1>3. ASSUME Descend \/ Attach \/ Recolour \/ InnerRotate \/ OuterRotate \/ OuterAfterInner
             \/ StopOnNullReference
      PROVE  UNCHANGED Index!indexVars
  <2>1. Attached' \ {x} = Attached \ {x}
    BY <1>3, Descended, Hung, Recoloured, Dropped, OuterRotated, OuterAfterInnerRotated, Stopped
  <2>2. /\ pc \in {"descend", "rebalance", "outer"}
        /\ pc' \in {"descend", "rebalance", "outer", "stopped"}
        /\ x' = x /\ key' = key /\ count' = count
    BY <1>3 DEF Descend, Attach, Recolour, InnerRotate, OuterRotate, OuterAfterInner,
                StopOnNullReference, Rebalancing, locals
  <2>3. Held' = Held
    BY <2>1, <2>2 DEF Held
  <2> QED
    BY <2>2, <2>3, SameIndex
<1>4. ASSUME Finish
      PROVE  Index!IndexNext
  <2>1. /\ pc = "rebalance" /\ pc' = "idle" /\ key' = key /\ count' = count
        /\ Attached' = Attached
    BY <1>4, Finished DEF Finish
  <2>2. Held = Attached \ {x} /\ Held' = Attached
    BY <2>1 DEF Held
  <2>3. key[x] \in Keys /\ Inside /\ Linked
    BY <2>1 DEF IInv, TreeInv, Settling
  <2>4. x = count /\ count \in 1 .. MaxNodes
    BY <2>1, <1>t DEF TypeOK, Nodes
  <2>5. CASE x \in Attached
    <3>1. {[id |-> n, key |-> key[n]] : n \in Attached}
            = {[id |-> n, key |-> key[n]] : n \in Attached \ {x}} \cup {[id |-> x, key |-> key[x]]}
      BY <2>5
    <3>2. PICK k \in Keys : k = key[x]
      BY <2>3
    <3>3. Index!Add(k)
      BY <2>1, <2>2, <2>4, <3>1, <3>2, MaxNodesAssumption DEF Index!Add
    <3> QED
      BY <3>3 DEF Index!IndexNext
  <2>6. CASE x \notin Attached
    <3>1. Held = Attached /\ Held' = Held
      BY <2>2, <2>6
    <3>2. ~Index!AtAnEnd(key[x])
      BY <1>t, <2>3, <2>6, <3>1, NotAtAnEnd
    <3>3. Index!Lose(key[x])
      BY <2>1, <2>4, <3>1, <3>2, MaxNodesAssumption DEF Index!Lose
    <3> QED
      BY <2>3, <3>3 DEF Index!IndexNext
  <2> QED
    BY <2>5, <2>6
<1>5. CASE UNCHANGED vars
  <2>1. Attached' = Attached /\ UNCHANGED <<key, count, pc, x>>
    BY <1>5, Stuttered DEF vars, locals
  <2>2. Held' = Held
    BY <2>1 DEF Held
  <2> QED
    BY <2>1, <2>2, SameIndex
<1> QED
  BY <1>1, <1>2, <1>3, <1>4, <1>5 DEF Next, InsertStep, Index!IndexNext

\* The tree of hsakmt_rbtree_insert implements the index: a call adds its object
\* and no other is touched, or, where the key lies strictly inside the range of
\* the others, loses it.
THEOREM TreeImplementsIndex == Spec => ImplementsIndex
<1>1. Init => Index!IndexInit
  <2> SUFFICES ASSUME Init PROVE Index!IndexInit
    OBVIOUS
  <2>1. pc = "idle" /\ count = 0 /\ Attached = {}
    BY Started DEF Init
  <2> QED
    BY <2>1 DEF Index!IndexInit, Held, Running
<1>2. IInv /\ [Next]_vars => [Index!IndexNext]_(Index!indexVars)
  BY IndexStep
<1> QED
  BY <1>1, <1>2, TreeInvariant, PTL DEF Spec, ImplementsIndex, Index!IndexSpec
=============================================================================
