---------------------------- MODULE VmSearchProofs --------------------------
(***************************************************************************)
(* Theorems about VmSearch, for every number of nodes, every set of keys   *)
(* and every address: the walk stays between its ends, prev returns the    *)
(* predecessor, and a search misses only what FindsCovering names.         *)
(*                                                                         *)
(* `Before' is the order of the tree, which has a place for equal keys: a  *)
(* node is before another if some node has the one on its left and the     *)
(* other on its right, and is perhaps one of them.  The walk goes down     *)
(* this order and the keys follow it.  What a loop over the nodes returns  *)
(* is shown at the last node of the set where it is wrong (LastIn).        *)
(***************************************************************************)
EXTENDS VmSearch, RBTreeProofs

Below(p, s)   == Subtree(child[p][s])
Beside(m, n, s) ==
    /\ m # n
    /\ \E a \in Attached : m \in {a} \cup Below(a, s) /\ n \in {a} \cup Below(a, Opp(s))
Before(m, n)  == Beside(m, n, "left")

-----------------------------------------------------------------------------
(* The order of the tree *)

\* Every set of nodes has one with no child in it: the children in a set in
\* which each node has one are as many as the nodes, so the root is among them.
LEMMA LastIn ==
    ASSUME TypeOK, Linked, NEW S \in SUBSET Attached, S # {}
    PROVE  \E q \in S : \A s \in Side : child[q][s] \notin S
<1> SUFFICES ASSUME \A q \in S : \E s \in Side : child[q][s] \in S
             PROVE  FALSE
  OBVIOUS
<1> DEFINE f == [q \in S |-> child[q][CHOOSE s \in Side : child[q][s] \in S]]
<1>1. \A q \in S : f[q] \in S /\ \E s \in Side : f[q] = child[q][s]
  OBVIOUS
<1>2. S \subseteq Nodes /\ Sentinel \notin S /\ IsFiniteSet(S)
  BY LinkedFacts, Pointers, FS_Subset
<1>3. \A m, n \in Attached, s, t \in Side :
         child[m][s] = child[n][t] /\ child[m][s] # Sentinel => m = n
  BY LinkedFacts
<1>4. \A m, n \in S : f[m] = f[n] => m = n
  BY <1>1, <1>2, <1>3
<1>5. f \in Surjection(S, S)
  <2>1. f \in Injection(S, S)
    BY <1>1, <1>4 DEF Injection, IsInjective
  <2> QED
    BY <2>1, <1>2, FS_Injection
<1>6. \A q \in S : \E m \in S : f[m] = q
  BY <1>5 DEF Surjection
<1>7. Closed(Attached \ S, child)
  <2> SUFFICES ASSUME NEW m \in Attached \ S, NEW s \in Side, child[m][s] \in S
               PROVE  FALSE
    BY LinkedFacts DEF Closed
  <2>1. PICK n \in S : f[n] = child[m][s]
    BY <1>6
  <2>2. PICK t \in Side : child[n][t] = child[m][s]
    BY <2>1, <1>1
  <2> QED
    BY <2>2, <1>2, <1>3
<1>8. root \notin S
  <2>1. ASSUME root \in S
        PROVE  FALSE
    <3>1. PICK n \in S, s \in Side : child[n][s] = root
      BY <2>1, <1>6, <1>1
    <3>2. root \in Subtree(child[n][s])
      BY <2>1, <3>1, <1>2, ReachFacts DEF Subtree
    <3> QED
      BY <3>2, LinkedFacts
  <2> QED
    BY <2>1
<1>9. Attached \subseteq Attached \ S
  <2>1. root \in Attached \ S \/ root \notin Nodes
    BY <1>8, ReachFacts DEF Attached, Subtree
  <2>2. Attached \ S \in SUBSET Nodes
    BY LinkedFacts
  <2> HIDE DEF f
  <2> QED
    BY <2>1, <2>2, <1>7, ReachLeast DEF Attached, Subtree
<1> QED
  BY <1>9

\* What is below a node is on one of its sides, and never the node itself.
LEMMA BelowFacts ==
    ASSUME TypeOK, Linked, NEW p \in Attached
    PROVE  /\ p \in Subtree(p) /\ Subtree(p) \subseteq Attached
           /\ \A s \in Side : /\ child[p][s] \in Attached \cup {Sentinel}
                              /\ Below(p, s) \subseteq Subtree(p) \ {p}
                              /\ child[p][s] # Sentinel => child[p][s] \in Below(p, s)
                              /\ child[p][s] = Sentinel => Below(p, s) = {}
           /\ \A m \in Subtree(p) : m = p \/ \E s \in Side : m \in Below(p, s)
<1>1. p \in Nodes /\ p \in Subtree(p) /\ Subtree(p) \subseteq Attached
  BY LinkedFacts, ReachFacts DEF Subtree
<1>2. ASSUME NEW s \in Side
      PROVE  /\ child[p][s] \in Attached \cup {Sentinel}
             /\ child[p][s] # Sentinel => child[p][s] \in Below(p, s)
             /\ child[p][s] = Sentinel => Below(p, s) = {}
             /\ Below(p, s) \subseteq Subtree(p)
  <2>1. child[p][s] \in Attached \cup {Sentinel} /\ Attached \subseteq Nodes
    BY LinkedFacts DEF Linked
  <2>2. child[p][s] # Sentinel => child[p][s] \in Subtree(p)
    BY <1>1, <2>1, ReachFacts DEF Subtree
  <2> QED
    BY <2>1, <2>2, ReachFacts, ReachTrans, Pointers DEF Below, Subtree
<1>3. ASSUME NEW s \in Side, p \in Below(p, s)
      PROVE  FALSE
  <2> DEFINE B == Below(p, s)
  <2>1. B \subseteq Attached /\ child[p][s] \in Attached /\ child[p][s] \in B
    BY <1>1, <1>2, <1>3
  <2>2. \A m \in Attached, t \in Side : child[m][t] \in B => m \in B
    <3> SUFFICES ASSUME NEW m \in Attached, NEW t \in Side, child[m][t] \in B
                 PROVE  m \in B
      OBVIOUS
    <3>1. child[m][t] # Sentinel
      BY <2>1, LinkedFacts, Pointers
    <3>2. CASE child[m][t] = child[p][s]
      BY <3>1, <3>2, <1>3, LinkedFacts
    <3>3. CASE child[m][t] # child[p][s]
      <4>1. PICK n \in B, v \in Side : child[n][v] = child[m][t]
        BY <3>3, ReachPred DEF Below, Subtree
      <4> QED
        BY <4>1, <3>1, <2>1, LinkedFacts
    <3> QED
      BY <3>2, <3>3
  <2>3. root \notin B
    BY LinkedFacts DEF Below
  <2>4. Attached \subseteq Attached \ B
    <3>1. Closed(Attached \ B, child) /\ Attached \ B \in SUBSET Nodes
      BY <2>2, LinkedFacts DEF Closed
    <3>2. root \in Attached \ B \/ root \notin Nodes
      BY <2>3, ReachFacts DEF Attached, Subtree
    <3> QED
      BY <3>1, <3>2, ReachLeast DEF Attached, Subtree
  <2> QED
    BY <2>1, <2>4
<1>4. ASSUME NEW m \in Subtree(p), m # p
      PROVE  \E s \in Side : m \in Below(p, s)
  <2> DEFINE S == {p} \cup {n \in Nodes : \E s \in Side : n \in Below(p, s)}
  <2>1. Closed(S, child)
    <3> SUFFICES ASSUME NEW n \in S, NEW t \in Side, child[n][t] \in Nodes
                 PROVE  \E s \in Side : child[n][t] \in Below(p, s)
      BY DEF Closed
    <3>1. CASE n = p
      BY <3>1, <1>2, Pointers
    <3>2. CASE n # p
      BY <3>2, ReachFacts DEF Below, Subtree
    <3> QED
      BY <3>1, <3>2
  <2>2. Subtree(p) \subseteq S
    BY <2>1, <1>1, ReachLeast DEF Subtree
  <2> QED
    BY <2>2, <1>4
<1> QED
  BY <1>1, <1>2, <1>3, <1>4

\* A node that is below the parent of another is that parent's other child, or
\* further up: only the parent has the child below it.
LEMMA ParentBelow ==
    ASSUME TypeOK, Linked, NEW a \in Attached, NEW s \in Side,
           NEW b \in Attached, NEW t \in Side,
           child[b][t] # Sentinel, child[b][t] \in Below(a, s)
    PROVE  b \in Below(a, s) \/ (b = a /\ t = s)
<1>1. \A m, n \in Attached, u, v \in Side :
         child[m][u] = child[n][v] /\ child[m][u] # Sentinel => m = n /\ u = v
  BY LinkedFacts
<1>2. CASE child[b][t] = child[a][s]
  BY <1>2, <1>1
<1>3. CASE child[b][t] # child[a][s]
  <2>1. PICK m \in Below(a, s), u \in Side : child[m][u] = child[b][t]
    BY <1>3, ReachPred DEF Below, Subtree
  <2>2. m \in Attached
    BY <2>1, BelowFacts
  <2> QED
    BY <2>1, <2>2, <1>1
<1> QED
  BY <1>2, <1>3

LEMMA SidesApart ==
    ASSUME TypeOK, Linked, NEW a \in Attached, NEW s \in Side
    PROVE  Below(a, s) \cap Below(a, Opp(s)) = {}
<1> DEFINE c == child[a][s]
           S == Below(a, s) \ Below(a, Opp(s))
<1>1. Opp(s) \in Side /\ Opp(s) # s
  BY SideFacts
<1>2. /\ Below(a, s) \subseteq Attached \ {a} /\ Below(a, Opp(s)) \subseteq Attached \ {a}
      /\ Attached \subseteq Nodes
  BY <1>1, BelowFacts, LinkedFacts
<1>3. c = Sentinel \/ c \in S
  BY <1>1, <1>2, BelowFacts, ParentBelow
<1>4. Closed(S, child)
  <2> SUFFICES ASSUME NEW m \in S, NEW t \in Side, child[m][t] \in Nodes
               PROVE  child[m][t] \in S
    BY DEF Closed
  <2>1. child[m][t] \in Below(a, s)
    BY ReachFacts DEF Below, Subtree
  <2>2. m \in Attached /\ m # a /\ child[m][t] # Sentinel
    BY <1>2, Pointers
  <2> QED
    BY <2>1, <2>2, <1>1, ParentBelow
<1>5. Below(a, s) \subseteq S
  <2>1. c \in S \/ c \notin Nodes
    BY <1>3, Pointers
  <2>2. S \in SUBSET Nodes
    BY <1>2
  <2> QED
    BY <2>1, <2>2, <1>4, ReachLeast DEF Below, Subtree
<1> QED
  BY <1>5

\* Of two nodes one is on the left of the other: of the nodes that have both
\* below them, the last has them on different sides, or is one of them.
LEMMA BesideTotal ==
    ASSUME TypeOK, Linked, NEW m \in Attached, NEW n \in Attached, m # n
    PROVE  Before(m, n) \/ Before(n, m)
<1> DEFINE S == {a \in Attached : m \in Subtree(a) /\ n \in Subtree(a)}
<1>1. root \in S
  <2>1. root \in Attached
    BY Pointers, ReachFacts DEF Attached, Subtree, Linked
  <2> QED
    BY <2>1 DEF Attached
<1>2. PICK a \in S : \A s \in Side : child[a][s] \notin S
  BY <1>1, LastIn
<1>3. a \in Attached /\ m \in Subtree(a) /\ n \in Subtree(a)
  OBVIOUS
<1>4. \A s \in Side : ~(m \in Below(a, s) /\ n \in Below(a, s))
  BY <1>2, <1>3, BelowFacts DEF Below
<1>5. /\ m = a \/ \E s \in Side : m \in Below(a, s)
      /\ n = a \/ \E s \in Side : n \in Below(a, s)
  BY <1>3, BelowFacts
<1>6. Side = {"left", "right"} /\ Opp("left") = "right"
  BY DEF Side, Opp
<1> QED
  BY <1>3, <1>4, <1>5, <1>6 DEF Before, Beside

\* Keys follow the order of the tree.
KeysTyped == \A n \in Attached : key[n].addr \in Nat /\ key[n].size \in Int

LEMMA Typed ==
    ASSUME Linked
    PROVE  KeysTyped /\ \A n \in Attached : key[n].size > 0
BY KeysAssumption, SizesAssumption DEF KeysTyped, Linked

LEMMA KeysFollow ==
    ASSUME TypeOK, Linked, Ordered, NEW m \in Attached, NEW n \in Attached, Before(m, n)
    PROVE  AtMost(key[m], key[n])
<1>1. PICK a \in Attached : m \in {a} \cup Below(a, "left") /\ n \in {a} \cup Below(a, "right")
  BY DEF Before, Beside, Opp
<1>2. "left" \in Side /\ "right" \in Side /\ "left" # "right"
  BY DEF Side
<1>3. AtMost(key[m], key[a])
  <2>1. CASE m = a
    BY <2>1, Typed DEF KeysTyped, AtMost, KeyCompare
  <2>2. CASE m \in Below(a, "left")
    BY <2>2, <1>2 DEF Ordered, InOrder, Below
  <2> QED
    BY <1>1, <2>1, <2>2
<1>4. AtMost(key[a], key[n])
  <2>1. CASE n = a
    BY <2>1, Typed DEF KeysTyped, AtMost, KeyCompare
  <2>2. CASE n \in Below(a, "right")
    BY <2>2, <1>2 DEF Ordered, InOrder, Below
  <2> QED
    BY <1>1, <2>1, <2>2
<1>5. KeysTyped
  BY Typed
<1> QED
  BY <1>3, <1>4, <1>5 DEF KeysTyped, AtMost, KeyCompare

-----------------------------------------------------------------------------
(* The loops of rbtree_amd.rs.  Walked(q, s, P) are the nodes met from q on  *)
(* side s by a loop that goes on at the nodes of P.                          *)

Links(s, P)     == [m \in Ptr |-> [t \in Side |-> IF t = s /\ m \in P THEN child[m][t] ELSE Sentinel]]
Walked(q, s, P) == Reach(Links(s, P), q)

LEMMA WalkedFacts ==
    ASSUME TypeOK, Linked, NEW q \in Attached, NEW s \in Side, NEW P
    PROVE  /\ Walked(q, s, P) \subseteq Subtree(q)
           /\ q \notin P \/ child[q][s] = Sentinel => Walked(q, s, P) = {q}
           /\ q \in P /\ child[q][s] # Sentinel =>
                 Walked(q, s, P) = {q} \cup Walked(child[q][s], s, P)
<1> DEFINE ch == Links(s, P)
           c  == child[q][s]
<1>1. /\ Attached \subseteq Nodes /\ Attached \subseteq Ptr /\ q \in Nodes /\ Sentinel \notin Nodes
      /\ Nodes \subseteq Ptr
  BY LinkedFacts, Pointers
<1>2. \A m \in Nodes, t \in Side :
         ch[m][t] = IF t = s /\ m \in P THEN child[m][t] ELSE Sentinel
  BY <1>1 DEF Links
<1> HIDE DEF ch
<1>3. Reach(ch, q) \subseteq Subtree(q)
  <2>1. Closed(Subtree(q), ch)
    BY <1>1, <1>2, ReachFacts DEF Closed, Subtree
  <2>2. q \in Subtree(q) /\ Subtree(q) \in SUBSET Nodes
    BY <1>1, ReachFacts DEF Subtree
  <2> QED
    BY <2>1, <2>2, ReachLeast
<1>4. CASE q \notin P \/ c = Sentinel
  <2>1. \A t \in Side : ch[q][t] \notin Nodes
    BY <1>1, <1>2, <1>4
  <2> QED
    BY <1>3, <1>4, <2>1, <1>1, ReachLeaf DEF Walked, ch
<1>5. CASE q \in P /\ c # Sentinel
  <2>1. c \in Nodes /\ ch[q][s] = c
    BY <1>1, <1>2, <1>5, BelowFacts
  <2>2. {q} \cup Reach(ch, c) \in SUBSET Nodes /\ Closed({q} \cup Reach(ch, c), ch)
    <3>1. \A t \in Side : ch[q][t] \in Nodes => ch[q][t] = c
      BY <1>1, <1>2
    <3> QED
      BY <3>1, <2>1, <1>1, ReachFacts DEF Closed
  <2>3. Reach(ch, q) \subseteq {q} \cup Reach(ch, c)
    BY <2>2, ReachLeast
  <2>4. {q} \cup Reach(ch, c) \subseteq Reach(ch, q)
    <3>1. q \in Reach(ch, q) /\ c \in Reach(ch, q)
      BY <1>1, <2>1, ReachFacts
    <3> QED
      BY <3>1, ReachTrans
  <2> QED
    BY <1>3, <1>5, <2>3, <2>4 DEF Walked, ch
<1> QED
  BY <1>4, <1>5

\* The loop of rbtree_min and rbtree_max has a result at every node.
EndOf(f, s) == f = [q \in Attached |-> IF child[q][s] = Sentinel THEN q ELSE f[child[q][s]]]

LEMMA EndExists ==
    ASSUME TypeOK, Linked, NEW s \in Side
    PROVE  \E f : EndOf(f, s)
<1> DEFINE W(q)  == {e \in Walked(q, s, Ptr) : child[e][s] = Sentinel}
           f == [q \in Attached |-> CHOOSE e \in W(q) : TRUE]
<1>1. ASSUME NEW q \in Attached
      PROVE  f[q] = IF child[q][s] = Sentinel THEN q ELSE f[child[q][s]]
  <2>1. q \in Ptr
    BY LinkedFacts, Pointers
  <2>2. CASE child[q][s] = Sentinel
    <3>1. W(q) = {q}
      BY <2>2, WalkedFacts
    <3> QED
      BY <3>1, <2>2
  <2>3. CASE child[q][s] # Sentinel
    <3>1. W(q) = W(child[q][s])
      BY <2>1, <2>3, WalkedFacts
    <3>2. child[q][s] \in Attached
      BY <2>3, BelowFacts
    <3> QED
      BY <3>1, <3>2, <2>3
  <2> QED
    BY <2>2, <2>3
<1> HIDE DEF f
<1>2. f = [q \in Attached |-> f[q]]
  BY DEF f
<1> QED
  BY <1>1, <1>2 DEF EndOf

LEMMA OutOfBelow ==
    ASSUME TypeOK, Linked, NEW a \in Attached, NEW s \in Side, NEW m \in Below(a, s), NEW t \in Side
    PROVE  Below(m, t) \subseteq Below(a, s)
<1>1. m \in Attached
  BY BelowFacts
<1>2. Below(m, t) \subseteq Subtree(m)
  BY <1>1, BelowFacts
<1> QED
  BY <1>2, ReachTrans DEF Below, Subtree

\* The end of a side has every other node on its other side, and is itself on
\* that side of none.
IsEnd(e, p, s) ==
    /\ e \in Subtree(p) /\ child[e][s] = Sentinel
    /\ \A m \in Subtree(p) \ {e} : Beside(e, m, s)
    /\ \A m \in Subtree(p) : e \notin Below(m, Opp(s))

LEMMA Ends ==
    ASSUME TypeOK, Linked, NEW p \in Attached, NEW s \in Side
    PROVE  IsEnd(Extreme(p, s), p, s)
<1>1. PICK f : EndOf(f, s) /\ Extreme(p, s) = f[p]
  <2>1. \E f : EndOf(f, s)
    BY EndExists
  <2> QED
    BY <2>1, Zenon DEF Extreme, EndOf
<1> DEFINE G == {q \in Attached : ~IsEnd(f[q], q, s)}
<1>2. ASSUME NEW q \in Attached, child[q][s] \notin G
      PROVE  IsEnd(f[q], q, s)
  <2>0. f[q] = IF child[q][s] = Sentinel THEN q ELSE f[child[q][s]]
    BY <1>1 DEF EndOf
  <2>1. /\ q \in Subtree(q) /\ Opp(s) \in Side /\ \A t \in Side : t = s \/ t = Opp(s)
        /\ Below(q, s) \subseteq Subtree(q) \ {q} /\ Below(q, Opp(s)) \subseteq Subtree(q) \ {q}
        /\ Below(q, s) \cap Below(q, Opp(s)) = {}
    BY BelowFacts, SideFacts, SidesApart
  <2>2. \A m \in Subtree(q) : m = q \/ m \in Below(q, s) \/ m \in Below(q, Opp(s))
    BY <2>1, BelowFacts
  <2>3. CASE child[q][s] = Sentinel
    <3>1. Below(q, s) = {} /\ f[q] = q
      BY <2>3, <2>0, BelowFacts
    <3>2. QED
      <4>1. \A m \in Subtree(q) : q \notin Below(m, Opp(s))
        BY <3>1, <2>1, <2>2, OutOfBelow
      <4> QED
        BY <4>1, <3>1, <2>1, <2>2, <2>3 DEF IsEnd, Beside
  <2>4. CASE child[q][s] # Sentinel
    <3> DEFINE e == f[q]
    <3>1. IsEnd(e, child[q][s], s)
      BY <2>0, <2>4, <1>2, BelowFacts
    <3>2. /\ e \in Below(q, s) /\ child[e][s] = Sentinel
          /\ \A m \in Below(q, s) \ {e} : Beside(e, m, s)
          /\ \A m \in Below(q, s) : e \notin Below(m, Opp(s))
      BY <3>1 DEF IsEnd, Below
    <3> HIDE DEF e
    <3>3. ASSUME NEW m \in Subtree(q) \ {e}
          PROVE  Beside(e, m, s)
      BY <2>1, <2>2, <3>2 DEF Beside
    <3>4. ASSUME NEW m \in Subtree(q)
          PROVE  e \notin Below(m, Opp(s))
      BY <2>1, <2>2, <3>2, OutOfBelow
    <3> QED
      BY <3>2, <3>3, <3>4, <2>1 DEF IsEnd, e
  <2> QED
    BY <2>3, <2>4
<1>3. G = {}
  <2>1. ASSUME G # {}
        PROVE  FALSE
    <3>1. PICK q \in G : \A t \in Side : child[q][t] \notin G
      BY <2>1, LastIn
    <3> QED
      BY <3>1, <1>2
  <2> QED
    BY <2>1
<1> QED
  BY <1>1, <1>3

\* The loop of rbtree_lookup_nearest has a result, too.
Passes(k) == {p \in Ptr : KeyCompare(k, key[p]) < 0}

WalkOf(f, k, s) ==
    f = [p \in Attached \cup {Sentinel} |->
            IF p = Sentinel THEN Null
            ELSE CASE KeyCompare(k, key[p]) < 0 ->
                        IF s = "right" /\ f[child[p]["left"]] = Null
                        THEN p ELSE f[child[p]["left"]]
                   [] KeyCompare(k, key[p]) > 0 -> IF s = "left" THEN p ELSE Null
                   [] OTHER -> p]

\* Its result from p on: the node where it ends, if that is taken, or the last
\* that it passed.
Hits(k, s, p) ==
    {e \in Walked(p, "left", Passes(k)) : e \notin Passes(k) /\ (s = "left" \/ KeyCompare(k, key[e]) <= 0)}
Lasts(k, p) ==
    {e \in Walked(p, "left", Passes(k)) : e \in Passes(k) /\ child[e]["left"] \notin Passes(k) \cap Attached}
Taken(k, s, p) ==
    IF p = Sentinel THEN Null
    ELSE IF Hits(k, s, p) # {} THEN CHOOSE e \in Hits(k, s, p) : TRUE
    ELSE IF s = "right" /\ Lasts(k, p) # {} THEN CHOOSE e \in Lasts(k, p) : TRUE
    ELSE Null

LEMMA LastPassed ==
    ASSUME TypeOK, Linked, NEW k, NEW p \in Attached, p \in Passes(k)
    PROVE  Lasts(k, p) # {}
<1> DEFINE P == Passes(k)
           S == Walked(p, "left", P) \cap P
<1>1. "left" \in Side
  BY DEF Side
<1>2. S \subseteq Attached /\ p \in S
  <2>1. p \in Walked(p, "left", P)
    BY LinkedFacts, ReachFacts DEF Walked
  <2> QED
    BY <2>1, <1>1, WalkedFacts, BelowFacts
<1>3. PICK q \in S : \A s \in Side : child[q][s] \notin S
  BY <1>2, LastIn
<1>4. child[q]["left"] \notin P \cap Attached
  <2> SUFFICES ASSUME child[q]["left"] \in P \cap Attached
               PROVE  FALSE
    OBVIOUS
  <2>1. /\ q \in Nodes /\ q \in Ptr /\ child[q]["left"] \in Nodes
    BY <1>2, LinkedFacts, Pointers
  <2>2. Links("left", P)[q]["left"] = child[q]["left"]
    BY <2>1, <1>1 DEF Links
  <2>3. child[q]["left"] \in Walked(p, "left", P)
    BY <2>1, <2>2, <1>1, ReachFacts DEF Walked
  <2> QED
    BY <2>3, <1>1, <1>3
<1> QED
  BY <1>2, <1>4 DEF Lasts

LEMMA WalkExists ==
    ASSUME TypeOK, Linked, NEW k \in [addr : Nat, size : Int], NEW s \in Side
    PROVE  \E f : WalkOf(f, k, s)
<1> DEFINE P == Passes(k)
           D == Attached \cup {Sentinel}
           f == [p \in D |-> Taken(k, s, p)]
<1>0. /\ "left" \in Side /\ Sentinel \notin Attached /\ Attached \subseteq Ptr
      /\ Null \notin Attached
  BY LinkedFacts, Pointers DEF Side
<1>1. ASSUME NEW p \in Attached
      PROVE  f[p] = CASE KeyCompare(k, key[p]) < 0 ->
                           IF s = "right" /\ f[child[p]["left"]] = Null
                           THEN p ELSE f[child[p]["left"]]
                      [] KeyCompare(k, key[p]) > 0 -> IF s = "left" THEN p ELSE Null
                      [] OTHER -> p
  <2> DEFINE c == child[p]["left"]
  <2>1. p \in P <=> KeyCompare(k, key[p]) < 0
    BY <1>0 DEF Passes
  <2>2. c \in D
    BY <1>0, BelowFacts
  <2>0. KeyCompare(k, key[p]) \in {-1, 0, 1}
    BY DEF KeyCompare
  <2>3. ASSUME p \notin P
        PROVE  f[p] = IF s = "left" \/ KeyCompare(k, key[p]) <= 0 THEN p ELSE Null
    <3>1. Walked(p, "left", P) = {p}
      BY <2>3, <1>0, WalkedFacts
    <3>2. Lasts(k, p) = {}
      BY <3>1, <2>3 DEF Lasts
    <3>3. Hits(k, s, p) = IF s = "left" \/ KeyCompare(k, key[p]) <= 0 THEN {p} ELSE {}
      BY <3>1, <2>3 DEF Hits
    <3> QED
      BY <3>2, <3>3, <1>0 DEF Taken
  <2>4. ASSUME p \in P, c = Sentinel
        PROVE  f[p] = IF s = "right" /\ f[c] = Null THEN p ELSE f[c]
    <3>1. Walked(p, "left", P) = {p}
      BY <2>4, <1>0, WalkedFacts
    <3>2. Hits(k, s, p) = {} /\ Lasts(k, p) = {p}
      BY <3>1, <2>4, <1>0 DEF Hits, Lasts
    <3>3. f[p] = IF s = "right" THEN p ELSE Null
      BY <3>2, <1>0 DEF Taken
    <3>4. f[c] = Null
      BY <2>4 DEF Taken
    <3> QED
      BY <3>3, <3>4
  <2>5. ASSUME p \in P, c # Sentinel
        PROVE  f[p] = IF s = "right" /\ f[c] = Null THEN p ELSE f[c]
    <3>1. c \in Attached /\ Walked(p, "left", P) = {p} \cup Walked(c, "left", P)
      BY <2>2, <2>5, <1>0, WalkedFacts
    <3>2. Hits(k, s, p) = Hits(k, s, c)
      BY <3>1, <2>5 DEF Hits
    <3>3. /\ Hits(k, s, c) \subseteq Attached
          /\ Lasts(k, c) \subseteq Attached
      <4>1. Walked(c, "left", P) \subseteq Attached
        BY <3>1, <1>0, WalkedFacts, BelowFacts
      <4> QED
        BY <4>1 DEF Hits, Lasts
    <3>4. CASE Hits(k, s, c) # {}
      <4>1. f[p] = f[c] /\ f[c] \in Hits(k, s, c)
        BY <3>1, <3>2, <3>4, <1>0 DEF Taken
      <4> QED
        BY <4>1, <3>3, <1>0
    <3>5. CASE Hits(k, s, c) = {} /\ s # "right"
      BY <3>1, <3>2, <3>5, <1>0 DEF Taken
    <3>6. CASE Hits(k, s, c) = {} /\ s = "right" /\ c \in P
      <4>1. Lasts(k, p) = Lasts(k, c) /\ Lasts(k, c) # {}
        BY <3>1, <3>6, LastPassed DEF Lasts
      <4>2. f[p] = f[c] /\ f[c] \in Lasts(k, c)
        BY <3>1, <3>2, <3>6, <4>1, <1>0 DEF Taken
      <4> QED
        BY <4>2, <3>3, <1>0
    <3>7. CASE Hits(k, s, c) = {} /\ s = "right" /\ c \notin P
      <4>1. Walked(c, "left", P) = {c}
        BY <3>1, <3>7, <1>0, WalkedFacts
      <4>2. Lasts(k, c) = {} /\ Lasts(k, p) = {p}
        BY <4>1, <3>1, <3>7, <2>5 DEF Lasts
      <4>3. f[p] = p /\ f[c] = Null
        BY <3>1, <3>2, <3>7, <4>2, <1>0 DEF Taken
      <4> QED
        BY <4>3, <3>7
    <3> QED
      BY <3>4, <3>5, <3>6, <3>7
  <2> QED
    BY <2>0, <2>1, <2>3, <2>4, <2>5
<1>2. f[Sentinel] = Null
  BY DEF Taken
<1>3. f = [p \in D |-> f[p]]
  OBVIOUS
<1> HIDE DEF f
<1> QED
  BY <1>0, <1>1, <1>2, <1>3, Zenon DEF WalkOf

\* What the look-up returns: a node on the side that was asked for, and to the
\* left nothing only where there is none.
Found(r, p, k, s) ==
    /\ r \in Attached \cup {Null}
    /\ r # Null /\ s = "left"  => KeyCompare(k, key[r]) >= 0
    /\ r # Null /\ s = "right" => KeyCompare(k, key[r]) <= 0
    /\ r = Null /\ s = "left"  => \A m \in Subtree(p) : KeyCompare(k, key[m]) < 0

LEMMA Nearest ==
    ASSUME TypeOK, Linked, Ordered, NEW k \in [addr : Nat, size : Int], NEW s \in Side
    PROVE  Found(LookupNearest(k, s), root, k, s)
<1>1. PICK f : WalkOf(f, k, s) /\ LookupNearest(k, s) = f[root]
  <2>1. \E f : WalkOf(f, k, s)
    BY WalkExists
  <2> DEFINE f == CHOOSE f : WalkOf(f, k, s)
  <2>2. WalkOf(f, k, s)
    BY <2>1
  <2>3. LookupNearest(k, s) = f[root]
    BY Zenon DEF LookupNearest, WalkOf
  <2> QED
    BY <2>2, <2>3
<1> DEFINE G == {p \in Attached : ~Found(f[p], p, k, s)}
<1>2. f[Sentinel] = Null
  BY <1>1 DEF WalkOf
<1>3. ASSUME NEW p \in Attached, child[p]["left"] \notin G
      PROVE  Found(f[p], p, k, s)
  <2> DEFINE c == child[p]["left"]
  <2>1. /\ KeyCompare(k, key[p]) \in {-1, 0, 1} /\ p # Sentinel /\ p # Null /\ Sentinel \notin Attached
        /\ Side = {"left", "right"} /\ "left" # "right"
    BY LinkedFacts, Pointers DEF KeyCompare, Side
  <2>2. f[p] = CASE KeyCompare(k, key[p]) < 0 ->
                           IF s = "right" /\ f[c] = Null THEN p ELSE f[c]
                      [] KeyCompare(k, key[p]) > 0 -> IF s = "left" THEN p ELSE Null
                      [] OTHER -> p
    BY <1>1, <2>1 DEF WalkOf
  <2>3. CASE KeyCompare(k, key[p]) >= 0
    <3>1. f[p] = IF s = "left" \/ KeyCompare(k, key[p]) = 0 THEN p ELSE Null
      BY <2>1, <2>2, <2>3
    <3> QED
      BY <3>1, <2>1, <2>3 DEF Found
  <2>4. CASE KeyCompare(k, key[p]) < 0
    <3>1. f[p] = IF s = "right" /\ f[c] = Null THEN p ELSE f[c]
      BY <2>1, <2>2, <2>4
    <3>2. /\ f[c] \in Attached \cup {Null}
          /\ f[c] # Null /\ s = "left"  => KeyCompare(k, key[f[c]]) >= 0
          /\ f[c] # Null /\ s = "right" => KeyCompare(k, key[f[c]]) <= 0
          /\ f[c] = Null /\ s = "left"  => \A m \in Below(p, "left") : KeyCompare(k, key[m]) < 0
      <4>1. c \in Attached \cup {Sentinel} /\ (c = Sentinel => Below(p, "left") = {})
        BY <2>1, BelowFacts
      <4>2. CASE c = Sentinel
        BY <4>1, <4>2, <1>2
      <4>3. CASE c # Sentinel
        BY <4>1, <4>3, <1>3 DEF Found, Below
      <4> QED
        BY <4>2, <4>3
    <3>3. \A m \in Below(p, "right") : KeyCompare(k, key[m]) < 0
      <4>1. \A m \in Below(p, "right") : m \in Attached /\ AtMost(key[p], key[m])
        <5>1. "right" \in Side /\ Below(p, "right") \subseteq Attached
          BY <2>1, BelowFacts
        <5> QED
          BY <5>1, <2>1 DEF Ordered, InOrder, Below
      <4> QED
        BY <4>1, <2>4, Typed DEF KeysTyped, AtMost, KeyCompare
    <3>4. \A m \in Subtree(p) : m = p \/ m \in Below(p, "left") \/ m \in Below(p, "right")
      BY <2>1, BelowFacts
    <3> QED
      BY <3>1, <3>2, <3>3, <3>4, <2>1, <2>4 DEF Found
  <2> QED
    BY <2>1, <2>3, <2>4
<1>4. G = {}
  <2>1. ASSUME G # {}
        PROVE  FALSE
    <3>1. PICK q \in G : \A t \in Side : child[q][t] \notin G
      BY <2>1, LastIn
    <3> QED
      BY <3>1, <1>3 DEF Side
  <2> QED
    BY <2>1
<1>5. CASE root = Sentinel
  <2>1. Subtree(root) = {}
    BY <1>5, Pointers, ReachFacts DEF Subtree
  <2> QED
    BY <2>1, <1>1, <1>2, <1>5 DEF Found
<1>6. CASE root # Sentinel
  BY <1>1, <1>4, <1>6 DEF Linked
<1> QED
  BY <1>5, <1>6

-----------------------------------------------------------------------------
(* One step back in the order of the tree *)

\* The last node on the left below r comes just before r.
LEMMA LastBelow ==
    ASSUME TypeOK, Linked, NEW r \in Attached, child[r]["left"] # Sentinel,
           NEW e, e = Extreme(child[r]["left"], "right")
    PROVE  /\ e \in Attached /\ Before(e, r)
           /\ \A m \in Attached : Before(m, r) => m = e \/ Before(m, e)
<1>1. "left" \in Side /\ "right" \in Side /\ Opp("left") = "right" /\ Opp("right") = "left"
  BY DEF Side, Opp
<1>2. child[r]["left"] \in Attached /\ r \notin Below(r, "left") /\ Below(r, "left") \subseteq Attached
  BY <1>1, BelowFacts
<1>3. e \in Below(r, "left") /\ \A m \in Below(r, "left") \ {e} : Beside(e, m, "right")
  BY <1>1, <1>2, Ends DEF IsEnd, Below
<1>4. ASSUME NEW m \in Attached, Before(m, r), m # e
      PROVE  Before(m, e)
  <2>1. PICK a \in Attached : m \in {a} \cup Below(a, "left") /\ r \in {a} \cup Below(a, "right")
    BY <1>1, <1>4 DEF Before, Beside
  <2>2. CASE a = r
    BY <1>1, <1>3, <1>4, <2>1, <2>2 DEF Before, Beside
  <2>3. CASE a # r
    <3>1. e \in Below(a, "right")
      BY <1>1, <1>3, <2>1, <2>3, OutOfBelow
    <3> QED
      BY <1>1, <1>4, <2>1, <3>1 DEF Before, Beside
  <2> QED
    BY <2>2, <2>3
<1> QED
  BY <1>1, <1>2, <1>3, <1>4 DEF Before, Beside

\* Where there is nothing below it on the left, the node of which r is the right
\* child does.
LEMMA ParentBefore ==
    ASSUME TypeOK, Linked, NEW b \in Attached, NEW r \in Attached,
           r = child[b]["right"], child[r]["left"] = Sentinel
    PROVE  /\ Before(b, r)
           /\ \A m \in Attached : Before(m, r) => m = b \/ Before(m, b)
<1>1. /\ "left" \in Side /\ "right" \in Side /\ Opp("left") = "right" /\ r # Sentinel
      /\ Opp("right") = "left"
  BY LinkedFacts, Pointers DEF Side, Opp
<1>2. r \in Below(b, "right") /\ b # r /\ Below(r, "left") = {}
  BY <1>1, BelowFacts
<1>3. ASSUME NEW m \in Attached, Before(m, r), m # b
      PROVE  Before(m, b)
  <2>1. PICK a \in Attached : m \in {a} \cup Below(a, "left") /\ r \in {a} \cup Below(a, "right")
    BY <1>1, <1>3 DEF Before, Beside
  <2>2. a # r
    BY <1>2, <1>3, <2>1 DEF Before, Beside
  <2>3. b \in Below(a, "right") \/ b = a
    BY <1>1, <2>1, <2>2, ParentBelow
  <2> QED
    BY <1>1, <1>3, <2>1, <2>3 DEF Before, Beside
<1> QED
  BY <1>1, <1>2, <1>3 DEF Before, Beside

\* With nothing below it on the left, the root and its left child are first.
LEMMA NoneBefore ==
    ASSUME TypeOK, Linked, NEW r \in Attached, child[r]["left"] = Sentinel,
           r = root \/ r = child[root]["left"], NEW m \in Attached
    PROVE  ~Before(m, r)
<1> SUFFICES ASSUME Before(m, r)
             PROVE  FALSE
  OBVIOUS
<1>1. /\ "left" \in Side /\ "right" \in Side /\ Opp("left") = "right" /\ r # Sentinel
      /\ "left" # "right"
  BY LinkedFacts, Pointers DEF Side, Opp
<1>2. PICK a \in Attached : m \in {a} \cup Below(a, "left") /\ r \in {a} \cup Below(a, "right")
  BY <1>1 DEF Before, Beside
<1>3. a # r
  <2>1. Below(r, "left") = {}
    BY <1>1, BelowFacts
  <2> QED
    BY <1>2, <2>1 DEF Before, Beside
<1>4. root \notin Below(a, "right") /\ root \in Attached
  <2>1. root \in Attached
    BY Pointers, ReachFacts DEF Attached, Subtree, Linked
  <2> QED
    BY <1>1, <2>1, LinkedFacts DEF Below
<1>5. CASE r = root
  BY <1>2, <1>3, <1>4, <1>5
<1>6. CASE r = child[root]["left"]
  BY <1>1, <1>2, <1>3, <1>4, <1>6, ParentBelow
<1> QED
  BY <1>5, <1>6

-----------------------------------------------------------------------------
(* The invariant of the search *)

LeftOf(ch, A, m, n) ==
    /\ m # n
    /\ \E a \in A : m \in {a} \cup Reach(ch, ch[a]["left"]) /\ n \in {a} \cup Reach(ch, ch[a]["right"])

Holds(k, a) == k.addr <= a /\ a < k.addr + k.size

\* The walk goes from rn to ln; before ln there is nothing, for a user pointer,
\* and otherwise only what an object that starts at or before the address hides.
WalkEnds(A, ch, ky, r, l, a, u) ==
    /\ r \in A /\ l \in A /\ (l = r \/ LeftOf(ch, A, l, r))
    /\ IF u THEN \A m \in A : ~LeftOf(ch, A, m, l) ELSE ky[l].addr <= a

\* What covers the address is still ahead of the walk.
Ahead(A, ch, ky, r, a) ==
    \A m \in A : Holds(ky[m], a) => m = r \/ LeftOf(ch, A, m, r) \/ Holds(ky[r], a)

\* Inside prev: the node it was called with is not the end of the walk; above it
\* `node' stays at its parent.
Climbing(A, ch, pa, r, l, n) ==
    /\ r # l
    /\ \/ n = r
       \/ n = pa[r] /\ n \in A /\ r = ch[n]["left"] /\ ch[r]["left"] = Sentinel

SearchInv ==
    /\ IInv
    /\ phase \in {"none", "scan", "prev", "done"}
    /\ address \in Addresses \cup {0} /\ userptr \in BOOLEAN
    /\ phase # "none" => pc = "idle"
    /\ found \in Attached \cup {Null} /\ (phase # "done" => found = Null)
    /\ phase \in {"scan", "prev"} =>
          /\ WalkEnds(Attached, child, key, rn, ln, address, userptr)
          /\ Ahead(Attached, child, key, rn, address)
    /\ phase = "prev" =>
          /\ ~Holds(key[rn], address)
          /\ Climbing(Attached, child, parent, rn, ln, at)
    /\ FindsCovering

LEMMA BeforeIs ==
    /\ \A m, n : Before(m, n) <=> LeftOf(child, Attached, m, n)
    /\ \A n, a : Covers(n, a) <=> Holds(key[n], a)
BY DEF Before, Beside, LeftOf, Below, Subtree, Opp, Covers, Holds

LEMMA Resting ==
    ASSUME IInv, pc = "idle"
    PROVE  TypeOK /\ Linked /\ Ordered /\ KeysTyped
BY Typed DEF IInv, TreeInv

LEMMA RestingTree ==
    ASSUME UNCHANGED vars, IInv
    PROVE  IInv' /\ Attached' = Attached
BY Stuttered, TreeUnchanged DEF vars, locals

\* The ends of a walk that starts.
LEMMA StartsBetween ==
    ASSUME IInv, pc = "idle", NEW a \in Nat, NEW u \in BOOLEAN,
           NEW r, r = RightEnd(a), NEW l, l = LeftEnd(a, u), l # Null
    PROVE  WalkEnds(Attached, child, key, r, l, a, u) /\ Ahead(Attached, child, key, r, a)
<1>1. /\ TypeOK /\ Linked /\ Ordered /\ KeysTyped
      /\ Side = {"left", "right"} /\ "left" # "right" /\ Opp("left") = "right"
      /\ Opp("right") = "left"
  BY Resting DEF Side, Opp
<1> DEFINE k == [addr |-> a, size |-> 0]
           j == [addr |-> a, size |-> -1]
           n == LookupNearest(k, "right")
           o == LookupNearest(j, "left")
<1>2. Found(n, root, k, "right") /\ Found(o, root, j, "left")
  BY <1>1, Nearest
<1>3. root \in Attached
  <2>1. l = Null \/ l \in Attached \/ root # Sentinel
    BY <1>2 DEF LeftEnd, Found, MinMax
  <2> QED
    BY <2>1, <1>1, Pointers, ReachFacts DEF Linked, Attached, Subtree
<1>4. \A s \in Side : MinMax(s) = Extreme(root, s) /\ IsEnd(MinMax(s), root, s)
  BY <1>1, <1>3, Ends, LinkedFacts, Pointers DEF MinMax
<1>5. /\ \A s \in Side : MinMax(s) \in Attached
      /\ \A m \in Attached : m = MinMax("right") \/ Before(m, MinMax("right"))
  BY <1>1, <1>4 DEF IsEnd, Attached, Before, Beside
<1>6. \A m \in Attached : ~Before(m, MinMax("left"))
  <2> DEFINE e == MinMax("left")
  <2>1. /\ e \in Attached /\ child[e]["left"] = Sentinel
        /\ \A m \in Attached : e \notin Below(m, "right")
    BY <1>1, <1>4 DEF IsEnd, Attached
  <2>2. Below(e, "left") = {}
    BY <1>1, <2>1, BelowFacts
  <2> HIDE DEF e
  <2>3. ASSUME NEW m \in Attached, Before(m, e)
        PROVE  FALSE
    <3>1. PICK b \in Attached : m \in {b} \cup Below(b, "left") /\ e \in {b} \cup Below(b, "right")
      BY <1>1, <2>3 DEF Before, Beside
    <3>2. m # e
      BY <2>3 DEF Before, Beside
    <3> QED
      BY <2>1, <2>2, <3>1, <3>2
  <2> QED
    BY <2>3 DEF e
<1>7. /\ r \in Attached /\ l \in Attached
      /\ r = MinMax("right") \/ KeyCompare(k, key[r]) <= 0
      /\ IF u THEN \A m \in Attached : ~Before(m, l) ELSE KeyCompare(j, key[l]) >= 0
  BY <1>1, <1>2, <1>5, <1>6 DEF RightEnd, LeftEnd, Found
<1>8. ~u => key[l].addr <= a /\ (key[l].addr = a => key[l].size <= -1)
  BY <1>1, <1>7 DEF KeyCompare, KeysTyped
<1>9. KeyCompare(k, key[r]) <= 0 => key[r].addr >= a
  BY <1>1, <1>7 DEF KeyCompare, KeysTyped
<1>10. \A m \in Attached : m = r \/ Before(m, r) \/ (Before(r, m) /\ AtMost(key[r], key[m]))
  BY <1>1, <1>7, BesideTotal, KeysFollow
<1>11. l = r \/ Before(l, r)
  <2>1. CASE u
    BY <1>7, <1>10, <2>1
  <2>2. CASE r = MinMax("right")
    BY <1>5, <1>7, <2>2
  <2>3. CASE ~u /\ KeyCompare(k, key[r]) <= 0
    <3>1. ~AtMost(key[r], key[l])
      BY <1>1, <1>7, <1>8, <2>3, Typed DEF KeysTyped, AtMost, KeyCompare
    <3> QED
      BY <3>1, <1>7, <1>10
  <2> QED
    BY <1>7, <2>1, <2>2, <2>3
<1>12. ASSUME NEW m \in Attached, Holds(key[m], a), Before(r, m), AtMost(key[r], key[m]),
              KeyCompare(k, key[r]) <= 0
       PROVE  Holds(key[r], a)
  BY <1>1, <1>7, <1>9, <1>12, Typed DEF Holds, KeysTyped, AtMost, KeyCompare
<1> QED
  BY <1>5, <1>7, <1>8, <1>10, <1>11, <1>12, BeforeIs DEF WalkEnds, Ahead

LEMMA StartedSearch ==
    ASSUME SearchInv, NEW a \in Addresses, NEW u \in BOOLEAN, FindBegin(a, u)
    PROVE  SearchInv'
<1>1. /\ IInv /\ pc = "idle" /\ phase = "none" /\ UNCHANGED vars /\ UNCHANGED <<at, found>>
      /\ address' = a /\ userptr' = u /\ rn' = RightEnd(a) /\ ln' = LeftEnd(a, u)
      /\ phase' = IF ln' = Null THEN "done" ELSE "scan"
      /\ found = Null /\ a \in Nat
  BY AddressesAssumption DEF FindBegin, SearchInv
<1>2. IInv' /\ Attached' = Attached /\ pc' = "idle" /\ child' = child /\ key' = key
  BY <1>1, RestingTree DEF vars
<1>3. CASE ln' = Null
  <2>1. /\ TypeOK /\ Linked /\ Ordered /\ KeysTyped /\ "left" \in Side
    BY <1>1, Resting DEF Side
  <2>2. \A m \in Attached : Holds(key[m], a) => ~u /\ key[m].addr = a
    <3> DEFINE j == [addr |-> a, size |-> -1]
               o == LookupNearest(j, "left")
    <3>1. root = Sentinel => Attached = {}
      BY Pointers, ReachFacts DEF Attached, Subtree
    <3>2. root # Sentinel => MinMax("left") # Null
      <4>1. ASSUME root # Sentinel
            PROVE  Extreme(root, "left") \in Attached
        BY <2>1, <4>1, Ends DEF IsEnd, Attached, Linked
      <4> QED
        BY <4>1, LinkedFacts, Pointers, <2>1 DEF MinMax
    <3>3. Found(o, root, j, "left")
      BY <1>1, <2>1, Nearest
    <3>4. CASE u
      BY <1>1, <1>3, <3>1, <3>2, <3>4 DEF LeftEnd
    <3>5. CASE ~u
      <4>1. \A m \in Attached : KeyCompare(j, key[m]) < 0
        BY <1>1, <1>3, <3>3, <3>5 DEF LeftEnd, Found, Attached
      <4> QED
        BY <4>1, <3>5, <2>1, <1>1 DEF KeysTyped, Holds, KeyCompare
    <3> QED
      BY <1>1, <3>4, <3>5
  <2>3. FindsCovering'
    BY <1>1, <1>2, <2>2 DEF FindsCovering, Covers, Holds
  <2> QED
    BY <1>1, <1>2, <1>3, <2>3 DEF SearchInv
<1>4. CASE ln' # Null
  <2>1. /\ WalkEnds(Attached, child, key, rn', ln', a, u)
        /\ Ahead(Attached, child, key, rn', a)
    BY <1>1, <1>4, StartsBetween
  <2>2. phase' = "scan" /\ FindsCovering'
    BY <1>1, <1>4 DEF FindsCovering
  <2> QED
    BY <1>1, <1>2, <2>1, <2>2 DEF SearchInv
<1> QED
  BY <1>3, <1>4

LEMMA Scanned ==
    ASSUME SearchInv, Scan
    PROVE  SearchInv'
<1>1. /\ IInv /\ pc = "idle" /\ phase = "scan" /\ UNCHANGED vars
      /\ UNCHANGED <<address, userptr, rn, ln>>
      /\ WalkEnds(Attached, child, key, rn, ln, address, userptr)
      /\ Ahead(Attached, child, key, rn, address)
      /\ found = Null /\ address \in Addresses \cup {0} /\ userptr \in BOOLEAN
  BY DEF Scan, SearchInv
<1>2. IInv' /\ Attached' = Attached /\ pc' = "idle" /\ child' = child /\ key' = key
      /\ parent' = parent
  BY <1>1, RestingTree DEF vars
<1>3. rn \in Attached /\ rn # Null /\ ln \in Attached
  BY <1>1, Resting, LinkedFacts, Pointers DEF WalkEnds
<1>4. CASE ~Covers(rn, address) /\ rn = ln
  <2>1. phase' = "done" /\ found' = found
    BY <1>1, <1>3, <1>4 DEF Scan
  <2>2. \A n \in Attached : Holds(key[n], address) => ~userptr /\ LeftOf(child, Attached, n, ln)
    BY <1>1, <1>4, BeforeIs DEF WalkEnds, Ahead
  <2>3. \A n \in Attached : LeftOf(child, Attached, n, ln) => AtMost(key[n], key[ln])
    BY <1>1, <1>3, Resting, KeysFollow, BeforeIs
  <2>4. ~userptr => key[ln].addr <= address
    BY <1>1 DEF WalkEnds
  <2>5. \A n \in Attached : Holds(key[n], address) => ~userptr /\ HiddenBy(ln, n)
    BY <1>4, <2>2, <2>3, <2>4 DEF HiddenBy
  <2>6. FindsCovering'
    BY <1>1, <1>2, <1>3, <2>5 DEF FindsCovering, HiddenBy, Covers, Holds, AtMost
  <2> QED
    BY <1>1, <1>2, <2>1, <2>6 DEF SearchInv
<1>5. CASE Covers(rn, address)
  <2>1. phase' = "done" /\ found' = rn
    BY <1>3, <1>5 DEF Scan
  <2>2. FindsCovering'
    BY <1>3, <2>1 DEF FindsCovering
  <2> QED
    BY <1>1, <1>2, <1>3, <2>1, <2>2 DEF SearchInv
<1>6. CASE ~Covers(rn, address) /\ rn # ln
  <2>1. phase' = "prev" /\ at' = rn /\ found' = found
    BY <1>3, <1>6 DEF Scan
  <2>2. FindsCovering' /\ ~Holds(key[rn], address)
    BY <1>6, <2>1, BeforeIs DEF FindsCovering
  <2>3. Climbing(Attached, child, parent, rn, ln, rn)
    BY <1>6 DEF Climbing
  <2> QED
    BY <1>1, <1>2, <2>1, <2>2, <2>3 DEF SearchInv
<1> QED
  BY <1>4, <1>5, <1>6

\* prev returns the node that comes just before rn.
Precedes(A, ch, e, r) ==
    /\ e \in A /\ LeftOf(ch, A, e, r)
    /\ \A m \in A : LeftOf(ch, A, m, r) => m = e \/ LeftOf(ch, A, m, e)

LEMMA SteppedBack ==
    ASSUME NEW A, NEW ch, NEW ky, NEW r, NEW l, NEW a, NEW u, NEW e,
           WalkEnds(A, ch, ky, r, l, a, u), Ahead(A, ch, ky, r, a),
           ~Holds(ky[r], a), r # l, Precedes(A, ch, e, r)
    PROVE  WalkEnds(A, ch, ky, e, l, a, u) /\ Ahead(A, ch, ky, e, a)
BY DEF WalkEnds, Ahead, Precedes

LEMMA Preceded ==
    ASSUME SearchInv, PrevBelow \/ PrevUp
    PROVE  \/ phase' = "scan" /\ at' = at /\ Precedes(Attached, child, rn', rn)
           \/ /\ phase' = "prev" /\ rn' = rn
              /\ Climbing(Attached, child, parent, rn, ln, at')
<1>1. /\ IInv /\ pc = "idle" /\ phase = "prev"
      /\ WalkEnds(Attached, child, key, rn, ln, address, userptr)
      /\ Climbing(Attached, child, parent, rn, ln, at)
  BY DEF SearchInv, PrevBelow, PrevUp
<1>2. /\ TypeOK /\ Linked /\ rn \in Attached /\ ln \in Attached
      /\ rn # ln /\ Before(ln, rn) /\ "left" \in Side /\ "right" \in Side /\ "left" # "right"
  BY <1>1, Resting, BeforeIs DEF WalkEnds, Climbing, Side
<1>3. CASE child[rn]["left"] # Sentinel
  <2>1. PrevBelow
    BY <1>3 DEF PrevUp
  <2>2. phase' = "scan" /\ at' = at /\ rn' = Extreme(child[rn]["left"], "right")
    BY <2>1 DEF PrevBelow
  <2>3. /\ rn' \in Attached /\ Before(rn', rn)
        /\ \A m \in Attached : Before(m, rn) => m = rn' \/ Before(m, rn')
    BY <1>2, <1>3, <2>2, LastBelow
  <2> QED
    BY <2>2, <2>3, BeforeIs DEF Precedes
<1>4. CASE child[rn]["left"] = Sentinel
  <2>1. PrevUp
    BY <1>4 DEF PrevBelow
  <2>2. rn # root /\ rn # child[root]["left"]
    BY <1>2, <1>4, NoneBefore
  <2>3. PICK t \in Side : parent[rn] \in Attached /\ child[parent[rn]][t] = rn
    BY <1>2, <2>2, LinkedFacts
  <2>4. rn # Sentinel /\ \A m, n \in Attached, v, w \in Side :
           child[m][v] = child[n][w] /\ child[m][v] # Sentinel => m = n /\ v = w
    BY <1>2, LinkedFacts, Pointers
  <2>5. at # root
    BY <1>1, <2>2 DEF Climbing
  <2>6. CASE at = child[parent[rn]]["right"]
    <3>1. phase' = "scan" /\ at' = at /\ rn' = parent[rn]
      BY <1>4, <2>1, <2>5, <2>6 DEF PrevUp
    <3>2. rn = child[parent[rn]]["right"]
      <4>1. at = rn \/ (at = parent[rn] /\ at \in Attached)
        BY <1>1 DEF Climbing
      <4>2. \A p \in Attached : p # child[p]["right"]
        BY <1>2, BelowFacts, LinkedFacts, Pointers
      <4> QED
        BY <2>3, <2>6, <4>1, <4>2
    <3>3. /\ Before(rn', rn)
          /\ \A m \in Attached : Before(m, rn) => m = rn' \/ Before(m, rn')
      BY <1>2, <1>4, <2>3, <3>1, <3>2, ParentBefore
    <3> QED
      BY <2>3, <3>1, <3>3, BeforeIs DEF Precedes
  <2>7. CASE at # child[parent[rn]]["right"]
    <3>1. phase' = "prev" /\ rn' = rn /\ at' = parent[rn]
      BY <1>1, <1>4, <2>1, <2>5, <2>7 DEF PrevUp
    <3>2. rn = child[parent[rn]]["left"]
      BY <1>1, <2>3, <2>7 DEF Climbing, Side
    <3> QED
      BY <1>2, <1>4, <2>3, <3>1, <3>2 DEF Climbing
  <2> QED
    BY <2>6, <2>7
<1> QED
  BY <1>3, <1>4

LEMMA WalkedBack ==
    ASSUME SearchInv, PrevBelow \/ PrevUp
    PROVE  SearchInv'
<1>1. /\ IInv /\ pc = "idle" /\ phase = "prev" /\ UNCHANGED vars
      /\ UNCHANGED <<address, userptr, ln, found>>
      /\ WalkEnds(Attached, child, key, rn, ln, address, userptr)
      /\ Ahead(Attached, child, key, rn, address)
      /\ ~Holds(key[rn], address)
      /\ Climbing(Attached, child, parent, rn, ln, at)
      /\ found = Null /\ address \in Addresses \cup {0} /\ userptr \in BOOLEAN
  BY DEF PrevBelow, PrevUp, SearchInv
<1>2. /\ IInv' /\ Attached' = Attached /\ pc' = "idle" /\ child' = child /\ key' = key
      /\ parent' = parent
  BY <1>1, RestingTree DEF vars
<1>3. CASE phase' = "scan" /\ Precedes(Attached, child, rn', rn)
  <2>1. /\ WalkEnds(Attached, child, key, rn', ln, address, userptr)
        /\ Ahead(Attached, child, key, rn', address)
    BY <1>1, <1>3, SteppedBack DEF Climbing
  <2> QED
    BY <1>1, <1>2, <1>3, <2>1 DEF SearchInv, FindsCovering
<1>4. CASE phase' = "prev" /\ rn' = rn /\ Climbing(Attached, child, parent, rn, ln, at')
  BY <1>1, <1>2, <1>4 DEF SearchInv, FindsCovering
<1> QED
  BY <1>3, <1>4, Preceded

LEMMA Returned ==
    ASSUME SearchInv, Return
    PROVE  SearchInv'
BY RestingTree DEF SearchInv, Return, FindsCovering

LEMMA InsertedBetween ==
    ASSUME SearchInv, InsertNext
    PROVE  SearchInv'
<1>1. IInv' /\ phase = "none" /\ UNCHANGED search /\ found = Null
  BY NextIInv DEF InsertNext, SearchInv
<1> QED
  BY <1>1 DEF SearchInv, search, FindsCovering

LEMMA SearchStep ==
    ASSUME SearchInv, [SearchNext]_searchVars
    PROVE  SearchInv'
<1>1. CASE UNCHANGED searchVars
  BY <1>1, RestingTree DEF searchVars, vars, search, SearchInv, FindsCovering, Covers, HiddenBy, AtMost
<1>2. CASE SearchNext
  BY <1>2, StartedSearch, Scanned, WalkedBack, Returned, InsertedBetween DEF SearchNext, FindStep
<1> QED
  BY <1>1, <1>2

LEMMA SearchStart == SearchInit => SearchInv
BY Started DEF SearchInit, SearchInv, FindsCovering

\* The invariant the theorems rest on.
THEOREM SearchInvariant == SearchSpec => []SearchInv
BY SearchStart, SearchStep, PTL DEF SearchSpec

\* The walk stays between its ends, so that it neither runs off the tree nor into
\* a node that was lost.
THEOREM WalkStaysBetween == SearchSpec => []WalkStaysInBounds
<1>1. ASSUME SearchInv
      PROVE  WalkStaysInBounds
  <2>1. phase \in {"scan", "prev"} =>
           /\ rn \in Attached /\ ln \in Attached /\ AtMost(key[ln], key[rn])
           /\ Null \notin Attached
    <3> SUFFICES ASSUME phase \in {"scan", "prev"}
                 PROVE  /\ rn \in Attached /\ ln \in Attached /\ AtMost(key[ln], key[rn])
                        /\ Null \notin Attached
      OBVIOUS
    <3>1. /\ WalkEnds(Attached, child, key, rn, ln, address, userptr)
          /\ TypeOK /\ Linked /\ Ordered /\ KeysTyped
      BY <1>1, Resting DEF SearchInv
    <3>2. ln = rn \/ Before(ln, rn)
      BY <3>1, BeforeIs DEF WalkEnds
    <3> QED
      BY <3>1, <3>2, KeysFollow, LinkedFacts, Pointers DEF WalkEnds, KeysTyped, AtMost, KeyCompare
  <2>2. phase = "prev" => at \in Attached
    BY <1>1, <2>1 DEF SearchInv, Climbing
  <2> QED
    BY <1>1, <2>1, <2>2 DEF WalkStaysInBounds, SearchTypeOK, SearchInv
<1> QED
  BY <1>1, SearchInvariant, PTL

\* A search that returns NULL has missed only what FindsCovering names.
THEOREM SearchFindsCovering == SearchSpec => []FindsCovering
<1>1. SearchInv => FindsCovering
  BY DEF SearchInv
<1> QED
  BY <1>1, SearchInvariant, PTL

\* Whatever prev returns is the predecessor, in the order of the keys.
THEOREM PrevReturnsPredecessor == SearchSpec => PrevIsPredecessor
<1> DEFINE A == phase = "prev" /\ phase' = "scan" /\ rn' # Null =>
                    /\ AtMost(key[rn'], key[rn])
                    /\ \A m \in Attached : AtMost(key[m], key[rn']) \/ AtMost(key[rn], key[m])
<1>1. ASSUME SearchInv, [SearchNext]_searchVars
      PROVE  [A]_searchVars
  <2> SUFFICES ASSUME SearchNext, phase = "prev", phase' = "scan"
               PROVE  /\ AtMost(key[rn'], key[rn])
                      /\ \A m \in Attached : AtMost(key[m], key[rn']) \/ AtMost(key[rn], key[m])
    BY <1>1
  <2>1. PrevBelow \/ PrevUp
    BY DEF SearchNext, FindStep, InsertNext, FindBegin, Scan, Return
  <2>2. Precedes(Attached, child, rn', rn)
    BY <1>1, <2>1, Preceded
  <2>3. /\ TypeOK /\ Linked /\ Ordered /\ rn \in Attached
    BY <1>1, Resting DEF SearchInv, WalkEnds
  <2>4. PICK e \in Attached : e = rn' /\ Before(e, rn) /\
           \A m \in Attached : Before(m, rn) => m = e \/ Before(m, e)
    BY <2>2, BeforeIs DEF Precedes
  <2>5. AtMost(key[e], key[rn])
    BY <2>3, <2>4, KeysFollow
  <2>6. ASSUME NEW m \in Attached
        PROVE  AtMost(key[m], key[e]) \/ AtMost(key[rn], key[m])
    <3>1. CASE m = rn
      BY <2>3, <3>1, Typed DEF KeysTyped, AtMost, KeyCompare
    <3>2. CASE m = e
      BY <2>3, <3>2, Typed DEF KeysTyped, AtMost, KeyCompare
    <3>3. CASE m # rn /\ m # e
      BY <2>3, <2>4, <3>3, BesideTotal, KeysFollow
    <3> QED
      BY <3>1, <3>2, <3>3
  <2> QED
    BY <2>4, <2>5, <2>6
<1> QED
  BY <1>1, SearchInvariant, PTL DEF SearchSpec, PrevIsPredecessor

=============================================================================
