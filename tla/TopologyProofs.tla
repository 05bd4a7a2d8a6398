--------------------------- MODULE TopologyProofs ---------------------------
(***************************************************************************)
(* Theorems about Topology, for every set of layouts, every number of      *)
(* changes the kernel makes and every size of the counters: types, that    *)
(* only what load_nodes read of a published snapshot is older than its     *)
(* start, that its counts of links agree with its links, and that it is    *)
(* the kernel's layout if that never changed (QuietInv: what was read of   *)
(* it so far is exact).                                                    *)
(*                                                                         *)
(* The invariant follows the loops.  While the generation is still that of *)
(* the start of the call, what was read so far is of it (ReadInv); if it   *)
(* is not, nothing will be published.  The nodes that are done have        *)
(* agreeing counts, and of the node that is being read the count is right  *)
(* unless a loop is still to come that will correct it.                    *)
(***************************************************************************)
EXTENDS Topology, FiniteSetTheorems, TLAPS

USE ModulusAssumption, BoundAssumption

LoadedNode ==
    [gpu : GpuIds \cup {0}, hive : Nat, banks : BOOLEAN,
     io_links_count : Nat, p2p_links_count : Nat, p2p_reported : BOOLEAN]

NodeProps ==
    [gpu : GpuIds \cup {0}, hive : Nat, public : BOOLEAN, NumIOLinks : Nat,
     link : Seq(IoLink)]

\* The GPU id, or the properties, of node n were read from one of the first top
\* layouts of a history h.
GpuIsOld(node, n, h, top) == \E g \in 1..top : node.gpu = GpuIdOf(h[g], n)

PropertiesAreOld(node, n, h, top) ==
    \E g \in 1..top :
        IF n \in DOMAIN h[g] THEN node.banks /\ node.hive = h[g][n].hive
                             ELSE ~node.banks /\ node.hive = 0

\* The kernel, and what load_nodes has read and is still to read of a directory
\* that had the numbers 0 .. m-1.
LoadInv ==
    /\ history \in Seq(Layouts) /\ history # <<>> /\ Len(history) <= MaxGeneration
    /\ reports \in BOOLEAN /\ opened \subseteq GpuIds
    /\ \E m \in Nat :
          /\ DOMAIN nodes \subseteq 0 .. m - 1 /\ names \subseteq (0 .. m - 1) \X Files
          /\ \A n \in 0 .. m - 1 :
                n \in DOMAIN nodes \/ \A file \in Files : <<n, file>> \in names
    /\ \A n \in DOMAIN nodes :
          /\ nodes[n] \in LoadedNode
          /\ nodes[n].io_links_count + nodes[n].p2p_links_count < Modulus
          /\ IF <<n, "gpu_id">> \in names THEN nodes[n].gpu = 0
             ELSE GpuIsOld(nodes[n], n, history, Generation)
          /\ IF <<n, "properties">> \in names THEN ~nodes[n].banks /\ nodes[n].hive = 0
             ELSE PropertiesAreOld(nodes[n], n, history, Generation)
    /\ pc \notin {"load", "stopped"} => names = {}

\* The locals of a call and where its loops are.
CallInv ==
    /\ pc \in {"load", "idle", "check", "node", "io", "p2p", "target", "end", "stopped"}
    /\ stage \in {"io", "p2p"} /\ i \in Nat /\ sys_link_id \in Nat
    /\ gen_start \in 0..Generation
    /\ ids \subseteq DOMAIN nodes
    /\ num_io \in 0 .. Modulus - 1 /\ num_p2p \in 0 .. Modulus - 1
    /\ props \in Seq(NodeProps)
    /\ pc = "check" => props = <<>>
    /\ pc = "node" => Len(props) = i /\ i <= NumNodes
    /\ pc \in {"io", "p2p", "target"} => i \in 0 .. NumNodes - 1 /\ Len(props) = i + 1
    /\ pc \in {"io", "p2p"} => stage = pc
    /\ pc = "end" => Len(props) = NumNodes

\* SysfsLinks, of a kernel that reports p2p links if r.
LinksShown(l, r, n) ==
    IF n \in DOMAIN l
    THEN {l[n].io[k] : k \in DOMAIN l[n].io}
            \cup (IF r THEN {l[n].p2p[k] : k \in DOMAIN l[n].p2p} ELSE {})
    ELSE {}

\* A record of node n of which only what load_nodes read is older than layout top.
IsReadOf(node, n, h, top, r) ==
    /\ GpuIsOld(node, n, h, top)
    /\ \E g \in 1..top : OfProperties(node, h[g], h[top], n)
    /\ \A k \in DOMAIN node.link : \E link \in LinksShown(h[top], r, n) :
          node.link[k] = [link EXCEPT !.to = n]

\* What a call has read, if the kernel has not changed anything since its start.
ReadInv ==
    /\ Running /\ Generation = gen_start =>
          \A n \in DOMAIN props : IsReadOf(props[n], n - 1, history, gen_start, reports)
    /\ pc = "target" =>
          \A link \in got :
              /\ link \in IoLink
              /\ Generation = gen_start => link \in LinksShown(history[gen_start], reports, i)

Agrees(node, n) == node.NumIOLinks = Len(node.link) /\ Len(node.link) < n

\* The counts: node i is the one that is being read.
CountInv ==
    /\ pc \in {"node", "end"} => \A n \in DOMAIN props : Agrees(props[n], NumNodes)
    /\ pc \in {"io", "p2p", "target"} =>
          /\ \A n \in 1..i : Agrees(props[n], NumNodes)
          /\ Len(This.link) < NumNodes
          /\ stage = "io" /\ num_io = 0 /\ num_p2p = 0 => Agrees(This, NumNodes)
          /\ stage = "p2p" /\ num_p2p = 0 => Agrees(This, NumNodes)
    /\ pc = "target" =>
          /\ Len(This.link) < NumNodes - 1
          /\ IF stage = "io" THEN num_io > 0 ELSE num_p2p > 0

Published ==
    /\ g_props.gen \in 0..Generation
    /\ \A n \in DOMAIN g_props.props :
          IsReadOf(g_props.props[n], n - 1, history, g_props.gen, reports)
    /\ LinkCountAgrees

IInv == LoadInv /\ CallInv /\ ReadInv /\ CountInv /\ Published

-----------------------------------------------------------------------------
(* The kernel and its numbers *)

\* The present layout is one of Layouts.
LEMMA CurrentLayout ==
    ASSUME LoadInv
    PROVE  /\ Generation \in Nat \ {0} /\ Generation <= MaxGeneration
           /\ Current \in Layouts /\ Layout(Current)
<1>1. Len(history) \in Nat \ {0} /\ Len(history) <= MaxGeneration
  BY DEF LoadInv
<1>2. history[Len(history)] \in Layouts
  BY <1>1 DEF LoadInv
<1> QED
  BY <1>1, <1>2, LayoutsAssumption DEF Generation, Current

\* What is known of a node of the present layout.
LEMMA CurrentNode ==
    ASSUME LoadInv, NEW n \in DOMAIN Current
    PROVE  /\ Current[n].gpu \in GpuIds \cup {0}
           /\ Current[n].hive \in Nat /\ Current[n].public \in BOOLEAN
           /\ Current[n].io \in Seq(IoLink) /\ P2P(Current, n) \in Seq(IoLink)
           /\ Len(Current[n].io) + Len(P2P(Current, n)) < Modulus
<1>1. Current \in Layouts /\ Layout(Current)
  BY CurrentLayout
<1>2. /\ Current[n] \in [gpu : Nat, hive : Nat, public : BOOLEAN,
                         io : Seq(IoLink), p2p : Seq(IoLink)]
      /\ Len(Current[n].io) + Len(Current[n].p2p) < Modulus
  BY <1>1 DEF Layout
<1>3. Current[n].gpu \in GpuIds \cup {0}
  BY <1>1, <1>2 DEF GpuIds
<1>4. /\ P2P(Current, n) \in Seq(IoLink)
      /\ Len(Current[n].io) + Len(P2P(Current, n)) < Modulus
  <2>1. CASE reports
    BY <1>2, <2>1 DEF P2P
  <2>2. CASE ~reports
    <3>1. P2P(Current, n) = <<>>
      BY <2>2 DEF P2P
    <3>2. Len(Current[n].io) \in Nat /\ Len(Current[n].p2p) \in Nat
      BY <1>2
    <3> QED
      BY <1>2, <3>1, <3>2
  <2> QED
    BY <2>1, <2>2
<1> QED
  BY <1>2, <1>3, <1>4

\* A node of which no file, or one more file, was read.
LEMMA NewNodeType ==
    /\ NewNode \in LoadedNode
    /\ NewNode.io_links_count + NewNode.p2p_links_count < Modulus
  BY DEF NewNode, LoadedNode

LEMMA BegunType ==
    ASSUME LoadInv, NEW n
    PROVE  /\ Begun(n) \in LoadedNode
           /\ Begun(n).io_links_count + Begun(n).p2p_links_count < Modulus
<1>1. CASE n \in DOMAIN nodes
  BY <1>1 DEF Begun, LoadInv
<1>2. CASE n \notin DOMAIN nodes
  BY <1>2, NewNodeType DEF Begun
<1> QED
  BY <1>1, <1>2

LEMMA LoadedType ==
    ASSUME LoadInv, NEW n \in DOMAIN Current, NEW file
    PROVE  /\ Loaded(n, file) \in LoadedNode
           /\ Loaded(n, file).io_links_count + Loaded(n, file).p2p_links_count < Modulus
<1>1. Begun(n) \in LoadedNode /\ Begun(n).io_links_count + Begun(n).p2p_links_count < Modulus
  BY BegunType
<1>2. CASE file = "gpu_id"
  <2>1. Loaded(n, file) = [Begun(n) EXCEPT !.gpu = Current[n].gpu]
    BY <1>2 DEF Loaded
  <2>2. Current[n].gpu \in GpuIds \cup {0}
    BY CurrentNode
  <2> QED
    BY <1>1, <2>1, <2>2 DEF LoadedNode
<1>3. CASE file # "gpu_id"
  <2>1. Len(Current[n].io) \in Nat /\ Len(P2P(Current, n)) \in Nat
    BY CurrentNode
  <2>2. reports \in BOOLEAN
    BY DEF LoadInv
  <2>3. Loaded(n, file) =
          [gpu |-> Begun(n).gpu, hive |-> Current[n].hive, banks |-> TRUE,
           io_links_count |-> Len(Current[n].io), p2p_links_count |-> Len(P2P(Current, n)),
           p2p_reported |-> reports]
    BY <1>3 DEF Loaded
  <2>4. Begun(n).gpu \in GpuIds \cup {0}
    BY <1>1 DEF LoadedNode
  <2> QED
    BY <2>1, <2>2, <2>3, <2>4, CurrentNode DEF LoadedNode
<1> QED
  BY <1>2, <1>3

\* The sysfs numbers that a snapshot goes through were loaded.
LEMMA NumbersAreLoaded ==
    ASSUME LoadInv, ids \subseteq DOMAIN nodes
    PROVE  /\ NumNodes \in Nat
           /\ names = {} => 0 .. NumNodes - 1 \subseteq DOMAIN nodes
<1>1. PICK m \in Nat :
          /\ DOMAIN nodes \subseteq 0 .. m - 1
          /\ \A n \in 0 .. m - 1 : n \in DOMAIN nodes \/ \A file \in Files : <<n, file>> \in names
  BY DEF LoadInv
<1>2. IsFiniteSet(0 .. m - 1) /\ Cardinality(0 .. m - 1) = m
  BY FS_Interval
<1>3. ids \subseteq 0 .. m - 1
  BY <1>1
<1>4. IsFiniteSet(ids) /\ Cardinality(ids) <= m
  BY <1>2, <1>3, FS_Subset
<1>5. Cardinality(ids) \in Nat
  BY <1>4, FS_CardinalityType
<1>6. names = {} => 0 .. m - 1 \subseteq DOMAIN nodes
  <2> SUFFICES ASSUME names = {}, NEW n \in 0 .. m - 1
               PROVE  n \in DOMAIN nodes
    OBVIOUS
  <2>1. "gpu_id" \in Files
    BY DEF Files
  <2> QED
    BY <1>1, <2>1
<1>7. 0 .. Cardinality(ids) - 1 \subseteq 0 .. m - 1
  BY <1>4, <1>5
<1> QED
  BY <1>5, <1>6, <1>7 DEF NumNodes

-----------------------------------------------------------------------------
(* The invariant *)

LEMMA InitIInv == Init => IInv
<1> SUFFICES ASSUME Init PROVE IInv
  OBVIOUS
<1> USE DEF Init, NoCall
<1>1. PICK l \in Layouts : history = <<l>>
  OBVIOUS
<1>2. history \in Seq(Layouts) /\ Len(history) = 1 /\ Current = l
  BY <1>1 DEF Current, Generation
<1>3. LoadInv
  <2>1. DOMAIN nodes = {} /\ names = (DOMAIN l) \X Files
    BY <1>2
  <2>2. PICK m \in Nat : DOMAIN l = 0 .. m - 1
    BY LayoutsAssumption DEF Layout
  <2>3. \A n \in 0 .. m - 1, file \in Files : <<n, file>> \in names
    BY <2>1, <2>2
  <2> QED
    BY <1>2, <2>1, <2>2, <2>3 DEF LoadInv
<1>4. CallInv
  BY <1>2 DEF CallInv, Generation
<1>5. ReadInv /\ CountInv
  BY DEF ReadInv, CountInv, Running
<1>6. Published
  BY <1>2 DEF Published, LinkCountAgrees, None, Generation
<1> QED
  BY <1>3, <1>4, <1>5, <1>6 DEF IInv

\* The kernel makes a new generation and touches nothing else.
LEMMA KernelKeeps == IInv /\ KernelChanges => IInv'
<1> SUFFICES ASSUME IInv, KernelChanges PROVE IInv'
  OBVIOUS
<1> USE DEF IInv, KernelChanges, call
<1>1. PICK l \in Layouts : history' = Append(history, l)
  OBVIOUS
<1>2. /\ history' \in Seq(Layouts) /\ Len(history') = Len(history) + 1
      /\ Len(history) \in Nat
  BY <1>1 DEF LoadInv
<1>3. \A g \in 1 .. Len(history) : history'[g] = history[g]
  BY <1>1, <1>2 DEF LoadInv
<1>4. LoadInv'
  <2>1. ASSUME NEW n \in DOMAIN nodes, NEW node, GpuIsOld(node, n, history, Generation)
        PROVE  GpuIsOld(node, n, history', Generation')
    BY <1>2, <1>3, <2>1 DEF GpuIsOld, Generation
  <2>2. ASSUME NEW n \in DOMAIN nodes, NEW node, PropertiesAreOld(node, n, history, Generation)
        PROVE  PropertiesAreOld(node, n, history', Generation')
    BY <1>2, <1>3, <2>2 DEF PropertiesAreOld, Generation
  <2>3. Len(history') <= MaxGeneration /\ history' # <<>>
    BY <1>2 DEF Generation
  <2> QED
    BY <1>2, <2>1, <2>2, <2>3 DEF LoadInv
<1>5. CallInv'
  BY <1>2 DEF CallInv, NumNodes, Generation
<1>6. ReadInv'
  <2>1. gen_start # Generation'
    BY <1>2 DEF CallInv, Generation
  <2> QED
    BY <2>1 DEF ReadInv
<1>7. CountInv'
  BY DEF CountInv, Agrees, NumNodes, This
<1>8. Published'
  <2>1. g_props.gen \in 0 .. Len(history)
    BY DEF Published, Generation
  <2>2. ASSUME NEW n \in DOMAIN g_props.props
        PROVE  IsReadOf(g_props.props[n], n - 1, history', g_props.gen, reports)
    <3>1. IsReadOf(g_props.props[n], n - 1, history, g_props.gen, reports)
      BY DEF Published
    <3>2. g_props.gen \in 1 .. Len(history)
      BY <1>2, <2>1, <3>1 DEF IsReadOf, GpuIsOld
    <3>3. /\ history'[g_props.gen] = history[g_props.gen]
          /\ \A g \in 1 .. g_props.gen : history'[g] = history[g]
      BY <1>2, <1>3, <3>2
    <3> QED
      BY <3>1, <3>3 DEF IsReadOf, GpuIsOld
  <2> QED
    BY <1>2, <2>1, <2>2 DEF Published, LinkCountAgrees, Generation
<1> QED
  BY <1>4, <1>5, <1>6, <1>7, <1>8

\* A file was read of node n, whose other file, if it is still to be read, has left
\* nothing in the node, or the directory is gone.
LEMMA LoadsNode ==
    ASSUME LoadInv, CallInv, NEW n \in Nat, NEW node \in LoadedNode, NEW rest,
           node.io_links_count + node.p2p_links_count < Modulus,
           nodes' = With(n, node), names' = rest, rest \subseteq names,
           \A f \in names : f[1] # n => f \in rest,
           \E file \in Files : <<n, file>> \in names,
           IF <<n, "gpu_id">> \in rest THEN node.gpu = 0
           ELSE GpuIsOld(node, n, history, Generation),
           IF <<n, "properties">> \in rest THEN ~node.banks /\ node.hive = 0
           ELSE PropertiesAreOld(node, n, history, Generation),
           pc = "load", UNCHANGED <<history, reports, opened, pc>>
    PROVE  LoadInv'
<1>1. DOMAIN nodes' = DOMAIN nodes \cup {n} /\ nodes'[n] = node
  BY DEF With
<1>2. \A m \in DOMAIN nodes : m # n => nodes'[m] = nodes[m]
  BY DEF With
<1>3. ASSUME NEW m, m # n, NEW file
      PROVE  <<m, file>> \in names <=> <<m, file>> \in rest
  BY <1>3
<1>4. ASSUME NEW m \in DOMAIN nodes'
      PROVE  /\ nodes'[m] \in LoadedNode
             /\ nodes'[m].io_links_count + nodes'[m].p2p_links_count < Modulus
             /\ IF <<m, "gpu_id">> \in rest THEN nodes'[m].gpu = 0
                ELSE GpuIsOld(nodes'[m], m, history, Generation)
             /\ IF <<m, "properties">> \in rest THEN ~nodes'[m].banks /\ nodes'[m].hive = 0
                ELSE PropertiesAreOld(nodes'[m], m, history, Generation)
  <2>1. CASE m = n
    BY <1>1, <2>1
  <2>2. CASE m # n
    <3>1. m \in DOMAIN nodes /\ nodes'[m] = nodes[m]
      BY <1>1, <1>2, <1>4, <2>2
    <3> QED
      BY <1>3, <2>2, <3>1 DEF LoadInv
  <2> QED
    BY <2>1, <2>2
<1>5. \E m \in Nat :
          /\ DOMAIN nodes' \subseteq 0 .. m - 1 /\ rest \subseteq (0 .. m - 1) \X Files
          /\ \A k \in 0 .. m - 1 :
                k \in DOMAIN nodes' \/ \A file \in Files : <<k, file>> \in rest
  <2>1. PICK m \in Nat :
            /\ DOMAIN nodes \subseteq 0 .. m - 1 /\ names \subseteq (0 .. m - 1) \X Files
            /\ \A k \in 0 .. m - 1 :
                  k \in DOMAIN nodes \/ \A file \in Files : <<k, file>> \in names
    BY DEF LoadInv
  <2>2. n \in 0 .. m - 1
    BY <2>1
  <2> QED
    BY <1>1, <1>3, <2>1, <2>2
<1> QED
  BY <1>4, <1>5 DEF LoadInv, Generation

\* Of a node that load_nodes has not begun, every file is still to be read.
LEMMA NotBegun ==
    ASSUME LoadInv, NEW n, n \notin DOMAIN nodes, \E file \in Files : <<n, file>> \in names
    PROVE  \A file \in Files : <<n, file>> \in names
<1>1. PICK m \in Nat :
          /\ names \subseteq (0 .. m - 1) \X Files
          /\ \A k \in 0 .. m - 1 :
                k \in DOMAIN nodes \/ \A file \in Files : <<k, file>> \in names
  BY DEF LoadInv
<1>2. n \in 0 .. m - 1
  BY <1>1
<1> QED
  BY <1>1, <1>2

\* The node that load_nodes is at: what it has of it so far.
LEMMA BegunIsOld ==
    ASSUME LoadInv, NEW n, \E file \in Files : <<n, file>> \in names
    PROVE  /\ <<n, "gpu_id">> \in names => Begun(n).gpu = 0
           /\ <<n, "gpu_id">> \notin names => GpuIsOld(Begun(n), n, history, Generation)
           /\ <<n, "properties">> \in names => ~Begun(n).banks /\ Begun(n).hive = 0
           /\ <<n, "properties">> \notin names =>
                 PropertiesAreOld(Begun(n), n, history, Generation)
<1>1. CASE n \in DOMAIN nodes
  BY <1>1 DEF Begun, LoadInv
<1>2. CASE n \notin DOMAIN nodes
  <2>1. \A file \in Files : <<n, file>> \in names
    BY <1>2, NotBegun
  <2>2. Begun(n) = NewNode
    BY <1>2 DEF Begun
  <2> QED
    BY <2>1, <2>2 DEF NewNode, Files
<1> QED
  BY <1>1, <1>2

LEMMA LoadKeeps == IInv /\ LoadStep => IInv'
<1> SUFFICES ASSUME IInv, LoadStep PROVE IInv'
  OBVIOUS
<1> USE DEF IInv, call
<1>1. Generation \in Nat \ {0} /\ Current = history[Generation]
  BY CurrentLayout DEF Current
<1>2. \A f \in names : f[1] \in Nat /\ f = <<f[1], f[2]>> /\ f[2] \in Files
  BY DEF LoadInv
<1>3. CASE LoadFile
  <2>1. PICK n \in DOMAIN Current, file \in Files :
            /\ <<n, file>> \in names
            /\ nodes' = With(n, Loaded(n, file))
            /\ names' = names \ {<<n, file>>}
    BY <1>3 DEF LoadFile
  <2>2. pc = "load" /\ UNCHANGED <<history, reports, opened, pc, call, g_props>>
    BY <1>3 DEF LoadFile
  <2>3. n \in Nat
    BY <1>2, <2>1
  <2>4. Begun(n) \in LoadedNode
    BY BegunType
  <2>5. /\ <<n, "gpu_id">> \in names => Begun(n).gpu = 0
        /\ <<n, "gpu_id">> \notin names => GpuIsOld(Begun(n), n, history, Generation)
        /\ <<n, "properties">> \in names => ~Begun(n).banks /\ Begun(n).hive = 0
        /\ <<n, "properties">> \notin names =>
              PropertiesAreOld(Begun(n), n, history, Generation)
    BY <2>1, BegunIsOld
  <2>6. LoadInv'
    <3>1. CASE file = "gpu_id"
      <4>1. Loaded(n, file) = [Begun(n) EXCEPT !.gpu = Current[n].gpu]
        BY <3>1 DEF Loaded
      <4>2. /\ Loaded(n, file).gpu = Current[n].gpu
            /\ Loaded(n, file).hive = Begun(n).hive /\ Loaded(n, file).banks = Begun(n).banks
        BY <2>4, <4>1 DEF LoadedNode
      <4>3. GpuIsOld(Loaded(n, file), n, history, Generation)
        BY <1>1, <2>1, <4>2 DEF GpuIsOld, GpuIdOf
      <4>4. PropertiesAreOld(Begun(n), n, history, Generation) =>
               PropertiesAreOld(Loaded(n, file), n, history, Generation)
        BY <4>2 DEF PropertiesAreOld
      <4> HIDE DEF Loaded, With
      <4>5. <<n, "properties">> \in names' <=> <<n, "properties">> \in names
        BY <2>1, <3>1
      <4>6. <<n, "gpu_id">> \notin names'
        BY <2>1, <3>1
      <4> QED
        BY <2>1, <2>2, <2>3, <2>5, <4>2, <4>3, <4>4, <4>5, <4>6, LoadedType, LoadsNode
    <3>2. CASE file = "properties"
      <4>1. Loaded(n, file) =
              [gpu |-> Begun(n).gpu, hive |-> Current[n].hive, banks |-> TRUE,
               io_links_count |-> Len(Current[n].io),
               p2p_links_count |-> Len(P2P(Current, n)), p2p_reported |-> reports]
        BY <3>2 DEF Loaded
      <4>2. /\ Loaded(n, file).gpu = Begun(n).gpu
            /\ Loaded(n, file).hive = Current[n].hive /\ Loaded(n, file).banks
        BY <4>1
      <4>3. PropertiesAreOld(Loaded(n, file), n, history, Generation)
        BY <1>1, <2>1, <4>2 DEF PropertiesAreOld
      <4>4. GpuIsOld(Begun(n), n, history, Generation) =>
               GpuIsOld(Loaded(n, file), n, history, Generation)
        BY <4>2 DEF GpuIsOld
      <4> HIDE DEF Loaded, With
      <4>5. <<n, "gpu_id">> \in names' <=> <<n, "gpu_id">> \in names
        BY <2>1, <3>2
      <4>6. <<n, "properties">> \notin names'
        BY <2>1, <3>2
      <4> QED
        BY <2>1, <2>2, <2>3, <2>5, <4>2, <4>3, <4>4, <4>5, <4>6, LoadedType, LoadsNode
    <3> QED
      BY <3>1, <3>2 DEF Files
  <2>7. CallInv'
    BY <2>1, <2>2 DEF CallInv, Generation, With
  <2>8. ReadInv' /\ CountInv'
    BY <2>2 DEF ReadInv, CountInv, Running
  <2>9. Published'
    BY <2>2 DEF Published, LinkCountAgrees, Generation
  <2> QED
    BY <2>6, <2>7, <2>8, <2>9
<1>4. CASE LoadGone
  <2>1. PICK f \in names :
            /\ f[1] \notin DOMAIN Current
            /\ nodes' = With(f[1], Begun(f[1]))
            /\ names' = {h \in names : h[1] # f[1]}
    BY <1>4 DEF LoadGone
  <2>2. pc = "load" /\ UNCHANGED <<history, reports, opened, pc, call, g_props>>
    BY <1>4 DEF LoadGone
  <2> DEFINE n    == f[1]
             rest == {h \in names : h[1] # n}
  <2>3. n \in Nat /\ f[2] \in Files /\ <<n, f[2]>> \in names
    BY <1>2, <2>1
  <2>4. /\ Begun(n) \in LoadedNode
        /\ Begun(n).io_links_count + Begun(n).p2p_links_count < Modulus
    BY BegunType
  <2>5. /\ <<n, "gpu_id">> \in names => Begun(n).gpu = 0
        /\ <<n, "gpu_id">> \notin names => GpuIsOld(Begun(n), n, history, Generation)
        /\ <<n, "properties">> \in names => ~Begun(n).banks /\ Begun(n).hive = 0
        /\ <<n, "properties">> \notin names =>
              PropertiesAreOld(Begun(n), n, history, Generation)
    BY <2>3, BegunIsOld
  <2>6. Begun(n).gpu = 0 => GpuIsOld(Begun(n), n, history, Generation)
    BY <1>1, <2>1 DEF GpuIsOld, GpuIdOf
  <2>7. ~Begun(n).banks /\ Begun(n).hive = 0 =>
           PropertiesAreOld(Begun(n), n, history, Generation)
    BY <1>1, <2>1 DEF PropertiesAreOld
  <2>8. /\ rest \subseteq names /\ \A h \in names : h[1] # n => h \in rest
        /\ <<n, "gpu_id">> \notin rest /\ <<n, "properties">> \notin rest
        /\ nodes' = With(n, Begun(n)) /\ names' = rest
    BY <2>1
  <2>9. LoadInv'
    <3> HIDE DEF n, rest
    <3> QED
      BY <2>2, <2>3, <2>4, <2>5, <2>6, <2>7, <2>8, LoadsNode
  <2>10. CallInv'
    BY <2>1, <2>2 DEF CallInv, Generation, With
  <2>11. ReadInv' /\ CountInv'
    BY <2>2 DEF ReadInv, CountInv, Running
  <2>12. Published'
    BY <2>2 DEF Published, LinkCountAgrees, Generation
  <2> QED
    BY <2>9, <2>10, <2>11, <2>12
<1>5. CASE LoadPanics
  BY <1>5 DEF LoadPanics, LoadInv, CallInv, ReadInv, CountInv, Running, Generation, Published,
              LinkCountAgrees
<1>6. CASE LoadDone
  BY <1>6 DEF LoadDone, LoadInv, CallInv, ReadInv, CountInv, Running, Generation, Published,
              LinkCountAgrees
<1> QED
  BY <1>3, <1>4, <1>5, <1>6 DEF LoadStep

\* A step of a call leaves alone the kernel, what was loaded and, until its end,
\* the snapshot.
LEMMA CallLeaves ==
    ASSUME IInv, pc \notin {"load", "stopped"},
           UNCHANGED <<history, reports, names, nodes, g_props>>,
           opened' \subseteq GpuIds
    PROVE  LoadInv' /\ Published'
  BY DEF IInv, LoadInv, Published, LinkCountAgrees, Generation

LEMMA StopKeeps ==
    ASSUME IInv, pc \notin {"load", "stopped"}, pc' = "stopped",
           UNCHANGED <<history, reports, names, nodes, opened, call, g_props>>
    PROVE  IInv'
<1>1. LoadInv' /\ Published'
  BY CallLeaves DEF IInv, LoadInv
<1>2. CallInv' /\ ReadInv' /\ CountInv'
  BY DEF IInv, call, CallInv, ReadInv, CountInv, Running, Generation
<1> QED
  BY <1>1, <1>2 DEF IInv

LEMMA BeginKeeps == IInv /\ SnapshotBegin => IInv'
<1> SUFFICES ASSUME IInv, SnapshotBegin PROVE IInv'
  OBVIOUS
<1>1. LoadInv' /\ Published'
  BY CallLeaves DEF IInv, LoadInv, SnapshotBegin
<1>2. Generation \in Nat /\ Generation' = Generation
  BY CurrentLayout DEF IInv, SnapshotBegin, Generation
<1>3. CallInv'
  BY <1>2 DEF IInv, CallInv, SnapshotBegin
<1>4. ReadInv' /\ CountInv'
  BY DEF SnapshotBegin, ReadInv, CountInv
<1> QED
  BY <1>1, <1>3, <1>4 DEF IInv

\* Opening the device of a loaded GPU.
LEMMA SupportedOpens ==
    ASSUME LoadInv, NEW n \in DOMAIN nodes, Supported(n)
    PROVE  opened' \subseteq GpuIds
  BY DEF LoadInv, LoadedNode, Supported, Unopened

LEMMA CheckKeeps == IInv /\ (CheckSupported \/ CheckRefused \/ CheckDone) => IInv'
<1> SUFFICES ASSUME IInv, CheckSupported \/ CheckRefused \/ CheckDone PROVE IInv'
  OBVIOUS
<1>1. CASE CheckSupported
  <2>1. opened' \subseteq GpuIds
    BY <1>1, SupportedOpens DEF IInv, CheckSupported
  <2>2. LoadInv' /\ Published'
    BY <1>1, <2>1, CallLeaves DEF CheckSupported
  <2>3. CallInv'
    BY <1>1 DEF IInv, CallInv, CheckSupported, Generation
  <2>4. ReadInv' /\ CountInv'
    BY <1>1 DEF IInv, CallInv, ReadInv, CountInv, CheckSupported
  <2> QED
    BY <2>2, <2>3, <2>4 DEF IInv
<1>2. CASE CheckRefused
  <2>1. LoadInv' /\ Published'
    BY <1>2, CallLeaves DEF IInv, LoadInv, CheckRefused
  <2>2. CallInv'
    BY <1>2 DEF IInv, CallInv, CheckRefused, Generation
  <2>3. ReadInv' /\ CountInv'
    BY <1>2 DEF IInv, CallInv, ReadInv, CountInv, CheckRefused
  <2> QED
    BY <2>1, <2>2, <2>3 DEF IInv
<1>3. CASE CheckDone
  <2>1. LoadInv' /\ Published'
    BY <1>3, CallLeaves DEF IInv, LoadInv, CheckDone
  <2>2. NumNodes \in Nat /\ NumNodes' = NumNodes
    BY <1>3, NumbersAreLoaded DEF IInv, CallInv, CheckDone, NumNodes
  <2>3. props = <<>> /\ props' = props
    BY <1>3 DEF IInv, CallInv, CheckDone
  <2>4. CallInv'
    BY <1>3, <2>2, <2>3 DEF IInv, CallInv, CheckDone, Generation
  <2>5. ReadInv' /\ CountInv'
    BY <1>3, <2>3 DEF ReadInv, CountInv, CheckDone
  <2> QED
    BY <2>1, <2>4, <2>5 DEF IInv
<1> QED
  BY <1>1, <1>2, <1>3

LEMMA NodeKeeps == IInv /\ Node => IInv'
<1> SUFFICES ASSUME IInv, Node PROVE IInv'
  OBVIOUS
<1> DEFINE new == [gpu |-> nodes[i].gpu, hive |-> nodes[i].hive,
                   public |-> nodes[i].banks /\ Current[i].public,
                   NumIOLinks |-> AllLinks, link |-> <<>>]
<1>1. /\ pc = "node" /\ i < NumNodes /\ (nodes[i].banks => i \in DOMAIN Current)
      /\ props' = Append(props, new) /\ num_p2p' = P2PCount
      /\ num_io' = Minus(AllLinks, P2PCount)
      /\ sys_link_id' = 0 /\ stage' = "io" /\ pc' = "io"
      /\ UNCHANGED <<history, reports, names, nodes, opened, g_props, gen_start, i, ids, got>>
  BY DEF Node
<1> HIDE DEF new
<1>2. /\ NumNodes \in Nat /\ NumNodes' = NumNodes /\ i \in 0 .. NumNodes - 1
      /\ i \in DOMAIN nodes /\ Len(props) = i
  <2>1. names = {} /\ ids \subseteq DOMAIN nodes /\ i \in Nat /\ Len(props) = i
    BY <1>1 DEF IInv, LoadInv, CallInv
  <2>2. NumNodes \in Nat /\ 0 .. NumNodes - 1 \subseteq DOMAIN nodes
    BY <2>1, NumbersAreLoaded DEF IInv
  <2>3. NumNodes' = NumNodes
    BY <1>1 DEF NumNodes
  <2> QED
    BY <1>1, <2>1, <2>2, <2>3
<1>3. /\ nodes[i] \in LoadedNode
      /\ nodes[i].io_links_count \in Nat /\ nodes[i].p2p_links_count \in Nat
      /\ nodes[i].io_links_count + nodes[i].p2p_links_count < Modulus
  BY <1>2 DEF IInv, LoadInv, LoadedNode
<1>4. AllLinks \in 0 .. Modulus - 1 /\ P2PCount \in 0 .. Modulus - 1
  <2>1. num_p2p \in 0 .. Modulus - 1 /\ Modulus \in Nat
    BY DEF IInv, CallInv
  <2>2. AllLinks \in Nat /\ AllLinks < Modulus /\ nodes[i].p2p_links_count < Modulus
    BY <1>3 DEF AllLinks
  <2> QED
    BY <1>3, <2>1, <2>2 DEF P2PCount
<1>5. num_io' \in 0 .. Modulus - 1 /\ (num_io' = 0 /\ num_p2p' = 0 => AllLinks = 0)
  <2>1. num_io' = (AllLinks - P2PCount) % Modulus
    BY <1>1 DEF Minus
  <2>2. CASE P2PCount = 0
    BY <1>1, <1>4, <2>1, <2>2
  <2>3. CASE P2PCount # 0
    BY <1>1, <1>4, <2>1, <2>3
  <2> QED
    BY <2>2, <2>3
<1>6. Generation \in Nat /\ gen_start \in 0..Generation /\ Generation' = Generation
  BY <1>1, CurrentLayout DEF IInv, CallInv, Generation
<1>7. new \in NodeProps
  <2>1. (nodes[i].banks /\ Current[i].public) \in BOOLEAN
    OBVIOUS
  <2> QED
    BY <1>3, <1>4, <2>1 DEF new, NodeProps, LoadedNode
<1>8. /\ props' \in Seq(NodeProps) /\ Len(props') = i + 1 /\ props'[i + 1] = new
      /\ \A n \in 1..i : props'[n] = props[n]
  BY <1>1, <1>2, <1>7 DEF IInv, CallInv
<1>9. LoadInv' /\ Published'
  BY <1>1, CallLeaves DEF IInv, LoadInv
<1>10. CallInv'
  BY <1>1, <1>2, <1>4, <1>5, <1>6, <1>8 DEF IInv, CallInv
<1>11. ReadInv'
  <2> SUFFICES ASSUME Generation = gen_start, NEW n \in 1 .. i + 1
               PROVE  IsReadOf(props'[n], n - 1, history, gen_start, reports)
    BY <1>1, <1>2, <1>6, <1>8 DEF ReadInv
  <2>1. CASE n \in 1..i
    <3>1. IsReadOf(props[n], n - 1, history, gen_start, reports)
      BY <1>1, <1>2, <2>1 DEF IInv, ReadInv, CallInv, Running
    <3> QED
      BY <1>8, <2>1, <3>1
  <2>2. CASE n = i + 1
    <3>1. /\ GpuIsOld(nodes[i], i, history, gen_start)
          /\ PropertiesAreOld(nodes[i], i, history, gen_start)
      BY <1>1, <1>2 DEF IInv, LoadInv
    <3>2. GpuIsOld(new, i, history, gen_start)
      BY <3>1 DEF new, GpuIsOld
    <3>3. \E g \in 1 .. gen_start : OfProperties(new, history[g], history[gen_start], i)
      <4>1. PICK g \in 1 .. gen_start :
                IF i \in DOMAIN history[g]
                THEN nodes[i].banks /\ nodes[i].hive = history[g][i].hive
                ELSE ~nodes[i].banks /\ nodes[i].hive = 0
        BY <3>1 DEF PropertiesAreOld
      <4>2. Current = history[gen_start] /\ new.hive = nodes[i].hive
        BY DEF Current, new
      <4>3. CASE nodes[i].banks
        <5>1. i \in DOMAIN Current /\ Current[i].public \in BOOLEAN
          BY <1>1, <4>3, CurrentNode DEF IInv
        <5>2. new.public = Current[i].public
          BY <4>3, <5>1 DEF new
        <5> QED
          BY <4>1, <4>2, <4>3, <5>1, <5>2 DEF OfProperties
      <4>4. CASE ~nodes[i].banks
        <5>1. new.public = FALSE
          BY <4>4 DEF new
        <5> QED
          BY <4>1, <4>2, <4>4, <5>1 DEF OfProperties
      <4> QED
        BY <4>3, <4>4
    <3>4. new.link = <<>> /\ (i + 1) - 1 = i
      BY <1>2 DEF new
    <3> QED
      BY <1>8, <2>2, <3>2, <3>3, <3>4 DEF IsReadOf
  <2> QED
    BY <1>2, <2>1, <2>2
<1>12. CountInv'
  <2>1. Len(new.link) = 0 /\ new.NumIOLinks = AllLinks
    BY DEF new
  <2>2. \A n \in 1..i : Agrees(props'[n], NumNodes)
    BY <1>1, <1>2, <1>8 DEF IInv, CountInv, CallInv
  <2> QED
    BY <1>1, <1>2, <1>5, <1>8, <2>1, <2>2 DEF CountInv, Agrees, This
<1> QED
  BY <1>9, <1>10, <1>11, <1>12 DEF IInv

\* The number of nodes in a call, and the record of the node that is read.
LEMMA InsideCall ==
    ASSUME IInv, pc \in {"io", "p2p", "target"}
    PROVE  /\ names = {} /\ NumNodes \in Nat /\ i \in 0 .. NumNodes - 1
           /\ 0 .. NumNodes - 1 \subseteq DOMAIN nodes
           /\ i + 1 \in DOMAIN props /\ This \in NodeProps /\ Len(This.link) \in Nat
           /\ Generation \in Nat /\ gen_start \in 0..Generation
<1>1. names = {} /\ ids \subseteq DOMAIN nodes
  BY DEF IInv, LoadInv, CallInv
<1>2. NumNodes \in Nat /\ 0 .. NumNodes - 1 \subseteq DOMAIN nodes
  BY <1>1, NumbersAreLoaded DEF IInv
<1>3. i \in 0 .. NumNodes - 1 /\ Len(props) = i + 1 /\ props \in Seq(NodeProps)
  BY DEF IInv, CallInv
<1>4. i + 1 \in DOMAIN props /\ This \in NodeProps
  BY <1>3 DEF This
<1>5. Len(This.link) \in Nat
  BY <1>4 DEF NodeProps
<1>6. Generation \in Nat /\ gen_start \in 0..Generation
  BY CurrentLayout DEF IInv, CallInv
<1> QED
  BY <1>1, <1>2, <1>3, <1>4, <1>5, <1>6

\* What was read of the nodes that are done, while the kernel changes nothing.
LEMMA NodesAreRead ==
    ASSUME IInv, pc \in {"io", "p2p", "target"}, Generation = gen_start
    PROVE  /\ \A n \in 1..i : IsReadOf(props[n], n - 1, history, gen_start, reports)
           /\ IsReadOf(This, i, history, gen_start, reports)
<1>1. /\ i \in Nat /\ Len(props) = i + 1 /\ props \in Seq(NodeProps)
      /\ \A n \in DOMAIN props : IsReadOf(props[n], n - 1, history, gen_start, reports)
  BY DEF IInv, ReadInv, CallInv, Running
<1>2. i + 1 \in DOMAIN props /\ (i + 1) - 1 = i /\ 1..i \subseteq DOMAIN props
  BY <1>1
<1> QED
  BY <1>1, <1>2 DEF This

\* The number of links of a record is not read.
LEMMA ReadOfCopy ==
    ASSUME NEW a, NEW b, NEW n, NEW h, NEW top, NEW r, IsReadOf(a, n, h, top, r),
           a.gpu = b.gpu, a.hive = b.hive, a.public = b.public, a.link = b.link
    PROVE  IsReadOf(b, n, h, top, r)
  BY DEF IsReadOf, GpuIsOld, OfProperties

\* The record of the node that is read is replaced.
LEMMA StaysRead ==
    ASSUME IInv, pc \in {"io", "p2p", "target"},
           UNCHANGED <<history, reports, gen_start>>,
           props' \in Seq(NodeProps), Len(props') = i + 1, pc' # "target",
           \A k \in 1..i : props'[k] = props[k],
           Generation = gen_start => IsReadOf(props'[i + 1], i, history, gen_start, reports)
    PROVE  ReadInv'
<1> SUFFICES ASSUME Generation = gen_start, NEW k \in 1 .. i + 1
             PROVE  IsReadOf(props'[k], k - 1, history, gen_start, reports)
  <2>1. i \in Nat /\ Generation' = Generation
    BY DEF IInv, CallInv, Generation
  <2> QED
    BY <2>1 DEF ReadInv
<1>1. i \in Nat
  BY DEF IInv, CallInv
<1>2. CASE k \in 1..i
  BY <1>2, NodesAreRead
<1>3. CASE k = i + 1
  <2>1. (i + 1) - 1 = i
    BY <1>1
  <2> QED
    BY <1>3, <2>1
<1> QED
  BY <1>1, <1>2, <1>3

LEMMA ReadLinkKeeps == IInv /\ ReadLink => IInv'
<1> SUFFICES ASSUME IInv, ReadLink PROVE IInv'
  OBVIOUS
<1>1. /\ pc = stage /\ LinkLoop /\ pc' = "target"
      /\ got' = IF sys_link_id + 1 \in DOMAIN LinksOf(i)
                THEN {LinksOf(i)[sys_link_id + 1]} ELSE {}
      /\ UNCHANGED <<history, reports, names, nodes, opened, g_props,
                     stage, gen_start, i, ids, props, p2p_links, num_io, num_p2p, sys_link_id>>
  BY DEF ReadLink
<1>2. pc \in {"io", "p2p"}
  BY <1>1 DEF IInv, CallInv
<1>3. NumNodes' = NumNodes /\ This' = This /\ Generation' = Generation
  BY <1>1 DEF NumNodes, This, Generation
<1>4. LoadInv' /\ Published'
  BY <1>1, <1>2, CallLeaves DEF IInv, LoadInv
<1>5. CallInv'
  BY <1>1, <1>2, <1>3 DEF IInv, CallInv
<1>6. \A n : LinksOf(n) \in Seq(IoLink)
  BY CurrentNode DEF IInv, LinksOf
<1>7. ReadInv'
  <2> DEFINE k == sys_link_id + 1
  <2>1. \A link \in got' : link \in IoLink
    BY <1>1, <1>6
  <2>2. ASSUME Generation = gen_start, k \in DOMAIN LinksOf(i)
        PROVE  LinksOf(i)[k] \in LinksShown(history[gen_start], reports, i)
    <3>1. Current = history[gen_start]
      BY <2>2 DEF Current
    <3>2. i \in DOMAIN Current
      BY <2>2 DEF LinksOf
    <3>3. CASE stage = "io"
      BY <2>2, <3>1, <3>2, <3>3 DEF LinksOf, LinksShown
    <3>4. CASE stage # "io"
      <4>1. LinksOf(i) = P2P(Current, i)
        BY <3>2, <3>4 DEF LinksOf
      <4>2. reports /\ P2P(Current, i) = Current[i].p2p
        BY <2>2, <4>1 DEF P2P
      <4> QED
        BY <2>2, <3>1, <3>2, <4>1, <4>2 DEF LinksShown
    <3> QED
      BY <3>3, <3>4
  <2>3. \A link \in got' : Generation = gen_start =>
                               link \in LinksShown(history[gen_start], reports, i)
    BY <1>1, <2>2
  <2> HIDE DEF k
  <2> QED
    BY <1>1, <1>2, <1>3, <2>1, <2>3 DEF IInv, ReadInv, Running
<1>8. CountInv'
  <2>1. /\ Len(This.link) < NumNodes - 1
        /\ sys_link_id < (IF stage = "io" THEN num_io ELSE num_p2p)
        /\ sys_link_id \in Nat /\ num_io \in Nat /\ num_p2p \in Nat
    BY <1>1 DEF LinkLoop, IInv, CallInv
  <2>2. IF stage = "io" THEN num_io > 0 ELSE num_p2p > 0
    BY <2>1
  <2> QED
    BY <1>1, <1>2, <1>3, <2>1, <2>2 DEF IInv, CountInv, Agrees
<1> QED
  BY <1>4, <1>5, <1>7, <1>8 DEF IInv

LEMMA LinkSkippedKeeps == IInv /\ LinkSkipped => IInv'
<1> SUFFICES ASSUME IInv, LinkSkipped PROVE IInv'
  OBVIOUS
<1>1. /\ pc = "target" /\ pc' = stage /\ stage \in {"io", "p2p"}
      /\ UNCHANGED <<history, reports, names, nodes, opened, g_props,
                     stage, gen_start, i, ids, props, p2p_links, num_io, num_p2p, sys_link_id>>
  BY DEF LinkSkipped, call, IInv, CallInv
<1>2. NumNodes' = NumNodes /\ This' = This /\ Generation' = Generation
  BY <1>1 DEF NumNodes, This, Generation
<1>3. LoadInv' /\ Published'
  BY <1>1, CallLeaves DEF IInv, LoadInv
<1>4. CallInv'
  BY <1>1, <1>2 DEF IInv, CallInv
<1>5. ReadInv'
  BY <1>1, <1>2 DEF IInv, ReadInv, Running
<1>6. CountInv'
  BY <1>1, <1>2 DEF IInv, CountInv, Agrees
<1> QED
  BY <1>3, <1>4, <1>5, <1>6 DEF IInv

\* Replacing the record of the node that is read.
LEMMA ReplaceThis ==
    ASSUME IInv, pc \in {"io", "p2p", "target"}, NEW r \in NodeProps,
           props' = [props EXCEPT ![i + 1] = r]
    PROVE  /\ props' \in Seq(NodeProps) /\ Len(props') = i + 1
           /\ props'[i + 1] = r
           /\ \A n \in 1..i : props'[n] = props[n]
<1>1. i \in Nat /\ props \in Seq(NodeProps) /\ Len(props) = i + 1
  BY DEF IInv, CallInv
<1> QED
  BY <1>1

LEMMA LinkTakenKeeps == IInv /\ LinkTaken => IInv'
<1> SUFFICES ASSUME IInv, LinkTaken PROVE IInv'
  OBVIOUS
<1>1. PICK link \in got :
          /\ link.to \in DOMAIN nodes
          /\ Supported(link.to)
          /\ props' = [props EXCEPT ![i + 1].link = Append(@, KeptLink(link))]
  BY DEF LinkTaken
<1> DEFINE r == [This EXCEPT !.link = Append(@, KeptLink(link))]
<1>2. /\ pc = "target" /\ pc' = stage /\ stage \in {"io", "p2p"}
      /\ sys_link_id' = sys_link_id + 1 /\ sys_link_id \in Nat
      /\ UNCHANGED <<history, reports, names, nodes, g_props,
                     stage, gen_start, i, ids, p2p_links, num_io, num_p2p, got>>
  BY DEF LinkTaken, IInv, CallInv
<1>3. /\ NumNodes \in Nat /\ i \in 0 .. NumNodes - 1 /\ i + 1 \in DOMAIN props
      /\ This \in NodeProps /\ Len(This.link) \in Nat
      /\ Generation \in Nat /\ gen_start \in 0..Generation
  BY <1>2, InsideCall
<1>4. NumNodes' = NumNodes /\ Generation' = Generation
  BY <1>2 DEF NumNodes, Generation
<1>5. link \in IoLink
  BY <1>2 DEF IInv, ReadInv
<1>6. KeptLink(link) \in IoLink
  BY <1>3, <1>5 DEF KeptLink, IoLink
<1>7. /\ r \in NodeProps /\ r.NumIOLinks = This.NumIOLinks
      /\ Len(r.link) = Len(This.link) + 1
      /\ r.link = Append(This.link, KeptLink(link))
      /\ r.gpu = This.gpu /\ r.hive = This.hive /\ r.public = This.public
  <2>1. /\ Append(This.link, KeptLink(link)) \in Seq(IoLink)
        /\ Len(Append(This.link, KeptLink(link))) = Len(This.link) + 1
    BY <1>3, <1>6 DEF NodeProps
  <2> QED
    BY <1>3, <2>1 DEF NodeProps
<1>8. props' = [props EXCEPT ![i + 1] = r]
  BY <1>1 DEF This
<1> HIDE DEF r
<1>9. /\ props' \in Seq(NodeProps) /\ Len(props') = i + 1
      /\ props'[i + 1] = r /\ \A n \in 1..i : props'[n] = props[n]
  BY <1>2, <1>7, <1>8, ReplaceThis
<1>10. LoadInv' /\ Published'
  <2>1. opened' \subseteq GpuIds
    BY <1>1, SupportedOpens DEF IInv
  <2> QED
    BY <1>2, <2>1, CallLeaves
<1>11. CallInv'
  BY <1>2, <1>3, <1>4, <1>9 DEF IInv, CallInv
<1>12. ReadInv'
  <2>1. ASSUME Generation = gen_start
        PROVE  IsReadOf(r, i, history, gen_start, reports)
    <3>1. IsReadOf(This, i, history, gen_start, reports)
      BY <1>2, <2>1, NodesAreRead
    <3>2. link \in LinksShown(history[gen_start], reports, i)
      BY <1>2, <2>1 DEF IInv, ReadInv
    <3>3. GpuIsOld(r, i, history, gen_start)
      BY <1>7, <3>1 DEF IsReadOf, GpuIsOld
    <3>4. \E g \in 1 .. gen_start : OfProperties(r, history[g], history[gen_start], i)
      BY <1>7, <3>1 DEF IsReadOf, OfProperties
    <3>5. ASSUME NEW k \in DOMAIN r.link
          PROVE  \E l \in LinksShown(history[gen_start], reports, i) :
                     r.link[k] = [l EXCEPT !.to = i]
      <4>1. This.link \in Seq(IoLink)
        BY <1>3 DEF NodeProps
      <4>2. CASE k \in DOMAIN This.link
        <5>1. r.link[k] = This.link[k]
          BY <1>6, <1>7, <4>1, <4>2
        <5> QED
          BY <3>1, <4>2, <5>1 DEF IsReadOf
      <4>3. CASE k = Len(This.link) + 1
        <5>1. r.link[k] = KeptLink(link)
          BY <1>6, <1>7, <4>1, <4>3
        <5> QED
          BY <3>2, <5>1 DEF KeptLink
      <4>4. DOMAIN r.link = DOMAIN This.link \cup {Len(This.link) + 1}
        BY <1>6, <1>7, <4>1
      <4> QED
        BY <4>2, <4>3, <4>4
    <3> QED
      BY <3>3, <3>4, <3>5 DEF IsReadOf
  <2> QED
    BY <1>2, <1>9, <2>1, StaysRead
<1>13. CountInv'
  <2>1. /\ Len(This.link) < NumNodes - 1
        /\ IF stage = "io" THEN num_io > 0 ELSE num_p2p > 0
        /\ \A n \in 1..i : Agrees(props[n], NumNodes)
    BY <1>2 DEF IInv, CountInv
  <2>2. This' = r
    BY <1>2, <1>9 DEF This
  <2>3. Len(This'.link) < NumNodes
    BY <1>3, <1>7, <2>1, <2>2
  <2>4. num_io \in Nat /\ num_p2p \in Nat
    BY DEF IInv, CallInv
  <2> QED
    BY <1>2, <1>4, <1>9, <2>1, <2>3, <2>4 DEF CountInv, Agrees
<1> QED
  BY <1>10, <1>11, <1>12, <1>13 DEF IInv

\* What the ends of the two loops do to the count.
LEMMA LimitedThis ==
    ASSUME IInv, pc \in {"io", "p2p"}, NEW looked \in Nat, props' = Limited(looked)
    PROVE  /\ props' \in Seq(NodeProps) /\ Len(props') = i + 1
           /\ \A n \in 1..i : props'[n] = props[n]
           /\ props'[i + 1].link = This.link /\ props'[i + 1].gpu = This.gpu
           /\ props'[i + 1].hive = This.hive /\ props'[i + 1].public = This.public
           /\ props'[i + 1].NumIOLinks = IF looked > 0 THEN Len(This.link) ELSE This.NumIOLinks
<1> DEFINE r == [This EXCEPT !.NumIOLinks = Len(This.link)]
<1>1. i + 1 \in DOMAIN props /\ This \in NodeProps /\ Len(This.link) \in Nat
  BY InsideCall
<1>2. CASE looked > 0
  <2>1. /\ r \in NodeProps /\ r.link = This.link /\ r.gpu = This.gpu
        /\ r.hive = This.hive /\ r.public = This.public
        /\ r.NumIOLinks = Len(This.link)
    BY <1>1 DEF NodeProps
  <2>2. props' = [props EXCEPT ![i + 1] = r]
    BY <1>2 DEF Limited, This
  <2> HIDE DEF r
  <2> QED
    BY <1>2, <2>1, <2>2, ReplaceThis
<1>3. CASE ~(looked > 0)
  BY <1>3 DEF Limited, This, IInv, CallInv
<1> QED
  BY <1>2, <1>3

LEMMA IoLinksDoneKeeps == IInv /\ IoLinksDone => IInv'
<1> SUFFICES ASSUME IInv, IoLinksDone PROVE IInv'
  OBVIOUS
<1>1. /\ pc = "io" /\ stage = "io" /\ props' = Limited(num_io)
      /\ sys_link_id' = 0 /\ stage' = "p2p" /\ pc' = "p2p"
      /\ num_io \in Nat /\ num_p2p \in Nat
      /\ UNCHANGED <<history, reports, names, nodes, opened, g_props,
                     gen_start, i, ids, p2p_links, num_io, num_p2p, got>>
  BY DEF IoLinksDone, IInv, CallInv
<1>2. /\ NumNodes \in Nat /\ i \in 0 .. NumNodes - 1
      /\ Generation \in Nat /\ gen_start \in 0..Generation
  BY <1>1, InsideCall
<1>3. NumNodes' = NumNodes /\ Generation' = Generation /\ This' = props'[i + 1]
  BY <1>1 DEF NumNodes, Generation, This
<1>4. /\ props' \in Seq(NodeProps) /\ Len(props') = i + 1
      /\ \A n \in 1..i : props'[n] = props[n]
      /\ This'.link = This.link
      /\ This'.NumIOLinks = IF num_io > 0 THEN Len(This.link) ELSE This.NumIOLinks
  BY <1>1, <1>3, LimitedThis
<1>5. LoadInv' /\ Published'
  BY <1>1, CallLeaves DEF IInv, LoadInv
<1>6. CallInv'
  BY <1>1, <1>2, <1>3, <1>4 DEF IInv, CallInv
<1>7. ReadInv'
  <2>1. Generation = gen_start => IsReadOf(props'[i + 1], i, history, gen_start, reports)
    BY <1>1, LimitedThis, NodesAreRead, ReadOfCopy
  <2> QED
    BY <1>1, <1>4, <2>1, StaysRead
<1>8. CountInv'
  <2>1. /\ \A n \in 1..i : Agrees(props[n], NumNodes)
        /\ Len(This.link) < NumNodes
        /\ num_io = 0 /\ num_p2p = 0 => Agrees(This, NumNodes)
    BY <1>1 DEF IInv, CountInv
  <2>2. num_p2p = 0 => Agrees(This, NumNodes)'
    BY <1>1, <1>3, <1>4, <2>1 DEF Agrees
  <2> QED
    BY <1>1, <1>3, <1>4, <2>1, <2>2 DEF CountInv, Agrees
<1> QED
  BY <1>5, <1>6, <1>7, <1>8 DEF IInv

LEMMA P2PLinksDoneKeeps == IInv /\ P2PLinksDone => IInv'
<1> SUFFICES ASSUME IInv, P2PLinksDone PROVE IInv'
  OBVIOUS
<1>1. /\ pc = "p2p" /\ stage = "p2p" /\ props' = Limited(num_p2p)
      /\ i' = i + 1 /\ pc' = "node" /\ num_p2p \in Nat
      /\ UNCHANGED <<history, reports, names, nodes, opened, g_props,
                     stage, gen_start, ids, p2p_links, num_io, num_p2p, sys_link_id, got>>
  BY DEF P2PLinksDone, IInv, CallInv
<1>2. /\ NumNodes \in Nat /\ i \in 0 .. NumNodes - 1
      /\ Generation \in Nat /\ gen_start \in 0..Generation
  BY <1>1, InsideCall
<1>3. NumNodes' = NumNodes /\ Generation' = Generation
  BY <1>1 DEF NumNodes, Generation
<1>4. /\ props' \in Seq(NodeProps) /\ Len(props') = i + 1
      /\ \A n \in 1..i : props'[n] = props[n]
      /\ props'[i + 1].link = This.link
      /\ props'[i + 1].NumIOLinks = IF num_p2p > 0 THEN Len(This.link) ELSE This.NumIOLinks
  BY <1>1, LimitedThis
<1>5. LoadInv' /\ Published'
  BY <1>1, CallLeaves DEF IInv, LoadInv
<1>6. CallInv'
  BY <1>1, <1>2, <1>3, <1>4 DEF IInv, CallInv
<1>7. ReadInv'
  <2>1. Generation = gen_start => IsReadOf(props'[i + 1], i, history, gen_start, reports)
    BY <1>1, LimitedThis, NodesAreRead, ReadOfCopy
  <2> QED
    BY <1>1, <1>4, <2>1, StaysRead
<1>8. CountInv'
  <2>1. /\ \A n \in 1..i : Agrees(props[n], NumNodes)
        /\ Len(This.link) < NumNodes
        /\ num_p2p = 0 => Agrees(This, NumNodes)
    BY <1>1 DEF IInv, CountInv
  <2>2. Agrees(props'[i + 1], NumNodes)
    BY <1>1, <1>4, <2>1 DEF Agrees
  <2>3. \A n \in DOMAIN props' : Agrees(props'[n], NumNodes)
    BY <1>2, <1>4, <2>1, <2>2
  <2> QED
    BY <1>1, <1>3, <2>3 DEF CountInv, Agrees
<1> QED
  BY <1>5, <1>6, <1>7, <1>8 DEF IInv

LEMMA NodesDoneKeeps == IInv /\ NodesDone => IInv'
<1> SUFFICES ASSUME IInv, NodesDone PROVE IInv'
  OBVIOUS
<1>1. /\ pc = "node" /\ i = NumNodes /\ pc' \in {"stopped", "end"}
      /\ UNCHANGED <<history, reports, names, nodes, opened, call, g_props>>
  BY DEF NodesDone
<1>2. CASE pc' = "stopped"
  BY <1>1, <1>2, StopKeeps
<1>3. CASE pc' = "end"
  <2>1. LoadInv' /\ Published'
    BY <1>1, <1>3, CallLeaves DEF IInv, LoadInv
  <2>2. NumNodes' = NumNodes /\ Generation' = Generation
    BY <1>1 DEF call, NumNodes, Generation
  <2>3. CallInv' /\ ReadInv' /\ CountInv'
    BY <1>1, <1>3, <2>2 DEF IInv, call, CallInv, ReadInv, CountInv, Running, Agrees
  <2> QED
    BY <2>1, <2>3 DEF IInv
<1> QED
  BY <1>1, <1>2, <1>3

\* The only step that publishes: the generation is that of the start, so that what
\* was read is of it, and every count agrees.
LEMMA SnapshotEndKeeps == IInv /\ SnapshotEnd => IInv'
<1> SUFFICES ASSUME IInv, SnapshotEnd PROVE IInv'
  OBVIOUS
<1>1. /\ pc = "end" /\ Generation = gen_start /\ pc' = "idle"
      /\ g_props' = [gen |-> gen_start, props |-> props]
      /\ UNCHANGED <<history, reports, names, nodes, opened, call>>
  BY DEF SnapshotEnd, Publish
<1>2. LoadInv'
  BY <1>1 DEF IInv, LoadInv, Generation
<1>3. CallInv' /\ ReadInv' /\ CountInv'
  BY <1>1 DEF IInv, call, CallInv, ReadInv, CountInv, Running, Generation
<1>4. /\ gen_start \in 0..Generation
      /\ \A n \in DOMAIN props : IsReadOf(props[n], n - 1, history, gen_start, reports)
  BY <1>1 DEF IInv, CallInv, ReadInv, Running
<1>5. LinkCountAgrees'
  <2>1. \A n \in DOMAIN props : Agrees(props[n], NumNodes)
    BY <1>1 DEF IInv, CountInv
  <2>2. Len(props) = NumNodes
    BY <1>1 DEF IInv, CallInv
  <2> QED
    BY <1>1, <2>1, <2>2 DEF LinkCountAgrees, Agrees
<1> QED
  BY <1>1, <1>2, <1>3, <1>4, <1>5 DEF IInv, Published, Generation

LEMMA NextIInv == IInv /\ [Next]_topologyVars => IInv'
<1> SUFFICES ASSUME IInv, [Next]_topologyVars PROVE IInv'
  OBVIOUS
<1>1. CASE UNCHANGED topologyVars
  BY <1>1 DEF topologyVars, call, IInv, LoadInv, CallInv, ReadInv, CountInv, Running, Agrees,
              NumNodes, Generation, This, Published, LinkCountAgrees
<1>2. CASE KernelChanges
  BY <1>2, KernelKeeps
<1>3. CASE LoadStep
  BY <1>3, LoadKeeps
<1>4. CASE SnapshotBegin
  BY <1>4, BeginKeeps
<1>5. CASE CheckSupported \/ CheckRefused \/ CheckDone
  BY <1>5, CheckKeeps
<1>6. CASE CheckPanics \/ NodePanics \/ LinkPanics \/ SnapshotPanics
  BY <1>6, StopKeeps DEF CheckPanics, NodePanics, LinkPanics, SnapshotPanics
<1> QED
  BY <1>1, <1>2, <1>3, <1>4, <1>5, <1>6, NodeKeeps, ReadLinkKeeps, LinkTakenKeeps,
     LinkSkippedKeeps, IoLinksDoneKeeps, P2PLinksDoneKeeps, NodesDoneKeeps, SnapshotEndKeeps
     DEF Next, SnapshotStep

-----------------------------------------------------------------------------

\* The types are invariant.
THEOREM TopologyTypes == Spec => []TypeOK
<1>1. IInv => TypeOK
  <2> SUFFICES ASSUME IInv PROVE TypeOK
    OBVIOUS
  <2>1. names \subseteq Nat \X Files
    BY DEF IInv, LoadInv
  <2>2. Generation \in 1 .. MaxGeneration
    BY CurrentLayout DEF IInv
  <2> QED
    BY <2>1, <2>2 DEF IInv, LoadInv, CallInv, TypeOK
<1> QED
  BY <1>1, InitIInv, NextIInv, PTL DEF Spec

\* Whatever the kernel does meanwhile, the banks and the links of a published snapshot
\* are of the generation of its start, and nothing else than what load_nodes read is
\* older: of each node the GPU id of one generation, and the properties of one.
THEOREM OnlyLoadedDataIsOlder == Spec => []OnlyLoadIsOlder
<1>1. IInv => OnlyLoadIsOlder
  <2> SUFFICES ASSUME IInv, NEW n \in DOMAIN g_props.props
               PROVE  LET node == g_props.props[n]
                          now  == history[g_props.gen]
                      IN  /\ \E g \in 1 .. g_props.gen : node.gpu = GpuIdOf(history[g], n - 1)
                          /\ \E g \in 1 .. g_props.gen :
                                OfProperties(node, history[g], now, n - 1)
                          /\ \A k \in DOMAIN node.link : \E link \in SysfsLinks(now, n - 1) :
                                node.link[k] = [link EXCEPT !.to = n - 1]
    BY DEF OnlyLoadIsOlder
  <2>1. IsReadOf(g_props.props[n], n - 1, history, g_props.gen, reports)
    BY DEF IInv, Published
  <2>2. ASSUME NEW l, NEW m, NEW link \in LinksShown(l, reports, m)
        PROVE  link \in SysfsLinks(l, m)
    BY DEF LinksShown, SysfsLinks, P2P
  <2> QED
    BY <2>1, <2>2 DEF IsReadOf, GpuIsOld
<1> QED
  BY <1>1, InitIInv, NextIInv, PTL DEF Spec

\* In a published snapshot every count of links agrees with the links.
THEOREM LinkCountsAgree == Spec => []LinkCountAgrees
<1>1. IInv => LinkCountAgrees
  BY DEF IInv, Published
<1> QED
  BY <1>1, InitIInv, NextIInv, PTL DEF Spec

-----------------------------------------------------------------------------
(* A kernel that changes nothing *)

\* Link k of node n in layout l, io links first; how many there are.
LinkAt(l, n, k) ==
    IF k <= Len(l[n].io) THEN l[n].io[k] ELSE l[n].p2p[k - Len(l[n].io)]
P2PLen(l, r, n) == IF r THEN Len(l[n].p2p) ELSE 0

HasProperties(l, r, n, node) ==
    /\ node.hive = l[n].hive /\ node.banks
    /\ node.io_links_count = Len(l[n].io) /\ node.p2p_links_count = P2PLen(l, r, n)
    /\ node.p2p_reported = r

IsLoaded(l, r, n, node) ==
    n \in DOMAIN l /\ node.gpu = l[n].gpu /\ HasProperties(l, r, n, node)

\* The record of node n without its number of links.
IsCopied(l, n, node) ==
    /\ n \in DOMAIN l /\ node.gpu = l[n].gpu /\ node.hive = l[n].hive
    /\ node.public = l[n].public
    /\ \A k \in DOMAIN node.link : node.link[k] = [LinkAt(l, n, k) EXCEPT !.to = n]

\* The record of node n of a snapshot of size nodes.
IsExact(l, r, n, size, node) ==
    /\ IsCopied(l, n, node)
    /\ Len(node.link) = Shorter(Len(l[n].io) + P2PLen(l, r, n), size - 1)

QuietLoad(l, r) ==
    /\ \A f \in names : f[1] \in DOMAIN l
    /\ \A n \in DOMAIN nodes :
          /\ n \in DOMAIN l
          /\ <<n, "gpu_id">> \in names \/ nodes[n].gpu = l[n].gpu
          /\ <<n, "properties">> \in names \/ HasProperties(l, r, n, nodes[n])
    /\ Running /\ ~r => num_p2p = 0

\* The counters of the loops over the links of node i: the second loop begins where
\* the first has stopped.
QuietNode(l, r) ==
    /\ IsCopied(l, i, This)
    /\ num_io = Len(l[i].io) /\ num_p2p = P2PLen(l, r, i)
    /\ Len(This.link) <= NumNodes - 1
    /\ stage = "io" => Len(This.link) = sys_link_id /\ sys_link_id <= num_io
    /\ stage = "p2p" => /\ Len(This.link) = Shorter(num_io, NumNodes - 1) + sys_link_id
                        /\ sys_link_id <= num_p2p

QuietCall(l, r) ==
    /\ pc \in {"node", "end"} =>
          \A n \in DOMAIN props : IsExact(l, r, n - 1, NumNodes, props[n])
    /\ pc \in {"io", "p2p", "target"} =>
          /\ \A n \in 1..i : IsExact(l, r, n - 1, NumNodes, props[n])
          /\ QuietNode(l, r)
    /\ pc = "target" =>
          /\ sys_link_id < (IF stage = "io" THEN num_io ELSE num_p2p)
          /\ \A link \in got : link = LinkAt(l, i, Len(This.link) + 1)

QuietSnapshot(l, r) ==
    /\ g_props.props \in Seq(NodeProps)
    /\ \A n \in DOMAIN g_props.props :
          IsExact(l, r, n - 1, Len(g_props.props), g_props.props[n])

QuietInv ==
    \A l \in Layouts, r \in BOOLEAN :
        Generation = 1 /\ l = Current /\ r = reports =>
            QuietLoad(l, r) /\ QuietCall(l, r) /\ QuietSnapshot(l, r)

LEMMA QuietStarts == Init => QuietInv
<1> SUFFICES ASSUME Init, NEW l \in Layouts, NEW r \in BOOLEAN, l = Current, r = reports
             PROVE  QuietLoad(l, r) /\ QuietCall(l, r) /\ QuietSnapshot(l, r)
  BY DEF QuietInv
<1>1. DOMAIN nodes = {} /\ names = (DOMAIN l) \X Files /\ pc = "load" /\ g_props.props = <<>>
  BY DEF Init, None
<1> QED
  BY <1>1 DEF QuietLoad, QuietCall, QuietSnapshot, Running

\* What is known of a node of a layout.
LEMMA LayoutNode ==
    ASSUME NEW l \in Layouts, NEW r \in BOOLEAN, NEW n \in DOMAIN l
    PROVE  /\ l[n].io \in Seq(IoLink) /\ l[n].p2p \in Seq(IoLink)
           /\ Len(l[n].io) \in Nat /\ Len(l[n].p2p) \in Nat /\ P2PLen(l, r, n) \in Nat
           /\ Len(l[n].io) + P2PLen(l, r, n) < Modulus
<1>1. /\ l[n] \in [gpu : Nat, hive : Nat, public : BOOLEAN,
                   io : Seq(IoLink), p2p : Seq(IoLink)]
      /\ Len(l[n].io) + Len(l[n].p2p) < Modulus
  BY LayoutsAssumption DEF Layout
<1>2. /\ l[n].io \in Seq(IoLink) /\ l[n].p2p \in Seq(IoLink)
      /\ Len(l[n].io) \in Nat /\ Len(l[n].p2p) \in Nat
  BY <1>1
<1> QED
  BY <1>1, <1>2 DEF P2PLen

\* Steps that leave the records and the loops as they are.
LEMMA QuietPauses ==
    ASSUME NEW l, NEW r, QuietLoad(l, r), QuietCall(l, r), QuietSnapshot(l, r),
           UNCHANGED <<names, nodes, g_props, stage, i, ids, props, num_io, num_p2p,
                       sys_link_id, got>>,
           \/ pc' \in {"stopped", "idle"} \/ pc' = pc
           \/ pc = "target" /\ pc' \in {"io", "p2p"}
           \/ pc = "node" /\ pc' = "end"
    PROVE  QuietLoad(l, r)' /\ QuietCall(l, r)' /\ QuietSnapshot(l, r)'
<1>1. QuietLoad(l, r)'
  BY DEF QuietLoad, Running
<1>2. QuietSnapshot(l, r)'
  BY DEF QuietSnapshot
<1>3. NumNodes' = NumNodes /\ This' = This
  BY DEF NumNodes, This
<1>4. QuietCall(l, r)'
  BY <1>3 DEF QuietCall, QuietNode
<1> QED
  BY <1>1, <1>2, <1>4

\* Every directory is there: none is gone, and of each file is read what it shows.
LEMMA QuietLoads ==
    ASSUME IInv, NEW l \in Layouts, NEW r \in BOOLEAN, l = Current, r = reports,
           QuietLoad(l, r), QuietSnapshot(l, r), LoadFile \/ LoadGone
    PROVE  QuietLoad(l, r)' /\ QuietCall(l, r)' /\ QuietSnapshot(l, r)'
<1>1. ~LoadGone
  BY DEF LoadGone, QuietLoad
<1>2. PICK n \in DOMAIN l, file \in Files :
          /\ <<n, file>> \in names
          /\ nodes' = With(n, Loaded(n, file))
          /\ names' = names \ {<<n, file>>}
  BY <1>1 DEF LoadFile
<1>3. pc = "load" /\ pc' = "load" /\ g_props' = g_props
  BY <1>1 DEF LoadFile
<1>4. DOMAIN nodes' = DOMAIN nodes \cup {n} /\ nodes'[n] = Loaded(n, file)
  BY <1>2 DEF With
<1>5. Begun(n) \in LoadedNode
  BY BegunType DEF IInv
<1>6. /\ <<n, "gpu_id">> \in names \/ Begun(n).gpu = l[n].gpu
      /\ <<n, "properties">> \in names \/ HasProperties(l, r, n, Begun(n))
  <2>1. CASE n \in DOMAIN nodes
    BY <2>1 DEF Begun, QuietLoad
  <2>2. CASE n \notin DOMAIN nodes
    BY <1>2, <2>2, NotBegun DEF IInv, Files
  <2> QED
    BY <2>1, <2>2
<1>7. /\ <<n, "gpu_id">> \in names' \/ nodes'[n].gpu = l[n].gpu
      /\ <<n, "properties">> \in names' \/ HasProperties(l, r, n, nodes'[n])
  <2>1. CASE file = "gpu_id"
    <3>1. nodes'[n] = [Begun(n) EXCEPT !.gpu = l[n].gpu]
      BY <1>4, <2>1 DEF Loaded
    <3>2. /\ nodes'[n].gpu = l[n].gpu
          /\ HasProperties(l, r, n, Begun(n)) => HasProperties(l, r, n, nodes'[n])
      BY <1>5, <3>1 DEF LoadedNode, HasProperties
    <3>3. <<n, "properties">> \in names => <<n, "properties">> \in names'
      BY <1>2, <2>1
    <3> QED
      BY <1>6, <3>2, <3>3
  <2>2. CASE file = "properties"
    <3>1. nodes'[n] =
            [gpu |-> Begun(n).gpu, hive |-> l[n].hive, banks |-> TRUE,
             io_links_count |-> Len(l[n].io), p2p_links_count |-> Len(P2P(l, n)),
             p2p_reported |-> r]
      BY <1>4, <2>2 DEF Loaded
    <3>2. Len(P2P(l, n)) = P2PLen(l, r, n)
      BY DEF P2P, P2PLen
    <3>3. HasProperties(l, r, n, nodes'[n]) /\ nodes'[n].gpu = Begun(n).gpu
      BY <3>1, <3>2 DEF HasProperties
    <3>4. <<n, "gpu_id">> \in names => <<n, "gpu_id">> \in names'
      BY <1>2, <2>2
    <3> QED
      BY <1>6, <3>3, <3>4
  <2> QED
    BY <2>1, <2>2 DEF Files
<1>8. ASSUME NEW m \in DOMAIN nodes'
      PROVE  /\ m \in DOMAIN l
             /\ <<m, "gpu_id">> \in names' \/ nodes'[m].gpu = l[m].gpu
             /\ <<m, "properties">> \in names' \/ HasProperties(l, r, m, nodes'[m])
  <2>1. CASE m = n
    BY <1>7, <2>1
  <2>2. CASE m # n
    <3>1. m \in DOMAIN nodes /\ nodes'[m] = nodes[m]
      BY <1>2, <1>4, <1>8, <2>2 DEF With
    <3>2. \A f \in Files : <<m, f>> \in names => <<m, f>> \in names'
      BY <1>2, <2>2
    <3> QED
      BY <3>1, <3>2 DEF QuietLoad, Files
  <2> QED
    BY <2>1, <2>2
<1>9. \A f \in names' : f[1] \in DOMAIN l
  BY <1>2 DEF QuietLoad
<1> QED
  BY <1>3, <1>8, <1>9 DEF QuietLoad, QuietCall, QuietSnapshot, Running

LEMMA QuietChecks ==
    ASSUME IInv, NEW l, NEW r, QuietLoad(l, r), QuietCall(l, r), QuietSnapshot(l, r),
           SnapshotBegin \/ CheckSupported \/ CheckRefused \/ CheckDone \/ LoadDone
    PROVE  QuietLoad(l, r)' /\ QuietCall(l, r)' /\ QuietSnapshot(l, r)'
<1>1. UNCHANGED <<names, nodes, g_props>> /\ (num_p2p' = num_p2p \/ num_p2p' = 0)
  BY DEF SnapshotBegin, CheckSupported, CheckRefused, CheckDone, LoadDone, call
<1>2. pc' \in {"idle", "check"} \/ (pc' = "node" /\ props' = <<>>)
  <2>1. CASE CheckDone
    <3>1. pc = "check" /\ pc' = "node" /\ props' = props
      BY <2>1 DEF CheckDone
    <3> QED
      BY <3>1 DEF IInv, CallInv
  <2>2. CASE ~CheckDone
    BY <2>2 DEF SnapshotBegin, CheckSupported, CheckRefused, LoadDone
  <2> QED
    BY <2>1, <2>2
<1>3. Running' => num_p2p' = 0 \/ (Running /\ num_p2p' = num_p2p)
  BY DEF SnapshotBegin, CheckSupported, CheckRefused, CheckDone, LoadDone, Running
<1>4. QuietLoad(l, r)'
  BY <1>1, <1>3 DEF QuietLoad
<1>5. QuietCall(l, r)' /\ QuietSnapshot(l, r)'
  BY <1>1, <1>2 DEF QuietCall, QuietSnapshot
<1> QED
  BY <1>4, <1>5

LEMMA QuietNodes ==
    ASSUME IInv, NEW l \in Layouts, NEW r \in BOOLEAN, l = Current, r = reports,
           QuietLoad(l, r), QuietCall(l, r), QuietSnapshot(l, r), Node
    PROVE  QuietLoad(l, r)' /\ QuietCall(l, r)' /\ QuietSnapshot(l, r)'
<1> DEFINE new == [gpu |-> nodes[i].gpu, hive |-> nodes[i].hive,
                   public |-> nodes[i].banks /\ Current[i].public,
                   NumIOLinks |-> AllLinks, link |-> <<>>]
<1>1. /\ pc = "node" /\ i < NumNodes
      /\ props' = Append(props, new) /\ num_p2p' = P2PCount
      /\ num_io' = Minus(AllLinks, P2PCount)
      /\ sys_link_id' = 0 /\ stage' = "io" /\ pc' = "io"
      /\ UNCHANGED <<reports, names, nodes, g_props, i, ids>>
  BY DEF Node
<1>2. /\ new.gpu = nodes[i].gpu /\ new.hive = nodes[i].hive /\ new.link = <<>>
      /\ new.public = (nodes[i].banks /\ l[i].public)
  OBVIOUS
<1> HIDE DEF new
<1>3. /\ NumNodes \in Nat /\ NumNodes' = NumNodes /\ i \in Nat /\ i \in DOMAIN nodes
      /\ names = {}
  <2>1. names = {} /\ ids \subseteq DOMAIN nodes /\ i \in Nat
    BY <1>1 DEF IInv, LoadInv, CallInv
  <2>2. NumNodes \in Nat /\ 0 .. NumNodes - 1 \subseteq DOMAIN nodes
    BY <2>1, NumbersAreLoaded DEF IInv
  <2> QED
    BY <1>1, <2>1, <2>2 DEF NumNodes
<1>4. IsLoaded(l, r, i, nodes[i])
  BY <1>3 DEF QuietLoad, IsLoaded
<1>5. /\ i \in DOMAIN l /\ Len(l[i].io) \in Nat /\ P2PLen(l, r, i) \in Nat
      /\ Len(l[i].io) + P2PLen(l, r, i) < Modulus
  BY <1>4, LayoutNode DEF IsLoaded
<1>6. P2PCount = P2PLen(l, r, i)
  <2>1. CASE r
    BY <1>4, <2>1 DEF IsLoaded, HasProperties, P2PCount
  <2>2. CASE ~r
    BY <1>1, <1>4, <2>2 DEF IsLoaded, HasProperties, P2PCount, P2PLen, QuietLoad, Running
  <2> QED
    BY <2>1, <2>2
<1>7. num_io' = Len(l[i].io)
  <2>1. AllLinks - P2PCount = Len(l[i].io)
    BY <1>4, <1>5, <1>6 DEF AllLinks, IsLoaded, HasProperties
  <2>2. Len(l[i].io) \in 0 .. Modulus - 1
    BY <1>5
  <2>3. \A n \in 0 .. Modulus - 1 : n % Modulus = n
    OBVIOUS
  <2> QED
    BY <1>1, <2>1, <2>2, <2>3 DEF Minus
<1>8. /\ Len(props) = i /\ props \in Seq(NodeProps)
      /\ \A n \in DOMAIN props : IsExact(l, r, n - 1, NumNodes, props[n])
  BY <1>1 DEF IInv, CallInv, QuietCall
<1>9. props'[i + 1] = new /\ \A n \in 1..i : props'[n] = props[n]
  BY <1>1, <1>3, <1>8
<1>10. IsCopied(l, i, new)
  <2>1. l[i].public \in BOOLEAN
    BY <1>5, LayoutsAssumption DEF Layout
  <2> QED
    BY <1>2, <1>4, <2>1 DEF IsCopied, IsLoaded, HasProperties
<1>11. QuietNode(l, r)'
  <2>1. This' = new /\ Len(This') = Len(new) /\ Len(new.link) = 0
    BY <1>1, <1>2, <1>9 DEF This
  <2> QED
    BY <1>1, <1>3, <1>5, <1>6, <1>7, <1>10, <2>1 DEF QuietNode
<1>12. QuietCall(l, r)'
  <2>1. \A n \in 1..i : IsExact(l, r, n - 1, NumNodes, props'[n])
    BY <1>3, <1>8, <1>9
  <2> QED
    BY <1>1, <1>3, <1>11, <2>1 DEF QuietCall
<1>13. QuietLoad(l, r)'
  <2>1. ~r => num_p2p' = 0
    BY <1>1, <1>6 DEF P2PLen
  <2> QED
    BY <1>1, <2>1 DEF QuietLoad
<1> QED
  BY <1>1, <1>12, <1>13 DEF QuietSnapshot

LEMMA QuietReads ==
    ASSUME IInv, NEW l \in Layouts, NEW r \in BOOLEAN, l = Current, r = reports,
           QuietLoad(l, r), QuietCall(l, r), QuietSnapshot(l, r), ReadLink
    PROVE  QuietLoad(l, r)' /\ QuietCall(l, r)' /\ QuietSnapshot(l, r)'
<1>1. /\ pc = stage /\ LinkLoop /\ pc' = "target" /\ pc \in {"io", "p2p"}
      /\ got' = IF sys_link_id + 1 \in DOMAIN LinksOf(i)
                THEN {LinksOf(i)[sys_link_id + 1]} ELSE {}
      /\ UNCHANGED <<reports, names, nodes, g_props, stage, i, ids, props, num_io, num_p2p,
                     sys_link_id>>
  BY DEF ReadLink, IInv, CallInv
<1>2. NumNodes' = NumNodes /\ This' = This
  BY <1>1 DEF NumNodes, This
<1>3. /\ QuietNode(l, r) /\ \A n \in 1..i : IsExact(l, r, n - 1, NumNodes, props[n])
      /\ NumNodes \in Nat /\ sys_link_id \in Nat /\ i \in DOMAIN l /\ Len(This.link) \in Nat
  BY <1>1, InsideCall DEF QuietCall, QuietNode, IsCopied, IInv, CallInv
<1>4. /\ l[i].io \in Seq(IoLink) /\ l[i].p2p \in Seq(IoLink)
      /\ Len(l[i].io) \in Nat /\ P2PLen(l, r, i) \in Nat
  BY <1>3, LayoutNode
<1>5. /\ sys_link_id < (IF stage = "io" THEN num_io ELSE num_p2p)
      /\ Len(This.link) < NumNodes - 1
  BY <1>1 DEF LinkLoop
<1>6. ASSUME NEW link \in got'
      PROVE  link = LinkAt(l, i, Len(This.link) + 1)
  <2>1. link = LinksOf(i)[sys_link_id + 1]
    BY <1>1
  <2>2. CASE stage = "io"
    <3>1. LinksOf(i) = l[i].io
      BY <1>3, <2>2 DEF LinksOf
    <3>2. Len(This.link) + 1 <= Len(l[i].io) /\ Len(This.link) = sys_link_id
      BY <1>3, <1>4, <1>5, <2>2 DEF QuietNode
    <3> QED
      BY <2>1, <3>1, <3>2 DEF LinkAt
  <2>3. CASE stage = "p2p"
    <3>1. LinksOf(i) = P2P(l, i)
      BY <1>3, <2>3 DEF LinksOf
    <3>2. r
      BY <1>3, <1>5, <2>3 DEF QuietNode, P2PLen
    <3>3. LinksOf(i) = l[i].p2p
      BY <3>1, <3>2 DEF P2P
    <3>4. Len(This.link) = Len(l[i].io) + sys_link_id
      BY <1>3, <1>4, <1>5, <2>3 DEF QuietNode, Shorter
    <3>5. PICK a \in Nat, b \in Nat :
            a = Len(l[i].io) /\ b = sys_link_id /\ Len(This.link) = a + b
      BY <1>3, <1>4, <3>4
    <3>6. ~(a + b + 1 <= a) /\ (a + b + 1) - a = b + 1
      OBVIOUS
    <3>7. LinkAt(l, i, a + b + 1) = l[i].p2p[b + 1]
      BY <3>5, <3>6 DEF LinkAt
    <3> QED
      BY <2>1, <3>3, <3>5, <3>7
  <2> QED
    BY <1>1, <2>2, <2>3
<1>7. QuietCall(l, r)'
  <2>1. QuietNode(l, r)'
    BY <1>1, <1>2, <1>3 DEF QuietNode
  <2> QED
    BY <1>1, <1>2, <1>3, <1>5, <1>6, <2>1 DEF QuietCall
<1> QED
  BY <1>1, <1>7 DEF QuietLoad, QuietSnapshot, Running

LEMMA QuietTakes ==
    ASSUME IInv, NEW l \in Layouts, NEW r \in BOOLEAN,
           QuietLoad(l, r), QuietCall(l, r), QuietSnapshot(l, r), LinkTaken
    PROVE  QuietLoad(l, r)' /\ QuietCall(l, r)' /\ QuietSnapshot(l, r)'
<1>1. PICK link \in got :
          props' = [props EXCEPT ![i + 1].link = Append(@, KeptLink(link))]
  BY DEF LinkTaken
<1>2. /\ pc = "target" /\ pc' = stage /\ stage \in {"io", "p2p"}
      /\ sys_link_id' = sys_link_id + 1 /\ sys_link_id \in Nat /\ i \in Nat
      /\ props \in Seq(NodeProps) /\ Len(props) = i + 1
      /\ UNCHANGED <<names, nodes, g_props, stage, i, ids, num_io, num_p2p>>
  BY DEF LinkTaken, IInv, CallInv
<1>3. NumNodes \in Nat /\ This \in NodeProps /\ Len(This.link) \in Nat /\ NumNodes' = NumNodes
  BY <1>2, InsideCall DEF NumNodes
<1>4. /\ QuietNode(l, r) /\ \A n \in 1..i : IsExact(l, r, n - 1, NumNodes, props[n])
      /\ sys_link_id < (IF stage = "io" THEN num_io ELSE num_p2p)
      /\ link = LinkAt(l, i, Len(This.link) + 1)
      /\ Len(This.link) < NumNodes - 1
      /\ num_io \in Nat /\ num_p2p \in Nat
  BY <1>2 DEF QuietCall, IInv, CallInv, CountInv
<1>5. /\ \A n \in 1..i : props'[n] = props[n]
      /\ This'.gpu = This.gpu /\ This'.hive = This.hive /\ This'.public = This.public
      /\ This'.link = Append(This.link, KeptLink(link))
  <2> DEFINE new == [This EXCEPT !.link = Append(@, KeptLink(link))]
  <2>1. props' = [props EXCEPT ![i + 1] = new]
    BY <1>1 DEF This
  <2>2. /\ new.gpu = This.gpu /\ new.hive = This.hive /\ new.public = This.public
        /\ new.link = Append(This.link, KeptLink(link))
    BY <1>3 DEF NodeProps
  <2> HIDE DEF new
  <2>3. props'[i + 1] = new /\ \A n \in 1..i : props'[n] = props[n]
    BY <1>2, <2>1
  <2>4. This' = new
    BY <1>2, <2>3 DEF This
  <2> QED
    BY <2>2, <2>3, <2>4
<1>6. This.link \in Seq(IoLink)
  BY <1>3 DEF NodeProps
<1>7. /\ Len(This'.link) = Len(This.link) + 1
      /\ DOMAIN This'.link = DOMAIN This.link \cup {Len(This.link) + 1}
      /\ \A k \in DOMAIN This.link : This'.link[k] = This.link[k]
      /\ This'.link[Len(This.link) + 1] = KeptLink(link)
  BY <1>5, <1>6
<1>8. IsCopied(l, i, This')
  <2>1. IsCopied(l, i, This)
    BY <1>4 DEF QuietNode
  <2>2. KeptLink(link) = [LinkAt(l, i, Len(This.link) + 1) EXCEPT !.to = i]
    BY <1>4 DEF KeptLink
  <2> QED
    BY <1>4, <1>5, <1>7, <2>1, <2>2 DEF IsCopied
<1>9. QuietNode(l, r)'
  <2>1. Len(This'.link) <= NumNodes - 1
    BY <1>3, <1>4, <1>7
  <2>2. stage = "io" => Len(This'.link) = sys_link_id + 1 /\ sys_link_id + 1 <= num_io
    BY <1>2, <1>4, <1>7 DEF QuietNode
  <2>3. stage = "p2p" => /\ Len(This'.link) = Shorter(num_io, NumNodes - 1) + sys_link_id + 1
                         /\ sys_link_id + 1 <= num_p2p
    <3>1. Shorter(num_io, NumNodes - 1) \in Int
      BY <1>3, <1>4 DEF Shorter
    <3> QED
      BY <1>2, <1>4, <1>7, <3>1 DEF QuietNode
  <2> HIDE DEF Shorter
  <2>4. Shorter(num_io, NumNodes - 1) \in Int
    BY <1>3, <1>4 DEF Shorter
  <2> QED
    BY <1>2, <1>3, <1>4, <1>8, <2>1, <2>2, <2>3, <2>4 DEF QuietNode
<1>10. QuietCall(l, r)'
  BY <1>2, <1>3, <1>4, <1>5, <1>9 DEF QuietCall
<1> QED
  BY <1>2, <1>10 DEF QuietLoad, QuietSnapshot, Running

LEMMA QuietLoopsEnd ==
    ASSUME IInv, NEW l \in Layouts, NEW r \in BOOLEAN,
           QuietLoad(l, r), QuietCall(l, r), QuietSnapshot(l, r), IoLinksDone \/ P2PLinksDone
    PROVE  QuietLoad(l, r)' /\ QuietCall(l, r)' /\ QuietSnapshot(l, r)'
<1> DEFINE looked == IF pc = "io" THEN num_io ELSE num_p2p
<1>1. /\ pc \in {"io", "p2p"} /\ stage = pc /\ ~LinkLoop /\ props' = Limited(looked)
      /\ i \in Nat /\ sys_link_id \in Nat /\ num_io \in Nat /\ num_p2p \in Nat
      /\ UNCHANGED <<names, nodes, g_props, ids, num_io, num_p2p>>
  BY DEF IoLinksDone, P2PLinksDone, IInv, CallInv
<1>2. NumNodes \in Nat /\ This \in NodeProps /\ Len(This.link) \in Nat /\ NumNodes' = NumNodes
  BY <1>1, InsideCall DEF NumNodes
<1>3. /\ QuietNode(l, r) /\ \A n \in 1..i : IsExact(l, r, n - 1, NumNodes, props[n])
      /\ NumNodes \in Nat \ {0}
  BY <1>1, <1>2 DEF QuietCall, IInv, CallInv
<1>4. /\ Len(props') = i + 1
      /\ \A n \in 1..i : props'[n] = props[n]
      /\ props'[i + 1].link = This.link
      /\ props'[i + 1].gpu = This.gpu /\ props'[i + 1].hive = This.hive
      /\ props'[i + 1].public = This.public
  BY <1>1, LimitedThis
<1>5. IsCopied(l, i, props'[i + 1])
  BY <1>3, <1>4 DEF QuietNode, IsCopied
<1>6. sys_link_id >= looked \/ Len(This.link) >= NumNodes - 1
  BY <1>1, <1>2 DEF LinkLoop
<1>7. CASE IoLinksDone
  <2>1. /\ pc = "io" /\ stage' = "p2p" /\ pc' = "p2p" /\ sys_link_id' = 0 /\ i' = i
        /\ This' = props'[i + 1]
    BY <1>7 DEF IoLinksDone, This
  <2>2. Len(This.link) = Shorter(num_io, NumNodes - 1)
    BY <1>1, <1>2, <1>3, <1>6, <2>1 DEF QuietNode, Shorter
  <2>3. /\ num_io = Len(l[i].io) /\ num_p2p = P2PLen(l, r, i)
        /\ Len(This.link) <= NumNodes - 1
    BY <1>3 DEF QuietNode
  <2>4. QuietNode(l, r)'
    BY <1>1, <1>2, <1>4, <1>5, <2>1, <2>2, <2>3 DEF QuietNode
  <2>5. QuietCall(l, r)'
    BY <1>2, <1>3, <1>4, <2>1, <2>4 DEF QuietCall
  <2> QED
    BY <1>1, <2>1, <2>5 DEF QuietLoad, QuietSnapshot, Running
<1>8. CASE P2PLinksDone
  <2>1. pc = "p2p" /\ pc' = "node" /\ i' = i + 1
    BY <1>8 DEF P2PLinksDone
  <2>2. Len(This.link) = Shorter(num_io + num_p2p, NumNodes - 1)
    <3>1. /\ Len(This.link) = Shorter(num_io, NumNodes - 1) + sys_link_id
          /\ sys_link_id <= num_p2p /\ Len(This.link) <= NumNodes - 1
      BY <1>1, <1>3, <2>1 DEF QuietNode
    <3>2. sys_link_id >= num_p2p \/ Len(This.link) >= NumNodes - 1
      BY <1>6, <2>1
    <3>3. NumNodes \in Nat /\ num_io \in Nat /\ num_p2p \in Nat /\ sys_link_id \in Nat
      BY <1>1, <1>2
    <3> QED
      BY <3>1, <3>2, <3>3 DEF Shorter
  <2>3. IsExact(l, r, i, NumNodes, props'[i + 1])
    BY <1>3, <1>4, <1>5, <2>2 DEF QuietNode, IsExact
  <2>4. \A n \in DOMAIN props' : IsExact(l, r, n - 1, NumNodes, props'[n])
    <3>1. \A n \in DOMAIN props' : n \in 1..i \/ n = i + 1
      <4>1. props' \in Seq(NodeProps)
        BY <1>1, LimitedThis
      <4> QED
        BY <1>1, <1>4, <4>1
    <3>2. (i + 1) - 1 = i
      BY <1>1
    <3> QED
      BY <1>3, <1>4, <2>3, <3>1, <3>2
  <2>5. QuietCall(l, r)'
    BY <1>2, <2>1, <2>4 DEF QuietCall
  <2> QED
    BY <1>1, <2>1, <2>5 DEF QuietLoad, QuietSnapshot, Running
<1> QED
  BY <1>7, <1>8

LEMMA QuietEnds ==
    ASSUME IInv, NEW l, NEW r,
           QuietLoad(l, r), QuietCall(l, r), QuietSnapshot(l, r), SnapshotEnd
    PROVE  QuietLoad(l, r)' /\ QuietCall(l, r)' /\ QuietSnapshot(l, r)'
<1>1. /\ pc = "end" /\ pc' = "idle" /\ g_props'.props = props
      /\ UNCHANGED <<names, nodes>> /\ Len(props) = NumNodes /\ props \in Seq(NodeProps)
  BY DEF SnapshotEnd, Publish, IInv, CallInv
<1> QED
  BY <1>1 DEF QuietLoad, QuietCall, QuietSnapshot, Running

LEMMA NextQuiet ==
    ASSUME IInv, QuietInv, [Next]_topologyVars
    PROVE  QuietInv'
<1>1. CASE KernelChanges
  <2>1. Len(history) \in Nat \ {0} /\ \E l : history' = Append(history, l)
    BY <1>1, CurrentLayout DEF KernelChanges, Generation, IInv
  <2>2. Len(history') # 1
    BY <2>1 DEF IInv, LoadInv
  <2> QED
    BY <2>2 DEF QuietInv, Generation
<1>2. CASE ~KernelChanges
  <2>1. UNCHANGED <<history, reports>>
    BY <1>2 DEF Next, topologyVars, LoadStep, LoadFile, LoadGone, LoadPanics, LoadDone, SnapshotBegin,
         SnapshotStep, CheckSupported, CheckRefused, CheckPanics, CheckDone, Node, NodePanics,
         ReadLink, LinkTaken, LinkSkipped, LinkPanics, IoLinksDone, P2PLinksDone, NodesDone,
         SnapshotEnd, SnapshotPanics
  <2>2. Generation' = Generation /\ Current' = Current
    BY <2>1 DEF Generation, Current
  <2> SUFFICES ASSUME NEW l \in Layouts, NEW r \in BOOLEAN,
                      Generation = 1, l = Current, r = reports
               PROVE  QuietLoad(l, r)' /\ QuietCall(l, r)' /\ QuietSnapshot(l, r)'
    BY <2>1, <2>2 DEF QuietInv
  <2>3. QuietLoad(l, r) /\ QuietCall(l, r) /\ QuietSnapshot(l, r)
    BY DEF QuietInv
  <2>4. CASE \/ UNCHANGED topologyVars \/ LoadPanics \/ NodePanics \/ LinkSkipped
             \/ CheckPanics \/ LinkPanics \/ NodesDone \/ SnapshotPanics
    <3>1. UNCHANGED <<names, nodes, g_props, stage, i, ids, props, num_io, num_p2p,
                      sys_link_id, got>>
      BY <2>4 DEF topologyVars, call, LoadPanics, CheckPanics, NodePanics, LinkSkipped,
           LinkPanics, NodesDone, SnapshotPanics
    <3>2. \/ pc' \in {"stopped", "idle"} \/ pc' = pc
          \/ pc = "target" /\ pc' \in {"io", "p2p"}
          \/ pc = "node" /\ pc' = "end"
      BY <2>4 DEF topologyVars, LoadPanics, CheckPanics, NodePanics, LinkSkipped,
           LinkPanics, NodesDone, SnapshotPanics, IInv, CallInv
    <3> QED
      BY <2>3, <3>1, <3>2, QuietPauses
  <2>5. CASE LoadFile \/ LoadGone
    BY <2>3, <2>5, QuietLoads
  <2>6. CASE SnapshotBegin \/ CheckSupported \/ CheckRefused \/ CheckDone \/ LoadDone
    BY <2>3, <2>6, QuietChecks
  <2>7. CASE Node
    BY <2>3, <2>7, QuietNodes
  <2>8. CASE ReadLink
    BY <2>3, <2>8, QuietReads
  <2>9. CASE LinkTaken
    BY <2>3, <2>9, QuietTakes
  <2>10. CASE IoLinksDone \/ P2PLinksDone
    BY <2>3, <2>10, QuietLoopsEnd
  <2>11. CASE SnapshotEnd
    BY <2>3, <2>11, QuietEnds
  <2> QED
    BY <1>2, <2>4, <2>5, <2>6, <2>7, <2>8, <2>9, <2>10, <2>11 DEF Next, LoadStep, SnapshotStep
<1> QED
  BY <1>1, <1>2

\* If the kernel keeps the layout that was loaded, and opens every device, a published
\* snapshot is that layout, but that its links lead to their own nodes; for every
\* layout, with as many links as one likes.
THEOREM QuietSnapshotsAreExact == Spec => []QuietSnapshotIsExact
<1>1. IInv /\ QuietInv => QuietSnapshotIsExact
  <2> SUFFICES ASSUME IInv, QuietInv, Generation = 1,
                      Len(g_props.props) = Cardinality(DOMAIN Current),
                      NEW n \in DOMAIN Current
               PROVE  LET node  == g_props.props[n + 1]
                          links == Current[n].io \o P2P(Current, n)
                          most  == Shorter(Len(links), Len(g_props.props) - 1)
                      IN  /\ node.gpu = Current[n].gpu /\ node.hive = Current[n].hive
                          /\ node.public = Current[n].public
                          /\ node.link = [k \in 1 .. most |-> [links[k] EXCEPT !.to = n]]
    BY DEF QuietSnapshotIsExact
  <2> DEFINE l     == Current
             r     == reports
             node  == g_props.props[n + 1]
             links == l[n].io \o P2P(l, n)
             most  == Shorter(Len(links), Len(g_props.props) - 1)
  <2>1. /\ l \in Layouts /\ Layout(l) /\ r \in BOOLEAN
    BY CurrentLayout DEF IInv, LoadInv
  <2>2. QuietSnapshot(l, r)
    BY <2>1 DEF QuietInv
  <2>3. IsExact(l, r, n, Len(g_props.props), node)
    <3>1. n \in 0 .. Len(g_props.props) - 1 /\ Len(g_props.props) \in Nat
      BY <2>1 DEF Layout
    <3>2. n + 1 \in DOMAIN g_props.props /\ (n + 1) - 1 = n
      BY <2>2, <3>1 DEF QuietSnapshot
    <3> QED
      BY <2>2, <3>2 DEF QuietSnapshot
  <2>4. /\ node.link \in Seq(IoLink) /\ Len(g_props.props) \in Nat \ {0}
    <3>1. n \in 0 .. Len(g_props.props) - 1 /\ Len(g_props.props) \in Nat
      BY <2>1 DEF Layout
    <3>2. n + 1 \in DOMAIN g_props.props
      BY <2>2, <3>1 DEF QuietSnapshot
    <3> QED
      <4>1. node \in NodeProps
        BY <2>2, <3>2 DEF QuietSnapshot
      <4> QED
        BY <3>1, <4>1 DEF NodeProps
  <2>5. /\ l[n].io \in Seq(IoLink) /\ P2P(l, n) \in Seq(IoLink)
        /\ Len(P2P(l, n)) = P2PLen(l, r, n)
        /\ Len(l[n].io) \in Nat /\ Len(P2P(l, n)) \in Nat
    <3>1. /\ l[n].io \in Seq(IoLink) /\ l[n].p2p \in Seq(IoLink)
          /\ Len(l[n].io) \in Nat /\ Len(l[n].p2p) \in Nat
      BY <2>1, LayoutNode
    <3>2. CASE r
      BY <3>1, <3>2 DEF P2P, P2PLen
    <3>3. CASE ~r
      <4>1. P2P(l, n) = <<>> /\ P2PLen(l, r, n) = 0
        BY <3>3 DEF P2P, P2PLen
      <4> QED
        BY <3>1, <4>1
    <3> QED
      BY <3>2, <3>3
  <2>6. /\ links \in Seq(IoLink) /\ Len(links) = Len(l[n].io) + P2PLen(l, r, n)
        /\ \A k \in 1 .. Len(links) : links[k] = LinkAt(l, n, k)
    <3>1. /\ links \in Seq(IoLink) /\ Len(links) = Len(l[n].io) + Len(P2P(l, n))
      BY <2>5
    <3>2. ASSUME NEW k \in 1 .. Len(links)
          PROVE  links[k] = LinkAt(l, n, k)
      <4>1. CASE k <= Len(l[n].io)
        BY <2>5, <3>1, <4>1 DEF LinkAt
      <4>2. CASE ~(k <= Len(l[n].io))
        <5>1. links[k] = P2P(l, n)[k - Len(l[n].io)] /\ Len(P2P(l, n)) # 0
          BY <2>5, <3>1, <4>2
        <5>2. r
          BY <2>5, <5>1 DEF P2PLen
        <5> QED
          BY <4>2, <5>1, <5>2 DEF LinkAt, P2P
      <4> QED
        BY <4>1, <4>2
    <3> QED
      BY <2>5, <3>1, <3>2
  <2> HIDE DEF links
  <2>7. most \in 0 .. Len(links) /\ Len(node.link) = most /\ DOMAIN node.link = 1 .. most
    <3>1. most \in 0 .. Len(links)
      BY <2>4, <2>6 DEF Shorter
    <3>2. Len(node.link) = most
      BY <2>3, <2>6 DEF IsExact
    <3> QED
      BY <2>4, <3>1, <3>2
  <2> HIDE DEF most
  <2>8. \A k \in 1 .. most : node.link[k] = [links[k] EXCEPT !.to = n]
    BY <2>3, <2>6, <2>7 DEF IsExact, IsCopied
  <2>9. node.link = [k \in 1 .. most |-> [links[k] EXCEPT !.to = n]]
    <3>1. node.link = [k \in DOMAIN node.link |-> node.link[k]]
      BY <2>4
    <3> HIDE DEF node
    <3> QED
      BY <2>7, <2>8, <3>1
  <2>10. /\ node.gpu = l[n].gpu /\ node.hive = l[n].hive /\ node.public = l[n].public
    BY <2>3 DEF IsExact, IsCopied
  <2> QED
    BY <2>9, <2>10 DEF links, most
<1> QED
  BY <1>1, InitIInv, NextIInv, QuietStarts, NextQuiet, PTL DEF Spec
=============================================================================
