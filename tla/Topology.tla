------------------------------ MODULE Topology ------------------------------
(***************************************************************************)
(* The snapshot of the topology: SysDevicesVirtualKfd::load_nodes, which   *)
(* runs once when the globals are made, and topology_take_snapshot, which  *)
(* hsaKmtAcquireSystemProperties runs until one succeeds (topology.rs,     *)
(* topology_utils.rs).                                                     *)
(*                                                                         *)
(* The kernel is the environment.  It changes the directories of sysfs     *)
(* whenever it likes, all at once and with a new generation_id, and it may *)
(* refuse to open the render device of a GPU.                              *)
(*                                                                         *)
(* A node of a layout is what sysfs shows of it: its GPU id, its hive, a   *)
(* memory bank, its io links and its p2p links, which old kernels do not   *)
(* report.  Of a node, load_nodes reads two files, one with the GPU id and *)
(* one with the properties, among them the hive and the numbers of banks   *)
(* and links; the files of its banks and caches are read at once.          *)
(***************************************************************************)
EXTENDS IoLinks, FiniteSets

CONSTANTS
    Layouts,        \* functions from 0 .. n-1, the sysfs node numbers, to nodes
    MaxGeneration   \* bound: how often the kernel changes the layout, plus one

IoLink == [type : STRING, to : Nat, weight : Nat]

\* The kernel numbers its nodes without gaps; counts of links do not overflow.
Layout(l) ==
    /\ DOMAIN l = 0 .. Cardinality(DOMAIN l) - 1 /\ Cardinality(DOMAIN l) \in Nat
    /\ \A n \in DOMAIN l :
          /\ l[n] \in [gpu : Nat, hive : Nat, public : BOOLEAN,
                        io : Seq(IoLink), p2p : Seq(IoLink)]
          /\ Len(l[n].io) + Len(l[n].p2p) < Modulus

ASSUME LayoutsAssumption == \A l \in Layouts : Layout(l)
ASSUME BoundAssumption   == MaxGeneration \in Nat \ {0}

GpuIds == (UNION {{l[n].gpu : n \in DOMAIN l} : l \in Layouts}) \ {0}

VARIABLES
    history,            \* the layouts so far; generation_id is their number
    reports,            \* does this kernel report p2p_links_count?
    names, nodes,       \* load_nodes: the files to read, <<node, name>>, what was read
    opened,             \* GPUs whose render device is open
    pc,                 \* load, idle, check, node, io, p2p, target, end, stopped
    stage,              \* which loop over links: io or p2p
    gen_start, i, ids, props, p2p_links, num_io, num_p2p, sys_link_id, got,
    g_props             \* the snapshot: [gen, props], or None

call         == <<stage, gen_start, i, ids, props, p2p_links, num_io, num_p2p, sys_link_id, got>>
topologyVars == <<history, reports, names, nodes, opened, pc, call, g_props>>

None       == [gen |-> 0, props |-> <<>>]
Generation == Len(history)
Current    == history[Generation]
NumNodes   == Cardinality(ids)

P2P(l, n) == IF reports THEN l[n].p2p ELSE <<>>

Files == {"gpu_id", "properties"}

\* A node of load_nodes before its files are read, and with one more of them read.
NewNode ==
    [gpu |-> 0, hive |-> 0, banks |-> FALSE,
     io_links_count |-> 0, p2p_links_count |-> 0, p2p_reported |-> FALSE]

Begun(n) == IF n \in DOMAIN nodes THEN nodes[n] ELSE NewNode

Loaded(n, file) ==
    IF file = "gpu_id"
    THEN [Begun(n) EXCEPT !.gpu = Current[n].gpu]
    ELSE [gpu |-> Begun(n).gpu, hive |-> Current[n].hive, banks |-> TRUE,
          io_links_count |-> Len(Current[n].io), p2p_links_count |-> Len(P2P(Current, n)),
          p2p_reported |-> reports]

NoCall ==
    /\ stage = "io" /\ gen_start = 0 /\ i = 0 /\ ids = {} /\ props = <<>>
    /\ p2p_links = FALSE /\ num_io = 0 /\ num_p2p = 0 /\ sys_link_id = 0
    /\ got = {}

\* hsaKmtOpenKFD has already opened some of the devices.
Init ==
    /\ \E l \in Layouts : history = <<l>>
    /\ reports \in BOOLEAN
    /\ names = (DOMAIN Current) \X Files /\ nodes = <<>>
    /\ opened \in SUBSET GpuIds
    /\ pc = "load"
    /\ NoCall
    /\ g_props = None

-----------------------------------------------------------------------------
(* The kernel *)

KernelChanges ==
    /\ pc # "stopped" /\ Generation < MaxGeneration
    /\ \E l \in Layouts \ {Current} : history' = Append(history, l)
    /\ UNCHANGED <<reports, names, nodes, opened, pc, call, g_props>>

-----------------------------------------------------------------------------
(* load_nodes *)

\* The files of one directory after the other, in any order.
IsNext(n) == \A f \in names : f[1] \in DOMAIN nodes => f[1] = n

With(n, node) == [m \in DOMAIN nodes \cup {n} |-> IF m = n THEN node ELSE nodes[m]]

LoadFile ==
    /\ pc = "load"
    /\ \E n \in DOMAIN Current, file \in Files :
          /\ <<n, file>> \in names /\ IsNext(n)
          /\ nodes' = With(n, Loaded(n, file))
          /\ names' = names \ {<<n, file>>}
    /\ UNCHANGED <<history, reports, opened, pc, call, g_props>>

\* The directory is gone, or ends: the node stays with what was read of it.
LoadGone ==
    /\ pc = "load"
    /\ \E f \in names :
          /\ f[1] \notin DOMAIN Current /\ IsNext(f[1])
          /\ nodes' = With(f[1], Begun(f[1]))
          /\ names' = {h \in names : h[1] # f[1]}
    /\ UNCHANGED <<history, reports, opened, pc, call, g_props>>

\* The directory disappears while it is read.
LoadPanics ==
    /\ pc = "load" /\ \E f \in names : f[1] \notin DOMAIN Current /\ IsNext(f[1])
    /\ pc' = "stopped"
    /\ UNCHANGED <<history, reports, names, nodes, opened, call, g_props>>

LoadDone ==
    /\ pc = "load" /\ names = {}
    /\ pc' = "idle"
    /\ UNCHANGED <<history, reports, names, nodes, opened, call, g_props>>

-----------------------------------------------------------------------------
(* topology_take_snapshot *)

SnapshotBegin ==
    /\ pc = "idle" /\ g_props = None
    /\ gen_start' = Generation
    /\ i' = 0 /\ ids' = {} /\ props' = <<>> /\ p2p_links' = FALSE /\ num_p2p' = 0
    /\ pc' = "check"
    /\ UNCHANGED <<history, reports, names, nodes, opened, g_props,
                   stage, num_io, sys_link_id, got>>

\* topology_sysfs_check_node_supported: a CPU is, and a GPU whose device is open
\* or can be opened; the kernel may refuse one that is not open yet.
Unopened(n) == nodes[n].gpu \notin {0} \cup opened
Supported(n) == opened' = IF Unopened(n) THEN opened \cup {nodes[n].gpu} ELSE opened

\* The properties of a GPU were not listed: it has no drm_render_minor to unwrap.
NoMinor(n) == nodes[n].gpu # 0 /\ ~nodes[n].banks

\* Faulty: the loop stays at the node.
CheckSupportedStays ==
    /\ pc = "check" /\ i \in DOMAIN nodes /\ ~NoMinor(i)
    /\ Supported(i)
    /\ ids' = ids \cup {i}
    /\ UNCHANGED <<history, reports, names, nodes, pc, g_props,
                   stage, gen_start, i, props, p2p_links, num_io, num_p2p, sys_link_id, got>>

CheckSupported ==
    /\ pc = "check" /\ i \in DOMAIN nodes /\ ~NoMinor(i)
    /\ Supported(i)
    /\ ids' = ids \cup {i} /\ i' = i + 1
    /\ UNCHANGED <<history, reports, names, nodes, pc, g_props,
                   stage, gen_start, props, p2p_links, num_io, num_p2p, sys_link_id, got>>

CheckRefused ==
    /\ pc = "check" /\ i \in DOMAIN nodes /\ ~NoMinor(i) /\ Unopened(i)
    /\ i' = i + 1
    /\ UNCHANGED <<history, reports, names, nodes, opened, pc, g_props,
                   stage, gen_start, ids, props, p2p_links, num_io, num_p2p, sys_link_id, got>>

CheckPanics ==
    /\ pc = "check" /\ i \in DOMAIN nodes /\ NoMinor(i)
    /\ pc' = "stopped"
    /\ UNCHANGED <<history, reports, names, nodes, opened, call, g_props>>

CheckDone ==
    /\ pc = "check" /\ i \notin DOMAIN nodes
    /\ i' = 0 /\ pc' = "node"
    /\ UNCHANGED <<history, reports, names, nodes, opened, g_props,
                   stage, gen_start, ids, props, p2p_links, num_io, num_p2p, sys_link_id, got>>

\* topology_sysfs_get_node_props, the banks and the caches, and how many io links
\* are looked for.  The loop goes through the first NumNodes sysfs numbers.
P2PCount == IF nodes[i].p2p_reported THEN nodes[i].p2p_links_count ELSE num_p2p
AllLinks == nodes[i].io_links_count + nodes[i].p2p_links_count

Node ==
    /\ pc = "node" /\ i < NumNodes
    /\ nodes[i].banks => i \in DOMAIN Current
    /\ props' = Append(props,
            [gpu |-> nodes[i].gpu, hive |-> nodes[i].hive,
             public |-> nodes[i].banks /\ Current[i].public,
             NumIOLinks |-> AllLinks, link |-> <<>>])
    /\ p2p_links' = (p2p_links \/ nodes[i].p2p_reported)
    /\ num_p2p' = P2PCount
    /\ num_io' = Minus(AllLinks, P2PCount)
    /\ sys_link_id' = 0 /\ stage' = "io" /\ pc' = "io"
    /\ UNCHANGED <<history, reports, names, nodes, opened, g_props, gen_start, i, ids, got>>

\* A file is gone; or, in a build that checks, the difference is negative.
NodePanics ==
    /\ pc = "node" /\ i < NumNodes
    /\ \/ nodes[i].banks /\ i \notin DOMAIN Current
       \/ AllLinks < P2PCount
    /\ pc' = "stopped"
    /\ UNCHANGED <<history, reports, names, nodes, opened, call, g_props>>

This == props[i + 1]

\* Faulty: one link less.
LinkLoopShort ==
    /\ sys_link_id < (IF stage = "io" THEN num_io ELSE num_p2p)
    /\ Len(This.link) < NumNodes - 2

LinkLoop ==
    /\ sys_link_id < (IF stage = "io" THEN num_io ELSE num_p2p)
    /\ Len(This.link) < NumNodes - 1

\* The links of sysfs node n that the current loop reads.
LinksOf(n) ==
    IF n \notin DOMAIN Current THEN <<>>
    ELSE IF stage = "io" THEN Current[n].io ELSE P2P(Current, n)

\* topology_sysfs_get_iolink_props, up to its node_to; got is empty if the file
\* cannot be read.
ReadLink ==
    /\ pc = stage /\ LinkLoop
    /\ got' = IF sys_link_id + 1 \in DOMAIN LinksOf(i)
              THEN {LinksOf(i)[sys_link_id + 1]} ELSE {}
    /\ pc' = "target"
    /\ UNCHANGED <<history, reports, names, nodes, opened, g_props,
                   stage, gen_start, i, ids, props, p2p_links, num_io, num_p2p, sys_link_id>>

\* NodeTo is given the number of the node itself (line 1430).
KeptLink(link) == [link EXCEPT !.to = i]

LinkTaken ==
    /\ pc = "target"
    /\ \E link \in got :
          /\ link.to \in DOMAIN nodes
          /\ Supported(link.to)
          /\ props' = [props EXCEPT ![i + 1].link = Append(@, KeptLink(link))]
    /\ sys_link_id' = sys_link_id + 1
    /\ pc' = stage
    /\ UNCHANGED <<history, reports, names, nodes, g_props,
                   stage, gen_start, i, ids, p2p_links, num_io, num_p2p, got>>

\* NOT_SUPPORTED: the file or the device cannot be opened.  The `continue' leaves
\* both counters of the loop as they are.
Unavailable == got = {} \/ \E link \in got : link.to \in DOMAIN nodes /\ Unopened(link.to)

LinkSkipped ==
    /\ pc = "target" /\ Unavailable
    /\ pc' = stage
    /\ UNCHANGED <<history, reports, names, nodes, opened, call, g_props>>

\* The link leads to a node that came after load_nodes.
LinkPanics ==
    /\ pc = "target" /\ \E link \in got : link.to \notin DOMAIN nodes
    /\ pc' = "stopped"
    /\ UNCHANGED <<history, reports, names, nodes, opened, call, g_props>>

\* Faulty: the number stays.
LimitedNever(looked) == props

\* "Limit the number to valid ones"
Limited(looked) ==
    IF looked > 0 THEN [props EXCEPT ![i + 1].NumIOLinks = Len(This.link)] ELSE props

IoLinksDone ==
    /\ pc = "io" /\ ~LinkLoop
    /\ props' = Limited(num_io)
    /\ sys_link_id' = 0 /\ stage' = "p2p" /\ pc' = "p2p"
    /\ UNCHANGED <<history, reports, names, nodes, opened, g_props,
                   gen_start, i, ids, p2p_links, num_io, num_p2p, got>>

P2PLinksDone ==
    /\ pc = "p2p" /\ ~LinkLoop
    /\ props' = Limited(num_p2p)
    /\ i' = i + 1 /\ pc' = "node"
    /\ UNCHANGED <<history, reports, names, nodes, opened, g_props,
                   stage, gen_start, ids, p2p_links, num_io, num_p2p, sys_link_id, got>>

IndirectLinksPanic ==
    ~p2p_links /\ CreateIndirectPanics([n \in 0 .. NumNodes - 1 |-> props[n + 1]], NumNodes)

NodesDone ==
    /\ pc = "node" /\ i = NumNodes
    /\ pc' = IF IndirectLinksPanic THEN "stopped" ELSE "end"
    /\ UNCHANGED <<history, reports, names, nodes, opened, call, g_props>>

\* Faulty: the generation at the end is not read.
PublishAlways == pc = "end"

Publish == pc = "end" /\ Generation = gen_start

SnapshotEnd ==
    /\ Publish
    /\ g_props' = [gen |-> gen_start, props |-> props]
    /\ pc' = "idle"
    /\ UNCHANGED <<history, reports, names, nodes, opened, call>>

\* "gen start != gen end"
SnapshotPanics ==
    /\ pc = "end" /\ Generation # gen_start
    /\ pc' = "stopped"
    /\ UNCHANGED <<history, reports, names, nodes, opened, call, g_props>>

LoadStep == LoadFile \/ LoadGone \/ LoadPanics \/ LoadDone

SnapshotStep ==
    \/ CheckSupported \/ CheckRefused \/ CheckPanics \/ CheckDone
    \/ Node \/ NodePanics
    \/ ReadLink \/ LinkTaken \/ LinkSkipped \/ LinkPanics
    \/ IoLinksDone \/ P2PLinksDone \/ NodesDone
    \/ SnapshotEnd \/ SnapshotPanics

Next == KernelChanges \/ LoadStep \/ SnapshotBegin \/ SnapshotStep

Spec == Init /\ [][Next]_topologyVars

\* The caller's thread runs the call that it is in.
FairSpec == Spec /\ WF_topologyVars(SnapshotStep)

-----------------------------------------------------------------------------
(* Properties *)

Running == pc \in {"check", "node", "io", "p2p", "target", "end"}

TypeOK ==
    /\ Generation \in 1..MaxGeneration
    /\ opened \subseteq GpuIds /\ names \subseteq Nat \X Files
    /\ pc \in {"load", "idle", "check", "node", "io", "p2p", "target", "end", "stopped"}
    /\ stage \in {"io", "p2p"} /\ gen_start \in 0..Generation
    /\ ids \subseteq DOMAIN nodes
    /\ num_io \in 0 .. Modulus - 1 /\ num_p2p \in 0 .. Modulus - 1
    /\ pc \in {"io", "p2p", "target"} => i \in 0 .. NumNodes - 1 /\ Len(props) = i + 1
    /\ pc = "end" => Len(props) = NumNodes

\* What a snapshot may take of node n from an older layout: the GPU id, which is 0 if
\* the node was not there; and from its properties the hive and whether there are
\* banks to look at, which are those of the present layout.
GpuIdOf(old, n) == IF n \in DOMAIN old THEN old[n].gpu ELSE 0
OfProperties(node, old, now, n) ==
    IF n \in DOMAIN old
    THEN node.hive = old[n].hive /\ n \in DOMAIN now /\ node.public = now[n].public
    ELSE node.hive = 0 /\ ~node.public

\* The links that sysfs shows of node n.
SysfsLinks(l, n) ==
    IF n \in DOMAIN l
    THEN {l[n].io[k] : k \in DOMAIN l[n].io} \cup {P2P(l, n)[k] : k \in DOMAIN P2P(l, n)}
    ELSE {}

\* Whatever the kernel changes while the files are read, one after the other, the
\* banks and the links of a snapshot that is published are those of one generation,
\* that of its start, but that every link is said to lead to the node itself
\* (topology.rs:1430).  What load_nodes read of a node, once and for all snapshots,
\* may be older and of another generation for each file (topology.rs:991-1032).
OnlyLoadIsOlder ==
    \A n \in DOMAIN g_props.props :
        LET node == g_props.props[n]
            now  == history[g_props.gen]
        IN  /\ \E g \in 1 .. g_props.gen : node.gpu = GpuIdOf(history[g], n - 1)
            /\ \E g \in 1 .. g_props.gen : OfProperties(node, history[g], now, n - 1)
            /\ \A k \in DOMAIN node.link : \E link \in SysfsLinks(now, n - 1) :
                  node.link[k] = [link EXCEPT !.to = n - 1]

\* In a snapshot every node has as many links as NumIOLinks says, and fewer than
\* there are nodes, so that the array of links can be walked by the number
\* (hsakmt_fmm_init_process_apertures asserts a bound on it), although io and p2p
\* links are counted together and the counters of other nodes are reused.
LinkCountAgrees ==
    \A n \in DOMAIN g_props.props :
        /\ g_props.props[n].NumIOLinks = Len(g_props.props[n].link)
        /\ g_props.props[n].NumIOLinks < Len(g_props.props)

\* If the kernel kept the layout that was loaded and opens every device, the
\* snapshot is that layout: node for node the same GPU, hive and memory, and link for
\* link the same links, io links first, up to one less than the number of nodes; but
\* that every link leads to the node itself (topology.rs:1430).
Shorter(a, b) == IF a < b THEN a ELSE b
QuietSnapshotIsExact ==
    g_props # None /\ Generation = 1 /\ Len(g_props.props) = Cardinality(DOMAIN Current) =>
        \A n \in DOMAIN Current :
            LET node  == g_props.props[n + 1]
                links == Current[n].io \o P2P(Current, n)
                most  == Shorter(Len(links), Len(g_props.props) - 1)
            IN  /\ node.gpu = Current[n].gpu /\ node.hive = Current[n].hive
                /\ node.public = Current[n].public
                /\ node.link = [k \in 1 .. most |-> [links[k] EXCEPT !.to = n]]

\* A snapshot that never returns finds links unavailable over and over: nothing
\* else in its three nested loops can keep it.
EndsUnlessUnavailable == <>[]Running => []<>(pc = "target" /\ Unavailable)

=============================================================================
