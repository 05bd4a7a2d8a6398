------------------------------ MODULE NodeProps -----------------------------
(***************************************************************************)
(* What topology_take_snapshot reads of one node: topology_parse_cpuinfo,  *)
(* topology_sysfs_get_node_props, the memory banks and the caches, which   *)
(* for a CPU come from the directories of its processors, one file at a    *)
(* time (topology.rs).                                                     *)
(*                                                                         *)
(* The kernel is the environment: processors go offline and online between *)
(* any two reads.  Offline, a processor is not in /proc/cpuinfo nor in the *)
(* lists of those that share a cache, and has no directories of caches;    *)
(* its own directory may stay.  A cache is named by its place in the       *)
(* machine's list, and the APIC id of a processor by its number.           *)
(*                                                                         *)
(* cpumap_to_cpu_ci fills no SiblingMap: for no mask with up to 32 bits is *)
(* the complement of one of them positive, so that every bit is skipped.   *)
(***************************************************************************)
EXTENDS GfxVersion, Sequences, FiniteSets

CONSTANTS
    Machines,       \* see Machine
    MaxChanges      \* bound: how often a processor goes offline or online

\* The node as load_nodes kept it: the id and the version of a GPU (gfxv is 0
\* where the kernel does not report it), its SIMDs, and how many files of banks and
\* caches there are; all processors, those of the node and, of each of their caches,
\* those that share it; and whether the directory of an offline processor stays.
Machine(m) ==
    /\ m.gpu \in Nat /\ m.device \in Nat /\ m.simds \in Nat
    /\ m.version \in Version /\ m.gfxv \in {0, Target(m.version)}
    /\ m.device \in DOMAIN Gfxip => Gfxip[m.device] = m.version
    /\ m.simds > 0 /\ m.gfxv = 0 => m.device \in DOMAIN Gfxip
    /\ m.banks \in Nat /\ m.caches \in Nat
    /\ m.cpus \in SUBSET Nat /\ IsFiniteSet(m.cpus) /\ m.cpus # {}
    /\ m.here \subseteq m.cpus /\ m.shared \in Seq(SUBSET m.here)
    /\ m.stay \in BOOLEAN

ASSUME MachinesAssumption == \A m \in Machines : Machine(m)
ASSUME ChangesAssumption  == MaxChanges \in Nat

VARIABLES
    machine, online, changes,   \* the machine, its processors online, the bound
    pc,         \* rows, cpuinfo, props, banks, caches, dir, cpus, index, done, stopped
    rows,       \* available_parallelism
    cpuinfo,    \* the APIC ids in the table, by row
    node, mem, cache,   \* the fields of node_props_t: the properties, how many
                        \* banks, and [id, apicid] of each cache
    names,      \* the entries of the node's directory that are left
    proc_num, num_idx, idx, num_caches, cache_cnt   \* locals of the walk

walk     == <<proc_num, num_idx, idx, num_caches, cache_cnt>>
kernel   == <<machine, online, changes>>
nodeVars == <<kernel, pc, rows, cpuinfo, node, mem, cache, names, walk>>

NoVersion == [major |-> 0, minor |-> 0, stepping |-> 0]
NoNode    == [KFDGpuID |-> 0, NumCaches |-> 0, engine |-> NoVersion, vgpr |-> 0]
NoApicId  == -1     \* what a row holds that is not filled
Offline   == machine.cpus \ online

\* The element of a set of numbers that has n smaller ones in it.
Nth(S, n)     == CHOOSE k \in S : Cardinality({j \in S : j < k}) = n
SmallestOf(S) == Nth(S, 0)

Init ==
    /\ machine \in Machines /\ online = machine.cpus /\ changes = 0
    /\ pc = "rows" /\ rows = 0 /\ cpuinfo = <<>>
    /\ node = NoNode /\ mem = 0 /\ cache = <<>> /\ names = {}
    /\ proc_num = 0 /\ num_idx = 0 /\ idx = 0 /\ num_caches = 0 /\ cache_cnt = 0

Panic == pc' = "stopped" /\ UNCHANGED <<kernel, rows, cpuinfo, node, mem, cache, names, walk>>

-----------------------------------------------------------------------------
(* The kernel.  One processor is always online. *)

GoesOffline ==
    /\ pc \notin {"done", "stopped"} /\ changes < MaxChanges /\ Cardinality(online) > 1
    /\ \E c \in online : online' = online \ {c}
    /\ changes' = changes + 1
    /\ UNCHANGED <<machine, pc, rows, cpuinfo, node, mem, cache, names, walk>>

GoesOnline ==
    /\ pc \notin {"done", "stopped"} /\ changes < MaxChanges
    /\ \E c \in Offline : online' = online \cup {c}
    /\ changes' = changes + 1
    /\ UNCHANGED <<machine, pc, rows, cpuinfo, node, mem, cache, names, walk>>

-----------------------------------------------------------------------------
(* topology_parse_cpuinfo *)

\* The process may be restricted to some of the processors.
AvailableParallelism ==
    /\ pc = "rows"
    /\ rows' \in 1 .. Cardinality(online)
    /\ pc' = "cpuinfo"
    /\ UNCHANGED <<kernel, cpuinfo, node, mem, cache, names, walk>>

\* Row n of the table is about the processor that is listed n-th.
Listed(r) == IF r < Cardinality(online) THEN Nth(online, r) ELSE NoApicId

\* Faulty: the table grows with the file.
ParseCpuinfoLonger ==
    /\ pc = "cpuinfo"
    /\ cpuinfo' = [r \in 0 .. Cardinality(online) - 1 |-> Listed(r)]
    /\ pc' = "props"
    /\ UNCHANGED <<kernel, rows, node, mem, cache, names, walk>>

ParseCpuinfo ==
    /\ pc = "cpuinfo" /\ Cardinality(online) <= rows
    /\ cpuinfo' = [r \in 0 .. rows - 1 |-> Listed(r)]
    /\ pc' = "props"
    /\ UNCHANGED <<kernel, rows, node, mem, cache, names, walk>>

\* More processors are listed than the table has rows.
ParsePanics ==
    /\ pc = "cpuinfo" /\ Cardinality(online) > rows
    /\ Panic

-----------------------------------------------------------------------------
(* topology_sysfs_get_node_props, the files of banks and of caches *)

CpuProps ==
    /\ pc = "props" /\ machine.simds = 0
    /\ node' = [node EXCEPT !.KFDGpuID = machine.gpu, !.NumCaches = machine.caches]
    /\ pc' = "banks"
    /\ UNCHANGED <<kernel, rows, cpuinfo, mem, cache, names, walk>>

\* Opening the render device, in topology_get_node_props_from_drm, may fail: only
\* its descriptors, in KfdSession, depend on it.
GpuProps ==
    /\ pc = "props" /\ machine.simds > 0
    /\ LET engine == EngineId(machine.device, machine.gfxv)
       IN  node' = [KFDGpuID |-> machine.gpu, NumCaches |-> machine.caches,
                    engine |-> engine,
                    vgpr |-> hsakmt_get_vgpr_size_per_cu(HSA_GET_GFX_VERSION_FULL(engine))]
    /\ pc' = "banks"
    /\ UNCHANGED <<kernel, rows, cpuinfo, mem, cache, names, walk>>

MemProps ==
    /\ pc = "banks" /\ mem < machine.banks
    /\ mem' = mem + 1
    /\ UNCHANGED <<kernel, pc, rows, cpuinfo, node, cache, names, walk>>

BanksDone ==
    /\ pc = "banks" /\ mem = machine.banks
    /\ pc' = IF node.NumCaches > 0 THEN "caches" ELSE IF node.KFDGpuID = 0 THEN "dir" ELSE "done"
    /\ UNCHANGED <<kernel, rows, cpuinfo, node, mem, cache, names, walk>>

\* The kernel's own list of caches; it says whose they are.
CacheProps ==
    /\ pc = "caches" /\ Len(cache) < node.NumCaches
    /\ cache' = Append(cache, [id |-> Len(cache) + 1, apicid |-> NoApicId])
    /\ UNCHANGED <<kernel, pc, rows, cpuinfo, node, mem, names, walk>>

CachesDone ==
    /\ pc = "caches" /\ Len(cache) = node.NumCaches
    /\ pc' = "done"
    /\ UNCHANGED <<kernel, rows, cpuinfo, node, mem, cache, names, walk>>

-----------------------------------------------------------------------------
(* topology_get_cpu_cache_props: the directories of the processors *)

\* The caches of processor c are its directories index0, index1, ...
CachesOf(c) == {k \in DOMAIN machine.shared : c \in machine.shared[k]}

\* Entries come in any order; those of offline processors may be among them.
ReadDir ==
    /\ pc = "dir"
    /\ names' = IF machine.stay THEN machine.here ELSE machine.here \cap online
    /\ cache_cnt' = 0
    /\ pc' = "cpus"
    /\ UNCHANGED <<kernel, rows, cpuinfo, node, mem, cache, proc_num, num_idx, idx, num_caches>>

\* An entry whose path is gone is not a directory, and is passed over.
EntryGone ==
    /\ pc = "cpus" /\ ~machine.stay
    /\ \E c \in names \ online : names' = names \ {c}
    /\ UNCHANGED <<kernel, pc, rows, cpuinfo, node, mem, cache, walk>>

CpuBegin ==
    /\ pc = "cpus"
    /\ \E c \in names \cap online :
          /\ names' = names \ {c}
          /\ proc_num' = c
          /\ num_idx' = Cardinality(CachesOf(c)) /\ num_caches' = num_idx' /\ idx' = 0
    /\ pc' = "index"
    /\ UNCHANGED <<kernel, rows, cpuinfo, node, mem, cache, cache_cnt>>

\* num_subdirs of a directory that is not there: the processor was offline, or
\* went offline after it was seen to be a directory.
CpuPanics ==
    /\ pc = "cpus" /\ names \ online # {}
    /\ Panic

\* shared_cpu_list shows the processors as ranges, n or n1-n2, with commas.
This     == Nth(CachesOf(proc_num), idx)
Sharing  == machine.shared[This] \cap online
Starts   == {n \in Sharing : n - 1 \notin Sharing}
Elements == Cardinality(Starts)
IsRange(first) == first + 1 \in Sharing

\* Faulty: a list of two is not looked at.
FirstOfOneElement == IF Elements = 1 THEN SmallestOf(Sharing) ELSE -1

\* The processor the cache is listed to; lists of more than two elements have none.
First == IF Elements \in {1, 2} THEN SmallestOf(Sharing) ELSE -1

\* Faulty: nor is the only one split.
UnparsableRange == IsRange(SmallestOf(Sharing))

\* The first of two elements is parsed as a number, even if it is a range.
Unparsable == Elements = 2 /\ IsRange(SmallestOf(Sharing))

ReadIndex == pc = "index" /\ idx < num_idx

IndexPanics ==
    /\ ReadIndex
    /\ \/ proc_num \notin online
       \/ Unparsable
       \/ First = proc_num /\ proc_num >= rows
    /\ Panic

\* Faulty: the count of caches stays.
IndexSkippedCounted ==
    /\ ReadIndex /\ proc_num \in online /\ ~Unparsable /\ First # proc_num
    /\ idx' = idx + 1
    /\ UNCHANGED <<kernel, pc, rows, cpuinfo, node, mem, cache, names,
                   proc_num, num_idx, num_caches, cache_cnt>>

IndexSkipped ==
    /\ ReadIndex /\ proc_num \in online /\ ~Unparsable /\ First # proc_num
    /\ num_caches' = num_caches - 1
    /\ idx' = idx + 1
    /\ UNCHANGED <<kernel, pc, rows, cpuinfo, node, mem, cache, names,
                   proc_num, num_idx, cache_cnt>>

\* Faulty: the row of the processor is the one before.
RowBefore == cpuinfo[(proc_num + rows - 1) % rows]

Row == cpuinfo[proc_num]

\* The other files of the directory are read in the same step: if it goes in
\* between, the call panics as in IndexPanics.
IndexListed ==
    /\ ReadIndex /\ proc_num \in online /\ ~Unparsable /\ First = proc_num
    /\ proc_num < rows
    /\ cache' = Append(cache, [id |-> This, apicid |-> Row])
    /\ idx' = idx + 1
    /\ UNCHANGED <<kernel, pc, rows, cpuinfo, node, mem, names,
                   proc_num, num_idx, num_caches, cache_cnt>>

CpuDone ==
    /\ pc = "index" /\ idx = num_idx
    /\ cache_cnt' = cache_cnt + num_caches
    /\ pc' = "cpus"
    /\ UNCHANGED <<kernel, rows, cpuinfo, node, mem, cache, names,
                   proc_num, num_idx, idx, num_caches>>

WalkDone ==
    /\ pc = "cpus" /\ names = {}
    /\ node' = [node EXCEPT !.NumCaches = cache_cnt]
    /\ pc' = "done"
    /\ UNCHANGED <<kernel, rows, cpuinfo, mem, cache, names, walk>>

Reads ==
    \/ AvailableParallelism \/ ParseCpuinfo \/ ParsePanics
    \/ CpuProps \/ GpuProps \/ MemProps \/ BanksDone \/ CacheProps \/ CachesDone
    \/ ReadDir \/ EntryGone \/ CpuBegin \/ CpuPanics
    \/ IndexPanics \/ IndexSkipped \/ IndexListed \/ CpuDone \/ WalkDone

Next == GoesOffline \/ GoesOnline \/ Reads

Spec == Init /\ [][Next]_nodeVars

-----------------------------------------------------------------------------
(* Properties *)

TypeOK ==
    /\ machine \in Machines /\ online \in (SUBSET machine.cpus) \ {{}}
    /\ changes \in 0 .. MaxChanges
    /\ pc \in {"rows", "cpuinfo", "props", "banks", "caches", "dir", "cpus", "index",
              "done", "stopped"}
    /\ rows \in 0 .. Cardinality(machine.cpus)
    /\ DOMAIN cpuinfo \subseteq 0 .. rows - 1
    /\ \A r \in DOMAIN cpuinfo : cpuinfo[r] \in machine.cpus \cup {NoApicId}
    /\ node.KFDGpuID \in {0, machine.gpu} /\ node.NumCaches \in Nat /\ mem \in 0 .. machine.banks
    /\ names \subseteq machine.cpus
    /\ pc = "index" => proc_num \in machine.cpus /\ idx \in 0 .. num_idx

Walked == pc = "done" /\ machine.gpu = 0 /\ machine.caches = 0

Blocks(S) == Cardinality({n \in S : n - 1 \notin S})

\* How often a cache is in the snapshot.
Times(k) == Cardinality({j \in DOMAIN cache : cache[j].id = k})

\* The count that later calls go by is the length of the list, although it is made
\* of three others: the index directories, the skipped ones, and the sum.
CountsAgree == pc = "done" => node.NumCaches = Len(cache)

\* "this cache is listed to proc n1 only" (topology.rs:344): if no processor comes
\* or goes, a cache is listed once, to the first of the processors that share it;
\* not at all if the list of these has three elements or more.  The id it is listed
\* with is that processor's, if the numbers of processors have no gaps: the table
\* goes by the order of /proc/cpuinfo, the walk by the numbers in sysfs.
NoGaps == machine.cpus = 0 .. Cardinality(machine.cpus) - 1
ListedOnce ==
    Walked /\ changes = 0 =>
        /\ \A k \in DOMAIN machine.shared :
              Times(k) = IF Blocks(machine.shared[k]) \in {1, 2} THEN 1 ELSE 0
        /\ NoGaps => \A j \in DOMAIN cache :
              cache[j].apicid = SmallestOf(machine.shared[cache[j].id])

\* The call panics only where processors come or go, their numbers have gaps, the
\* process may not use all of them, or a list has two elements and the first is a
\* range.
PanicsForAReason ==
    pc = "stopped" =>
        \/ changes > 0 \/ ~NoGaps \/ rows < Cardinality(machine.cpus)
        \/ \E k \in DOMAIN machine.shared :
              Blocks(machine.shared[k]) = 2 /\ SmallestOf(machine.shared[k]) + 1 \in machine.shared[k]

\* Minor and stepping are taken of a number cut to 16 bits, and by the same
\* expression.  All the same it is known of every GPU whether it needs SVM, and of
\* those in the table how large their registers are.
EngineDecides ==
    pc \notin {"rows", "cpuinfo", "props", "stopped"} /\ machine.simds > 0 =>
        /\ SvmNeeded(node.engine) <=> SvmNeeded(machine.version)
        /\ machine.device \in DOMAIN Gfxip =>
              node.vgpr = hsakmt_get_vgpr_size_per_cu(HSA_GET_GFX_VERSION_FULL(machine.version))

=============================================================================
