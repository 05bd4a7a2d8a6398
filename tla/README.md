# A verification development for hsakmt-rs

`hsakmt-rs` is a Rust rewrite of the user-mode part of AMD's HSA driver (the ROCt
"thunk"). It opens `/dev/kfd`, reads the topology of the machine from sysfs, and
starts a memory manager that places buffers in address ranges shared between the
process and its GPUs. The other crates of the repository (`amdgpu-drm-sys`,
`xf86drm-sys`, `numa-sys`) are generated bindings.

This directory holds TLA+ modules translated from that code, TLC configurations
that check them on small instances, and proofs that TLAPS checks for every value of
the constants. Paths like `fmm.rs:1005` are relative to `src/hsakmt-rs/src/`.

    tlc -config MCRBTree.cfg MCRBTree.tla      check one instance
    tlapm ApertureProofs.tla                   check the proofs of one module

## 1. The system

All state is in one `HsakmtGlobals`, which every call takes as `&mut self`. There
are no threads in the library; what runs concurrently with a call is the *kernel*
(it changes sysfs, and decides which ioctls to refuse, which descriptor to give and
where to map a page) and the *rest of the process* (its descriptors and mappings are
in the same tables). Calls never wait and never yield; the only loops that can keep
a caller are loops of the library itself.

| Component | State | Operations | Correct when |
|---|---|---|---|
| Session (`open_close.rs`, `version.rs`, `topology.rs:864-982`, `1626-1660`) | `hsakmt_kfd_fd`, `hsakmt_kfd_open_count`, the version, `drm_render_fds`, `g_system` | `hsaKmtOpenKFD`, `hsaKmtCloseKFD`, `hsaKmtAcquireSystemProperties`, `hsakmt_open_drm_render_device` | cached descriptors refer to their device whatever is closed and reused by number; a device is opened once, but for what is named in section 4; SUCCESS means that the memory manager started |
| Topology (`topology.rs`, `topology_utils.rs`) | `sysfs nodes` (read once), `g_system`, `g_props` | `load_nodes`, `topology_take_snapshot`, indirect links | of a published snapshot only what `load_nodes` read may be older than the call, and its links are those of sysfs; the counts of links agree with the links; the call returns |
| Node properties, processors and caches (`topology.rs:52-217`, `306-548`, `984-1358`, `queues.rs`) | one `node_props_t`, the table of `/proc/cpuinfo` | `topology_parse_cpuinfo`, `topology_sysfs_get_node_props`, `..._get_mem_props`, `..._get_cache_props`, `topology_get_cpu_cache_props` | a cache is listed once, to the first of the processors that share it and with its id; counts agree with lists; the version of an engine leads to the right decisions; it panics only where the machine gives a reason |
| VM objects (`fmm.rs:286-395`, `1245-1832`) | the areas and the object tree of an aperture, the driver's buffers | `__fmm_allocate_device`, `map_mmio`, `vm_find_object`, `hsakmt_fmm_map_to_gpu`, `__fmm_release` | areas, buffers and registers belong together; buffers are freed before their pages; a call meets its own object only |
| Start of the memory manager (`fmm.rs:690-1142`, `1226-1439`, `1735-2213`) | `fmm.gpu_mem`, `fmm.svm`, `hsakmt_is_dgpu` | `hsakmt_fmm_init_process_apertures` and all it calls | every GPU has its own entry of the kernel's list; the common range is what all GPUs reach; no page or buffer leaks when the kernel refuses; the call returns |
| mmap apertures (`fmm.rs:122-310`) | the address space of the process | allocate (aligned, padded, guarded), allocate at an address, release | exactly the areas stay mapped, areas keep their guard distance, areas are in the aperture and aligned |
| Handle range (`fmm.rs:1146-1224`, `397-405`) | `mem_handle_aperture` | `init_mem_handle_aperture` | the range overlaps no aperture of any GPU, and is given up only when all holes are taken |
| Object tree (`rbtree.rs`, `rbtree_amd.rs`) | an intrusive red-black tree with a sentinel | insert, rotations, lookup, nearest lookup, prev; delete is an empty body | a search tree with agreeing links that keeps what was inserted |
| Range search (`fmm.rs:497-585`) | none of its own | `vm_find_object_by_address_userptr_range` | an object that covers the address is found, and the search ends |
| ioctl wrapper, types, tables, bindings | none | - | - |

How they interact: `hsaKmtOpenKFD` opens the driver and reads the system properties
(which opens render devices); `hsaKmtAcquireSystemProperties` takes a snapshot of the
topology and then starts the memory manager with the number of nodes in it; the
memory manager asks the session for the descriptors of the GPUs, the mmap apertures
for a page for each GPU's registers, records that page in the object tree of the
aperture, and looks for the handle range.

What is hard here, and where (`PROJECT.json`, `hazards`, has all of it with lines):

- *Indirect state in loops.* The rebalancing loop of the tree moves one variable and
  reads another; `prev` has the same flaw; two loops over links share an array and a
  bound; the common range is folded with 0 for "none".
- *The environment acts between steps.* sysfs changes between two files of one
  snapshot and between `load_nodes` and the snapshot; guard pages that are unmapped
  again are given to others; a descriptor number that was closed refers to another
  file; processors go offline between two files about them.
- *Partial failure.* ioctls return -1 and are tested for `> 0`; an error of the memory
  manager leaves the snapshot behind; a page is reserved before a buffer is refused.
- *Two orders, two indexes.* Processors are numbered by their place in `/proc/cpuinfo`
  and by their name in sysfs; apertures by the kernel's list and by `gpu_mem`.
- *Loops without progress.* Unavailable links, reserving address space, `prev`.
- *Undefined behaviour.* A reference formed from NULL, differences of unsigned numbers
  that wrap or panic, a pointer into a frame that has returned. They are modelled as
  choices: the program stops or goes on, the number wraps or the program stops, the
  dead frame still holds the object or has been overwritten.

## 2. Modules

`PROJECT.json` maps every definition to its lines. In all modules a variable has the
name of the field or local it stands for, an action is one step of a call between two
points at which the environment can be seen or a loop repeats, and `pc` is where the
call is. A definition marked *Faulty* is a mutation of the one after it: a plausible
bug, used to show that a property can fail.

| Module | What it is | Code |
|---|---|---|
| `RBTree` | Insertion, a step of its loops per action, over a heap of nodes with `left`/`right`/`parent`/colour; the sentinel is a node like any other. `Rotate` is both rotations, with the comparison of *nodes by value* the code makes | `rbtree.rs`, `rbtree_amd.rs` |
| `AddressIndex` | Abstract specification of insertion: an index that adds the object, or loses it, but only strictly inside its range of keys | - |
| `RBTreeIndex` | The refinement: the nodes reachable from the root are the index | - |
| `VmSearch` | Extends `RBTree`: nearest look-ups, `prev` step by step, the walk of the range search, interleaved with insertions | `fmm.rs:497-585`, `rbtree.rs:502-532`, `rbtree_amd.rs` |
| `MmapAperture` | mmap with padding, trimming, fixed addresses, release; kernel and process as environment | `fmm.rs:122-310` |
| `MemHandleAperture` | The search for a hole, with the loop over GPUs nested in it | `fmm.rs:397-405`, `1146-1224` |
| `FmmInit` | The start of the memory manager, from the nodes of the snapshot to the MMIO pages | `fmm.rs:690-1142`, `1226-1439`, `1735-2213` |
| `VmObjects` | Extends `MmapAperture`: the objects of the aperture, from the area and the buffer to the mapped registers and the release. `ImplementsAperture` is the specification it refines: every step is a step of `MmapAperture` or changes nothing of it | `fmm.rs:286-395`, `1245-1832` |
| `GfxVersion` | Versions of engines: how they are read, packed and compared, as operators | `topology.rs:107-137`, `1175-1208`, `hsakmttypes.rs:878-902`, `1118-1153`, `queues.rs` |
| `NodeProps` | Extends `GfxVersion`: one node of the snapshot, file by file, while processors go offline and come back | `topology.rs`, `topology_utils.rs:310-323` |
| `KfdSession` | Descriptors and calls of the session, and what the snapshot opens | `open_close.rs`, `version.rs`, `topology.rs` |
| `Topology` | `load_nodes` and the snapshot, file by file, against a kernel that changes sysfs | `topology.rs`, `topology_utils.rs` |
| `IoLinks` | The arithmetic of indirect links, as operators | `topology.rs:553-857` |
| `MC*` | Constants for TLC | - |
| `RBTreeProofs`, `VmSearchProofs`, `ApertureProofs` (for `MmapAperture` and `VmObjects`), `MemHandleProofs`, `KfdSessionProofs`, `TopologyProofs`, `NodePropsProofs`, `FmmInitProofs` | Theorems and proofs | - |

How they fit together: `VmSearch` and `RBTreeIndex` extend `RBTree`, `Topology` extends
`IoLinks`, `NodeProps` extends `GfxVersion`, and `VmObjects` extends `MmapAperture`: it is
the composition of the memory manager's allocation with the address space, for all the
GPUs whose registers are mapped in one start. `KfdSession` contains the whole of an acquire
call but abstracts from it what the snapshot holds (`Topology`, and `NodeProps` for one
node) and how the memory manager proceeds after its first loop (`FmmInit`): those are
outcomes chosen there, and all of them exist in the detailed modules. `FmmInit` takes from
`MmapAperture` that a page given out is free and in range, and leaves the handle range to
`MemHandleAperture`, whose failure is only printed, and the object on the dead frame to
`VmObjects`: it has the outcomes for pages and buffers only.

### Choices in the models

- `RBTree`: `rbtree_left_rotate` and its mirror image are one operator with a side.
  Nodes are compared field by field, as `PartialEq` is derived for `rbtree_node_t`, so
  that two nodes can be mistaken for each other (`SameNode`). Where a rotation forms a
  reference from a NULL pointer without reading it, a build may stop
  (`StopOnNullReference`) or go on.
- `VmSearch`: the loops of the look-ups are recursive functions on the nodes of the tree,
  so that a look-up that left the tree would be an error. What `rbtree_lookup_nearest` has
  in `n` when the rest of its loop finds nothing is chosen on the way back, by the last node
  passed. The exact look-up is not here: it only prints the tree and returns NULL,
  since its search is commented out (`fmm.rs:587-652`); `VmObjects` has it.
- `MmapAperture`: pages instead of bytes, because every address and size is page-aligned
  when it gets here. `GrowsTo` is the loop that doubles the alignment. `mapped` is
  everything mapped in the process, `foreign` what others mapped.
- `KfdSession`: a file descriptor refers to the driver, to the render device of a node,
  to a file of the rest of the process, or to nothing. The kernel gives the lowest free
  number. The process may have closed any of its descriptors before the first call, and
  closes and opens them between any two steps, its standard input among them, so that a
  device may get descriptor 0, which the library takes for "not opened".
- `Topology`: `generation_id` is the number of layouts so far. Of a node `load_nodes` reads
  two files, one with the GPU id and one with the properties, in any order; the kernel may
  change the layout between the two. A directory that vanishes while it is read leaves a
  node with what was read of it, or stops the program, according to where the listing
  stops; a GPU without properties stops it later, as it has no render device to
  look for (`NoMinor`). The files of one node's banks and caches are read in
  one step, which `NodeProps` takes apart. There are `Modulus` unsigned numbers
  (2^32 in the code); where a difference is negative the program
  stops or the number wraps.
- `KfdSession`, the snapshot: `topology_get_node_props_from_drm` opens the device of each
  GPU past the cache and never closes it (`lost`). Where that device fails to initialise,
  an uninitialised handle is used: the program stops, or goes on. For each link it asks
  whether the far node is supported (`topology.rs:1425`), which opens and caches the device
  of a GPU that was refused before, or panics after caching it (`SnapshotLink`,
  `DeviceInitFails`). Which nodes a link leads to is left open (`FarGpus`).
- `NodeProps`: a cache is a set of processors that share it, and what the code reads of it
  is how sysfs prints that set, as ranges and commas: how many elements there are, and
  whether the first is a range, decide which branch is taken. Three facts of the code make
  the model smaller. `SiblingMap` is never filled: the complement of `(1 << bit) & mask` is
  negative for every mask, so `cpumap_to_cpu_ci` skips every bit (`topology.rs:252`). What
  a GPU's banks and caches hold is copied. The index directories of one processor do not
  change while it is online. A GPU with no version and no place in the table is left out:
  it has no engine to decide on, and its device comes from a kernel too old for it.
- `GfxVersion`: the table of 180 devices is a parameter, of which only is assumed that its
  major versions are at most 10; the minor version is taken modulo 100 of a number cut to
  16 bits, and the stepping by the same expression.
- `VmObjects`: the object is a local of `aperture_allocate_object`; every call of the
  loop builds it in the same place. So from the second GPU on the tree's root *is* the new
  object, which becomes its own parent and loses its links: the tree never holds more than
  the last object. That the memory is the same is how the calls are nested, one level below
  `map_mmio` each time; that later calls may overwrite it is a choice at every call. Where
  an overwritten object is used, the behaviour is undefined and `pc` is `undefined`; no
  property claims anything of what follows. The look-up prints the tree and returns NULL,
  and `hsakmt_fmm_map_to_gpu` returns SUCCESS whatever was found.
- `FmmInit`: the kernel's list may contain GPUs the snapshot does not have, miss some,
  and be in any order; each GPU's aperture may or may not be canonical. Every ioctl may be
  refused. mmap of the driver's descriptor succeeds only at the offset of a buffer the
  kernel granted (an assumption about the driver). The reservation is its two loops; what
  follows a successful reservation (`fmm.rs:1041-1142`) cannot be reached.

## 3. Runs

| Run | Instance | Shows |
|---|---|---|
| `rbtree` | 8 insertions, two keys | types; `ReadsAreValid` (a red parent always has a grandparent, the sentinel stays black); agreeing links; search order and equal black heights; insertion implements `AddressIndex`, which has no step that removes or brings back an older node; insertion returns |
| `rbtree_lost` | the same | **violated**: an inserted node can be lost |
| `vm_search` | 5 objects of 4 kinds, 6 addresses | the walk stays between its ends, NULL means that nothing was missed (with two named exceptions), `prev` gives the predecessor, and a search that does not end spins in `prev` |
| `mmap` | 8 pages, aperture 2..6, guard 1 | exact trimming, areas apart, placement; no deadlock |
| `objects` | 2 GPUs, 6 pages, aperture 2..5 | every page and buffer ends with the registers of its own GPU behind it, and stays; a buffer outlives its page only where the driver refused to free it; a call meets its own object; the areas are areas of `MmapAperture`; no deadlock |
| `mem_handle` | 2 GPUs, six shapes of aperture, 4 holes | no shared address; the search gives up only when every hole is taken |
| `session` | 1 CPU, 2 GPUs, descriptors 0..4, 2 opens | descriptors stay valid whatever is closed and reused, but for that of the driver after a failed version check; a device has two descriptors only if one is 0 or was forgotten by a snapshot; a ready memory manager has every GPU |
| `session_ready` | the same | **violated**: SUCCESS without a memory manager |
| `topology` | 3 layouts, 2 changes | only what `load_nodes` read is older than the call, and the links are those of one generation; counts agree; a quiet snapshot is the layout but for the targets of its links; only an unavailable link can keep a call |
| `node` | 11 CPU nodes, 19 GPUs, 2 changes | counts agree, caches listed once and to the right processor, panics have one of four reasons, versions lead to the right decisions |
| `fmm_init` | 25 machines, with and without reserved SVM | list entries match GPUs, the common range, MMIO pages prepared, and only the reservation can keep the call |
| `fmm_init_policy` | the same | **violated**: the policy's base is an address of a record |

### Bounds, and why they are enough

- `MaxNodes`, `Keys` (tree): 8 insertions are the first length at which recolourings
  below the root follow one another; 5 show every rotation, and the first lost node
  appears at 3. Two keys with one address make the size decide. `vm_search` has
  different addresses, contained and overlapping objects, and addresses left of, inside,
  between and right of them.
- `LastPage = 8` (mmap): room for an area of two pages with its guards and the padding
  of alignment 2, plus a page of someone else on either side; the aperture leaves out
  pages on both sides, so that the kernel can choose out of range. The proofs are for
  every size.
- `Gpus = 2`, `LastPage = 6` (objects): the second GPU is the first whose object is built
  over another one; its area and that of the first both fit, with their guards, or do not.
  The proofs are for every number.
- `MaxChanges = 2` (nodes): a processor goes offline after it was seen and comes back, or
  two go. The machines have lists of every form: `n`, `n1-n2`, `n1,n2`, a range before a
  comma, three elements; gaps in the numbers; directories of offline processors that stay
  or vanish. GPUs are of every family the code tells apart, in the table and not.
- `End = 18`, `Hole = 4`, `NumGpus = 2` (handles): four holes, apertures inside one, on
  a border, over several and outside; the second GPU can block a hole that the first
  leaves. The proofs are for every number.
- `MaxFd = 4`, `MaxOpens = 2`, three nodes (session): more descriptors than the
  library needs, fewer than it and others could use, so that opening fails too. Two GPUs
  are enough for a link from one to the other, of which one was refused before, and for
  the closed number of the driver to be given to a render device.
- `Modulus = 8`, `MaxGeneration = 3` (topology): eight unsigned numbers, more than any count of
  links, so a wrapped difference is told apart from a true one; two changes are enough
  to take a GPU away and give it back while a snapshot is taken.
- `HugePage = 4`, `Canonical = 16`, `ReservationLimit = 13`, `MinVmSize = 4` (start):
  both limits lie between aligned addresses, and lists of both sorts (canonical or not,
  below, at and above the limits) occur.

`CHECK_DEADLOCK FALSE` stands where the system really stops: a call panics, a bound on
insertions is used up, or the function modelled has returned.

### Fairness

The only assumption is that a thread goes on with the call it is in (`WF` of the
disjunction of the call's steps: `InsertStep`, `FindStep`, `SnapshotStep`, or `Next`
in `FmmInit`, which is one function). The code gives nothing away inside a call: it takes
no lock and waits for no event. Nothing makes the caller start a call, and nothing makes
the kernel or the process act, or stop acting.

## 4. What the code does otherwise than it says

1. **A node is lost** (`rbtree.rs:218`). Where a node is inserted on the inner side of a
   red parent, the rotation is made at the inserted node instead of its parent; it is a
   leaf, so that the sentinel takes its place. The tree stays well formed, and no other
   node is touched; `AddressIndex` says when it can happen: never for
   a key beyond either end of the index. Since a recolouring never goes up more than one
   level, the tree is also not balanced as a red-black tree is.
2. **SUCCESS without a memory manager** (`topology.rs:1622`): a failed start leaves the
   snapshot, and the second call takes it for success.
3. **The policy's base** (`fmm.rs:2142`): the address of the record is passed, not its
   contents.

Other departures are named exceptions of a property that passes, which says that they are
the only ones:

- *An unavailable link hangs the snapshot* (`topology.rs:1554`): `continue` leaves both
  counters of the loop as they are (`EndsUnlessUnavailable`).
- *The reservation never ends* (`fmm.rs:1005`): the inner loop is left where it should be
  entered, and the outer loop goes on with the same length (`EndsUnlessReserving`).
- *`prev` spins* where the node to go up from is not a right child (`Spins` in
  `EndsUnlessPrevSpins`).
- *A search misses* an object that starts at the searched address, since sizes are
  compared as signed numbers where "if key->size is -1, it match the node with
  start <= address" (`fmm.rs:532`), and one that is hidden
  by another further right, which starts before the address and ends before it: the walk
  does not go left of the node where the look-up stopped (`FindsCovering`). A search for a
  user pointer misses nothing.
- *A cache is listed nowhere* if the list of its processors has three elements or more
  (`topology.rs:347-352`), and the program panics if it has two and the first is a range
  (`ListedOnce`, `PanicsForAReason`). Both are shown by the machines of `node`.
- *A processor's id is another one's* where the numbers of processors have gaps, and the
  program panics where the process may not use all of them (`NoGaps`, `rows`).
- *The closed number of the driver is used*: after a failed version check
  `hsakmt_kfd_fd` keeps the number that was closed (`open_close.rs:63`), and the session
  goes on with it. It may be given to any other file, a render device among them, and
  ioctls for the driver then go there (`VersionRefused` in `KfdFdIsKfd`). The descriptors
  of render devices are not affected.
- *Descriptor 0 is "not opened"* (`topology.rs:876`): a process that closed its standard
  input may get 0 for a device, which is then opened again, although "If the render node
  was already opened, keep using the same FD" (`0 \in {f, g}` in `RenderOpenedOnce`).
- *Descriptors are left open*: one for each GPU and snapshot (`lost` in
  `RenderOpenedOnce`).
- *A snapshot mixes generations*: the GPU id, the hive and the counts of a node were read
  once by `load_nodes` (`topology.rs:991-1032`), and the check at the end of the call
  compares only what changed since its start. A GPU that was taken away and
  another one added before the call is published with the old GPU's id and the new one's
  banks; and if the change came between the two files of the node, id and properties are of
  two generations (`OnlyLoadIsOlder`).
- *Every link leads to its own node*: `NodeTo` is given the number of the node whose link it
  is (`topology.rs:1430`), not the one in the file (`KeptLink`; stated in
  `OnlyLoadIsOlder` and `QuietSnapshotIsExact`).
- *A refusal of a buffer is not noticed* (`fmm.rs:1321`, `r > 0`): an object with handle 0
  is made. `MmioIsBacked` holds all the same, since mmap then fails and the call panics.
  A buffer that the driver refuses to free loses its page (`BuffersHaveAreas`).

Some departures change nothing that a property of this project states:

- The size of the vector registers is wrong for GPUs of versions such as 9.4.x, 11.0.x and
  12.0.x that are not in the table of devices, as minor and stepping are taken of a number
  cut to 16 bits (`topology.rs:111-117`, `1176`). `EngineDecides` claims the size for
  devices in the table only.
- The CPU a GPU is connected to (`DirectCpu`, `topology.rs:613`) is never found, and the
  weight of an indirect link is 0 whichever it is, so that the mistake has no effect.
- The list of apertures is read past its end where the kernel reports as many as there was
  room for (`fmm.rs:1996`), and the list of peers would be written past its one element
  (`fmm.rs:2045`) if a link ever led to a number that is a GPU id. Both are panics, and
  the invariants allow a call that stopped.
- A VM that was not acquired and a policy that was not set are not noticed
  (`fmm.rs:830`, `2152`, tested as `> 0`). `MmioIsPrepared` says that they were asked for, not
  that they were granted.
- The environment variables of the memory manager are read the wrong way round
  (`fmm.rs:1842`, `1858`, `1866`): "set to a non-0 value" is tested as equal to "0". In
  `FmmInit` the variable that matters, `reserve_svm`, has either value.
- The assertion `NumIOLinks <= NumNodes` (`fmm.rs:2027`) is not an outcome of `FmmInit`:
  `LinkCountAgrees` shows that it holds of every published snapshot.

## 5. Proofs

Every theorem is of the module's own `Spec` and of every value of the constants that
satisfies the module's assumptions: `Spec => []P`, an action property (`OneRound`,
`PrevIsPredecessor`) or a refinement (`ImplementsIndex`, `ImplementsAperture`). Each proof
has the same shape: an inductive invariant, which `Init` implies, one lemma or case per
action that preserves it, and what it implies of a state or of a step.

| Module | Theorems | Why an invariant is needed |
|---|---|---|
| `RBTreeProofs` | types, `ReadsAreValid`, `LinksAgree`, `OrderAndBalance`, the rebalancing loop runs once (`OneRound`), `ImplementsIndex` | `Linked`: the attached nodes are a tree whose parents agree, and nothing in it is reached from the sentinel's own fields, which an inner rotation writes. `LowNodes`: where one child is missing or a red leaf the other is, too, and the node above is black. So the loop ends after one round, and a rotation only touches a node without grandchildren. `Descending`, `Settling` and `Rotating` say where the inserted node is. What lies below each node afterwards is computed by lemmas on `Reach` (`ReachHung`, `ReachRotated`), from which the order of the keys and the black heights follow. The index also needs `Inside`: a node that is lost lies strictly between two others, by where the descent turned |
| `VmSearchProofs` | `WalkStaysInBounds`, `FindsCovering`, `PrevIsPredecessor` | The order of the tree, `Before`, is total and holds equal keys apart; keys follow it. `SearchInv`: `ln` is `rn` or before it, before `ln` is nothing (user pointers) or only what it hides, and everything that covers the address is at or before `rn`, or `rn` covers it itself. Inside `prev`, `Climbing`: `node` is at its start, or stays at the parent of a left child. `LastBelow` and `ParentBefore` show that each exit of `prev` is the node just before; `NoneBefore` that it is never called at the first one, so it does not return NULL. What the loops of the look-ups compute is proved at the last node of the set where it would be wrong: `LastIn`, by counting, since a set in which every node has a child would contain the root as a child |
| `ApertureProofs` (areas) | types, `MappedExactly`, `AreasApart`, `PlacedInAperture` | The four together are inductive. The work is arithmetic: `AlignUp` bounds the rounding, `AreaFits` shows that the padded mapping has room for the area and a guard on both sides wherever the kernel put it, and that trimming leaves the area. Apartness follows because a *new* padded mapping is disjoint from everything mapped |
| `MemHandleProofs` | types, `NoSharedAddress`, `HoleIsWhole` (the range is one whole hole), `GivesUpOnlyIfFull` | `LoopInv`: the GPUs before `i` are clear of the hole, and every hole before `base` is blocked. `OverlapIsExact` shows that the code's test for overlap is exact; `NextHole` that no hole is stepped over |
| `KfdSessionProofs` | types, `DescriptorsAreValid`, `RenderOpenedOnce`, `ReadyHasEveryGpu` | `CallsInv`: the descriptor that a failed version check closes is the one just opened, and an open call runs only while the count is 0. Without it a step of open could close a descriptor that was reused. After a failed check the number is never the driver's again, whoever gets it. `OnceInv` and `ReadyInv` add that every descriptor of a device is the cached one, 0 or lost, and which GPUs the loop has passed. The first three theorems have no premise; the last one has one, that the machine has a CPU (`Gpus # Nodes`) |
| `TopologyProofs` | types, `OnlyLoadIsOlder`, `LinkCountAgrees`, `QuietSnapshotIsExact` | `LoadInv`: each of the two files of a node is as some generation so far had it, or was not there. `ReadInv`: while the generation is still that of the start, the banks and links read so far are those of the present layout; if it is not, the call will not publish, as a generation never returns. `CountInv`: the counts of the nodes that are done agree, and that of the node being read does unless a loop that is still to come corrects it. `NumbersAreLoaded` shows that the numbers the snapshot goes through were loaded. `QuietInv`, for one layout that never changes: the nodes read are its nodes, and the second loop over the links of a node begins where the first one stopped, so its counts split the links of the layout |
| `ApertureProofs` (objects) | types, `MmioIsBacked`, `OwnObject`, `ImplementsAperture` | `OInv`: every area is that of a GPU's registers, or that of the call (`AreasKnown`), and so for the buffers (`BuffersKnown`). A release reads its range from a dead frame, so that what it unmaps is known from `OwnObject` only, and that nothing else is lost from the aperture's own invariants (`AreaOfPage`). `ObjectStep` is the refinement: one step of the objects is one of the aperture or none |
| `FmmInitProofs` | types, `EntriesMatch`, `SvmIsCommon`, `MmioIsPrepared`, `NothingLeaks` | One `IInv` for all five: what each of the three loops has done for the entries before its index, in terms of the kernel's list; the folded limits are those of entries seen, and inside all of them, with 0 as "none", whatever their order (`SvmExact`); `RoundedRange` carries this over the rounding to huge pages |
| `NodePropsProofs` | `EngineDecides`, `CountsAgree`, types, `PanicsForAReason`, `ListedOnce` | The first is arithmetic on decimal and packed versions, and needs the bound on the table's majors: a device looked up in the table is one whose major is not above it. The second needs that while a processor is walked, the caches listed are the sum of the processors done plus the indexes kept so far. The types need that a table never has more rows than were counted, with processors coming and going in between; the reasons for a panic are then what is left. `ListedOnce`: `TableInv`, that the row of a processor is its number where the numbers have no gaps, and `ListInv`, that the caches listed are those whose directories were passed; both by `NthIs`, that the n-th smallest of a set has n-1 below it, counted by an injection |

The assumptions are those named in the modules: the kernel numbers the nodes of a layout
without gaps and a node has fewer links than a counter can hold; sizes and alignments are positive,
apertures have their base below their limit, descriptors and nodes are finite ranges.

Of the tree's keys it is assumed that no object has the address and size 0 of the
sentinel, and of the search that sizes are positive, as mmap refuses an area of 0 bytes.

Only model-checked: the liveness properties (`InsertReturns`, `EndsUnlessPrevSpins`,
`EndsUnlessUnavailable`, `EndsUnlessReserving`). Liveness under fairness,
ENABLED and induction over data are out of the prover's reach. Every invariant and every
action property that a run checks and that holds is stated by a theorem. Where a loop over
the heap is a recursive function, its existence is proved by giving the function
(`EndExists`, `WalkExists`), and what it returns without induction, by `LastIn`.

## 6. Not modelled

- The generated bindings (`amdgpu-drm-sys`, `xf86drm-sys`, `numa-sys`): 10142 of the 17738
  lines of the repository declare C functions, constants and structures and define nothing
  that runs. This is why the definitions can stand for well under a third of all lines,
  though they stand for most of the lines of `hsakmt-rs` that run.
- Of `hsakmttypes.rs` and `fmm_types.rs`, layouts of structures and their zero defaults,
  and the entries of the table of devices.
- In `topology.rs` and `topology_utils.rs`, the fields that are copied from one line of a
  file to one number, and the names of devices. Two of them have slips that nothing in the
  library depends on: `LocationId` is set from `device_id` (`topology.rs:1098`), and
  `Capability.ui32` is laid over a value narrower than it.
- In `fmm.rs` and `rbtree.rs`, what is commented out, and printing.
- `hsakmt_ioctl` (`libhsakmt.rs:6-31`): a retry loop on EINTR/EAGAIN around one system
  call. Its two outcomes are choices in the modules that call it.
- The branches of `__fmm_release` for user pointers: no reachable call makes such an
  object. `hsakmt_fmm_map_to_gpu`'s panic for scratch memory: no scratch range is
  ever above 0.
- What runs after an overwritten object was used: undefined behaviour.

## 7. Plan

Order of work: first the parts whose failure would lose memory or never return (tree,
search, apertures), then the parts they are composed of, then proofs.

1. *Done*: `RBTree` with its abstract index, `VmSearch`, `MmapAperture` and the objects in
   it, `MemHandleAperture`, `KfdSession` with the descriptors of the snapshot, `Topology`
   with `IoLinks`, `NodeProps` with `GfxVersion`, `FmmInit`, and the proofs of section 5.
2. *Model, next*: a composition of `KfdSession` and `FmmInit` that shares the descriptors
   of GPUs; an abstract specification of the snapshot (one atomic read) that `Topology`
   implements; `NodeProps` for several nodes, with the sysfs numbers of unsupported ones.
3. *Prove, next*: theorems for the models of item 2, as they come; that the order of
   `VmSearch` is the abstract index of `AddressIndex`, so that the search could be stated
   on the index alone.
