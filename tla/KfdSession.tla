----------------------------- MODULE KfdSession -----------------------------
(***************************************************************************)
(* The session of a process with the driver: hsaKmtOpenKFD, hsaKmtCloseKFD *)
(* and hsaKmtAcquireSystemProperties, down to the file descriptors they    *)
(* open, cache and close (open_close.rs, version.rs, topology.rs, and the  *)
(* first loop of hsakmt_fmm_init_process_apertures in fmm.rs).             *)
(*                                                                         *)
(* The environment is the kernel, which gives the lowest free descriptor   *)
(* and may refuse a device or an ioctl, and the rest of the process, which *)
(* opens and closes descriptors of its own between any two steps.          *)
(*                                                                         *)
(* Sysfs node n has the DRM render device n if it is a GPU.  Of the        *)
(* snapshot this module has the devices it opens, for the properties of a  *)
(* node and for its links; its contents are left to other modules.         *)
(***************************************************************************)
EXTENDS Integers, FiniteSets

CONSTANTS
    NumNodes,   \* sysfs nodes, 1..NumNodes here
    Gpus,       \* those with a GPU id
    MaxFd,      \* bound: descriptors are 0..MaxFd
    MaxOpens    \* bound: calls of hsaKmtOpenKFD

Nodes == 1..NumNodes
Fds   == 0..MaxFd
Kfd      == -1      \* what a descriptor refers to: /dev/kfd, ...
Foreign  == -2      \* ... a file of the rest of the process, ...
Closed   == -3      \* ... nothing; a node n stands for its render device
NoFd     == -1
FdOrNone == Fds \cup {NoFd}

ASSUME NodesAssumption == NumNodes \in Nat \ {0} /\ Gpus \subseteq Nodes
ASSUME FdsAssumption == MaxFd \in Nat /\ MaxOpens \in Nat

VARIABLES
    files,              \* what each descriptor refers to
    kfd_fd,             \* hsakmt_kfd_fd
    open_count,         \* hsakmt_kfd_open_count
    version,            \* version.kfd.KernelInterfaceMajorVersion
    drm_fds,            \* fmm.drm_render_fds; 0 is "not opened"
    lost,               \* descriptors that snapshots opened and forgot
    g_nodes,            \* topology.g_system.NumNodes; 0 is the default value
    gpu_mem,            \* fmm.gpu_mem: the descriptor of each GPU in it, or NoFd
    fmm,                \* none, failed, ready: how its initialisation ended
    pc,                 \* idle, version, props, snapshot, nodes, stopped
    op, fd, i, ids,     \* the call that runs and its locals
    result              \* the last call that returned, and its status

locals      == <<op, fd, i, ids>>
library     == <<kfd_fd, open_count, version, drm_fds, lost, g_nodes, gpu_mem, fmm>>
sessionVars == <<files, library, pc, locals, result>>

Free == {f \in Fds : files[f] = Closed}
IsLowestFree(f) == f \in Free /\ \A g \in Free : f <= g

Returns(o, status) == pc' = "idle" /\ result' = [op |-> o, status |-> status]

\* The process may have closed any descriptor, standard input among them.
Init ==
    /\ files \in [Fds -> {Foreign, Closed}]
    /\ kfd_fd = NoFd /\ open_count = 0 /\ version = 0
    /\ drm_fds = [n \in Nodes |-> 0] /\ lost = {}
    /\ g_nodes = 0 /\ gpu_mem = [n \in Nodes |-> NoFd] /\ fmm = "none"
    /\ pc = "idle"
    /\ op = "none" /\ fd = NoFd /\ i = 1 /\ ids = {}
    /\ result = [op |-> "none", status |-> "none"]

-----------------------------------------------------------------------------
(* hsaKmtOpenKFD and hsaKmtCloseKFD *)

OpenAgain ==
    /\ pc = "idle" /\ open_count \in 1 .. MaxOpens - 1
    /\ open_count' = open_count + 1
    /\ Returns("open", "ALREADY_OPENED")
    /\ UNCHANGED <<files, kfd_fd, version, drm_fds, lost, g_nodes, gpu_mem, fmm, locals>>

OpenRefused ==
    /\ pc = "idle" /\ open_count = 0 /\ kfd_fd < 0
    /\ Returns("open", "NOT_OPENED")
    /\ UNCHANGED <<files, library, locals>>

OpenKfd ==
    /\ pc = "idle" /\ open_count = 0 /\ kfd_fd < 0 /\ MaxOpens > 0
    /\ \E f \in Fds :
          /\ IsLowestFree(f)
          /\ files' = [files EXCEPT ![f] = Kfd]
          /\ kfd_fd' = f /\ fd' = f
    /\ op' = "open" /\ pc' = "version"
    /\ UNCHANGED <<open_count, version, drm_fds, lost, g_nodes, gpu_mem, fmm, i, ids, result>>

VersionKnown ==
    /\ pc = "version"
    /\ version' = 1
    /\ pc' = "props" /\ i' = 1 /\ ids' = {}
    /\ UNCHANGED <<files, kfd_fd, open_count, drm_fds, lost, g_nodes, gpu_mem, fmm, op, fd, result>>

\* The ioctl fails, or the major version (2) is not the one supported: the
\* descriptor is closed, hsakmt_kfd_fd keeps its number, and the call goes on.
VersionFails ==
    /\ pc = "version"
    /\ version' \in {0, 2}
    /\ files' = [files EXCEPT ![fd] = Closed]
    /\ pc' = "props" /\ i' = 1 /\ ids' = {}
    /\ UNCHANGED <<kfd_fd, open_count, drm_fds, lost, g_nodes, gpu_mem, fmm, op, fd, result>>

\* Faulty: the descriptor is closed, at every call.
CloseEveryTime ==
    /\ pc = "idle"
    /\ files' = [f \in Fds |-> IF f = kfd_fd THEN Closed ELSE files[f]]
    /\ Returns("close", "SUCCESS")
    /\ UNCHANGED <<library, locals>>

Close ==
    /\ pc = "idle"
    /\ Returns("close", "SUCCESS")
    /\ UNCHANGED <<files, library, locals>>

-----------------------------------------------------------------------------
(* hsakmt_open_drm_render_device: its outcomes, with the descriptor r that   *)
(* it returns; a refusal is a negative number, here NoFd.                    *)

CachedDevice(n, r) ==
    /\ drm_fds[n] # 0
    /\ r = drm_fds[n]
    /\ UNCHANGED <<files, drm_fds>>

\* Faulty: the descriptor is not cached.
NewDeviceUncached(n, r) ==
    /\ r \in Fds /\ IsLowestFree(r)
    /\ files' = [files EXCEPT ![r] = n]
    /\ UNCHANGED drm_fds

NewDevice(n, r) ==
    /\ drm_fds[n] = 0
    /\ r \in Fds /\ IsLowestFree(r)
    /\ files' = [files EXCEPT ![r] = n]
    /\ drm_fds' = [drm_fds EXCEPT ![n] = r]

\* Faulty: the error is cached like a descriptor.
RefusedDeviceCached(n, r) ==
    /\ drm_fds[n] = 0
    /\ r = NoFd
    /\ drm_fds' = [drm_fds EXCEPT ![n] = r]
    /\ UNCHANGED files

RefusedDevice(n, r) ==
    /\ drm_fds[n] = 0
    /\ r = NoFd
    /\ UNCHANGED <<files, drm_fds>>

RenderDevice(n, r) == CachedDevice(n, r) \/ NewDevice(n, r) \/ RefusedDevice(n, r)

\* The GPUs that the links of a node may lead to, once the snapshot has read its
\* properties and looks at its links.  It looks for none if it has one node only.
FarGpus ==
    IF pc = "snapshot" /\ i > 1 /\ Cardinality(ids) > 1 THEN Gpus \ {i - 1} ELSE {}

\* amdgpu_device_initialize fails: a panic, after the descriptor was cached.
DeviceInitFails ==
    /\ \E n \in FarGpus \cup (IF pc \in {"props", "nodes"} THEN Gpus \cap {i} ELSE {}),
          r \in Fds : NewDevice(n, r)
    /\ pc' = "stopped"
    /\ UNCHANGED <<kfd_fd, open_count, version, lost, g_nodes, gpu_mem, fmm, locals, result>>

-----------------------------------------------------------------------------
(* hsakmt_topology_sysfs_get_system_props, called by open and by acquire     *)

CpuNode ==
    /\ pc = "props" /\ i \in Nodes \ Gpus
    /\ ids' = ids \cup {i} /\ i' = i + 1
    /\ UNCHANGED <<files, library, pc, op, fd, result>>

GpuNode ==
    /\ pc = "props" /\ i \in Gpus
    /\ \E r \in FdOrNone :
          /\ RenderDevice(i, r)
          /\ ids' = IF r > 0 THEN ids \cup {i} ELSE ids
    /\ i' = i + 1
    /\ UNCHANGED <<kfd_fd, open_count, version, lost, g_nodes, gpu_mem, fmm, pc, op, fd, result>>

OpenReturns ==
    /\ pc = "props" /\ i \notin Nodes /\ op = "open"
    /\ open_count' = open_count + 1
    /\ Returns("open", "SUCCESS")
    /\ UNCHANGED <<files, kfd_fd, version, drm_fds, lost, g_nodes, gpu_mem, fmm, locals>>

-----------------------------------------------------------------------------
(* hsaKmtAcquireSystemProperties *)

AcquireUnopened ==
    /\ pc = "idle" /\ open_count = 0
    /\ pc' = "stopped"
    /\ UNCHANGED <<files, library, locals, result>>

AcquireCached ==
    /\ pc = "idle" /\ open_count > 0 /\ g_nodes # 0
    /\ Returns("acquire", "SUCCESS")
    /\ UNCHANGED <<files, library, locals>>

AcquireBegin ==
    /\ pc = "idle" /\ open_count > 0 /\ g_nodes = 0
    /\ op' = "acquire" /\ pc' = "props" /\ i' = 1 /\ ids' = {}
    /\ UNCHANGED <<files, library, fd, result>>

SnapshotBegin ==
    /\ pc = "props" /\ i \notin Nodes /\ op = "acquire"
    /\ pc' = "snapshot" /\ i' = 1
    /\ UNCHANGED <<files, library, op, fd, ids, result>>

\* The snapshot goes through as many nodes as are supported, from the first.
InSnapshot == pc = "snapshot" /\ i \in 1..Cardinality(ids)

SnapshotNode ==
    /\ InSnapshot
    /\ i' = i + 1
    /\ UNCHANGED <<files, library, pc, op, fd, ids, result>>

\* topology_get_node_props_from_drm opens the render device of a GPU once more,
\* and never closes it.  Where it fails to initialise the device it closes it,
\* and uses its uninitialised handle: the program stops or goes on, as in
\* SnapshotNode, which is also what happens where the device cannot be opened.
SnapshotGpu ==
    /\ InSnapshot /\ i \in Gpus
    /\ \E f \in Fds :
          /\ IsLowestFree(f)
          /\ files' = [files EXCEPT ![f] = i]
          /\ lost' = lost \cup {f}
    /\ i' = i + 1
    /\ UNCHANGED <<kfd_fd, open_count, version, drm_fds, g_nodes, gpu_mem, fmm,
                   pc, op, fd, ids, result>>

\* topology_sysfs_get_iolink_props asks whether the far node of a link is
\* supported, and so opens and caches the device of a GPU that was refused before.
\* A link that is refused is looked at again, and the node has any number of links.
SnapshotLink ==
    /\ \E n \in FarGpus, r \in FdOrNone : RenderDevice(n, r)
    /\ UNCHANGED <<kfd_fd, open_count, version, lost, g_nodes, gpu_mem, fmm, pc, locals, result>>

\* topology_take_snapshot returns an error, or panics: a file is gone, a handle was
\* not initialised, or the generation moved.
SnapshotFails ==
    /\ pc = "snapshot"
    /\ \/ Returns("acquire", "ERROR")
       \/ pc' = "stopped" /\ UNCHANGED result
    /\ UNCHANGED <<files, library, locals>>

\* g_system is set before the memory manager is initialised.
SnapshotTaken ==
    /\ pc = "snapshot" /\ i \notin 1..Cardinality(ids)
    /\ g_nodes' = Cardinality(ids)
    /\ pc' = "nodes" /\ i' = 1
    /\ UNCHANGED <<files, kfd_fd, open_count, version, drm_fds, lost, gpu_mem, fmm, op, fd, ids, result>>

FmmFails ==
    /\ fmm' = "failed"
    /\ Returns("acquire", "ERROR")

\* The first loop of hsakmt_fmm_init_process_apertures: the first g_nodes
\* nodes, whichever of them were supported.
FmmCpuNode ==
    /\ pc = "nodes" /\ i \in 1..g_nodes /\ i \notin Gpus
    /\ i' = i + 1
    /\ UNCHANGED <<files, library, pc, op, fd, ids, result>>

\* Faulty: a GPU that cannot be opened is skipped, as the snapshot skips it.
FmmGpuNodeSkips ==
    /\ pc = "nodes" /\ i \in 1..g_nodes /\ i \in Gpus
    /\ \E r \in FdOrNone :
          /\ RenderDevice(i, r)
          /\ gpu_mem' = IF r <= 0 THEN gpu_mem ELSE [gpu_mem EXCEPT ![i] = r]
    /\ i' = i + 1
    /\ UNCHANGED <<kfd_fd, open_count, version, lost, g_nodes, fmm, pc, op, fd, ids, result>>

FmmGpuNode ==
    /\ pc = "nodes" /\ i \in 1..g_nodes /\ i \in Gpus
    /\ \E r \in FdOrNone :
          /\ RenderDevice(i, r)
          /\ IF r <= 0
             THEN FmmFails /\ UNCHANGED <<gpu_mem, i>>
             ELSE /\ gpu_mem' = [gpu_mem EXCEPT ![i] = r]
                  /\ i' = i + 1
                  /\ UNCHANGED <<fmm, pc, result>>
    /\ UNCHANGED <<kfd_fd, open_count, version, lost, g_nodes, op, fd, ids>>

\* What follows in that function: it succeeds, an ioctl or a limit fails, or it
\* panics (where the kernel refuses the list of apertures, for one).
FmmRest ==
    /\ pc = "nodes" /\ i \notin 1..g_nodes
    /\ \/ FmmFails
       \/ fmm' = "ready" /\ Returns("acquire", "SUCCESS")
       \/ pc' = "stopped" /\ UNCHANGED <<fmm, result>>
    /\ UNCHANGED <<files, kfd_fd, open_count, version, drm_fds, lost, g_nodes, gpu_mem, locals>>

-----------------------------------------------------------------------------
(* The rest of the process *)

ForeignOpen ==
    /\ pc # "stopped"
    /\ \E f \in Fds : IsLowestFree(f) /\ files' = [files EXCEPT ![f] = Foreign]
    /\ UNCHANGED <<library, pc, locals, result>>

ForeignClose ==
    /\ pc # "stopped"
    /\ \E f \in Fds : files[f] = Foreign /\ files' = [files EXCEPT ![f] = Closed]
    /\ UNCHANGED <<library, pc, locals, result>>

Next ==
    \/ OpenAgain \/ OpenRefused \/ OpenKfd \/ VersionKnown \/ VersionFails \/ Close
    \/ DeviceInitFails \/ CpuNode \/ GpuNode \/ OpenReturns
    \/ AcquireUnopened \/ AcquireCached \/ AcquireBegin
    \/ SnapshotBegin \/ SnapshotNode \/ SnapshotGpu \/ SnapshotLink
    \/ SnapshotFails \/ SnapshotTaken
    \/ FmmCpuNode \/ FmmGpuNode \/ FmmRest
    \/ ForeignOpen \/ ForeignClose

Spec == Init /\ [][Next]_sessionVars

-----------------------------------------------------------------------------
(* Properties *)

TypeOK ==
    /\ files \in [Fds -> Nodes \cup {Kfd, Foreign, Closed}]
    /\ kfd_fd \in FdOrNone /\ open_count \in 0..MaxOpens /\ version \in {0, 1, 2}
    /\ drm_fds \in [Nodes -> Fds] /\ lost \subseteq Fds
    /\ g_nodes \in 0..NumNodes
    /\ gpu_mem \in [Nodes -> FdOrNone]
    /\ fmm \in {"none", "failed", "ready"}
    /\ pc \in {"idle", "version", "props", "snapshot", "nodes", "stopped"}
    /\ op \in {"none", "open", "acquire"} /\ fd \in FdOrNone
    /\ i \in 1..(NumNodes + 1) /\ ids \subseteq Nodes
    /\ pc = "version" => fd \in Fds

\* A cached render descriptor always refers to that render device, although
\* descriptors are closed and reused by number, by the library and by others.
CachedFdsAreValid ==
    \A n \in Nodes :
        /\ drm_fds[n] # 0 => files[drm_fds[n]] = n
        /\ gpu_mem[n] # NoFd => gpu_mem[n] = drm_fds[n] /\ gpu_mem[n] # 0

\* The version check failed: hsakmt_kfd_fd keeps the number that was closed.
VersionRefused == kfd_fd # NoFd /\ pc # "version" /\ version # 1

\* hsakmt_kfd_fd refers to the driver, with one exception: after a failed version
\* check (open_close.rs:63) the session goes on with a number that is closed or some
\* other file's, and no later call makes it the driver's again.
KfdFdIsKfd == kfd_fd # NoFd => (files[kfd_fd] = Kfd <=> ~VersionRefused)

\* No render descriptor that the library holds was closed and given to another
\* file, and that of the driver was only if the version check failed.
DescriptorsAreValid == CachedFdsAreValid /\ KfdFdIsKfd

\* "If the render node was already opened, keep using the same FD"
\* (topology.rs:875): of two descriptors of one render device, one is 0, which that
\* test takes for "not opened", or one was opened by a snapshot past the cache, at
\* each reading of a GPU's properties, and forgotten.  A forgotten descriptor stays
\* open, and is never one that the library uses.
RenderOpenedOnce ==
    /\ \A f, g \in Fds \ lost : files[f] = files[g] /\ files[f] \in Nodes => f = g \/ 0 \in {f, g}
    /\ \A f \in lost : files[f] \in Gpus
    /\ \A n \in Nodes : drm_fds[n] # 0 => drm_fds[n] \notin lost

\* A memory manager that reports success knows a descriptor for every GPU among
\* the nodes of the snapshot it was built from.
ReadyHasEveryGpu ==
    fmm = "ready" => \A n \in Gpus : n <= g_nodes => gpu_mem[n] # NoFd

\* Violated.  "self.topology_drop_snapshot();" (topology.rs:1649): a failed start
\* of the memory manager undoes the snapshot, so that SUCCESS means it started.
AcquireMeansReady == result = [op |-> "acquire", status |-> "SUCCESS"] => fmm = "ready"

=============================================================================
