-------------------------- MODULE KfdSessionProofs --------------------------
(***************************************************************************)
(* Theorems about KfdSession, for any number of nodes, GPUs, descriptors   *)
(* and calls: the cached descriptors stay valid, and hsakmt_kfd_fd refers  *)
(* to the driver exactly if the version check did not fail; devices are    *)
(* opened once, but for descriptor 0 and what snapshots forget; and, on a  *)
(* machine with a CPU, a ready memory manager has every GPU.               *)
(*                                                                         *)
(* None is inductive: they rest on when a call of open may run (only       *)
(* before the count leaves 0) and on the descriptor that it may close (the *)
(* one it has just opened).                                                *)
(***************************************************************************)
EXTENDS KfdSession, FiniteSetTheorems, TLAPS

\* Where a call of open is, the session is not open yet and the descriptor it
\* may close is the driver's; anything else runs in an open session.
CallsInv ==
    /\ pc = "version" => op = "open" /\ files[fd] = Kfd /\ kfd_fd = fd /\ version = 0
    /\ pc \in {"version", "props"} /\ op = "open" => open_count = 0 /\ MaxOpens > 0
    /\ pc = "props" => op \in {"open", "acquire"}
    /\ pc = "props" /\ op = "acquire" => open_count > 0
    /\ pc = "snapshot" => open_count > 0 /\ op = "acquire"
    /\ pc = "nodes" => open_count > 0
    /\ pc = "idle" /\ open_count = 0 => version = 0

IInv == TypeOK /\ CachedFdsAreValid /\ KfdFdIsKfd /\ CallsInv

USE NodesAssumption, FdsAssumption

LEMMA SupportedNodes ==
    ASSUME ids \subseteq Nodes
    PROVE  Cardinality(ids) \in 0..NumNodes
<1>1. IsFiniteSet(Nodes) /\ Cardinality(Nodes) = NumNodes
  BY FS_Interval DEF Nodes
<1>2. IsFiniteSet(ids) /\ Cardinality(ids) <= Cardinality(Nodes)
  BY <1>1, FS_Subset
<1>3. Cardinality(ids) \in Nat
  BY <1>2, FS_CardinalityType
<1> QED
  BY <1>1, <1>2, <1>3

LEMMA InitIInv == Init => IInv
  BY DEF Init, IInv, TypeOK, CachedFdsAreValid, KfdFdIsKfd, CallsInv, Fds, FdOrNone,
         NoFd, Kfd, Foreign, Closed, Nodes

\* The devices that the links of a node lead to are GPUs.
LEMMA FarGpusAreGpus == FarGpus \subseteq Gpus /\ (FarGpus # {} => pc = "snapshot")
  BY DEF FarGpus

\* What opening a render device leaves: types, valid caches, no other descriptor
\* touched, and a positive result is the cached descriptor of that device.
LEMMA RenderDeviceKeeps ==
    ASSUME IInv, NEW n \in Nodes, NEW r \in FdOrNone, RenderDevice(n, r)
    PROVE  /\ files' \in [Fds -> Nodes \cup {Kfd, Foreign, Closed}]
           /\ drm_fds' \in [Nodes -> Fds]
           /\ \A m \in Nodes : drm_fds'[m] # 0 => files'[drm_fds'[m]] = m
           /\ \A f \in Fds : files[f] # Closed => files'[f] = files[f]
           /\ \A f \in Fds : files'[f] = Kfd => files[f] = Kfd
           /\ \A m \in Nodes : drm_fds[m] # 0 => drm_fds'[m] = drm_fds[m]
           /\ r > 0 => drm_fds'[n] = r
<1> USE DEF IInv, TypeOK, CachedFdsAreValid, Fds, FdOrNone, NoFd, Kfd, Foreign, Closed, Nodes
<1>1. CASE CachedDevice(n, r)
  BY <1>1 DEF CachedDevice
<1>2. CASE NewDevice(n, r)
  <2>1. /\ drm_fds[n] = 0 /\ r \in Fds /\ files[r] = Closed
        /\ files' = [files EXCEPT ![r] = n]
        /\ drm_fds' = [drm_fds EXCEPT ![n] = r]
    BY <1>2 DEF NewDevice, IsLowestFree, Free
  <2>2. \A m \in Nodes : drm_fds'[m] # 0 => files'[drm_fds'[m]] = m
    <3> SUFFICES ASSUME NEW m \in Nodes, drm_fds'[m] # 0
                 PROVE  files'[drm_fds'[m]] = m
      OBVIOUS
    <3>1. CASE m = n
      BY <2>1, <3>1
    <3>2. CASE m # n
      <4>1. drm_fds'[m] = drm_fds[m] /\ files[drm_fds[m]] = m
        BY <2>1, <3>2
      <4>2. drm_fds[m] # r
        BY <2>1, <4>1
      <4> QED
        BY <2>1, <4>1, <4>2
    <3> QED
      BY <3>1, <3>2
  <2> QED
    BY <2>1, <2>2
<1>3. CASE RefusedDevice(n, r)
  BY <1>3 DEF RefusedDevice
<1> QED
  BY <1>1, <1>2, <1>3 DEF RenderDevice

LEMMA NextIInv == IInv /\ [Next]_sessionVars => IInv'
<1> SUFFICES ASSUME IInv, [Next]_sessionVars PROVE IInv'
  OBVIOUS
<1> USE DEF IInv, TypeOK, CachedFdsAreValid, KfdFdIsKfd, VersionRefused, CallsInv, Returns,
            Fds, FdOrNone, NoFd, Kfd, Foreign, Closed, Nodes, library, locals
<1>1. CASE UNCHANGED sessionVars
  BY <1>1 DEF sessionVars
<1>2. CASE OpenAgain
  BY <1>2 DEF OpenAgain
<1>3. CASE OpenRefused
  BY <1>3 DEF OpenRefused
<1>4. CASE OpenKfd
  BY <1>4 DEF OpenKfd, IsLowestFree, Free
<1>5. CASE VersionKnown
  BY <1>5 DEF VersionKnown
<1>6. CASE VersionFails
  BY <1>6 DEF VersionFails
<1>7. CASE Close
  BY <1>7 DEF Close
<1>8. CASE DeviceInitFails
  <2>1. PICK n \in Nodes, r \in Fds : NewDevice(n, r)
    BY <1>8, FarGpusAreGpus DEF DeviceInitFails
  <2>2. /\ pc # "version" /\ pc' = "stopped"
        /\ UNCHANGED <<kfd_fd, open_count, version, lost, g_nodes, gpu_mem, fmm, locals, result>>
    <3>1. PICK m \in FarGpus \cup (IF pc \in {"props", "nodes"} THEN Gpus \cap {i} ELSE {}) : TRUE
      BY <1>8 DEF DeviceInitFails
    <3>2. pc \in {"props", "nodes", "snapshot"}
      BY <3>1, FarGpusAreGpus
    <3> QED
      BY <1>8, <3>2 DEF DeviceInitFails
  <2>3. /\ files' \in [Fds -> Nodes \cup {Kfd, Foreign, Closed}]
        /\ drm_fds' \in [Nodes -> Fds]
        /\ \A m \in Nodes : drm_fds'[m] # 0 => files'[drm_fds'[m]] = m
        /\ \A f \in Fds : files[f] # Closed => files'[f] = files[f]
        /\ \A f \in Fds : files'[f] = Kfd => files[f] = Kfd
        /\ \A m \in Nodes : drm_fds[m] # 0 => drm_fds'[m] = drm_fds[m]
    BY <2>1, RenderDeviceKeeps DEF RenderDevice
  <2>4. TypeOK' /\ CallsInv'
    BY <2>2, <2>3
  <2>5. CachedFdsAreValid'
    BY <2>2, <2>3
  <2>6. KfdFdIsKfd'
    BY <2>2, <2>3
  <2> QED
    BY <2>4, <2>5, <2>6
<1>9. CASE CpuNode
  BY <1>9 DEF CpuNode
<1>10. CASE GpuNode
  <2>1. PICK r \in FdOrNone : RenderDevice(i, r) /\ ids' = IF r > 0 THEN ids \cup {i} ELSE ids
    BY <1>10 DEF GpuNode
  <2>2. /\ files' \in [Fds -> Nodes \cup {Kfd, Foreign, Closed}]
        /\ drm_fds' \in [Nodes -> Fds]
        /\ \A m \in Nodes : drm_fds'[m] # 0 => files'[drm_fds'[m]] = m
        /\ \A f \in Fds : files[f] # Closed => files'[f] = files[f]
        /\ \A f \in Fds : files'[f] = Kfd => files[f] = Kfd
        /\ \A m \in Nodes : drm_fds[m] # 0 => drm_fds'[m] = drm_fds[m]
        /\ r > 0 => drm_fds'[i] = r
    BY <1>10, <2>1, RenderDeviceKeeps DEF GpuNode
  <2>3. TypeOK'
    <3>1. /\ pc = "props" /\ i \in Nodes /\ i' = i + 1
          /\ UNCHANGED <<kfd_fd, open_count, version, lost, g_nodes, gpu_mem, fmm, pc, op, fd>>
      BY <1>10 DEF GpuNode
    <3>2. i' \in 1..(NumNodes + 1)
      BY <3>1
    <3>3. ids' \subseteq Nodes
      BY <2>1, <3>1
    <3> QED
      BY <2>2, <3>1, <3>2, <3>3
  <2>4. CachedFdsAreValid'
    BY <1>10, <2>2 DEF GpuNode
  <2>5. KfdFdIsKfd'
    BY <1>10, <2>2 DEF GpuNode
  <2>6. CallsInv'
    BY <1>10 DEF GpuNode
  <2> QED
    BY <2>3, <2>4, <2>5, <2>6
<1>11. CASE OpenReturns
  BY <1>11 DEF OpenReturns
<1>12. CASE AcquireUnopened
  BY <1>12 DEF AcquireUnopened
<1>13. CASE AcquireCached
  BY <1>13 DEF AcquireCached
<1>14. CASE AcquireBegin
  BY <1>14 DEF AcquireBegin
<1>15. CASE SnapshotFails
  BY <1>15 DEF SnapshotFails
<1>16. CASE SnapshotTaken
  BY <1>16, SupportedNodes DEF SnapshotTaken
<1>17. CASE FmmCpuNode
  BY <1>17 DEF FmmCpuNode
<1>18. CASE FmmGpuNode
  <2>1. PICK r \in FdOrNone :
            /\ RenderDevice(i, r)
            /\ IF r <= 0
               THEN FmmFails /\ UNCHANGED <<gpu_mem, i>>
               ELSE /\ gpu_mem' = [gpu_mem EXCEPT ![i] = r]
                    /\ i' = i + 1
                    /\ UNCHANGED <<fmm, pc, result>>
    BY <1>18 DEF FmmGpuNode
  <2>2. i \in Nodes
    BY <1>18 DEF FmmGpuNode
  <2>3. /\ files' \in [Fds -> Nodes \cup {Kfd, Foreign, Closed}]
        /\ drm_fds' \in [Nodes -> Fds]
        /\ \A m \in Nodes : drm_fds'[m] # 0 => files'[drm_fds'[m]] = m
        /\ \A f \in Fds : files[f] # Closed => files'[f] = files[f]
        /\ \A f \in Fds : files'[f] = Kfd => files[f] = Kfd
        /\ \A m \in Nodes : drm_fds[m] # 0 => drm_fds'[m] = drm_fds[m]
        /\ r > 0 => drm_fds'[i] = r
    BY <2>1, <2>2, RenderDeviceKeeps
  <2>4. /\ UNCHANGED <<kfd_fd, open_count, version, lost, g_nodes, op, fd, ids>>
        /\ open_count > 0
    BY <1>18 DEF FmmGpuNode
  <2>5. KfdFdIsKfd'
    <3>1. pc = "nodes" /\ pc' # "version"
      BY <1>18, <2>1 DEF FmmGpuNode, FmmFails
    <3> QED
      BY <2>3, <2>4, <3>1
  <2>6. CASE r <= 0
    <3>1. /\ fmm' = "failed" /\ pc' = "idle"
          /\ UNCHANGED <<gpu_mem, i>>
      BY <2>1, <2>6 DEF FmmFails
    <3> QED
      BY <2>3, <2>4, <2>5, <3>1
  <2>7. CASE ~(r <= 0)
    <3>1. /\ gpu_mem' = [gpu_mem EXCEPT ![i] = r]
          /\ i' = i + 1
          /\ UNCHANGED <<fmm, pc>>
          /\ r \in Fds /\ r > 0
      BY <2>1, <2>7
    <3>2. TypeOK'
      <4>1. gpu_mem' \in [Nodes -> FdOrNone]
        BY <3>1
      <4>2. i' \in 1..(NumNodes + 1)
        BY <2>2, <3>1
      <4>3. pc = "nodes"
        BY <1>18 DEF FmmGpuNode
      <4> QED
        BY <2>3, <2>4, <3>1, <4>1, <4>2, <4>3
    <3>3. CachedFdsAreValid'
      <4> SUFFICES ASSUME NEW n \in Nodes
                   PROVE  /\ drm_fds'[n] # 0 => files'[drm_fds'[n]] = n
                          /\ gpu_mem'[n] # NoFd =>
                                gpu_mem'[n] = drm_fds'[n] /\ gpu_mem'[n] # 0
        BY DEF CachedFdsAreValid
      <4>1. CASE n = i
        BY <2>3, <3>1, <4>1
      <4>2. CASE n # i
        BY <2>3, <3>1, <4>2
      <4> QED
        BY <4>1, <4>2
    <3>4. CallsInv'
      BY <1>18, <2>4, <3>1 DEF FmmGpuNode
    <3> QED
      BY <2>5, <3>2, <3>3, <3>4
  <2> QED
    BY <2>6, <2>7
<1>19. CASE FmmRest
  BY <1>19 DEF FmmRest, FmmFails
<1>20. CASE ForeignOpen
  BY <1>20 DEF ForeignOpen, IsLowestFree, Free
<1>21. CASE ForeignClose
  <2>1. PICK f \in Fds : files[f] = Foreign /\ files' = [files EXCEPT ![f] = Closed]
    BY <1>21 DEF ForeignClose
  <2>2. UNCHANGED <<library, pc, locals, result>>
    BY <1>21 DEF ForeignClose
  <2>3. /\ files' \in [Fds -> Nodes \cup {Kfd, Foreign, Closed}]
        /\ \A g \in Fds : files[g] # Foreign => files'[g] = files[g]
        /\ \A g \in Fds : files'[g] = Kfd => files[g] = Kfd
    BY <2>1
  <2>4. CachedFdsAreValid' /\ KfdFdIsKfd'
    BY <2>2, <2>3
  <2>5. CallsInv'
    BY <2>2, <2>3
  <2>6. TypeOK'
    BY <2>2, <2>3
  <2> QED
    BY <2>4, <2>5, <2>6
<1>22. CASE SnapshotBegin
  BY <1>22 DEF SnapshotBegin
<1>23. CASE SnapshotNode
  <2>1. i' \in 1..(NumNodes + 1)
    BY <1>23, SupportedNodes DEF SnapshotNode, InSnapshot
  <2> QED
    BY <1>23, <2>1 DEF SnapshotNode
<1>24. CASE SnapshotGpu
  <2>1. i \in Gpus /\ pc = "snapshot"
    BY <1>24 DEF SnapshotGpu, InSnapshot
  <2>2. i' \in 1..(NumNodes + 1)
    BY <1>24, SupportedNodes DEF SnapshotGpu, InSnapshot
  <2>3. PICK f \in Fds : /\ files[f] = Closed
                         /\ files' = [files EXCEPT ![f] = i]
                         /\ lost' = lost \cup {f}
    BY <1>24 DEF SnapshotGpu, IsLowestFree, Free
  <2>4. UNCHANGED <<kfd_fd, open_count, version, drm_fds, g_nodes, gpu_mem, fmm, pc, op, fd, ids>>
    BY <1>24 DEF SnapshotGpu
  <2>5. TypeOK'
    BY <2>1, <2>2, <2>3, <2>4, NodesAssumption
  <2>6. CachedFdsAreValid' /\ KfdFdIsKfd'
    BY <2>3, <2>4
  <2>7. CallsInv'
    BY <2>1, <2>4
  <2> QED
    BY <2>5, <2>6, <2>7
<1>25. CASE SnapshotLink
  <2>1. PICK n \in Nodes, r \in FdOrNone : RenderDevice(n, r)
    BY <1>25, FarGpusAreGpus DEF SnapshotLink
  <2>2. UNCHANGED <<kfd_fd, open_count, version, lost, g_nodes, gpu_mem, fmm, pc, locals, result>>
    BY <1>25 DEF SnapshotLink
  <2>3. /\ files' \in [Fds -> Nodes \cup {Kfd, Foreign, Closed}]
        /\ drm_fds' \in [Nodes -> Fds]
        /\ \A m \in Nodes : drm_fds'[m] # 0 => files'[drm_fds'[m]] = m
        /\ \A f \in Fds : files[f] # Closed => files'[f] = files[f]
        /\ \A f \in Fds : files'[f] = Kfd => files[f] = Kfd
        /\ \A m \in Nodes : drm_fds[m] # 0 => drm_fds'[m] = drm_fds[m]
    BY <2>1, RenderDeviceKeeps
  <2>4. TypeOK' /\ CallsInv'
    BY <2>2, <2>3
  <2>5. CachedFdsAreValid'
    BY <2>2, <2>3
  <2>6. KfdFdIsKfd'
    BY <2>2, <2>3
  <2> QED
    BY <2>4, <2>5, <2>6
<1> QED
  BY <1>1, <1>2, <1>3, <1>4, <1>5, <1>6, <1>7, <1>8, <1>9, <1>10, <1>11, <1>12, <1>13,
     <1>14, <1>15, <1>16, <1>17, <1>18, <1>19, <1>20, <1>21, <1>22, <1>23, <1>24, <1>25
     DEF Next

\* Every variable of the session keeps its type, the open count its bound.
THEOREM SessionTypes == Spec => []TypeOK
<1>1. IInv => TypeOK
  BY DEF IInv
<1> QED
  BY <1>1, InitIInv, NextIInv, PTL DEF Spec

\* A cached render descriptor always refers to its render device, wherever it was
\* opened: for a node, for the far node of a link in a snapshot, or by the memory
\* manager.  hsakmt_kfd_fd refers to the driver unless the version check failed, and
\* then never again.
THEOREM DescriptorsStayValid == Spec => []DescriptorsAreValid
<1>1. IInv => DescriptorsAreValid
  BY DEF IInv, DescriptorsAreValid
<1> QED
  BY <1>1, InitIInv, NextIInv, PTL DEF Spec

-----------------------------------------------------------------------------
(* Devices are opened once *)

\* Every descriptor of a render device is the cached one, 0, or one that a snapshot
\* lost, and never both cached and lost: a lost descriptor is never closed, so its
\* number is never given again.
OnceInv ==
    /\ \A f \in Fds : files[f] \in Nodes => f \in lost \/ f = 0 \/ drm_fds[files[f]] = f
    /\ \A f \in lost : files[f] \in Gpus
    /\ \A n \in Nodes : drm_fds[n] # 0 => drm_fds[n] \notin lost

LEMMA RenderDeviceOnce ==
    ASSUME IInv, OnceInv, UNCHANGED lost,
           NEW n \in Nodes, NEW r \in FdOrNone, RenderDevice(n, r)
    PROVE  OnceInv'
<1> USE DEF IInv, TypeOK, OnceInv, Fds, FdOrNone, NoFd, Kfd, Foreign, Closed, Nodes
<1>1. CASE CachedDevice(n, r)
  BY <1>1 DEF CachedDevice
<1>2. CASE NewDevice(n, r)
  <2>1. /\ drm_fds[n] = 0 /\ r \in Fds /\ files[r] = Closed
        /\ files' = [files EXCEPT ![r] = n]
        /\ drm_fds' = [drm_fds EXCEPT ![n] = r]
    BY <1>2 DEF NewDevice, IsLowestFree, Free
  <2>2. ASSUME NEW f \in Fds \ lost, f # 0 PROVE files[f] # n
    <3>1. CASE files[f] \in Nodes
      <4>1. drm_fds[files[f]] = f
        BY <2>2, <3>1
      <4> QED
        BY <2>1, <2>2, <4>1
    <3>2. CASE files[f] \notin Nodes
      BY <3>2
    <3> QED
      BY <3>1, <3>2
  <2>3. ASSUME NEW f \in Fds \ lost, f # 0, files'[f] \in Nodes
        PROVE  drm_fds'[files'[f]] = f
    <3>1. CASE f = r
      BY <2>1, <3>1
    <3>2. CASE f # r
      BY <2>1, <2>2, <2>3, <3>2
    <3> QED
      BY <3>1, <3>2
  <2>4. r \notin lost
    BY <2>1, NodesAssumption
  <2>5. \A f \in lost : files'[f] \in Gpus
    BY <2>1, <2>4
  <2>6. \A m \in Nodes : drm_fds'[m] # 0 => drm_fds'[m] \notin lost
    BY <2>1, <2>4
  <2> QED
    BY <2>3, <2>4, <2>5, <2>6
<1>3. CASE RefusedDevice(n, r)
  BY <1>3 DEF RefusedDevice
<1> QED
  BY <1>1, <1>2, <1>3 DEF RenderDevice

LEMMA NextOnceInv ==
    ASSUME IInv, OnceInv, [Next]_sessionVars
    PROVE  OnceInv'
<1> USE DEF IInv, TypeOK, OnceInv, CallsInv, Fds, FdOrNone, NoFd, Kfd, Foreign, Closed, Nodes
<1>1. CASE UNCHANGED <<files, drm_fds, lost>>
  BY <1>1
<1>2. CASE OpenKfd
  BY <1>2 DEF OpenKfd, IsLowestFree, Free
<1>3. CASE VersionFails
  <2>1. /\ files[fd] = Kfd /\ fd \in Fds
        /\ files' = [files EXCEPT ![fd] = Closed] /\ UNCHANGED <<drm_fds, lost>>
    BY <1>3 DEF VersionFails
  <2> QED
    BY <2>1
<1>4. CASE DeviceInitFails
  <2>1. PICK n \in Nodes, r \in Fds : NewDevice(n, r)
    BY <1>4, FarGpusAreGpus DEF DeviceInitFails
  <2>2. UNCHANGED lost
    BY <1>4 DEF DeviceInitFails
  <2> QED
    BY <2>1, <2>2, RenderDeviceOnce DEF RenderDevice
<1>5. CASE GpuNode
  BY <1>5, RenderDeviceOnce DEF GpuNode
<1>6. CASE FmmGpuNode
  <2>1. i \in Nodes /\ UNCHANGED lost /\ \E r \in FdOrNone : RenderDevice(i, r)
    BY <1>6 DEF FmmGpuNode
  <2> QED
    BY <2>1, RenderDeviceOnce
<1>7. CASE ForeignOpen
  BY <1>7 DEF ForeignOpen, IsLowestFree, Free, library
<1>8. CASE ForeignClose
  BY <1>8 DEF ForeignClose, library
<1>9. CASE SnapshotGpu
  <2>1. PICK f \in Fds : /\ files[f] = Closed
                         /\ files' = [files EXCEPT ![f] = i]
                         /\ lost' = lost \cup {f}
    BY <1>9 DEF SnapshotGpu, IsLowestFree, Free
  <2>2. i \in Gpus /\ UNCHANGED drm_fds
    BY <1>9 DEF SnapshotGpu
  <2>4. \A g \in Fds : files'[g] \in Nodes => g \in lost' \/ g = 0 \/ drm_fds'[files'[g]] = g
    BY <2>1, <2>2
  <2>5. \A g \in lost' : files'[g] \in Gpus
    <3>1. i \in Gpus /\ f \in Fds /\ lost \subseteq Fds
      BY <2>1, <2>2
    <3>2. \A g \in lost : g # f
      BY <2>1, NodesAssumption
    <3> QED
      BY <2>1, <3>1, <3>2
  <2>6. \A n \in Nodes : drm_fds'[n] # 0 => drm_fds'[n] \notin lost'
    BY <2>1, <2>2 DEF CachedFdsAreValid
  <2> QED
    BY <2>4, <2>5, <2>6
<1>10. CASE SnapshotLink
  <2>1. PICK n \in Nodes, r \in FdOrNone : RenderDevice(n, r)
    BY <1>10, FarGpusAreGpus DEF SnapshotLink
  <2>2. UNCHANGED lost
    BY <1>10 DEF SnapshotLink
  <2> QED
    BY <2>1, <2>2, RenderDeviceOnce
<1>11. CASE ~(OpenKfd \/ VersionFails \/ DeviceInitFails \/ GpuNode \/ FmmGpuNode
             \/ SnapshotGpu \/ SnapshotLink \/ ForeignOpen \/ ForeignClose)
  <2>1. UNCHANGED <<files, drm_fds, lost>>
    BY <1>11 DEF Next, sessionVars, library, OpenAgain, OpenRefused, VersionKnown, Close,
                 CpuNode, OpenReturns, AcquireUnopened, AcquireCached, AcquireBegin,
                 SnapshotBegin, SnapshotNode, SnapshotFails, SnapshotTaken, FmmCpuNode, FmmRest
  <2> QED
    BY <1>1, <2>1
<1> QED
  BY <1>2, <1>3, <1>4, <1>5, <1>6, <1>7, <1>8, <1>9, <1>10, <1>11

\* Of two descriptors of one render device, one is 0, or one was opened by a
\* snapshot past the cache and forgotten; those stay open, and none is used.
\* Whichever descriptors the process has open or closes, 0 among them.
THEOREM RenderDevicesOpenedOnce == Spec => []RenderOpenedOnce
<1>1. Init => OnceInv
  BY DEF Init, OnceInv, Fds, Nodes, Foreign, Closed
<1>2. IInv /\ OnceInv /\ [Next]_sessionVars => OnceInv'
  BY NextOnceInv
<1>3. IInv /\ OnceInv => RenderOpenedOnce
  <2> SUFFICES ASSUME IInv, OnceInv PROVE RenderOpenedOnce
    OBVIOUS
  <2>1. \A f, g \in Fds \ lost : files[f] = files[g] /\ files[f] \in Nodes => f = g \/ 0 \in {f, g}
    BY DEF OnceInv
  <2> QED
    BY <2>1 DEF OnceInv, RenderOpenedOnce
<1> QED
  BY <1>1, <1>2, <1>3, InitIInv, NextIInv, PTL DEF Spec

-----------------------------------------------------------------------------
(* A ready memory manager, on a machine with a CPU *)

\* A snapshot is taken, and the memory manager started, once; the GPUs before i
\* have their descriptors.
ReadyInv ==
    /\ pc \in {"props", "snapshot"} /\ op = "acquire" => g_nodes = 0
    /\ pc = "props" => \A n \in Nodes \ Gpus : n < i => n \in ids
    /\ pc = "snapshot" => op = "acquire" /\ Nodes \ Gpus \subseteq ids
    /\ g_nodes = 0 => fmm = "none"
    /\ pc = "nodes" =>
          /\ fmm = "none" /\ g_nodes # 0
          /\ \A n \in Gpus : n < i => gpu_mem[n] # NoFd
    /\ ReadyHasEveryGpu

LEMMA NextReadyInv ==
    ASSUME IInv, ReadyInv, Gpus # Nodes, [Next]_sessionVars
    PROVE  ReadyInv'
<1> USE DEF IInv, TypeOK, ReadyInv, ReadyHasEveryGpu, Returns, library, locals, FdOrNone, NoFd,
            Fds, Nodes
<1>1. CASE UNCHANGED sessionVars
  BY <1>1 DEF sessionVars
<1>2. CASE OpenAgain \/ OpenRefused \/ OpenKfd \/ VersionKnown \/ VersionFails \/ Close
  BY <1>2 DEF OpenAgain, OpenRefused, OpenKfd, VersionKnown, VersionFails, Close, CallsInv
<1>3. CASE DeviceInitFails \/ SnapshotLink
  <2>1. /\ UNCHANGED <<g_nodes, gpu_mem, fmm, op, i, ids>>
        /\ pc' = pc \/ pc' = "stopped"
    BY <1>3 DEF DeviceInitFails, SnapshotLink
  <2> QED
    BY <2>1
<1>4. CASE CpuNode
  BY <1>4 DEF CpuNode
<1>5. CASE GpuNode
  BY <1>5 DEF GpuNode
<1>6. CASE OpenReturns
  BY <1>6 DEF OpenReturns
<1>7. CASE AcquireUnopened \/ AcquireCached \/ AcquireBegin \/ SnapshotFails
  BY <1>7 DEF AcquireUnopened, AcquireCached, AcquireBegin, SnapshotFails
<1>8. CASE SnapshotTaken
  <2>1. /\ pc = "snapshot" /\ op = "acquire"
        /\ g_nodes' = Cardinality(ids) /\ pc' = "nodes" /\ i' = 1
        /\ UNCHANGED <<gpu_mem, fmm, op, ids>>
    BY <1>8 DEF SnapshotTaken
  <2>2. PICK c \in Nodes \ Gpus : TRUE
    BY NodesAssumption
  <2>3. c \in ids
    BY <2>1, <2>2
  <2>4. IsFiniteSet(ids)
    <3>1. IsFiniteSet(Nodes)
      BY FS_Interval
    <3> QED
      BY <3>1, FS_Subset
  <2>5. Cardinality(ids) # 0
    BY <2>3, <2>4, FS_EmptySet
  <2> QED
    BY <2>1, <2>5
<1>9. CASE FmmCpuNode
  BY <1>9 DEF FmmCpuNode
<1>10. CASE FmmGpuNode
  <2>1. PICK r \in FdOrNone :
            IF r <= 0
            THEN FmmFails /\ UNCHANGED <<gpu_mem, i>>
            ELSE /\ gpu_mem' = [gpu_mem EXCEPT ![i] = r]
                 /\ i' = i + 1
                 /\ UNCHANGED <<fmm, pc, result>>
    BY <1>10 DEF FmmGpuNode
  <2>2. pc = "nodes" /\ i \in Nodes /\ UNCHANGED <<g_nodes, op, ids>>
    BY <1>10 DEF FmmGpuNode
  <2>3. CASE r <= 0
    BY <2>1, <2>2, <2>3 DEF FmmFails
  <2>4. CASE ~(r <= 0)
    BY <2>1, <2>2, <2>4
  <2> QED
    BY <2>3, <2>4
<1>11. CASE FmmRest
  BY <1>11 DEF FmmRest, FmmFails
<1>12. CASE ForeignOpen \/ ForeignClose
  <2>1. UNCHANGED <<library, pc, locals, result>>
    BY <1>12 DEF ForeignOpen, ForeignClose
  <2> HIDE DEF IInv, TypeOK, Fds, Nodes
  <2> QED
    BY <2>1
<1>13. CASE SnapshotBegin
  BY <1>13 DEF SnapshotBegin
<1>14. CASE SnapshotNode \/ SnapshotGpu
  BY <1>14 DEF SnapshotNode, SnapshotGpu, InSnapshot
<1> QED
  BY <1>1, <1>2, <1>3, <1>4, <1>5, <1>6, <1>7, <1>8, <1>9, <1>10, <1>11, <1>12, <1>13, <1>14
     DEF Next

\* On a machine with a CPU, a memory manager that reports success has a
\* descriptor for every GPU of its snapshot.
THEOREM ReadyKnowsEveryGpu ==
    ASSUME Gpus # Nodes
    PROVE  Spec => []ReadyHasEveryGpu
<1>1. Init => ReadyInv
  BY DEF Init, ReadyInv, ReadyHasEveryGpu
<1>2. IInv /\ ReadyInv /\ [Next]_sessionVars => ReadyInv'
  BY NextReadyInv
<1>3. ReadyInv => ReadyHasEveryGpu
  BY DEF ReadyInv
<1> QED
  BY <1>1, <1>2, <1>3, InitIInv, NextIInv, PTL DEF Spec

=============================================================================
