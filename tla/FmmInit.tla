------------------------------- MODULE FmmInit ------------------------------
(***************************************************************************)
(* hsakmt_fmm_init_process_apertures (fmm.rs): the memory manager finds    *)
(* the GPUs of the snapshot in the kernel's list of apertures, acquires    *)
(* their VMs, sets up the address range that all of them share (SVM), sets *)
(* their memory policies, and maps a page of each GPU's registers (MMIO).  *)
(*                                                                         *)
(* The kernel is the environment: which GPUs it lists, in which order and  *)
(* with which ranges, which ioctls it refuses (they return -1, and the     *)
(* code tests for > 0) and where it maps a page.  The unit of addresses is *)
(* the page.  The search for the range of buffer handles is in             *)
(* MemHandleAperture, the mmap calls in MmapAperture, the descriptors in   *)
(* KfdSession; a render device is named by the id of its GPU.              *)
(***************************************************************************)
EXTENDS Integers, Sequences

CONSTANTS
    Machines,           \* what the snapshot and the kernel say; see Machine
    HugePage,           \* GPU_HUGE_PAGE_SIZE
    Canonical,          \* 1 << 47
    ReservationLimit,   \* SVM_RESERVATION_LIMIT
    MinVmSize           \* SVM_MIN_VM_SIZE

\* nodes is the snapshot, where a CPU has the GPU id 0 and links is the number of
\* io links; sysfs is num_sysfs_nodes; kernel is the list of apertures, with
\* every GPU once and no range that ends in the first huge page.
Machine(m) ==
    /\ m.nodes \in Seq([gpu : Nat, discrete : BOOLEAN, vega10 : BOOLEAN, links : Nat])
    /\ \A j, k \in DOMAIN m.nodes :
          m.nodes[j].gpu = m.nodes[k].gpu /\ m.nodes[j].gpu > 0 => j = k
    /\ m.sysfs \in Nat \ {0} /\ Len(m.nodes) <= m.sysfs
    /\ m.kernel \in Seq([gpu : Nat \ {0}, lds : Nat, base : Nat, limit : Nat])
    /\ Len(m.kernel) <= m.sysfs
    /\ \A j, k \in DOMAIN m.kernel :
          /\ m.kernel[j].gpu = m.kernel[k].gpu => j = k
          /\ HugePage <= m.kernel[k].limit

ASSUME MachinesAssumption == \A m \in Machines : Machine(m)
ASSUME SizesAssumption ==
    /\ HugePage \in Nat \ {0} /\ Canonical \in Nat \ {0}
    /\ ReservationLimit \in Nat /\ MinVmSize \in Nat \ {0}

VARIABLES
    machine, reserve_svm,   \* what the environment gave
    gpu_mem, is_dgpu,       \* fmm.gpu_mem, hsakmt_is_dgpu
    svm_base, svm_limit,    \* the range common to the GPUs seen so far
    aperture,               \* svm.apertures[SVM_DEFAULT]: base and limit
    dgpu_aperture,          \* is svm.dgpu_alt_aperture set?  It is that aperture
    pc, i, mem,             \* the loop that runs, its counter, the page mapped
    status,                 \* what the call returned
    vms, policies,          \* the ioctls that acquire VMs and set policies so far
    pages, bos, mmio        \* pages reserved, buffers, pages of registers

local   == <<pc, i, mem>>
svm     == <<svm_base, svm_limit, aperture, dgpu_aperture>>
kfd     == <<vms, policies, pages, bos, mmio>>
fmmVars == <<machine, reserve_svm, gpu_mem, is_dgpu, svm, local, status, kfd>>
given   == <<machine, reserve_svm>>

NumNodes == Len(machine.nodes)
Node(n)  == machine.nodes[n + 1]
NoMem    == 0

\* The list that the code goes through: the kernel's entries, then zeros, and
\* without the last one, which is popped.
Zeros     == [gpu |-> 0, lds |-> 0, base |-> 0, limit |-> 0]
Listed    == Len(machine.kernel)
Kept      == machine.sysfs - 1
Entry(k)  == IF k < Listed THEN machine.kernel[k + 1] ELSE Zeros

IS_CANONICAL_ADDR(a) == a < Canonical

\* gpu_mem_find_by_gpu_id: the places of a GPU in gpu_mem, at most one.
Places(id) == {k \in DOMAIN gpu_mem : gpu_mem[k].gpu_id = id}

Return(s) == pc' = "done" /\ status' = s

Init ==
    /\ machine \in Machines /\ reserve_svm \in BOOLEAN
    /\ gpu_mem = <<>> /\ is_dgpu = FALSE
    /\ svm_base = 0 /\ svm_limit = 0
    /\ aperture = [base |-> 0, limit |-> 0] /\ dgpu_aperture = FALSE
    /\ pc = "sysfs" /\ i = 0 /\ mem = NoMem /\ status = "none"
    /\ vms = {} /\ policies = {} /\ pages = {} /\ bos = {} /\ mmio = {}

-----------------------------------------------------------------------------
(* The nodes of the snapshot *)

Discrete(n) == is_dgpu' = (is_dgpu \/ Node(n).discrete)

CpuNode ==
    /\ pc = "sysfs" /\ i < NumNodes /\ Node(i).gpu = 0
    /\ Discrete(i)
    /\ i' = i + 1
    /\ UNCHANGED <<given, gpu_mem, svm, pc, mem, status, kfd>>

GpuNode ==
    /\ pc = "sysfs" /\ i < NumNodes /\ Node(i).gpu > 0
    /\ Discrete(i)
    /\ gpu_mem' = Append(gpu_mem,
            [gpu_id |-> Node(i).gpu, node_id |-> i, fd |-> Node(i).gpu,
             vega10 |-> Node(i).vega10, lds |-> 0])
    /\ i' = i + 1
    /\ UNCHANGED <<given, svm, pc, mem, status, kfd>>

GpuNodeRefused ==
    /\ pc = "sysfs" /\ i < NumNodes /\ Node(i).gpu > 0
    /\ Discrete(i)
    /\ Return("ERROR")
    /\ UNCHANGED <<given, gpu_mem, svm, i, mem, kfd>>

\* get_process_apertures; the test that there are no more GPUs than nodes in
\* sysfs never fails.
GetApertures ==
    /\ pc = "sysfs" /\ i = NumNodes
    /\ pc' \in {"entries", "stopped"} /\ i' = 0
    /\ UNCHANGED <<given, gpu_mem, is_dgpu, svm, mem, status, kfd>>

-----------------------------------------------------------------------------
(* The kernel's list of apertures *)

\* Faulty: `continue' comes before the counter moves.
EntryUnknownStays ==
    /\ pc = "entries" /\ i < Listed /\ i < Kept
    /\ Places(Entry(i).gpu) = {}
    /\ UNCHANGED fmmVars

EntryUnknown ==
    /\ pc = "entries" /\ i < Listed /\ i < Kept
    /\ Places(Entry(i).gpu) = {}
    /\ i' = i + 1
    /\ UNCHANGED <<given, gpu_mem, is_dgpu, svm, pc, mem, status, kfd>>

\* The links of a node lead to its own number, which is looked up as a GPU id;
\* should one match, the id is written past the end of usable_peer_id_array.
FindsPeer(k) ==
    /\ Node(gpu_mem[k].node_id).links > 0
    /\ Places(gpu_mem[k].node_id) # {}

\* The popped entry is read; a peer is found; or the aperture is not canonical,
\* and gpuvm_aperture has no operation to allocate from it.
EntryPanics ==
    /\ pc = "entries" /\ i < Listed
    /\ \/ i >= Kept
       \/ \E k \in Places(Entry(i).gpu) : FindsPeer(k) \/ ~IS_CANONICAL_ADDR(Entry(i).limit)
    /\ pc' = "stopped"
    /\ UNCHANGED <<given, gpu_mem, is_dgpu, svm, i, mem, status, kfd>>

\* Faulty: the last limit, not the smallest.
CommonLast(e) ==
    /\ svm_base' = IF e.base > svm_base THEN e.base ELSE svm_base
    /\ svm_limit' = e.limit

Common(e) ==
    /\ svm_base' = IF e.base > svm_base THEN e.base ELSE svm_base
    /\ svm_limit' = IF e.limit < svm_limit \/ svm_limit = 0 THEN e.limit ELSE svm_limit

\* Faulty: the entry's place in the list is taken for the GPU's in gpu_mem.
PlaceInList(e) == i + 1

Place(e) == CHOOSE k \in Places(e.gpu) : TRUE

\* The kernel may refuse to acquire the VM: nobody notices.
EntryTaken ==
    /\ pc = "entries" /\ i < Listed /\ i < Kept
    /\ IS_CANONICAL_ADDR(Entry(i).limit)
    /\ Places(Entry(i).gpu) # {}
    /\ LET k == Place(Entry(i))
       IN  /\ ~FindsPeer(k)
           /\ gpu_mem' = [gpu_mem EXCEPT ![k].lds = Entry(i).lds]
           /\ \E granted \in BOOLEAN :
                 vms' = vms \cup {[gpu |-> gpu_mem[k].gpu_id, fd |-> gpu_mem[k].fd,
                                  granted |-> granted]}
    /\ Common(Entry(i))
    /\ i' = i + 1
    /\ UNCHANGED <<given, is_dgpu, aperture, dgpu_aperture, pc, mem, status,
                   policies, pages, bos, mmio>>

EntriesDone ==
    /\ pc = "entries" /\ i = Listed
    /\ pc' = IF svm_limit > 0 THEN "svm" ELSE "handles"
    /\ i' = 0
    /\ UNCHANGED <<given, gpu_mem, is_dgpu, svm, mem, status, kfd>>

-----------------------------------------------------------------------------
(* init_svm_apertures *)

AlignDown(a) == a - (a % HugePage)
AlignedBase  == AlignDown(svm_base + HugePage - 1)
AlignedLimit == AlignDown(svm_limit + 1) - 1
Unreserved   == AlignedLimit >= Canonical - 1 /\ ~reserve_svm

\* init_mmap_apertures: one page is allocated and released again.  Wherever the
\* kernel puts it, it is refused out of the range.
MmapApertures ==
    /\ pc = "svm" /\ Unreserved
    /\ aperture' = [base |-> AlignedBase, limit |-> AlignedLimit]
    /\ \/ AlignedBase <= AlignedLimit /\ dgpu_aperture' = TRUE /\ pc' = "policy"
       \/ UNCHANGED dgpu_aperture /\ pc' = "reserve"
    /\ UNCHANGED <<given, gpu_mem, is_dgpu, svm_base, svm_limit, i, mem, status, kfd>>

NoMmapApertures ==
    /\ pc = "svm" /\ ~Unreserved
    /\ pc' = "reserve"
    /\ UNCHANGED <<given, gpu_mem, is_dgpu, svm, i, mem, status, kfd>>

ClampedLimit == IF AlignedLimit > ReservationLimit THEN ReservationLimit ELSE AlignedLimit
Length       == ClampedLimit - AlignedBase + 1

\* No range, or one that is too short.
ReserveGivesUp ==
    /\ pc = "reserve"
    /\ AlignedBase >= ClampedLimit \/ Length < MinVmSize
    /\ Return("ERROR")
    /\ UNCHANGED <<given, gpu_mem, is_dgpu, svm, i, mem, kfd>>

\* The outer loop, whose test never changes: addr is set to base ...
ReserveTry ==
    /\ pc = "reserve" /\ AlignedBase < ClampedLimit /\ Length >= MinVmSize
    /\ pc' = "reserving"
    /\ UNCHANGED <<given, gpu_mem, is_dgpu, svm, i, mem, status, kfd>>

\* ... and the inner loop is left at once, where it should be entered; nothing is
\* reserved, and `continue' leaves the length as it is.
ReserveLeaves ==
    /\ pc = "reserving"
    /\ AlignedBase + (Length + 1) \div 2 - 1 <= ClampedLimit
    /\ pc' = "reserve"
    /\ UNCHANGED <<given, gpu_mem, is_dgpu, svm, i, mem, status, kfd>>

-----------------------------------------------------------------------------
(* Memory policies *)

\* Faulty: the GPU's place in gpu_mem bounds the loop, not the list.
PolicyForLess ==
    /\ pc = "policy" /\ i < Kept
    /\ IF i + 1 < Kept /\ IS_CANONICAL_ADDR(Entry(i).limit)
       THEN policies' = policies \cup {[gpu |-> Entry(i).gpu, base |-> -1, granted |-> TRUE]}
       ELSE UNCHANGED policies
    /\ i' = i + 1 /\ UNCHANGED pc

\* The ioctl is told the address of the aperture's record in the library, not
\* the base that the record holds.  Should the kernel refuse, nobody notices.
AddressOfRecord == -1
PolicyFor ==
    /\ pc = "policy" /\ i < Kept
    /\ IF IS_CANONICAL_ADDR(Entry(i).limit)
       THEN \E granted \in BOOLEAN :
                policies' = policies \cup {[gpu |-> Entry(i).gpu, base |-> AddressOfRecord,
                                            granted |-> granted]}
       ELSE UNCHANGED policies
    /\ i' = i + 1 /\ UNCHANGED pc

SetPolicy ==
    /\ PolicyFor
    /\ UNCHANGED <<given, gpu_mem, is_dgpu, svm, mem, status, vms, pages, bos, mmio>>

PoliciesDone ==
    /\ pc = "policy" /\ i = Kept
    /\ pc' = "handles" /\ i' = 0
    /\ UNCHANGED <<given, gpu_mem, is_dgpu, svm, mem, status, kfd>>

\* fmm_init_rbtree, and init_mem_handle_aperture, whose failure is only printed.
InitHandles ==
    /\ pc = "handles"
    /\ pc' = "mmio"
    /\ UNCHANGED <<given, gpu_mem, is_dgpu, svm, i, mem, status, kfd>>

-----------------------------------------------------------------------------
(* map_mmio, for every GPU that needs SVM; its result is dropped *)

This == gpu_mem[i + 1]
SvmNeeded == is_dgpu \/ This.vega10

MmioUnneeded ==
    /\ pc = "mmio" /\ i < Len(gpu_mem) /\ ~SvmNeeded
    /\ i' = i + 1
    /\ UNCHANGED <<given, gpu_mem, is_dgpu, svm, pc, mem, status, kfd>>

\* There is no SVM aperture: a NULL pointer is followed.
MmioNull ==
    /\ pc = "mmio" /\ i < Len(gpu_mem) /\ SvmNeeded /\ ~dgpu_aperture
    /\ pc' = "stopped"
    /\ UNCHANGED <<given, gpu_mem, is_dgpu, svm, i, mem, status, kfd>>

\* aperture_is_valid
Valid == 0 < aperture.base /\ aperture.base < aperture.limit

\* No valid aperture; or no page, or one out of range.
MmioNoPage ==
    /\ pc = "mmio" /\ i < Len(gpu_mem) /\ SvmNeeded /\ dgpu_aperture
    /\ i' = i + 1
    /\ UNCHANGED <<given, gpu_mem, is_dgpu, svm, pc, mem, status, kfd>>

\* Faulty: the guard page after the range is taken for a part of it.
PageBeyond(p) == p \in (aperture.base .. aperture.limit + 1) \ pages

\* A page that mmap found free, in the range.
FreePage(p) == p \in (aperture.base .. aperture.limit) \ pages

MmioPage ==
    /\ pc = "mmio" /\ i < Len(gpu_mem) /\ SvmNeeded /\ dgpu_aperture /\ Valid
    /\ \E p \in 1 .. Canonical :
          FreePage(p) /\ mem' = p /\ pages' = pages \cup {p}
    /\ pc' = "bo"
    /\ UNCHANGED <<given, gpu_mem, is_dgpu, svm, i, status, vms, policies, bos, mmio>>

\* fmm_allocate_memory_object: a refusal is not noticed, and an object without a
\* buffer is made.  Its memory is gone when the function returns.
AllocateBo ==
    /\ pc = "bo"
    /\ bos' \in {bos, bos \cup {[gpu |-> This.gpu_id, page |-> mem]}}
    /\ pc' = "map"
    /\ UNCHANGED <<given, gpu_mem, is_dgpu, svm, i, mem, status, vms, policies, pages, mmio>>

\* mmap of the driver's descriptor, at the offset of the buffer; afterwards
\* hsakmt_fmm_map_to_gpu looks the page up, maps nothing and succeeds.
MapPage ==
    /\ pc = "map" /\ [gpu |-> This.gpu_id, page |-> mem] \in bos
    /\ mmio' = mmio \cup {[gpu |-> This.gpu_id, page |-> mem]}
    /\ mem' = NoMem /\ i' = i + 1 /\ pc' = "mmio"
    /\ UNCHANGED <<given, gpu_mem, is_dgpu, svm, status, vms, policies, pages, bos>>

\* mmap fails: __fmm_release reads the handle from memory that is gone, and may
\* or may not free the buffer and the page; then a panic.
MapPageFails ==
    /\ pc = "map"
    /\ bos' \in {bos, {b \in bos : b.page # mem}}
    /\ pages' \in {pages, pages \ {mem}}
    /\ pc' = "stopped"
    /\ UNCHANGED <<given, gpu_mem, is_dgpu, svm, i, mem, status, vms, policies, mmio>>

\* Undefined behaviour: the tree that holds the dead object is read.
DeadObject ==
    /\ pc = "map"
    /\ pc' = "stopped"
    /\ UNCHANGED <<given, gpu_mem, is_dgpu, svm, i, mem, status, kfd>>

InitDone ==
    /\ pc = "mmio" /\ i = Len(gpu_mem)
    /\ Return("SUCCESS")
    /\ UNCHANGED <<given, gpu_mem, is_dgpu, svm, i, mem, kfd>>

Next ==
    \/ CpuNode \/ GpuNode \/ GpuNodeRefused \/ GetApertures
    \/ EntryUnknown \/ EntryPanics \/ EntryTaken \/ EntriesDone
    \/ MmapApertures \/ NoMmapApertures \/ ReserveGivesUp \/ ReserveTry \/ ReserveLeaves
    \/ SetPolicy \/ PoliciesDone \/ InitHandles
    \/ MmioUnneeded \/ MmioNull \/ MmioNoPage \/ MmioPage \/ AllocateBo
    \/ MapPage \/ MapPageFails \/ DeadObject \/ InitDone

Spec == Init /\ [][Next]_fmmVars

\* The call runs on its caller's thread.
FairSpec == Spec /\ WF_fmmVars(Next)

-----------------------------------------------------------------------------
(* Properties *)

Running == pc \notin {"done", "stopped"}

TypeOK ==
    /\ machine \in Machines /\ reserve_svm \in BOOLEAN /\ is_dgpu \in BOOLEAN
    /\ Len(gpu_mem) <= NumNodes
    /\ \A k \in DOMAIN gpu_mem :
          /\ gpu_mem[k].node_id \in 0 .. NumNodes - 1
          /\ gpu_mem[k].gpu_id = Node(gpu_mem[k].node_id).gpu
    /\ svm_base \in Nat /\ svm_limit \in 0 .. Canonical - 1
    /\ pc \in {"sysfs", "entries", "svm", "reserve", "reserving", "policy", "handles",
              "mmio", "bo", "map", "done", "stopped"}
    /\ i \in 0 .. machine.sysfs
    /\ status \in {"none", "SUCCESS", "ERROR"} /\ (status # "none" <=> pc = "done")
    /\ pages \subseteq 1 .. Canonical - 1
    /\ pc \in {"bo", "map"} => i < Len(gpu_mem) /\ mem \in pages

\* The entries of the GPUs in gpu_mem.
Known == {k \in 0 .. Listed - 1 : Places(Entry(k).gpu) # {}}

\* The kernel lists GPUs in its own order and with GPUs in between that the
\* snapshot does not have: every GPU still gets its own apertures, and its VM is
\* acquired through its own render device.
EntriesMatch ==
    pc \notin {"sysfs", "entries", "stopped"} /\ status # "ERROR" =>
        \A k \in Known :
            /\ \A p \in Places(Entry(k).gpu) : gpu_mem[p].lds = Entry(k).lds
            /\ \E v \in vms : v.gpu = Entry(k).gpu /\ v.fd = v.gpu

\* An aperture in use is what the GPUs have in common, in whichever order they
\* came: a page is in it if and only if each of them reaches its whole huge page.
SvmIsCommon ==
    dgpu_aperture =>
        \A p \in 0 .. Canonical - 1 :
            p \in aperture.base .. aperture.limit <=>
                \A k \in Known :
                    /\ Entry(k).base <= AlignDown(p)
                    /\ AlignDown(p) + HugePage - 1 <= Entry(k).limit

\* When the registers of a GPU that the kernel listed are mapped, its VM was
\* acquired and its memory policy set, or the kernel refused, and it reaches the
\* page, although the three come from different loops over different lists.
MmioIsPrepared ==
    \A m \in mmio, k \in Known : Entry(k).gpu = m.gpu =>
        /\ m.page \in Entry(k).base .. Entry(k).limit
        /\ \E v \in vms : v.gpu = m.gpu
        /\ \E p \in policies : p.gpu = m.gpu

\* A call that returns has mapped every page it reserved and every buffer it
\* got, though refusals of the kernel are not noticed where they happen.
NothingLeaks ==
    pc = "done" => bos = mmio /\ pages = {m.page : m \in mmio}

\* The call ends, or it is the reservation that goes round: no other loop can.
EndsUnlessReserving ==
    <>~Running \/ ([]<>(pc = "reserve") /\ []<>(pc = "reserving"))

\* Violated.  "Set memory policy to match the SVM apertures" (fmm.rs:2130).
PolicyMatchesAperture == \A p \in policies : p.base = aperture.base

=============================================================================
