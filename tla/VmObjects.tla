------------------------------ MODULE VmObjects -----------------------------
(***************************************************************************)
(* The memory objects of an SVM aperture (fmm.rs): __fmm_allocate_device   *)
(* takes an area, gets a buffer of the driver for it and puts an object in *)
(* the aperture's tree; __fmm_release gives both back; vm_find_object      *)
(* looks an object up.  Their one caller is map_mmio, which maps a page of *)
(* registers for each GPU that needs it, as long as it does not panic.     *)
(*                                                                         *)
(* The areas are those of MmapAperture, which this module implements.  The *)
(* object is a local of aperture_allocate_object, and a pointer to it goes *)
(* into the tree and to the caller: `frame' is the memory of that local,   *)
(* which is the same for every call of the loop.  It holds the last object *)
(* that was built there until another call overwrites it.                  *)
(***************************************************************************)
EXTENDS MmapAperture

CONSTANT Gpus   \* how many GPUs need their registers mapped

ASSUME GpusAssumption == Gpus \in Nat /\ 1 \in Sizes

VARIABLES
    pc, gpu,        \* where the call for the gpu-th of them is
    mem, handle,    \* its page and what the driver said: 0 is no buffer
    frame, root,    \* the object's memory, the root of the tree
    bos,            \* the driver's buffers, each at a page of a GPU
    mmio            \* the pages with registers behind them

call       == <<pc, gpu, mem, handle>>
objectVars == <<mmapVars, call, frame, root, bos, mmio>>

PageSize == 1
Handles  == 1 .. Gpus

Overwritten == [start |-> 0, size |-> 0, handle |-> 0, parent |-> "garbage"]

\* vm_create_and_init_object, and the insertion: the first object is the root.
\* A later one is built where the root is, so that the walk from the root meets
\* the new object itself: it becomes its own parent, and its links are reset.
Built(start, h) ==
    [start |-> start, size |-> PageSize, handle |-> h,
     parent |-> IF root = "sentinel" THEN "null" ELSE "itself"]

Buffer(h) == [handle |-> h, gpu |-> gpu, page |-> mem]

ObjectsInit ==
    /\ Init
    /\ pc = "area" /\ gpu = 1 /\ mem = 0 /\ handle = 0
    /\ frame = Overwritten /\ root = "sentinel"
    /\ bos = {} /\ mmio = {}

-----------------------------------------------------------------------------
(* __fmm_allocate_device *)

\* aperture_is_valid
Valid == Base < Limit

\* Faulty: one GPU too many.
TakeAreaPast ==
    /\ pc = "area" /\ gpu <= Gpus + 1 /\ Valid
    /\ \E align \in Powers, addr \in Pages :
          /\ Allocate(PageSize, align, addr)
          /\ mem' = AlignedStart(addr, align)
    /\ pc' = "object"
    /\ UNCHANGED <<gpu, handle, frame, root, bos, mmio>>

TakeArea ==
    /\ pc = "area" /\ gpu <= Gpus /\ Valid
    /\ \E align \in Powers, addr \in Pages :
          /\ Allocate(PageSize, align, addr)
          /\ mem' = AlignedStart(addr, align)
    /\ pc' = "object"
    /\ UNCHANGED <<gpu, handle, frame, root, bos, mmio>>

\* The aperture is not valid, mmap fails or its page is out of the range, and is
\* unmapped again: map_mmio returns NULL, and the loop goes on.
NoArea ==
    /\ pc = "area" /\ gpu <= Gpus
    /\ gpu' = gpu + 1
    /\ UNCHANGED <<mmapVars, pc, mem, handle, frame, root, bos, mmio>>

\* Faulty: no object is built without a buffer, but the pointer is used.
AllocateObjectIfBuffer ==
    /\ pc = "object"
    /\ \/ /\ handle' \in Handles \ {b.handle : b \in bos}
          /\ bos' = bos \cup {Buffer(handle')}
          /\ frame' = Built(mem, handle') /\ root' = "frame"
       \/ handle' = 0 /\ UNCHANGED <<bos, frame, root>>
    /\ pc' = "map"
    /\ UNCHANGED <<mmapVars, gpu, mem, mmio>>

\* fmm_allocate_memory_object.  A refusal (-1) is taken for success, as the test
\* is for > 0: an object without a buffer is made.
AllocateObject ==
    /\ pc = "object"
    /\ \/ /\ handle' \in Handles \ {b.handle : b \in bos}
          /\ bos' = bos \cup {Buffer(handle')}
       \/ handle' = 0 /\ UNCHANGED bos
    /\ frame' = Built(mem, handle') /\ root' = "frame"
    /\ pc' = "map"
    /\ UNCHANGED <<mmapVars, gpu, mem, mmio>>

-----------------------------------------------------------------------------
(* map_mmio, after the allocation *)

\* The calls in between may use the memory of the dead frame.
MayOverwrite == frame' \in {frame, Overwritten}

\* mmap with MAP_FIXED over the area.  The driver knows the buffer by the offset.
MapPage ==
    /\ pc = "map" /\ Buffer(handle) \in bos
    /\ mapped' = mapped \cup Range(mem, PageSize)
    /\ mmio' = mmio \cup {Buffer(handle)}
    /\ MayOverwrite
    /\ pc' = "find"
    /\ UNCHANGED <<foreign, areas, gpu, mem, handle, root, bos>>

\* Faulty: NULL is returned at once, as in the lines above (fmm.rs:1773-1777).
MapPageFailsUnreleased ==
    /\ pc = "map"
    /\ MayOverwrite
    /\ gpu' = gpu + 1 /\ pc' = "area"
    /\ UNCHANGED <<mmapVars, mem, handle, root, bos, mmio>>

MapPageFails ==
    /\ pc = "map"
    /\ MayOverwrite
    /\ pc' = "release"
    /\ UNCHANGED <<mmapVars, gpu, mem, handle, root, bos, mmio>>

\* hsakmt_fmm_map_to_gpu: vm_find_object picks the aperture, prints its tree and
\* finds nothing, for the look-ups in it are commented out.  The result is dropped.
MapToGpu ==
    /\ pc = "find"
    /\ MayOverwrite
    /\ gpu' = gpu + 1 /\ pc' = "area"
    /\ UNCHANGED <<mmapVars, mem, handle, root, bos, mmio>>

\* The tree that is printed, or the object that is released, is not there any
\* more: undefined, and what follows is not modelled.
DeadObject ==
    /\ pc \in {"find", "release", "unmap"} /\ frame = Overwritten
    /\ pc' = "undefined"
    /\ UNCHANGED <<mmapVars, gpu, mem, handle, frame, root, bos, mmio>>

InitDone ==
    /\ pc = "area" /\ gpu = Gpus + 1
    /\ pc' = "done"
    /\ UNCHANGED <<mmapVars, gpu, mem, handle, frame, root, bos, mmio>>

-----------------------------------------------------------------------------
(* __fmm_release, and then a panic *)

\* Faulty: the pages go first.
UnmapBeforeFree ==
    /\ pc = "release" /\ frame # Overwritten
    /\ mapped' = mapped \ Range(frame.start, frame.size)
    /\ areas' = {a \in areas : a.start # frame.start}
    /\ pc' = "unmap"
    /\ UNCHANGED <<foreign, gpu, mem, handle, frame, root, bos, mmio>>

\* The object has no user pointer.  The driver may refuse, or not know the handle
\* 0: again -1 is not noticed.
FreeBuffer ==
    /\ pc = "release" /\ frame # Overwritten
    /\ bos' \in {bos, {b \in bos : b.handle # frame.handle}}
    /\ MayOverwrite
    /\ pc' = "unmap"
    /\ UNCHANGED <<mmapVars, gpu, mem, handle, root, mmio>>

\* Faulty: the range that was padded is unmapped.
ReleasePadded ==
    /\ pc = "unmap" /\ frame # Overwritten
    /\ mapped' = mapped \ Range(frame.start - Guard, frame.size + 2 * Guard)
    /\ areas' = {a \in areas : a.start # frame.start}
    /\ pc' = "panicked"
    /\ UNCHANGED <<foreign, gpu, mem, handle, frame, root, bos, mmio>>

\* aperture_release_area, and vm_remove_object, which leaves the object in the
\* tree: hsakmt_rbtree_delete does nothing.
ReleaseArea ==
    /\ pc = "unmap" /\ frame # Overwritten
    /\ mapped' = mapped \ Range(frame.start, frame.size)
    /\ areas' = {a \in areas : a.start # frame.start}
    /\ pc' = "panicked"
    /\ UNCHANGED <<foreign, gpu, mem, handle, frame, root, bos, mmio>>

\* Other code of the process.
Others ==
    /\ \/ \E p \in Pages : ForeignMap(p)
       \/ \E p \in foreign : ForeignUnmap(p)
    /\ UNCHANGED <<call, frame, root, bos, mmio>>

ObjectsNext ==
    \/ TakeArea \/ NoArea \/ AllocateObject
    \/ MapPage \/ MapPageFails \/ MapToGpu \/ DeadObject \/ InitDone
    \/ FreeBuffer \/ ReleaseArea
    \/ Others

ObjectsSpec == ObjectsInit /\ [][ObjectsNext]_objectVars

-----------------------------------------------------------------------------
(* Properties *)

Objects == [start : Pages, size : {PageSize}, handle : Handles \cup {0},
            parent : {"null", "itself"}]
Buffers == [handle : Handles, gpu : 1 .. Gpus, page : Pages]

ObjectsTypeOK ==
    /\ pc \in {"area", "object", "map", "find", "release", "unmap",
              "done", "panicked", "undefined"}
    /\ gpu \in 1 .. Gpus + 1 /\ (pc \in {"object", "map", "find"} => gpu <= Gpus)
    /\ mem \in Pages \cup {0} /\ handle \in Handles \cup {0}
    /\ frame \in Objects \cup {Overwritten} /\ root \in {"sentinel", "frame"}
    /\ bos \subseteq Buffers /\ mmio \subseteq Buffers

\* The areas of the objects are areas of the aperture: the mapping over an area
\* maps nothing else, and a release takes from memory that is dead the range of
\* an area that is there.
ImplementsAperture == Spec

HasArea(page) == \E a \in areas : a.start = page /\ a.size = PageSize

\* "munmap would cause an eviction ... So free the BO before unmapping the pages"
\* (fmm.rs:1483-1487): a buffer whose page is gone is one that the driver refused
\* to free, in the call that panics.
BuffersHaveAreas ==
    \A b \in bos : HasArea(b.page) \/ (pc = "panicked" /\ b.handle = handle)

\* Between two calls, and at the end, every page that was taken and every buffer
\* that was got has the registers of its own GPU behind it, though refusals are
\* not noticed where they happen; and whatever fails later leaves it there.
MmioIsBacked ==
    /\ mmio \subseteq bos /\ \A m \in mmio : HasArea(m.page)
    /\ BuffersHaveAreas
    /\ \A m, n \in mmio :
          m.gpu = n.gpu \/ m.page = n.page \/ m.handle = n.handle => m = n
    /\ pc \in {"area", "done"} =>
          bos = mmio /\ {a.start : a \in areas} = {m.page : m \in mmio}

\* The pointers in the tree and in the caller's hands lead to a frame that is dead:
\* the object read there, if any, is that of this call, never one of a call before.
OwnObject ==
    pc \in {"map", "find", "release", "unmap"} /\ frame # Overwritten =>
        frame.start = mem /\ frame.handle = handle

=============================================================================
