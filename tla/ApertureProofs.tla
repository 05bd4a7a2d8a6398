--------------------------- MODULE ApertureProofs ---------------------------
(***************************************************************************)
(* Theorems about MmapAperture, for every address space, guard, alignment  *)
(* and size: what is mapped is exactly the areas and the pages of others,  *)
(* areas are apart by their guard pages, and the areas the kernel placed   *)
(* are aligned and inside the aperture.  And about VmObjects, for every    *)
(* number of GPUs: the areas of the objects are areas of MmapAperture, and *)
(* what a call took is given back or ends behind the registers of its GPU. *)
(*                                                                         *)
(* The first argument is arithmetic: the padded mapping has room for the   *)
(* aligned area and for a guard on each of its sides, wherever the kernel  *)
(* put it.  In the second, the release reads the object from a dead frame, *)
(* so its range is known only by an invariant: no call builds an object    *)
(* after this one has.                                                     *)
(***************************************************************************)
EXTENDS VmObjects, TLAPS

USE SpaceAssumption, GuardAssumption, AlignAssumption, SizesAssumption

IInv == TypeOK /\ MappedExactly /\ AreasApart /\ PlacedInAperture

-----------------------------------------------------------------------------
(* Arithmetic *)

\* ALIGN_UP returns the first multiple of align at or after n.
LEMMA AlignUp ==
    ASSUME NEW n \in Nat, NEW align \in Nat \ {0}
    PROVE  /\ ALIGN_UP(n, align) \in Nat
           /\ n <= ALIGN_UP(n, align) /\ ALIGN_UP(n, align) <= n + (align - 1)
           /\ ALIGN_UP(n, align) % align = 0
<1>1. n % align \in 0 .. align - 1
  OBVIOUS
<1>2. CASE n % align = 0
  BY <1>2 DEF ALIGN_UP
<1>3. CASE n % align # 0
  <2>1. ALIGN_UP(n, align) = n + (align - (n % align))
    BY <1>3 DEF ALIGN_UP
  <2>2. n = align * (n \div align) + (n % align) /\ n \div align \in Nat
    OBVIOUS
  <2>3. ALIGN_UP(n, align) = align * ((n \div align) + 1)
    BY <1>1, <2>1, <2>2
  <2>4. (align * ((n \div align) + 1)) % align = 0
    BY <2>2
  <2> QED
    BY <1>1, <1>3, <2>1, <2>3, <2>4
<1> QED
  BY <1>2, <1>3

\* The area and its guards lie in the padded mapping, and unmapping head and
\* tail leaves the area.
LEMMA AreaFits ==
    ASSUME NEW size \in Sizes, NEW align \in Powers, NEW addr \in Pages,
           Range(addr, Padded(size, align)) \subseteq Pages
    PROVE  LET start == AlignedStart(addr, align)
               end   == addr + Padded(size, align)
           IN  /\ start \in Pages /\ start % align = 0
               /\ addr <= start - Guard /\ start + size + Guard <= end
               /\ Range(addr, Padded(size, align)) \ Unmapped(addr, size, align)
                    = Range(start, size)
<1> DEFINE start == AlignedStart(addr, align)
           end   == addr + Padded(size, align)
<1>1. /\ size \in Nat \ {0} /\ align \in Nat \ {0} /\ addr \in Nat \ {0}
      /\ addr + Guard \in Nat
  BY DEF Pages
<1>2. /\ start \in Nat /\ addr + Guard <= start /\ start <= addr + Guard + (align - 1)
      /\ start % align = 0
  BY <1>1, AlignUp DEF AlignedStart
<1>3. start + size + Guard <= end /\ end \in Nat
  BY <1>1, <1>2 DEF Padded
<1>4. start \in Pages
  <2>1. start <= end - 1
    BY <1>1, <1>2, <1>3
  <2>2. start \in Range(addr, Padded(size, align))
    BY <1>1, <1>2, <1>3, <2>1 DEF Range, Padded
  <2> QED
    BY <2>2
<1>5. Range(addr, Padded(size, align)) \ Unmapped(addr, size, align) = Range(start, size)
  BY <1>1, <1>2, <1>3 DEF Range, Unmapped, Padded
<1> QED
  BY <1>1, <1>2, <1>3, <1>4, <1>5

-----------------------------------------------------------------------------
(* Adding and removing areas *)

\* What a step that adds an area on free pages, with its guards free too, keeps.
LEMMA AddArea ==
    ASSUME IInv,
           NEW start \in Pages, NEW size \in Sizes, NEW guard \in {0, Guard},
           Range(start, size) \subseteq Pages \ mapped,
           (start - guard) .. (start + size - 1 + guard) \cap mapped = {},
           mapped' = mapped \cup Range(start, size),
           areas' = areas \cup {[start |-> start, size |-> size, guard |-> guard]},
           foreign' = foreign
    PROVE  TypeOK' /\ MappedExactly' /\ AreasApart'
<1> DEFINE new == [start |-> start, size |-> size, guard |-> guard]
<1>1. PagesOf(new) = Range(start, size)
  BY DEF PagesOf
<1>2. TypeOK'
  BY DEF IInv, TypeOK
<1>3. MappedExactly'
  BY <1>1 DEF IInv, MappedExactly
<1>4. \A a \in areas : PagesOf(a) \subseteq mapped
  BY DEF IInv, MappedExactly
<1>5. \A a \in areas : PagesOf(a) \cap PagesOf(new) = {} /\ WithGuards(new) \cap PagesOf(a) = {}
  BY <1>1, <1>4 DEF WithGuards
<1>6. AreasApart'
  BY <1>5 DEF IInv, AreasApart
<1> QED
  BY <1>2, <1>3, <1>6

LEMMA InitIInv == Init => IInv
  BY DEF Init, IInv, TypeOK, MappedExactly, AreasApart, PlacedInAperture

LEMMA NextIInv == IInv /\ [Next]_mmapVars => IInv'
<1> SUFFICES ASSUME IInv, [Next]_mmapVars PROVE IInv'
  OBVIOUS
<1>1. ASSUME NEW size \in Sizes, NEW align \in Powers, NEW addr \in Pages,
             Allocate(size, align, addr)
      PROVE  IInv'
  <2> DEFINE start == AlignedStart(addr, align)
             new   == [start |-> start, size |-> size, guard |-> Guard]
  <2>1. /\ Range(addr, Padded(size, align)) \subseteq Pages
        /\ Range(addr, Padded(size, align)) \cap mapped = {}
    BY <1>1 DEF Allocate, KernelMaps
  <2>2. /\ start \in Pages /\ start % align = 0
        /\ addr <= start - Guard /\ start + size + Guard <= addr + Padded(size, align)
        /\ Range(addr, Padded(size, align)) \ Unmapped(addr, size, align)
              = Range(start, size)
    BY <2>1, AreaFits
  <2>3. Unmapped(addr, size, align) \subseteq Range(addr, Padded(size, align))
    <3>1. /\ size \in Nat \ {0} /\ align \in Nat \ {0} /\ addr \in Nat /\ start \in Nat
          /\ Padded(size, align) \in Nat
      BY <2>2 DEF Pages, Padded
    <3> QED
      BY <2>2, <3>1 DEF Unmapped, Range
  <2>4. mapped' = mapped \cup Range(start, size)
    BY <1>1, <2>1, <2>2, <2>3 DEF Allocate
  <2>5. (start - Guard) .. (start + size - 1 + Guard) \subseteq Range(addr, Padded(size, align))
    <3>1. /\ size \in Nat \ {0} /\ align \in Nat \ {0} /\ addr \in Nat /\ start \in Nat
          /\ Padded(size, align) \in Nat
      BY <2>2 DEF Pages, Padded
    <3> QED
      BY <2>2, <3>1 DEF Range
  <2>6. Range(start, size) \subseteq Pages \ mapped
    BY <2>1, <2>2
  <2>7. TypeOK' /\ MappedExactly' /\ AreasApart'
    BY <1>1, <2>1, <2>2, <2>4, <2>5, <2>6, AddArea DEF Allocate
  <2>8. PlacedInAperture'
    BY <1>1, <2>2 DEF Allocate, IInv, PlacedInAperture
  <2> QED
    BY <2>7, <2>8 DEF IInv
<1>2. ASSUME NEW size \in Sizes, NEW align \in Powers, NEW addr \in Pages,
             AllocateOutOfRange(size, align, addr)
      PROVE  IInv'
  <2>1. mapped' = mapped
    BY <1>2 DEF AllocateOutOfRange, KernelMaps
  <2> QED
    BY <1>2, <2>1 DEF AllocateOutOfRange, IInv, TypeOK, MappedExactly, AreasApart,
                      PlacedInAperture
<1>3. ASSUME NEW size \in Sizes, NEW addr \in Pages, AllocateFixed(size, addr)
      PROVE  IInv'
  <2>1. Range(addr, size) \subseteq Pages \ mapped
    BY <1>3 DEF AllocateFixed, KernelMaps
  <2>2. (addr - 0) .. (addr + size - 1 + 0) \cap mapped = {}
    BY <2>1 DEF Range, Pages
  <2>3. TypeOK' /\ MappedExactly' /\ AreasApart'
    BY <1>3, <2>1, <2>2, AddArea DEF AllocateFixed
  <2>4. PlacedInAperture'
    BY <1>3 DEF AllocateFixed, IInv, PlacedInAperture
  <2> QED
    BY <2>3, <2>4 DEF IInv
<1>4. ASSUME NEW a \in areas, Release(a)
      PROVE  IInv'
  <2>1. \A b \in areas : b # a => PagesOf(a) \cap PagesOf(b) = {}
    BY DEF IInv, AreasApart
  <2>2. PagesOf(a) \cap foreign = {}
    BY DEF IInv, MappedExactly
  <2>3. MappedExactly'
    BY <1>4, <2>1, <2>2 DEF Release, IInv, MappedExactly
  <2> QED
    BY <1>4, <2>3 DEF Release, IInv, TypeOK, AreasApart, PlacedInAperture
<1>5. ASSUME NEW p \in Pages, ForeignMap(p)
      PROVE  IInv'
  <2>1. p \notin mapped
    BY <1>5 DEF ForeignMap, KernelMaps, Range, Pages
  <2>2. MappedExactly'
    BY <1>5, <2>1 DEF ForeignMap, IInv, MappedExactly
  <2> QED
    BY <1>5, <2>2 DEF ForeignMap, IInv, TypeOK, AreasApart, PlacedInAperture
<1>6. ASSUME NEW p \in foreign, ForeignUnmap(p)
      PROVE  IInv'
  <2>1. MappedExactly'
    BY <1>6 DEF ForeignUnmap, IInv, MappedExactly
  <2> QED
    BY <1>6, <2>1 DEF ForeignUnmap, IInv, TypeOK, AreasApart, PlacedInAperture
<1>7. CASE UNCHANGED mmapVars
  BY <1>7 DEF mmapVars, IInv, TypeOK, MappedExactly, AreasApart, PlacedInAperture
<1> QED
  BY <1>1, <1>2, <1>3, <1>4, <1>5, <1>6, <1>7 DEF Next

-----------------------------------------------------------------------------

\* The types are invariant.
THEOREM MmapTypes == Spec => []TypeOK
<1>1. IInv => TypeOK
  BY DEF IInv
<1> QED
  BY <1>1, InitIInv, NextIInv, PTL DEF Spec

\* No page leaks and no page of an area, or of anyone else, is unmapped.
THEOREM MappedStaysExact == Spec => []MappedExactly
<1>1. IInv => MappedExactly
  BY DEF IInv
<1> QED
  BY <1>1, InitIInv, NextIInv, PTL DEF Spec

\* Areas never overlap, and guard pages lie between them.
THEOREM AreasStayApart == Spec => []AreasApart
<1>1. IInv => AreasApart
  BY DEF IInv
<1> QED
  BY <1>1, InitIInv, NextIInv, PTL DEF Spec

\* The areas the kernel placed are aligned and inside the aperture.
THEOREM AreasStayPlaced == Spec => []PlacedInAperture
<1>1. IInv => PlacedInAperture
  BY DEF IInv
<1> QED
  BY <1>1, InitIInv, NextIInv, PTL DEF Spec

-----------------------------------------------------------------------------
(* The objects of the areas *)

\* Where the call has its page and no registers behind it yet.
Unbacked == {"object", "map", "release", "unmap"}

\* The areas are the pages of the registers, and that of the call.
AreasKnown ==
    /\ \A a \in areas : a.size = PageSize
    /\ \A a \in areas : \/ \E m \in mmio : m.page = a.start
                        \/ a.start = mem /\ pc \in Unbacked \cup {"undefined"}
    /\ pc \in Unbacked \cup {"find", "undefined"} => HasArea(mem)

\* The buffers are those of the registers, and that of the call.
BuffersKnown ==
    /\ \A b \in bos : \/ b \in mmio
                      \/ b = Buffer(handle) /\ pc \in {"map", "release", "unmap",
                                                       "panicked", "undefined"}
    /\ \A b, c \in bos : b.gpu = c.gpu \/ b.page = c.page \/ b.handle = c.handle => b = c
    /\ pc \in {"map", "release"} => handle = 0 \/ Buffer(handle) \in bos

\* The registers are those of the GPUs before this one, until its own are mapped.
MmioKnown ==
    /\ mmio \subseteq bos /\ \A m \in mmio : HasArea(m.page)
    /\ pc \in Unbacked => \A m \in mmio : m.page # mem
    /\ \A m \in mmio : m.gpu < gpu \/ (m.gpu = gpu /\ pc \in {"find", "undefined"})

OInv == ObjectsTypeOK /\ OwnObject /\ AreasKnown /\ BuffersKnown /\ MmioKnown /\ IInv

-----------------------------------------------------------------------------
(* Every step of the objects is one of the areas, or none *)

LEMMA AreaOfPage ==
    ASSUME OInv, HasArea(mem)
    PROVE  \E a \in areas : /\ a.start = mem /\ PagesOf(a) = Range(mem, PageSize)
                            /\ PagesOf(a) \subseteq mapped
                            /\ \A b \in areas : b.start = mem => b = a
<1>1. PICK a \in areas : a.start = mem /\ a.size = PageSize
  BY DEF HasArea
<1>2. mem \in Nat /\ \A b \in areas : b.start = mem => mem \in PagesOf(b)
  BY <1>1 DEF OInv, IInv, TypeOK, AreasKnown, Pages, PagesOf, Range, PageSize
<1>3. PagesOf(a) = Range(mem, PageSize) /\ PagesOf(a) \subseteq mapped
  BY <1>1 DEF OInv, IInv, MappedExactly, PagesOf
<1>4. \A b \in areas : b.start = mem => b = a
  BY <1>1, <1>2 DEF OInv, IInv, AreasApart
<1> QED
  BY <1>1, <1>3, <1>4

LEMMA ObjectStep ==
    ASSUME OInv, [ObjectsNext]_objectVars
    PROVE  [Next]_mmapVars
<1>1. CASE TakeArea
  <2>1. PageSize \in Sizes
    BY GpusAssumption DEF PageSize
  <2>2. PICK align \in Powers, addr \in Pages : Allocate(PageSize, align, addr)
    BY <1>1 DEF TakeArea
  <2> QED
    BY <2>1, <2>2 DEF Next
<1>2. CASE MapPage
  <2>1. HasArea(mem)
    BY <1>2 DEF MapPage, OInv, AreasKnown, Unbacked
  <2>2. Range(mem, PageSize) \subseteq mapped
    BY <2>1, AreaOfPage
  <2> QED
    BY <1>2, <2>2 DEF MapPage, mmapVars
<1>3. CASE ReleaseArea
  <2>1. HasArea(mem) /\ frame.start = mem /\ frame.size = PageSize
    BY <1>3 DEF ReleaseArea, OInv, AreasKnown, Unbacked, OwnObject, ObjectsTypeOK, Objects
  <2>2. PICK a \in areas : /\ a.start = mem /\ PagesOf(a) = Range(mem, PageSize)
                           /\ \A b \in areas : b.start = mem => b = a
    BY <2>1, AreaOfPage
  <2>3. Release(a)
    BY <1>3, <2>1, <2>2 DEF ReleaseArea, Release
  <2> QED
    BY <2>3 DEF Next
<1>4. CASE Others
  BY <1>4 DEF Others, Next
<1>5. CASE NoArea \/ AllocateObject \/ MapPageFails \/ MapToGpu \/ DeadObject \/ InitDone
           \/ FreeBuffer \/ UNCHANGED objectVars
  BY <1>5 DEF NoArea, AllocateObject, MapPageFails, MapToGpu, DeadObject, InitDone,
              FreeBuffer, objectVars
<1> QED
  BY <1>1, <1>2, <1>3, <1>4, <1>5 DEF ObjectsNext

-----------------------------------------------------------------------------
(* The invariant *)

LEMMA ObjectsInitOInv == ObjectsInit => OInv
<1> SUFFICES ASSUME ObjectsInit PROVE OInv
  OBVIOUS
<1>1. IInv
  BY InitIInv DEF ObjectsInit
<1>2. areas = {}
  BY DEF ObjectsInit, Init
<1> QED
  BY <1>1, <1>2, GpusAssumption
     DEF ObjectsInit, OInv, ObjectsTypeOK, OwnObject, AreasKnown, BuffersKnown,
         MmioKnown, Unbacked

LEMMA ObjectsNextOInv == OInv /\ [ObjectsNext]_objectVars => OInv'
<1> SUFFICES ASSUME OInv, [ObjectsNext]_objectVars PROVE OInv'
  OBVIOUS
<1> USE GpusAssumption, SpaceAssumption
<1>0. IInv'
  BY ObjectStep, NextIInv DEF OInv
<1>1. CASE TakeArea
  <2>1. PICK align \in Powers, addr \in Pages :
            Allocate(PageSize, align, addr) /\ mem' = AlignedStart(addr, align)
    BY <1>1 DEF TakeArea
  <2> DEFINE new == [start |-> mem', size |-> PageSize, guard |-> Guard]
  <2>2. areas' = areas \cup {new}
    BY <2>1 DEF Allocate
  <2>3. pc = "area" /\ pc' = "object" /\ gpu <= Gpus
        /\ UNCHANGED <<gpu, handle, frame, root, bos, mmio>>
    BY <1>1 DEF TakeArea
  <2>4. mem' \in Pages
    <3>1. new \in areas'
      BY <2>2
    <3> QED
      BY <1>0, <3>1 DEF IInv, TypeOK
  <2>5. \A m \in mmio : m.page # mem'
    <3> SUFFICES ASSUME NEW m \in mmio, m.page = mem' PROVE FALSE
      OBVIOUS
    <3>1. PICK a \in areas : a.start = m.page /\ a.size = PageSize
      BY DEF OInv, MmioKnown, HasArea
    <3>2. mem' \in PagesOf(a)
      <4>1. a.start = mem' /\ a.size = 1 /\ mem' \in Nat
        BY <2>4, <3>1 DEF PageSize, Pages
      <4>2. \A p \in Nat : p \in Range(p, 1)
        BY DEF Range
      <4> QED
        BY <4>1, <4>2 DEF PagesOf
    <3>3. mem' \in mapped
      BY <3>2 DEF OInv, IInv, MappedExactly
    <3>4. mem' \in Range(addr, Padded(PageSize, align))
      <4>1. PageSize \in Sizes /\ PageSize = 1
        BY DEF PageSize
      <4>2. /\ Range(addr, Padded(PageSize, align)) \subseteq Pages
            /\ mapped \cap Range(addr, Padded(PageSize, align)) = {}
        BY <2>1 DEF Allocate, KernelMaps
      <4>3. Range(addr, Padded(PageSize, align)) \ Unmapped(addr, PageSize, align)
                = Range(mem', PageSize)
        BY <2>1, <4>1, <4>2, AreaFits
      <4> QED
        BY <4>1, <4>3, <2>4 DEF Range, Pages
    <3> QED
      BY <2>1, <3>3, <3>4 DEF Allocate, KernelMaps
  <2>6. HasArea(mem)' /\ \A m \in mmio : HasArea(m.page)'
    <3>1. new \in areas' /\ new.start = mem' /\ new.size = PageSize
      BY <2>2
    <3>2. HasArea(mem)'
      BY <3>1 DEF HasArea
    <3>3. \A m \in mmio : HasArea(m.page)'
      BY <2>2 DEF OInv, MmioKnown, HasArea
    <3> QED
      BY <3>2, <3>3
  <2>7. ObjectsTypeOK' /\ OwnObject'
    BY <2>3, <2>4 DEF OInv, ObjectsTypeOK, OwnObject
  <2>8. AreasKnown'
    BY <2>2, <2>3, <2>6 DEF OInv, AreasKnown, Unbacked
  <2>9. BuffersKnown'
    BY <2>3 DEF OInv, BuffersKnown
  <2>10. MmioKnown'
    BY <2>3, <2>5, <2>6 DEF OInv, MmioKnown
  <2> QED
    BY <1>0, <2>7, <2>8, <2>9, <2>10 DEF OInv
<1>2. CASE NoArea
  <2>1. \A m \in mmio : m.gpu < gpu + 1
    BY <1>2 DEF NoArea, OInv, MmioKnown, ObjectsTypeOK, Buffers
  <2>2. ObjectsTypeOK' /\ OwnObject'
    BY <1>2 DEF NoArea, OInv, ObjectsTypeOK, OwnObject
  <2>3. AreasKnown' /\ BuffersKnown' /\ MmioKnown'
    BY <1>2, <2>1 DEF NoArea, OInv, AreasKnown, BuffersKnown, MmioKnown, HasArea,
                      Unbacked, mmapVars
  <2> QED
    BY <1>0, <2>2, <2>3 DEF OInv
<1>3. CASE AllocateObject
  <2>1. HasArea(mem) /\ mem \in Pages /\ gpu \in 1 .. Gpus
    BY <1>3 DEF AllocateObject, OInv, AreasKnown, Unbacked, ObjectsTypeOK, HasArea, IInv, TypeOK
  <2>2. bos = mmio /\ \A m \in mmio : m.gpu < gpu /\ m.page # mem /\ m.gpu # gpu
    <3>1. \A m \in mmio : m.gpu \in Nat
      BY DEF OInv, ObjectsTypeOK, Buffers
    <3> QED
      BY <1>3, <2>1, <3>1 DEF AllocateObject, OInv, BuffersKnown, MmioKnown, Unbacked
  <2>3. /\ pc' = "map" /\ UNCHANGED <<mmapVars, gpu, mem, mmio>>
        /\ frame' = Built(mem, handle') /\ root' = "frame"
    BY <1>3 DEF AllocateObject
  <2>4. \/ handle' \in Handles \ {b.handle : b \in bos} /\ bos' = bos \cup {Buffer(handle)'}
        \/ handle' = 0 /\ bos' = bos
    BY <1>3 DEF AllocateObject, Buffer
  <2>5. Buffer(handle)'.gpu = gpu /\ Buffer(handle)'.page = mem /\ Buffer(handle)'.handle = handle'
    BY <2>3 DEF Buffer
  <2>6. handle' \in Handles \cup {0} /\ bos' \subseteq Buffers
    BY <2>1, <2>3, <2>4 DEF OInv, ObjectsTypeOK, Buffer, Buffers
  <2>7. frame' \in Objects
    BY <2>1, <2>3, <2>6 DEF Built, Objects
  <2>8. ObjectsTypeOK' /\ OwnObject'
    BY <2>1, <2>3, <2>6, <2>7 DEF OInv, ObjectsTypeOK, OwnObject, Built
  <2>9. AreasKnown'
    BY <2>1, <2>3, <1>3 DEF AllocateObject, OInv, AreasKnown, Unbacked, HasArea, mmapVars
  <2>10. BuffersKnown'
    <3>1. \A b \in bos' : b \in mmio' \/ b = Buffer(handle)'
      BY <2>2, <2>3, <2>4
    <3>2. \A b \in bos : b.gpu # gpu /\ b.page # mem
      BY <2>2
    <3>3. \A b \in bos : Buffer(handle)' \in bos' => b.handle # handle' \/ b = Buffer(handle)'
      BY <2>2, <2>4, <2>5
    <3>4. \A b, c \in bos' : b.gpu = c.gpu \/ b.page = c.page \/ b.handle = c.handle => b = c
      BY <2>4, <2>5, <3>2 DEF OInv, BuffersKnown
    <3> QED
      BY <2>3, <2>4, <3>1, <3>4 DEF BuffersKnown
  <2>11. MmioKnown'
    BY <2>2, <2>3, <2>4 DEF OInv, MmioKnown, HasArea, mmapVars
  <2> QED
    BY <1>0, <2>8, <2>9, <2>10, <2>11 DEF OInv
<1>4. CASE MapPage
  <2>1. /\ pc = "map" /\ pc' = "find" /\ Buffer(handle) \in bos /\ mmio' = mmio \cup {Buffer(handle)}
        /\ UNCHANGED <<areas, gpu, mem, handle, root, bos>> /\ frame' \in {frame, Overwritten}
    BY <1>4 DEF MapPage, MayOverwrite
  <2>2. Buffer(handle).gpu = gpu /\ Buffer(handle).page = mem
    BY DEF Buffer
  <2>3. ObjectsTypeOK' /\ OwnObject'
    BY <2>1 DEF OInv, ObjectsTypeOK, OwnObject
  <2>4. HasArea(mem)
    BY <2>1 DEF OInv, AreasKnown, Unbacked
  <2>5. AreasKnown'
    BY <2>1, <2>2, <2>4 DEF OInv, AreasKnown, Unbacked, HasArea
  <2>6. BuffersKnown'
    BY <2>1 DEF OInv, BuffersKnown, Buffer
  <2>7. MmioKnown'
    <3>1. \A m \in mmio' : m.gpu < gpu \/ m.gpu = gpu
      BY <2>1, <2>2 DEF OInv, MmioKnown
    <3>2. \A m \in mmio' : HasArea(m.page)'
      BY <2>1, <2>2, <2>4 DEF OInv, MmioKnown, HasArea
    <3> QED
      BY <2>1, <3>1, <3>2 DEF OInv, MmioKnown, Unbacked
  <2> QED
    BY <1>0, <2>3, <2>5, <2>6, <2>7 DEF OInv
<1>5. CASE MapPageFails
  <2>1. /\ pc = "map" /\ pc' = "release" /\ frame' \in {frame, Overwritten}
        /\ UNCHANGED <<areas, gpu, mem, handle, root, bos, mmio>>
    BY <1>5 DEF MapPageFails, MayOverwrite, mmapVars
  <2>2. ObjectsTypeOK' /\ OwnObject'
    BY <2>1 DEF OInv, ObjectsTypeOK, OwnObject
  <2>3. AreasKnown' /\ BuffersKnown' /\ MmioKnown'
    BY <2>1 DEF OInv, AreasKnown, BuffersKnown, MmioKnown, Unbacked, HasArea, Buffer
  <2> QED
    BY <1>0, <2>2, <2>3 DEF OInv
<1>6. CASE MapToGpu
  <2>1. /\ pc = "find" /\ pc' = "area" /\ gpu' = gpu + 1 /\ frame' \in {frame, Overwritten}
        /\ UNCHANGED <<areas, mem, handle, root, bos, mmio>>
    BY <1>6 DEF MapToGpu, MayOverwrite, mmapVars
  <2>2. gpu \in 1 .. Gpus
    BY <2>1 DEF OInv, ObjectsTypeOK
  <2>3. ObjectsTypeOK' /\ OwnObject'
    BY <2>1, <2>2 DEF OInv, ObjectsTypeOK, OwnObject
  <2>4. \A m \in mmio : m.gpu < gpu + 1
    <3>1. \A m \in mmio : m.gpu \in Nat
      BY DEF OInv, ObjectsTypeOK, Buffers
    <3> QED
      BY <2>2, <3>1 DEF OInv, MmioKnown
  <2>5. AreasKnown' /\ BuffersKnown' /\ MmioKnown'
    BY <2>1, <2>4 DEF OInv, AreasKnown, BuffersKnown, MmioKnown, Unbacked, HasArea
  <2> QED
    BY <1>0, <2>3, <2>5 DEF OInv
<1>7. CASE DeadObject
  <2>1. /\ pc \in {"find", "release", "unmap"} /\ pc' = "undefined"
        /\ UNCHANGED <<areas, gpu, mem, handle, frame, root, bos, mmio>>
    BY <1>7 DEF DeadObject, mmapVars
  <2>2. ObjectsTypeOK' /\ OwnObject'
    BY <2>1 DEF OInv, ObjectsTypeOK, OwnObject
  <2>3. AreasKnown' /\ BuffersKnown' /\ MmioKnown'
    BY <2>1 DEF OInv, AreasKnown, BuffersKnown, MmioKnown, Unbacked, HasArea, Buffer
  <2> QED
    BY <1>0, <2>2, <2>3 DEF OInv
<1>8. CASE InitDone
  <2>1. /\ pc = "area" /\ pc' = "done"
        /\ UNCHANGED <<areas, gpu, mem, handle, frame, root, bos, mmio>>
    BY <1>8 DEF InitDone, mmapVars
  <2>2. ObjectsTypeOK' /\ OwnObject'
    BY <2>1 DEF OInv, ObjectsTypeOK, OwnObject
  <2>3. AreasKnown' /\ BuffersKnown' /\ MmioKnown'
    BY <2>1 DEF OInv, AreasKnown, BuffersKnown, MmioKnown, Unbacked, HasArea, Buffer
  <2> QED
    BY <1>0, <2>2, <2>3 DEF OInv
<1>9. CASE FreeBuffer
  <2>1. /\ pc = "release" /\ pc' = "unmap" /\ frame # Overwritten /\ frame' \in {frame, Overwritten}
        /\ bos' \in {bos, {b \in bos : b.handle # frame.handle}}
        /\ UNCHANGED <<areas, gpu, mem, handle, root, mmio>>
    BY <1>9 DEF FreeBuffer, MayOverwrite, mmapVars
  <2>2. frame.handle = handle /\ bos' \subseteq bos
    BY <2>1 DEF OInv, OwnObject
  <2>3. mmio \subseteq bos'
    <3> SUFFICES ASSUME NEW m \in mmio, m.handle = handle PROVE FALSE
      BY <2>1, <2>2 DEF OInv, MmioKnown
    <3>1. m \in bos /\ m.handle # 0 /\ m.gpu \in Nat
      BY DEF OInv, MmioKnown, ObjectsTypeOK, Buffers, Handles
    <3>2. Buffer(handle) \in bos
      BY <2>1, <3>1 DEF OInv, BuffersKnown
    <3>3. m = Buffer(handle)
      BY <3>1, <3>2 DEF OInv, BuffersKnown, Buffer
    <3>4. m.gpu < gpu /\ gpu \in Nat
      BY <2>1 DEF OInv, MmioKnown, ObjectsTypeOK
    <3> QED
      BY <3>1, <3>3, <3>4 DEF Buffer
  <2>4. ObjectsTypeOK' /\ OwnObject'
    BY <2>1, <2>2 DEF OInv, ObjectsTypeOK, OwnObject
  <2>5. AreasKnown' /\ BuffersKnown' /\ MmioKnown'
    BY <2>1, <2>2, <2>3 DEF OInv, AreasKnown, BuffersKnown, MmioKnown, Unbacked, HasArea, Buffer
  <2> QED
    BY <1>0, <2>4, <2>5 DEF OInv
<1>10. CASE ReleaseArea
  <2>1. /\ pc = "unmap" /\ pc' = "panicked" /\ frame # Overwritten
        /\ areas' = {a \in areas : a.start # frame.start}
        /\ UNCHANGED <<gpu, mem, handle, frame, root, bos, mmio>>
    BY <1>10 DEF ReleaseArea
  <2>2. frame.start = mem /\ \A m \in mmio : m.page # mem
    BY <2>1 DEF OInv, OwnObject, MmioKnown, Unbacked
  <2>3. \A m \in mmio : HasArea(m.page)'
    BY <2>1, <2>2 DEF OInv, MmioKnown, HasArea
  <2>4. ObjectsTypeOK' /\ OwnObject'
    BY <2>1, <2>2 DEF OInv, ObjectsTypeOK, OwnObject
  <2>5. AreasKnown' /\ BuffersKnown' /\ MmioKnown'
    BY <2>1, <2>2, <2>3 DEF OInv, AreasKnown, BuffersKnown, MmioKnown, Unbacked, Buffer
  <2> QED
    BY <1>0, <2>4, <2>5 DEF OInv
<1>11. CASE Others \/ UNCHANGED objectVars
  <2>1. UNCHANGED <<areas, pc, gpu, mem, handle, frame, root, bos, mmio>>
    BY <1>11 DEF Others, ForeignMap, ForeignUnmap, objectVars, mmapVars, call
  <2>2. ObjectsTypeOK' /\ OwnObject'
    BY <2>1 DEF OInv, ObjectsTypeOK, OwnObject
  <2>3. AreasKnown' /\ BuffersKnown' /\ MmioKnown'
    BY <2>1 DEF OInv, AreasKnown, BuffersKnown, MmioKnown, Unbacked, HasArea, Buffer
  <2> QED
    BY <1>0, <2>2, <2>3 DEF OInv
<1> QED
  BY <1>1, <1>2, <1>3, <1>4, <1>5, <1>6, <1>7, <1>8, <1>9, <1>10, <1>11 DEF ObjectsNext

-----------------------------------------------------------------------------

LEMMA OInvBacked == OInv => MmioIsBacked
<1> SUFFICES ASSUME OInv PROVE MmioIsBacked
  OBVIOUS
<1>1. pc \in {"area", "done"} => bos = mmio
  BY DEF OInv, BuffersKnown, MmioKnown
<1>2. pc \in {"area", "done"} => {a.start : a \in areas} = {m.page : m \in mmio}
  BY DEF OInv, AreasKnown, MmioKnown, HasArea, Unbacked
<1>3. BuffersHaveAreas
  <2> SUFFICES ASSUME NEW b \in bos, b \notin mmio
               PROVE  HasArea(b.page) \/ (pc = "panicked" /\ b.handle = handle)
    BY DEF OInv, MmioKnown, BuffersHaveAreas
  <2>1. b = Buffer(handle) /\ pc \in {"map", "release", "unmap", "panicked", "undefined"}
    BY DEF OInv, BuffersKnown
  <2>2. b.page = mem /\ b.handle = handle
    BY <2>1 DEF Buffer
  <2> QED
    BY <2>1, <2>2 DEF OInv, AreasKnown, Unbacked
<1> QED
  BY <1>1, <1>2, <1>3 DEF OInv, BuffersKnown, MmioKnown, MmioIsBacked

\* The objects' areas behave as MmapAperture says, whatever the frame holds.
THEOREM ObjectsImplementAperture == ObjectsSpec => ImplementsAperture
<1>1. ObjectsInit => Init
  BY DEF ObjectsInit
<1>2. OInv /\ [ObjectsNext]_objectVars => [Next]_mmapVars
  BY ObjectStep
<1> QED
  BY <1>1, <1>2, ObjectsInitOInv, ObjectsNextOInv, PTL DEF ObjectsSpec, ImplementsAperture, Spec

\* The types are invariant.
THEOREM ObjectTypes == ObjectsSpec => []ObjectsTypeOK
<1>1. OInv => ObjectsTypeOK
  BY DEF OInv
<1> QED
  BY <1>1, ObjectsInitOInv, ObjectsNextOInv, PTL DEF ObjectsSpec

\* What a call took ends behind the registers of its GPU, and stays there.
THEOREM RegistersAreBacked == ObjectsSpec => []MmioIsBacked
<1> QED
  BY OInvBacked, ObjectsInitOInv, ObjectsNextOInv, PTL DEF ObjectsSpec

\* A dead frame never gives a call the object of another one.
THEOREM ObjectIsOwn == ObjectsSpec => []OwnObject
<1>1. OInv => OwnObject
  BY DEF OInv
<1> QED
  BY <1>1, ObjectsInitOInv, ObjectsNextOInv, PTL DEF ObjectsSpec

=============================================================================
