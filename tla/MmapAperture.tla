---------------------------- MODULE MmapAperture ----------------------------
(***************************************************************************)
(* The address space under an SVM aperture that is managed with mmap       *)
(* (fmm.rs: mmap_aperture_allocate_aligned, hsakmt_mmap_allocate_aligned,  *)
(* mmap_aperture_release).  The unit is the page; every size the library   *)
(* asks for is a number of pages.                                          *)
(*                                                                         *)
(* The kernel and the rest of the process are the environment: mmap may    *)
(* return any free range or fail, and other code of the process maps and   *)
(* unmaps pages of its own between calls.                                  *)
(***************************************************************************)
EXTENDS Integers

CONSTANTS
    LastPage,           \* bound: the pages of the address space are 1..LastPage
    Base, Limit,        \* aper.base and aper.limit: the first and last page
    Guard,              \* aper.guard_pages
    MinAlign,           \* aper.align, in pages
    AlignmentSize,      \* page_size << alignment_order, in pages
    Powers,             \* the alignments the doubling loop goes through
    Sizes               \* sizes asked for

Pages == 1..LastPage

ASSUME SpaceAssumption == LastPage \in Nat /\ Base \in Pages /\ Limit \in Pages
ASSUME GuardAssumption == Guard \in Nat
ASSUME AlignAssumption ==
    /\ Powers \subseteq Nat \ {0}
    /\ MinAlign \in Powers
    /\ AlignmentSize \in Nat
ASSUME SizesAssumption == Sizes \subseteq Nat \ {0}

VARIABLES
    mapped,     \* the pages that are mapped in the process
    foreign,    \* those mapped by other code of the process
    areas       \* the areas handed out and not released

mmapVars == <<mapped, foreign, areas>>

Range(first, n) == first .. first + n - 1
PagesOf(a) == Range(a.start, a.size)

\* The pages in the padding of area a, on both sides; a fixed area has none.
WithGuards(a) == (a.start - a.guard) .. (a.start + a.size - 1 + a.guard)

-----------------------------------------------------------------------------

\* Faulty: no rounding.
NOT_ALIGNED(n, align) == n

\* ALIGN_UP, for a power of two.
ALIGN_UP(n, align) == IF n % align = 0 THEN n ELSE n + (align - (n % align))

\* The loop "while align < alignment_size && size >= (align << 1)" stops at a.
GrowsTo(a, size) ==
    /\ a >= MinAlign
    /\ a >= AlignmentSize \/ size < 2 * a
    /\ \A b \in Powers : MinAlign <= b /\ b < a => b < AlignmentSize /\ size >= 2 * b

Padded(size, align) == size + 2 * Guard + (align - 1)

\* Faulty: the guard in front of the area is left out.
AlignedStartNoGuard(addr, align) == ALIGN_UP(addr, align)

AlignedStart(addr, align) == ALIGN_UP(addr + Guard, align)

InAperture(start, size) == Base <= start /\ start + size - 1 <= Limit

\* Faulty: the tail starts one page late.
UnmappedOffByOne(addr, size, align) ==
    LET start == AlignedStart(addr, align)
        end   == addr + Padded(size, align)
    IN  (addr .. start - 1) \cup (start + size + 1 .. end - 1)

\* What is left of the padded mapping: without its head and its tail.
Unmapped(addr, size, align) ==
    LET start == AlignedStart(addr, align)
        end   == addr + Padded(size, align)
    IN  (addr .. start - 1) \cup (start + size .. end - 1)

\* mmap: the kernel gives n free pages from addr.
KernelMaps(addr, n) ==
    /\ Range(addr, n) \subseteq Pages
    /\ Range(addr, n) \cap mapped = {}

Init ==
    /\ mapped = {} /\ foreign = {} /\ areas = {}

Allocate(size, align, addr) ==
    /\ GrowsTo(align, size)
    /\ KernelMaps(addr, Padded(size, align))
    /\ InAperture(AlignedStart(addr, align), size)
    /\ mapped' = (mapped \cup Range(addr, Padded(size, align)))
                    \ Unmapped(addr, size, align)
    /\ areas' = areas \cup
            {[start |-> AlignedStart(addr, align), size |-> size, guard |-> Guard]}
    /\ UNCHANGED foreign

\* The kernel's choice is out of range: everything is unmapped, NULL returned.
AllocateOutOfRange(size, align, addr) ==
    /\ GrowsTo(align, size)
    /\ KernelMaps(addr, Padded(size, align))
    /\ ~InAperture(AlignedStart(addr, align), size)
    /\ mapped' = (mapped \cup Range(addr, Padded(size, align)))
                    \ Range(addr, Padded(size, align))
    /\ UNCHANGED <<foreign, areas>>

\* Faulty: MAP_FIXED, which replaces what is mapped at the address.
AllocateReplacing(size, addr) ==
    /\ mapped' = mapped \cup Range(addr, size)
    /\ areas' = areas \cup {[start |-> addr, size |-> size, guard |-> 0]}
    /\ UNCHANGED foreign

\* A caller's address: MAP_FIXED_NOREPLACE, no padding and no range check.
AllocateFixed(size, addr) ==
    /\ KernelMaps(addr, size)
    /\ mapped' = mapped \cup Range(addr, size)
    /\ areas' = areas \cup {[start |-> addr, size |-> size, guard |-> 0]}
    /\ UNCHANGED foreign

Release(a) ==
    /\ mapped' = mapped \ PagesOf(a)
    /\ areas' = areas \ {a}
    /\ UNCHANGED foreign

ForeignMap(p) ==
    /\ KernelMaps(p, 1)
    /\ mapped' = mapped \cup {p}
    /\ foreign' = foreign \cup {p}
    /\ UNCHANGED areas

ForeignUnmap(p) ==
    /\ mapped' = mapped \ {p}
    /\ foreign' = foreign \ {p}
    /\ UNCHANGED areas

Next ==
    \/ \E size \in Sizes, align \in Powers, addr \in Pages :
            \/ Allocate(size, align, addr)
            \/ AllocateOutOfRange(size, align, addr)
    \/ \E size \in Sizes, addr \in Pages : AllocateFixed(size, addr)
    \/ \E a \in areas : Release(a)
    \/ \E p \in Pages : ForeignMap(p)
    \/ \E p \in foreign : ForeignUnmap(p)

Spec == Init /\ [][Next]_mmapVars

-----------------------------------------------------------------------------
(* Properties *)

TypeOK ==
    /\ mapped \subseteq Pages
    /\ foreign \subseteq Pages
    /\ areas \subseteq [start : Pages, size : Sizes, guard : {0, Guard}]

\* The two munmap calls, whose arguments are differences of aligned and padded
\* addresses, leave exactly the areas: no page of padding leaks and no page of
\* an area, or of anyone else, is unmapped.
MappedExactly ==
    /\ mapped = foreign \cup UNION {PagesOf(a) : a \in areas}
    /\ \A a \in areas : PagesOf(a) \cap foreign = {}

\* Areas are apart, by the guard pages of the later one of the two: "leave
\* guard pages on both sides" (fmm.rs:252) holds although the guard pages are
\* unmapped again and the kernel may hand them out.
AreasApart ==
    \A a, b \in areas : a # b =>
        /\ PagesOf(a) \cap PagesOf(b) = {}
        /\ WithGuards(a) \cap PagesOf(b) = {} \/ WithGuards(b) \cap PagesOf(a) = {}

\* An area the kernel placed is inside the aperture and aligned for its size.
PlacedInAperture ==
    \A a \in areas : a.guard > 0 =>
        /\ InAperture(a.start, a.size)
        /\ \E align \in Powers : GrowsTo(align, a.size) /\ a.start % align = 0

=============================================================================
