-------------------------- MODULE MemHandleAperture -------------------------
(***************************************************************************)
(* init_mem_handle_aperture (fmm.rs): the address range for buffer handles *)
(* that are never mapped.  It is the first hole of Hole addresses, from    *)
(* the start of the non-canonical range, that no aperture of any GPU       *)
(* overlaps.  The apertures are what the kernel reported.                  *)
(***************************************************************************)
EXTENDS Integers

CONSTANTS
    NumGpus,        \* gpu_mem.len()
    Hole,           \* 1 << 47, the size of a hole and the first base
    End,            \* END_NON_CANONICAL_ADDR - 1
    KernelRanges    \* the ranges [base, limit] an aperture can have

Gpus  == 1..NumGpus
Kinds == {"lds", "scratch", "gpuvm"}

ASSUME GpusAssumption  == NumGpus \in Nat
ASSUME SpaceAssumption == Hole \in Nat \ {0} /\ End \in Nat
ASSUME RangesAssumption ==
    KernelRanges \subseteq {r \in [base : Nat, limit : Nat] : r.base <= r.limit}

VARIABLES
    apertures,      \* gpu_mem[i].lds_aperture, scratch_aperture, gpuvm_aperture
    base, limit,    \* mem_handle_aperture
    pc,             \* hole: the while test; gpu: the for loop; done
    i,              \* the next GPU of the for loop
    result          \* what the function returns

memVars == <<apertures, base, limit, pc, i, result>>

\* Faulty: the case that the second aperture starts inside the first is missing.
starts_in_second(start_1, limit_1, start_2, limit_2) ==
    start_1 >= start_2 /\ start_1 <= limit_2

\* Both limits belong to their apertures.
two_apertures_overlap(start_1, limit_1, start_2, limit_2) ==
    \/ start_1 >= start_2 /\ start_1 <= limit_2
    \/ start_2 >= start_1 /\ start_2 <= limit_1

OverlapsGpu(g) ==
    \E k \in Kinds :
        two_apertures_overlap(apertures[g][k].base, apertures[g][k].limit, base, limit)

Init ==
    /\ apertures \in [Gpus -> [Kinds -> KernelRanges]]
    /\ base = Hole /\ limit = Hole + Hole
    /\ pc = "hole" /\ i = 1 /\ result = FALSE

TryHole ==
    /\ pc = "hole" /\ base < End
    /\ pc' = "gpu" /\ i' = 1
    /\ UNCHANGED <<apertures, base, limit, result>>

GpuIsClear ==
    /\ pc = "gpu" /\ i \in Gpus /\ ~OverlapsGpu(i)
    /\ i' = i + 1
    /\ UNCHANGED <<apertures, base, limit, pc, result>>

\* Faulty: the next hole but one is tried.
GpuOverlapsSkipsAHole ==
    /\ pc = "gpu" /\ i \in Gpus /\ OverlapsGpu(i)
    /\ base' = base + 2 * Hole /\ limit' = base' + Hole
    /\ pc' = "hole"
    /\ UNCHANGED <<apertures, i, result>>

\* "increase base by 1UL<<47 to check next hole"
GpuOverlaps ==
    /\ pc = "gpu" /\ i \in Gpus /\ OverlapsGpu(i)
    /\ base' = base + Hole /\ limit' = base' + Hole
    /\ pc' = "hole"
    /\ UNCHANGED <<apertures, i, result>>

Found ==
    /\ pc = "gpu" /\ i \notin Gpus
    /\ pc' = "done" /\ result' = TRUE
    /\ UNCHANGED <<apertures, base, limit, i>>

\* Faulty: an empty range from address 0, whose limit is below it.
NoHoleUnderflows ==
    /\ pc = "hole" /\ ~(base < End)
    /\ base' = 0 /\ limit' = base' - 1
    /\ pc' = "done" /\ result' = FALSE
    /\ UNCHANGED <<apertures, i>>

NoHole ==
    /\ pc = "hole" /\ ~(base < End)
    /\ base' = 0 /\ limit' = 0
    /\ pc' = "done" /\ result' = FALSE
    /\ UNCHANGED <<apertures, i>>

Next == TryHole \/ GpuIsClear \/ GpuOverlaps \/ Found \/ NoHole

Spec == Init /\ [][Next]_memVars

-----------------------------------------------------------------------------
(* Properties *)

TypeOK ==
    /\ apertures \in [Gpus -> [Kinds -> KernelRanges]]
    /\ base \in Nat /\ limit \in Nat
    /\ pc \in {"hole", "gpu", "done"}
    /\ i \in 1..(NumGpus + 1)
    /\ result \in BOOLEAN

InRange(a, b, l) == b <= a /\ a <= l

\* The range handed to the buffer handles shares no address with an aperture
\* of any GPU, not only with those of the GPU whose check came last.
NoSharedAddress ==
    result => \A g \in Gpus, k \in Kinds :
        \A a \in apertures[g][k].base .. apertures[g][k].limit : ~InRange(a, base, limit)

\* The hole is one hole long and starts inside the non-canonical range.
HoleIsWhole == result => limit = base + Hole /\ Hole <= base /\ base < End

\* The search gives up only when every hole is taken.
GivesUpOnlyIfFull ==
    pc = "done" /\ ~result =>
        \A b \in {n * Hole : n \in 1 .. End} : b < End =>
            \E g \in Gpus, k \in Kinds :
                two_apertures_overlap(apertures[g][k].base, apertures[g][k].limit, b, b + Hole)

=============================================================================
