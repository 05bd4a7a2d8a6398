-------------------------- MODULE MemHandleProofs ---------------------------
(***************************************************************************)
(* Theorems about MemHandleAperture, for any number of GPUs, any hole size *)
(* and any apertures the kernel reports: a range that is handed out shares *)
(* no address with an aperture, and the search gives up only when every    *)
(* hole is taken.                                                          *)
(*                                                                         *)
(* The invariant says what the loops have established so far: the GPUs     *)
(* before i are clear of the hole that is tried, and every hole before     *)
(* base is blocked by some aperture.                                       *)
(***************************************************************************)
EXTENDS MemHandleAperture, TLAPS

USE GpusAssumption, SpaceAssumption, RangesAssumption

Blocked(b) ==
    \E g \in Gpus, k \in Kinds :
        two_apertures_overlap(apertures[g][k].base, apertures[g][k].limit, b, b + Hole)

IsHole(b) == \E n \in Nat \ {0} : b = n * Hole

LoopInv ==
    /\ pc \in {"hole", "gpu"} \/ result =>
          /\ IsHole(base) /\ limit = base + Hole
          /\ \A b \in Nat : IsHole(b) /\ b < base => Blocked(b)
    /\ pc \in {"hole", "gpu"} => ~result
    /\ pc = "gpu" => base < End /\ \A g \in Gpus : g < i => ~OverlapsGpu(g)
    /\ result => base < End /\ \A g \in Gpus : ~OverlapsGpu(g)
    /\ pc = "done" /\ ~result => \A b \in Nat : IsHole(b) /\ b < End => Blocked(b)

IInv == TypeOK /\ LoopInv

-----------------------------------------------------------------------------
(* Holes *)

\* Two ranges that two_apertures_overlap tells apart share no address.
LEMMA OverlapIsExact ==
    ASSUME NEW s1 \in Nat, NEW l1 \in Nat, NEW s2 \in Nat, NEW l2 \in Nat,
           s1 <= l1, s2 <= l2
    PROVE  two_apertures_overlap(s1, l1, s2, l2)
                <=> \E a \in Nat : InRange(a, s1, l1) /\ InRange(a, s2, l2)
<1>1. ASSUME two_apertures_overlap(s1, l1, s2, l2)
      PROVE  \E a \in Nat : InRange(a, s1, l1) /\ InRange(a, s2, l2)
  <2>1. CASE s1 >= s2 /\ s1 <= l2
    <3>1. InRange(s1, s1, l1) /\ InRange(s1, s2, l2)
      BY <2>1 DEF InRange
    <3> QED
      BY <3>1
  <2>2. CASE s2 >= s1 /\ s2 <= l1
    <3>1. InRange(s2, s1, l1) /\ InRange(s2, s2, l2)
      BY <2>2 DEF InRange
    <3> QED
      BY <3>1
  <2> QED
    BY <1>1, <2>1, <2>2 DEF two_apertures_overlap
<1>2. ASSUME NEW a \in Nat, InRange(a, s1, l1), InRange(a, s2, l2)
      PROVE  two_apertures_overlap(s1, l1, s2, l2)
  BY <1>2 DEF InRange, two_apertures_overlap
<1> QED
  BY <1>1, <1>2

\* Holes are Hole apart: none lies between a hole and the next one.
LEMMA NextHole ==
    ASSUME NEW b \in Nat, NEW c \in Nat, IsHole(b), IsHole(c), c < b + Hole
    PROVE  c <= b
<1>1. PICK n \in Nat \ {0} : b = n * Hole
  BY DEF IsHole
<1>2. PICK m \in Nat \ {0} : c = m * Hole
  BY DEF IsHole
<1>3. CASE m <= n
  <2>1. PICK d \in Nat : n = m + d
    BY <1>3
  <2>2. n * Hole = m * Hole + d * Hole /\ d * Hole >= 0
    BY <2>1
  <2> QED
    BY <1>1, <1>2, <2>2
<1>4. CASE m > n
  <2>1. PICK d \in Nat : m = (n + 1) + d
    <3>1. m - (n + 1) \in Nat /\ m = (n + 1) + (m - (n + 1))
      BY <1>4
    <3> QED
      BY <3>1
  <2>2. m * Hole = (n * Hole + Hole) + d * Hole /\ d * Hole >= 0
    BY <2>1
  <2> QED
    BY <1>1, <1>2, <2>2
<1> QED
  BY <1>3, <1>4

LEMMA HoleAfter ==
    ASSUME NEW b \in Nat, IsHole(b)
    PROVE  IsHole(b + Hole) /\ b + Hole \in Nat /\ Hole <= b
<1>1. PICK n \in Nat \ {0} : b = n * Hole
  BY DEF IsHole
<1>2. b + Hole = (n + 1) * Hole /\ n + 1 \in Nat \ {0}
  BY <1>1
<1>3. PICK d \in Nat : n = 1 + d
  <2>1. n - 1 \in Nat /\ n = 1 + (n - 1)
    OBVIOUS
  <2> QED
    BY <2>1
<1>4. n * Hole = Hole + d * Hole /\ d * Hole >= 0
  BY <1>3
<1> QED
  BY <1>1, <1>2, <1>4 DEF IsHole

-----------------------------------------------------------------------------
(* The invariant *)

LEMMA InitIInv == Init => IInv
<1> SUFFICES ASSUME Init PROVE IInv
  OBVIOUS
<1>1. TypeOK
  <2>1. base \in Nat /\ limit \in Nat /\ i \in 1..(NumGpus + 1)
    BY DEF Init
  <2> QED
    BY <2>1, Zenon DEF Init, TypeOK
<1>2. IsHole(Hole)
  <2>1. Hole = 1 * Hole /\ 1 \in Nat \ {0}
    OBVIOUS
  <2> QED
    BY <2>1, Zenon DEF IsHole
<1>3. \A b \in Nat : IsHole(b) => ~(b < Hole)
  BY HoleAfter
<1> QED
  BY <1>1, <1>2, <1>3 DEF Init, IInv, LoopInv

LEMMA NextIInv == IInv /\ [Next]_memVars => IInv'
<1> SUFFICES ASSUME IInv, [Next]_memVars PROVE IInv'
  OBVIOUS
<1> USE DEF IInv, TypeOK, LoopInv
<1>1. CASE UNCHANGED memVars
  BY <1>1 DEF memVars, IsHole, Blocked, OverlapsGpu
<1>2. CASE TryHole
  BY <1>2 DEF TryHole, IsHole, Blocked, OverlapsGpu, Gpus
<1>3. CASE GpuIsClear
  <2>1. /\ pc = "gpu" /\ i \in Gpus /\ ~OverlapsGpu(i) /\ i' = i + 1
        /\ UNCHANGED <<apertures, base, limit, pc, result>>
    BY <1>3 DEF GpuIsClear
  <2>2. \A g \in Gpus : OverlapsGpu(g)' <=> OverlapsGpu(g)
    BY <2>1 DEF OverlapsGpu
  <2>3. \A g \in Gpus : g < i' => ~OverlapsGpu(g)
    BY <2>1 DEF Gpus
  <2>4. TypeOK'
    BY <2>1 DEF Gpus
  <2>5. /\ IsHole(base)' <=> IsHole(base)
        /\ \A b \in Nat : (IsHole(b)' <=> IsHole(b)) /\ (Blocked(b)' <=> Blocked(b))
    BY <2>1 DEF IsHole, Blocked
  <2> QED
    BY <2>1, <2>2, <2>3, <2>4, <2>5
<1>4. CASE GpuOverlaps
  <2>1. /\ base' = base + Hole /\ limit' = base' + Hole /\ pc' = "hole"
        /\ UNCHANGED <<apertures, i, result>>
        /\ IsHole(base) /\ limit = base + Hole /\ ~result
    BY <1>4 DEF GpuOverlaps
  <2>2. base' \in Nat /\ limit' \in Nat /\ IsHole(base')
    BY <2>1, HoleAfter
  <2>3. Blocked(base)
    BY <1>4, <2>1 DEF GpuOverlaps, OverlapsGpu, Blocked
  <2>4. ASSUME NEW b \in Nat, IsHole(b), b < base'
        PROVE  Blocked(b)
    <3>1. b <= base
      BY <2>1, <2>4, NextHole
    <3>2. CASE b = base
      BY <2>3, <3>2
    <3>3. CASE b < base
      BY <1>4, <2>4, <3>3 DEF GpuOverlaps
    <3> QED
      BY <3>1, <3>2, <3>3
  <2>5. \A b \in Nat : Blocked(b)' <=> Blocked(b)
    BY <2>1 DEF Blocked
  <2>6. TypeOK'
    BY <2>1, <2>2
  <2>7. IsHole(base)' /\ \A b \in Nat : IsHole(b)' <=> IsHole(b)
    BY <2>2 DEF IsHole
  <2>8. ~result' /\ pc' = "hole"
    BY <2>1
  <2> QED
    BY <2>1, <2>4, <2>5, <2>6, <2>7, <2>8
<1>5. CASE Found
  BY <1>5 DEF Found, IsHole, Blocked, OverlapsGpu, Gpus
<1>6. CASE NoHole
  <2>1. /\ pc = "hole" /\ ~(base < End)
        /\ base' = 0 /\ limit' = 0 /\ pc' = "done" /\ result' = FALSE
        /\ UNCHANGED <<apertures, i>>
    BY <1>6 DEF NoHole
  <2>2. \A b \in Nat : IsHole(b) /\ b < End => Blocked(b)
    BY <2>1
  <2> QED
    BY <2>1, <2>2 DEF Blocked, IsHole
<1> QED
  BY <1>1, <1>2, <1>3, <1>4, <1>5, <1>6 DEF Next

-----------------------------------------------------------------------------

\* The types are invariant.
THEOREM MemHandleTypes == Spec => []TypeOK
<1>1. IInv => TypeOK
  BY DEF IInv
<1> QED
  BY <1>1, InitIInv, NextIInv, PTL DEF Spec

\* A range that is handed out shares no address with any aperture of any GPU.
THEOREM HandlesShareNoAddress == Spec => []NoSharedAddress
<1>1. IInv => NoSharedAddress
  <2> SUFFICES ASSUME IInv, result, NEW g \in Gpus, NEW k \in Kinds,
                      NEW a \in apertures[g][k].base .. apertures[g][k].limit,
                      InRange(a, base, limit)
               PROVE  FALSE
    BY DEF NoSharedAddress
  <2>1. apertures[g][k] \in KernelRanges
    BY DEF IInv, TypeOK
  <2>2. /\ apertures[g][k].base \in Nat /\ apertures[g][k].limit \in Nat
        /\ apertures[g][k].base <= apertures[g][k].limit
    BY <2>1
  <2>3. a \in Nat /\ InRange(a, apertures[g][k].base, apertures[g][k].limit)
    BY <2>2 DEF InRange
  <2>4. base \in Nat /\ limit \in Nat /\ base <= limit
    BY DEF IInv, TypeOK, LoopInv
  <2>5. two_apertures_overlap(apertures[g][k].base, apertures[g][k].limit, base, limit)
    BY <2>2, <2>3, <2>4, OverlapIsExact
  <2> QED
    BY <2>5 DEF IInv, LoopInv, OverlapsGpu
<1> QED
  BY <1>1, InitIInv, NextIInv, PTL DEF Spec

\* It is a whole hole of the non-canonical range.
THEOREM HandlesGetAWholeHole == Spec => []HoleIsWhole
<1>1. IInv => HoleIsWhole
  BY HoleAfter DEF IInv, TypeOK, LoopInv, HoleIsWhole
<1> QED
  BY <1>1, InitIInv, NextIInv, PTL DEF Spec

\* The search gives up only when every hole is taken.
THEOREM SearchIsComplete == Spec => []GivesUpOnlyIfFull
<1>1. IInv => GivesUpOnlyIfFull
  <2> SUFFICES ASSUME IInv, pc = "done", ~result,
                      NEW n \in 1..End, n * Hole < End
               PROVE  Blocked(n * Hole)
    BY DEF GivesUpOnlyIfFull, Blocked
  <2>1. n \in Nat \ {0} /\ n * Hole \in Nat
    OBVIOUS
  <2>2. IsHole(n * Hole)
    BY <2>1 DEF IsHole
  <2> QED
    BY <2>1, <2>2 DEF IInv, LoopInv
<1> QED
  BY <1>1, InitIInv, NextIInv, PTL DEF Spec

=============================================================================
