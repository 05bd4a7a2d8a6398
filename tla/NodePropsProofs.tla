--------------------------- MODULE NodePropsProofs ---------------------------
(***************************************************************************)
(* Theorems about NodeProps, for any machine and any number of processors  *)
(* that come and go: what is known of a GPU's engine although its version  *)
(* is cut, that the count of caches is the length of the list, that types  *)
(* hold and a panic has one of four reasons, and that every cache is       *)
(* listed once if no processor comes or goes.                              *)
(*                                                                         *)
(* Lists and tables are filled in the order of the names, so what a loop   *)
(* has done is what lies below its name: the rows of the table (TableInv), *)
(* the count of caches (NodeInv) and the caches listed, which are those    *)
(* whose directories were passed (ListInv).                                *)
(***************************************************************************)
EXTENDS NodeProps, FiniteSetTheorems, TLAPS

-----------------------------------------------------------------------------
(* The engine *)

\* The major version survives every cast, for the kernel's numbers of all versions.
LEMMA MajorSurvives ==
    ASSUME NEW v \in Version
    PROVE  Target(v) \in Nat /\ HSA_GET_GFX_VERSION_MAJOR(Target(v)) = v.major
<1>1. PICK a \in 0..63, b \in 0..99, c \in 0..99 :
        v.major = a /\ v.minor = b /\ v.stepping = c
  BY DEF Version
<1> DEFINE r == b * 100 + c
           n == a * 10000 + r
<1>2. a \in Int /\ 0 <= a /\ a <= 63 /\ r \in Int /\ 0 <= r /\ r <= 9999
  OBVIOUS
<1>3. Target(v) = n
  BY <1>1 DEF Target
<1> HIDE DEF r
<1>4. n \in Nat /\ n \div 10000 = a
  BY <1>2
<1>5. a % 100 = a
  BY <1>2
<1> HIDE DEF n
<1>6. HSA_GET_GFX_VERSION_MAJOR(n) = a
  BY <1>4, <1>5 DEF HSA_GET_GFX_VERSION_MAJOR
<1> QED
  BY <1>1, <1>3, <1>4, <1>6

\* Minor and stepping, whatever they are, are small.
LEMMA CutVersion ==
    ASSUME NEW n \in Nat
    PROVE  /\ HSA_GET_GFX_VERSION_MINOR(n) % 256 \in 0..99
           /\ HSA_GET_GFX_VERSION_STEP(n) % 256 \in 0..99
  BY DEF HSA_GET_GFX_VERSION_MINOR, HSA_GET_GFX_VERSION_STEP, U16

\* Full versions are ordered by their major version first.
LEMMA OrderOfNumbers ==
    ASSUME NEW a \in 0..63, NEW b \in 0..99, NEW c \in 0..99
    PROVE  a * 65536 + b * 256 + c >= 9 * 65536 <=> a >= 9
<1> DEFINE r == b * 256 + c
<1>1. r \in Int /\ r >= 0 /\ r <= 65535
  OBVIOUS
<1>2. a * 65536 + b * 256 + c = a * 65536 + r
  OBVIOUS
<1> HIDE DEF r
<1>3. CASE a >= 9
  BY <1>1, <1>2, <1>3
<1>4. CASE a <= 8
  BY <1>1, <1>2, <1>4
<1> QED
  BY <1>3, <1>4

LEMMA NeededByMajor ==
    ASSUME NEW v \in Version
    PROVE  SvmNeeded(v) <=> v.major >= 9
<1>1. PICK a \in 0..63, b \in 0..99, c \in 0..99 :
        v.major = a /\ v.minor = b /\ v.stepping = c
  BY DEF Version
<1>2. GFX_VERSION_VEGA10 = 9 * 65536
  BY DEF GFX_VERSION_VEGA10, Full
<1>3. HSA_GET_GFX_VERSION_FULL(v) = a * 65536 + b * 256 + c
  BY <1>1 DEF HSA_GET_GFX_VERSION_FULL
<1>4. a * 65536 + b * 256 + c >= 9 * 65536 <=> a >= 9
  BY OrderOfNumbers
<1> QED
  BY <1>1, <1>2, <1>3, <1>4 DEF SvmNeeded

\* The engine of a machine's GPU: its version if the table has it, and in any case
\* one that needs SVM if the GPU does.
LEMMA EngineOfMachine ==
    ASSUME NEW m, Machine(m), m.simds > 0
    PROVE  LET engine == EngineId(m.device, m.gfxv)
           IN  /\ SvmNeeded(engine) <=> SvmNeeded(m.version)
               /\ m.device \in DOMAIN Gfxip => engine = m.version
<1> DEFINE engine == EngineId(m.device, m.gfxv)
<1>1. /\ m.version \in Version /\ m.gfxv \in {0, Target(m.version)} /\ m.simds \in Nat
      /\ m.device \in DOMAIN Gfxip => Gfxip[m.device] = m.version
      /\ m.gfxv = 0 => m.device \in DOMAIN Gfxip
  BY DEF Machine
<1>2. HSA_GET_GFX_VERSION_MAJOR(m.gfxv) \in {0, m.version.major}
  <2>1. HSA_GET_GFX_VERSION_MAJOR(0) = 0
    BY DEF HSA_GET_GFX_VERSION_MAJOR
  <2> QED
    BY <1>1, <2>1, MajorSurvives
<1>3. m.version.major \in 0..63
  BY <1>1 DEF Version
<1>4. CASE m.device \in DOMAIN Gfxip
  <2>1. m.version.major <= 10
    BY <1>1, <1>4, GfxipAssumption
  <2>2. U8(HSA_GET_GFX_VERSION_MAJOR(m.gfxv)) <= 10
    BY <1>2, <1>3, <2>1 DEF U8
  <2>3. engine = m.version
    BY <1>1, <1>4, <2>2 DEF EngineId, find_hsa_gfxip_device
  <2> QED
    BY <2>3
<1>5. CASE m.device \notin DOMAIN Gfxip
  <2>1. m.gfxv = Target(m.version) /\ m.gfxv \in Nat
    BY <1>1, <1>5, MajorSurvives
  <2>2. HSA_GET_GFX_VERSION_MAJOR(m.gfxv) = m.version.major
    BY <1>1, <2>1, MajorSurvives
  <2>3. engine = [major    |-> m.version.major % 64,
                  minor    |-> HSA_GET_GFX_VERSION_MINOR(m.gfxv) % 256,
                  stepping |-> HSA_GET_GFX_VERSION_STEP(m.gfxv) % 256]
    BY <1>5, <2>2 DEF EngineId, find_hsa_gfxip_device
  <2>4. m.version.major % 64 = m.version.major
    BY <1>3
  <2>5. engine \in Version /\ engine.major = m.version.major
    BY <1>3, <2>1, <2>3, <2>4, CutVersion DEF Version
  <2>6. SvmNeeded(engine) <=> SvmNeeded(m.version)
    BY <1>1, <2>5, NeededByMajor
  <2> QED
    BY <1>5, <2>6
<1> QED
  BY <1>4, <1>5

LEMMA InitEngine == Init => EngineDecides
  BY DEF Init, EngineDecides

LEMMA NextEngine ==
    ASSUME machine \in Machines, EngineDecides, [Next]_nodeVars
    PROVE  EngineDecides' /\ (machine \in Machines)'
<1>1. machine' = machine
  BY DEF Next, Reads, nodeVars, kernel, Panic, GoesOffline, GoesOnline, AvailableParallelism,
         ParseCpuinfo, ParsePanics, CpuProps, GpuProps, MemProps, BanksDone, CacheProps,
         CachesDone, ReadDir, EntryGone, CpuBegin, CpuPanics, IndexPanics, IndexSkipped,
         IndexListed, CpuDone, WalkDone
<1>2. CASE GpuProps
  <2>1. Machine(machine) /\ machine.simds > 0
    BY <1>2, MachinesAssumption DEF GpuProps
  <2>2. LET engine == EngineId(machine.device, machine.gfxv)
        IN  /\ node'.engine = engine
            /\ node'.vgpr = hsakmt_get_vgpr_size_per_cu(HSA_GET_GFX_VERSION_FULL(engine))
    BY <1>2 DEF GpuProps
  <2>3. LET engine == EngineId(machine.device, machine.gfxv)
        IN  /\ SvmNeeded(engine) <=> SvmNeeded(machine.version)
            /\ machine.device \in DOMAIN Gfxip => engine = machine.version
    BY <2>1, EngineOfMachine
  <2> QED
    BY <1>1, <2>2, <2>3 DEF EngineDecides
<1>3. CASE CpuProps
  <2>1. machine.simds = 0
    BY <1>3 DEF CpuProps
  <2> QED
    BY <1>1, <2>1 DEF EngineDecides
<1>4. CASE WalkDone
  BY <1>1, <1>4 DEF WalkDone, EngineDecides
<1>5. CASE ~(GpuProps \/ CpuProps \/ WalkDone)
  <2>1. /\ node' = node
        /\ pc \in {"rows", "cpuinfo", "props", "stopped"} =>
              pc' \in {"rows", "cpuinfo", "props", "stopped"}
    BY <1>5 DEF Next, Reads, nodeVars, kernel, Panic, GoesOffline, GoesOnline, AvailableParallelism,
         ParseCpuinfo, ParsePanics, MemProps, BanksDone, CacheProps,
         CachesDone, ReadDir, EntryGone, CpuBegin, CpuPanics, IndexPanics, IndexSkipped,
         IndexListed, CpuDone
  <2> QED
    BY <1>1, <2>1 DEF EngineDecides
<1> QED
  BY <1>1, <1>2, <1>3, <1>4, <1>5

\* Of every GPU it is known whether it needs SVM, and of those in the table how
\* large their registers are.
THEOREM EnginesDecide == Spec => []EngineDecides
<1>1. Init => machine \in Machines /\ EngineDecides
  BY InitEngine DEF Init
<1>2. machine \in Machines /\ EngineDecides /\ [Next]_nodeVars
        => (machine \in Machines /\ EngineDecides)'
  BY NextEngine
<1> QED
  BY <1>1, <1>2, PTL DEF Spec

-----------------------------------------------------------------------------
(* The count of caches *)

LEMMA AppendGrows ==
    ASSUME NEW T, NEW s \in Seq(T), NEW e
    PROVE  Append(s, e) \in Seq(T \cup {e}) /\ Len(Append(s, e)) = Len(s) + 1 /\ Len(s) \in Nat
<1>1. s \in Seq(T \cup {e})
  OBVIOUS
<1> QED
  BY <1>1

LEMMA CachesAreFinite ==
    ASSUME NEW m, Machine(m), NEW c
    PROVE  Cardinality({k \in DOMAIN m.shared : c \in m.shared[k]}) \in Nat
<1>1. m.shared \in Seq(SUBSET m.here)
  BY DEF Machine
<1>2. DOMAIN m.shared = 1 .. Len(m.shared) /\ Len(m.shared) \in Nat
  BY <1>1
<1>3. IsFiniteSet(DOMAIN m.shared)
  BY <1>2, FS_Interval
<1>4. IsFiniteSet({k \in DOMAIN m.shared : c \in m.shared[k]})
  BY <1>3, FS_Subset
<1> QED
  BY <1>4, FS_CardinalityType

\* Of the caches counted for the processor at hand, those still to be read have not
\* been listed; before the walk there are none.
CountInv ==
    /\ \E T : cache \in Seq(T)
    /\ num_idx \in Nat /\ idx \in 0 .. num_idx /\ num_caches \in Int /\ cache_cnt \in Int
    /\ pc \in {"rows", "cpuinfo", "props", "banks", "dir"} => Len(cache) = 0
    /\ pc \in {"rows", "cpuinfo", "props"} => node.NumCaches = 0
    /\ node \in [KFDGpuID : Nat, NumCaches : Int, engine : {node.engine}, vgpr : {node.vgpr}]
    /\ node.NumCaches \in Nat \/ pc = "done"
    /\ pc = "dir" => node.NumCaches = 0
    /\ pc = "cpus" => cache_cnt = Len(cache)
    /\ pc = "index" => cache_cnt + num_caches - (num_idx - idx) = Len(cache)
    /\ CountsAgree

LEMMA NextCount ==
    ASSUME machine \in Machines, CountInv, [Next]_nodeVars
    PROVE  CountInv'
<1> USE DEF CountInv, CountsAgree, kernel, walk
<1>0. PICK T : cache \in Seq(T)
  OBVIOUS
<1>1. CASE UNCHANGED nodeVars
  BY <1>1 DEF nodeVars
<1>2. CASE GoesOffline \/ GoesOnline
  BY <1>2 DEF GoesOffline, GoesOnline
<1>3. CASE AvailableParallelism \/ ParseCpuinfo \/ ParsePanics
  BY <1>3 DEF AvailableParallelism, ParseCpuinfo, ParsePanics, Panic
<1>4. CASE CpuProps
  <2>1. machine.caches \in Nat /\ machine.gpu \in Nat
    BY MachinesAssumption DEF Machine
  <2>2. node' = [KFDGpuID |-> machine.gpu, NumCaches |-> machine.caches,
                 engine |-> node.engine, vgpr |-> node.vgpr]
    BY <1>4 DEF CpuProps
  <2>3. pc = "props" /\ pc' = "banks" /\ UNCHANGED <<cache, walk>>
    BY <1>4 DEF CpuProps
  <2> QED
    BY <2>1, <2>2, <2>3
<1>5. CASE GpuProps
  <2>1. machine.caches \in Nat /\ machine.gpu \in Nat
    BY MachinesAssumption DEF Machine
  <2>2. PICK engine, vgpr : node' = [KFDGpuID |-> machine.gpu, NumCaches |-> machine.caches,
                                     engine |-> engine, vgpr |-> vgpr]
    BY <1>5 DEF GpuProps
  <2>3. pc = "props" /\ pc' = "banks" /\ UNCHANGED <<cache, walk>>
    BY <1>5 DEF GpuProps
  <2> QED
    BY <2>1, <2>2, <2>3
<1>6. CASE MemProps \/ BanksDone \/ CachesDone
  BY <1>6 DEF MemProps, BanksDone, CachesDone
<1>7. CASE CacheProps
  <2>1. PICK e : cache' = Append(cache, e)
    BY <1>7 DEF CacheProps
  <2>2. /\ cache' \in Seq(T \cup {e}) /\ Len(cache') = Len(cache) + 1
        /\ Len(cache) \in Nat
    BY <1>0, <2>1, AppendGrows
  <2> QED
    BY <1>7, <2>2 DEF CacheProps
<1>8. CASE ReadDir \/ EntryGone
  BY <1>8 DEF ReadDir, EntryGone
<1>9. CASE CpuBegin
  <2>1. PICK c : num_idx' = Cardinality(CachesOf(c))
    BY <1>9 DEF CpuBegin
  <2>2. num_idx' \in Nat
    BY <2>1, MachinesAssumption, CachesAreFinite DEF CachesOf
  <2> QED
    BY <1>9, <2>2 DEF CpuBegin
<1>10. CASE CpuPanics \/ IndexPanics
  BY <1>10 DEF CpuPanics, IndexPanics, Panic
<1>11. CASE IndexSkipped
  <2>1. /\ pc = "index" /\ idx < num_idx /\ idx' = idx + 1 /\ num_caches' = num_caches - 1
        /\ UNCHANGED <<pc, node, cache, num_idx, cache_cnt>>
    BY <1>11 DEF IndexSkipped, ReadIndex
  <2>2. Len(cache) \in Nat /\ Len(cache') = Len(cache) /\ \E S : cache' \in Seq(S)
    BY <1>0, <2>1
  <2>3. idx' \in 0 .. num_idx' /\ num_caches' \in Int
    BY <2>1
  <2>4. cache_cnt' + num_caches' - (num_idx' - idx') = Len(cache')
    BY <2>1, <2>2
  <2>5. node' \in [KFDGpuID : Nat, NumCaches : Int, engine : {node'.engine}, vgpr : {node'.vgpr}]
    BY <2>1
  <2> QED
    BY <2>1, <2>2, <2>3, <2>4, <2>5
<1>12. CASE IndexListed
  <2>1. PICK e : cache' = Append(cache, e)
    BY <1>12 DEF IndexListed
  <2>2. /\ cache' \in Seq(T \cup {e}) /\ Len(cache') = Len(cache) + 1
        /\ Len(cache) \in Nat
    BY <1>0, <2>1, AppendGrows
  <2> QED
    BY <1>12, <2>2 DEF IndexListed, ReadIndex
<1>13. CASE CpuDone
  BY <1>13 DEF CpuDone
<1>14. CASE WalkDone
  <2>1. cache_cnt = Len(cache) /\ Len(cache) \in Nat
    BY <1>0, <1>14 DEF WalkDone
  <2>2. node'.NumCaches = cache_cnt
    BY <1>14 DEF WalkDone
  <2> QED
    BY <1>14, <2>1, <2>2 DEF WalkDone
<1> QED
  BY <1>1, <1>2, <1>3, <1>4, <1>5, <1>6, <1>7, <1>8, <1>9, <1>10, <1>11, <1>12, <1>13,
     <1>14 DEF Next, Reads

\* The count that later calls go by is the length of the list of caches.
THEOREM CountsStayTrue == Spec => []CountsAgree
<1>1. Init => machine \in Machines /\ EngineDecides /\ CountInv
  <2>1. Init => cache \in Seq({}) /\ Len(cache) = 0
    BY DEF Init
  <2> QED
    BY <2>1, InitEngine DEF Init, CountInv, CountsAgree, NoNode
<1>2. machine \in Machines /\ EngineDecides /\ CountInv /\ [Next]_nodeVars
        => (machine \in Machines /\ EngineDecides /\ CountInv)'
  BY NextEngine, NextCount
<1>3. CountInv => CountsAgree
  BY DEF CountInv
<1> QED
  BY <1>1, <1>2, <1>3, PTL DEF Spec

-----------------------------------------------------------------------------
(* The elements of a set by their place *)

Below(S, k) == {j \in S : j < k}

LEMMA BelowGrows ==
    ASSUME NEW S \in SUBSET Nat, IsFiniteSet(S), NEW k \in S
    PROVE  /\ Cardinality(Below(S, k)) \in 0 .. Cardinality(S) - 1
           /\ \A l \in S : k < l => Cardinality(Below(S, k)) < Cardinality(Below(S, l))
<1>1. \A l \in S : IsFiniteSet(Below(S, l)) /\ Cardinality(Below(S, l)) \in Nat
  BY FS_Subset, FS_CardinalityType DEF Below
<1>2. /\ IsFiniteSet(S \ {k}) /\ Cardinality(S \ {k}) = Cardinality(S) - 1
      /\ Cardinality(S) \in Nat
  BY FS_RemoveElement, FS_CardinalityType
<1>3. Below(S, k) \in SUBSET (S \ {k})
  BY DEF Below
<1>4. Cardinality(Below(S, k)) <= Cardinality(S) - 1
  BY <1>2, <1>3, FS_Subset
<1>5. ASSUME NEW l \in S, k < l
      PROVE  Cardinality(Below(S, k)) < Cardinality(Below(S, l))
  <2>1. \A j \in S : j < k => j < l
    BY <1>5
  <2>2. Below(S, k) \in SUBSET Below(S, l) /\ Below(S, k) # Below(S, l)
    <3>1. k \in Nat /\ ~(k < k)
      OBVIOUS
    <3>2. k \notin Below(S, k) /\ k \in Below(S, l)
      BY <1>5, <3>1 DEF Below
    <3>3. Below(S, k) \subseteq Below(S, l)
      BY <2>1 DEF Below
    <3> QED
      BY <3>2, <3>3
  <2>3. /\ Cardinality(Below(S, k)) <= Cardinality(Below(S, l))
        /\ Cardinality(Below(S, k)) # Cardinality(Below(S, l))
    BY <1>1, <2>2, FS_Subset
  <2> QED
    BY <1>1, <2>3
<1> QED
  BY <1>1, <1>2, <1>4, <1>5

\* Each place up to the number of elements is taken, by one element.
LEMMA NthIs ==
    ASSUME NEW S \in SUBSET Nat, IsFiniteSet(S), NEW n \in 0 .. Cardinality(S) - 1
    PROVE  /\ Nth(S, n) \in S
           /\ \A k \in S : Cardinality(Below(S, k)) = n <=> k = Nth(S, n)
<1> DEFINE place == [k \in S |-> Cardinality(Below(S, k))]
           T     == 0 .. Cardinality(S) - 1
<1>1. Cardinality(S) \in Nat
  BY FS_CardinalityType
<1>2. IsFiniteSet(T) /\ Cardinality(T) = Cardinality(S)
  <2>1. 0 \in Int /\ Cardinality(S) - 1 \in Int
    BY <1>1
  <2>2. /\ IsFiniteSet(0 .. Cardinality(S) - 1)
        /\ Cardinality(0 .. Cardinality(S) - 1)
              = IF 0 > Cardinality(S) - 1 THEN 0 ELSE (Cardinality(S) - 1) - 0 + 1
    BY <2>1, FS_Interval
  <2> QED
    BY <1>1, <2>2
<1>3. \A k, l \in S : place[k] = place[l] => k = l
  <2> SUFFICES ASSUME NEW k \in S, NEW l \in S, k # l
               PROVE  Cardinality(Below(S, k)) # Cardinality(Below(S, l))
    OBVIOUS
  <2>1. k < l \/ l < k
    OBVIOUS
  <2>2. Cardinality(Below(S, k)) \in T /\ Cardinality(Below(S, l)) \in T
    BY BelowGrows
  <2> QED
    BY <1>1, <2>1, <2>2, BelowGrows
<1>4. place \in Injection(S, T)
  <2>1. place \in [S -> T]
    BY BelowGrows
  <2> QED
    BY <1>3, <2>1 DEF Injection, IsInjective
<1>5. place \in Surjection(S, T)
  BY <1>2, <1>4, FS_Injection
<1>6. \E k \in S : Cardinality(Below(S, k)) = n
  BY <1>5 DEF Surjection
<1>7. Nth(S, n) \in S /\ Cardinality(Below(S, Nth(S, n))) = n
  BY <1>6 DEF Nth, Below
<1> QED
  BY <1>3, <1>7
-----------------------------------------------------------------------------
(* Types *)

LEMMA MachineFacts ==
    ASSUME machine \in Machines
    PROVE  /\ machine.cpus \in SUBSET Nat /\ IsFiniteSet(machine.cpus)
           /\ Cardinality(machine.cpus) \in Nat
           /\ machine.here \subseteq machine.cpus
           /\ \A k \in DOMAIN machine.shared : machine.shared[k] \subseteq machine.here
           /\ \A c : /\ CachesOf(c) \in SUBSET Nat /\ IsFiniteSet(CachesOf(c))
                     /\ CachesOf(c) \subseteq DOMAIN machine.shared
           /\ machine.gpu \in Nat /\ machine.banks \in Nat /\ machine.caches \in Nat
<1>1. Machine(machine)
  BY MachinesAssumption
<1>2. DOMAIN machine.shared = 1 .. Len(machine.shared) /\ Len(machine.shared) \in Nat
  BY <1>1 DEF Machine
<1>3. IsFiniteSet(DOMAIN machine.shared)
  BY <1>2, FS_Interval
<1>4. DOMAIN machine.shared \subseteq Nat
  BY <1>2
<1>5. \A c : /\ CachesOf(c) \in SUBSET Nat /\ IsFiniteSet(CachesOf(c))
             /\ CachesOf(c) \subseteq DOMAIN machine.shared
  <2> TAKE c
  <2>1. CachesOf(c) \in SUBSET DOMAIN machine.shared
    BY DEF CachesOf
  <2> QED
    BY <2>1, <1>3, <1>4, FS_Subset
<1>6. \A k \in DOMAIN machine.shared : machine.shared[k] \subseteq machine.here
  <2>1. machine.shared \in [1 .. Len(machine.shared) -> SUBSET machine.here]
    BY <1>1 DEF Machine
  <2> QED
    BY <2>1, <1>2
<1>7. /\ machine.cpus \in SUBSET Nat /\ IsFiniteSet(machine.cpus)
      /\ machine.here \subseteq machine.cpus
      /\ machine.gpu \in Nat /\ machine.banks \in Nat /\ machine.caches \in Nat
  BY <1>1 DEF Machine
<1> QED
  BY <1>5, <1>6, <1>7, FS_CardinalityType

\* What a step reads of the node, and the number of directories of a processor.
ReadInv ==
    /\ pc = "rows" => DOMAIN cpuinfo = {}
    /\ pc = "banks" => node.KFDGpuID = machine.gpu /\ node.NumCaches = machine.caches
    /\ pc = "caches" => machine.caches > 0
    /\ pc = "index" => num_idx = Cardinality(CachesOf(proc_num))
    /\ changes = 0 => online = machine.cpus

LEMMA CountFacts ==
    ASSUME CountInv
    PROVE  /\ node.NumCaches \in Nat /\ num_idx \in Nat
           /\ node = [KFDGpuID |-> node.KFDGpuID, NumCaches |-> node.NumCaches,
                      engine |-> node.engine, vgpr |-> node.vgpr]
<1>1. PICK T : cache \in Seq(T)
  BY DEF CountInv
<1>2. Len(cache) \in Nat
  BY <1>1
<1> QED
  BY <1>2 DEF CountInv, CountsAgree

LEMMA PropsRead ==
    ASSUME CountInv, CpuProps \/ GpuProps
    PROVE  node'.KFDGpuID = machine.gpu /\ node'.NumCaches = machine.caches
<1>1. CASE CpuProps
  <2>1. node' = [node EXCEPT !.KFDGpuID = machine.gpu, !.NumCaches = machine.caches]
    BY <1>1 DEF CpuProps
  <2> QED
    BY <2>1 DEF CountInv
<1>2. CASE GpuProps
  <2>1. PICK engine, vgpr : node' = [KFDGpuID |-> machine.gpu, NumCaches |-> machine.caches,
                                     engine |-> engine, vgpr |-> vgpr]
    BY <1>2 DEF GpuProps
  <2> QED
    BY <2>1
<1> QED
  BY <1>1, <1>2

LEMMA NextRead ==
    ASSUME TypeOK, CountInv, ReadInv, [Next]_nodeVars
    PROVE  ReadInv' /\ machine' = machine
<1> USE DEF ReadInv, kernel, walk
<1>t. /\ changes \in 0 .. MaxChanges /\ MaxChanges \in Nat
      /\ machine \in Machines
  BY ChangesAssumption DEF TypeOK
<1>f. /\ node.NumCaches \in Nat
      /\ node = [KFDGpuID |-> node.KFDGpuID, NumCaches |-> node.NumCaches,
                 engine |-> node.engine, vgpr |-> node.vgpr]
  BY CountFacts
<1>1. CASE UNCHANGED nodeVars
  BY <1>1 DEF nodeVars, CachesOf
<1>2. CASE GoesOffline \/ GoesOnline
  <2>1. changes' # 0 /\ UNCHANGED <<machine, pc, cpuinfo, node, num_idx, proc_num>>
    BY <1>2, <1>t DEF GoesOffline, GoesOnline
  <2> QED
    BY <2>1 DEF CachesOf
<1>3. CASE AvailableParallelism \/ ParseCpuinfo \/ ParsePanics
  BY <1>3 DEF AvailableParallelism, ParseCpuinfo, ParsePanics, Panic
<1>4. CASE CpuProps \/ GpuProps
  <2>1. /\ pc' = "banks" /\ UNCHANGED <<machine, online, changes>>
        /\ node'.KFDGpuID = machine.gpu /\ node'.NumCaches = machine.caches
    BY <1>4, PropsRead DEF CpuProps, GpuProps
  <2> QED
    BY <2>1
<1>5. CASE MemProps \/ BanksDone \/ CacheProps \/ CachesDone
  BY <1>5 DEF MemProps, BanksDone, CacheProps, CachesDone
<1>6. CASE ReadDir \/ EntryGone \/ CpuPanics \/ IndexPanics
  BY <1>6 DEF ReadDir, EntryGone, CpuPanics, IndexPanics, Panic
<1>7. CASE CpuBegin
  BY <1>7 DEF CpuBegin, CachesOf
<1>8. CASE IndexSkipped \/ IndexListed
  <2>1. UNCHANGED <<machine, online, changes, pc, num_idx, proc_num>> /\ pc = "index"
    BY <1>8 DEF IndexSkipped, IndexListed, ReadIndex
  <2> QED
    BY <2>1 DEF CachesOf
<1>9. CASE CpuDone \/ WalkDone
  BY <1>9 DEF CpuDone, WalkDone
<1> QED
  BY <1>1, <1>2, <1>3, <1>4, <1>5, <1>6, <1>7, <1>8, <1>9 DEF Next, Reads

LEMMA NextTypes ==
    ASSUME TypeOK, CountInv, ReadInv, [Next]_nodeVars
    PROVE  TypeOK'
<1> USE DEF TypeOK, kernel, walk
<1>t. /\ changes \in 0 .. MaxChanges /\ MaxChanges \in Nat /\ machine \in Machines
      /\ online \subseteq machine.cpus /\ online # {}
      /\ IsFiniteSet(online) /\ Cardinality(online) \in 0 .. Cardinality(machine.cpus)
      /\ online \in SUBSET Nat
  <2>1. /\ machine \in Machines /\ online \in SUBSET machine.cpus /\ online # {}
        /\ changes \in 0 .. MaxChanges
    OBVIOUS
  <2>2. /\ machine.cpus \in SUBSET Nat /\ IsFiniteSet(machine.cpus)
        /\ Cardinality(machine.cpus) \in Nat
    BY <2>1, MachineFacts
  <2>3. IsFiniteSet(online) /\ Cardinality(online) <= Cardinality(machine.cpus)
    BY <2>1, <2>2, FS_Subset
  <2>4. Cardinality(online) \in Nat
    BY <2>3, FS_CardinalityType
  <2> QED
    BY <2>1, <2>2, <2>3, <2>4, ChangesAssumption
<1>m. /\ machine.cpus \in SUBSET Nat /\ IsFiniteSet(machine.cpus)
      /\ Cardinality(machine.cpus) \in Nat
      /\ machine.here \subseteq machine.cpus
      /\ machine.gpu \in Nat /\ machine.banks \in Nat /\ machine.caches \in Nat
  BY <1>t, MachineFacts
<1>f. /\ node.NumCaches \in Nat /\ num_idx \in Nat
      /\ node = [KFDGpuID |-> node.KFDGpuID, NumCaches |-> node.NumCaches,
                 engine |-> node.engine, vgpr |-> node.vgpr]
  BY CountFacts
<1>1. CASE UNCHANGED nodeVars
  BY <1>1 DEF nodeVars
<1>2. CASE GoesOffline
  <2>1. online' \in (SUBSET machine.cpus) \ {{}}
    <3>1. PICK c \in online : online' = online \ {c}
      BY <1>2 DEF GoesOffline
    <3>2. online = {c} => Cardinality(online) = 1
      BY FS_Singleton
    <3>3. Cardinality(online) > 1
      BY <1>2 DEF GoesOffline
    <3>4. online # {c}
      BY <3>2, <3>3
    <3> QED
      BY <1>t, <3>1, <3>4
  <2> QED
    BY <1>2, <1>t, <2>1 DEF GoesOffline
<1>3. CASE GoesOnline
  <2>1. PICK c \in machine.cpus : online' = online \cup {c}
    BY <1>3 DEF GoesOnline, Offline
  <2>2. online' \in (SUBSET machine.cpus) \ {{}}
    BY <1>t, <2>1
  <2> QED
    BY <1>3, <1>t, <2>2 DEF GoesOnline
<1>4. CASE AvailableParallelism
  <2>1. /\ rows' \in 0 .. Cardinality(machine.cpus) /\ DOMAIN cpuinfo' = {}
        /\ pc' = "cpuinfo" /\ UNCHANGED <<kernel, cpuinfo, node, mem, cache, names, walk>>
    BY <1>4, <1>t, <1>m DEF AvailableParallelism, ReadInv
  <2> QED
    BY <2>1
<1>5. CASE ParseCpuinfo
  <2>1. \A r \in 0 .. rows - 1 : Listed(r) \in machine.cpus \cup {NoApicId}
    <3> SUFFICES ASSUME NEW r \in 0 .. rows - 1, r < Cardinality(online)
                 PROVE  Nth(online, r) \in machine.cpus
      BY DEF Listed
    <3>1. r \in 0 .. Cardinality(online) - 1
      BY <1>t
    <3> QED
      BY <3>1, <1>t, NthIs
  <2> QED
    BY <1>5, <2>1 DEF ParseCpuinfo
<1>6. CASE ParsePanics \/ CpuPanics \/ IndexPanics
  BY <1>6 DEF ParsePanics, CpuPanics, IndexPanics, Panic
<1>7. CASE CpuProps \/ GpuProps
  <2>1. /\ pc' = "banks" /\ UNCHANGED <<kernel, rows, cpuinfo, mem, names, walk>>
        /\ node'.KFDGpuID = machine.gpu /\ node'.NumCaches = machine.caches
    BY <1>7, PropsRead DEF CpuProps, GpuProps
  <2> QED
    BY <1>m, <2>1
<1>8. CASE MemProps
  BY <1>8, <1>m DEF MemProps
<1>9. CASE BanksDone \/ CacheProps \/ CachesDone
  BY <1>9 DEF BanksDone, CacheProps, CachesDone
<1>10. CASE ReadDir \/ EntryGone
  BY <1>10, <1>m DEF ReadDir, EntryGone
<1>11. CASE CpuBegin
  <2>1. num_idx' \in Nat
    BY <1>11, <1>t, MachineFacts, FS_CardinalityType DEF CpuBegin
  <2> QED
    BY <1>11, <1>t, <2>1 DEF CpuBegin
<1>12. CASE IndexSkipped \/ IndexListed
  <2>1. /\ pc = "index" /\ idx < num_idx /\ idx' = idx + 1
        /\ UNCHANGED <<kernel, pc, rows, cpuinfo, node, mem, names, proc_num, num_idx>>
    BY <1>12 DEF IndexSkipped, IndexListed, ReadIndex
  <2> QED
    BY <2>1, <1>f
<1>13. CASE CpuDone
  BY <1>13 DEF CpuDone
<1>14. CASE WalkDone
  <2>1. /\ node'.KFDGpuID = node.KFDGpuID /\ node'.NumCaches = cache_cnt
        /\ pc' = "done" /\ UNCHANGED <<kernel, rows, cpuinfo, mem, names, walk>>
    BY <1>14, <1>f DEF WalkDone
  <2>2. CountInv'
    BY <1>t, NextCount, <1>14 DEF Next, Reads
  <2>3. node'.NumCaches \in Nat
    <3>1. PICK T : cache' \in Seq(T)
      BY <2>2 DEF CountInv
    <3> QED
      BY <2>1, <2>2, <3>1 DEF CountInv, CountsAgree
  <2> QED
    BY <2>1, <2>3
<1> QED
  BY <1>1, <1>2, <1>3, <1>4, <1>5, <1>6, <1>7, <1>8, <1>9, <1>10, <1>11, <1>12, <1>13,
     <1>14 DEF Next, Reads

NodeInv == TypeOK /\ CountInv /\ ReadInv

LEMMA InitNodeInv == Init => NodeInv
<1> SUFFICES ASSUME Init PROVE NodeInv
  OBVIOUS
<1>1. machine \in Machines /\ online = machine.cpus
  BY DEF Init
<1>2. /\ machine.cpus \in SUBSET Nat /\ Cardinality(machine.cpus) \in Nat
      /\ machine.gpu \in Nat /\ machine.banks \in Nat
  BY <1>1, MachineFacts
<1>3. machine.cpus # {}
  BY <1>1, MachinesAssumption DEF Machine
<1>4. DOMAIN cpuinfo = {}
  BY DEF Init
<1>5. TypeOK
  BY <1>1, <1>2, <1>3, <1>4, ChangesAssumption DEF Init, TypeOK, NoNode
<1>6. CountInv
  <2>1. cache \in Seq({}) /\ Len(cache) = 0
    BY DEF Init
  <2> QED
    BY <2>1 DEF Init, CountInv, CountsAgree, NoNode
<1> QED
  BY <1>4, <1>5, <1>6 DEF Init, NodeInv, ReadInv

LEMMA NextNodeInv ==
    ASSUME NodeInv, [Next]_nodeVars
    PROVE  NodeInv'
BY NextTypes, NextCount, NextRead DEF NodeInv, TypeOK

LEMMA NodeInvHolds == Spec => []NodeInv
<1>1. NodeInv /\ [Next]_nodeVars => NodeInv'
  BY NextNodeInv
<1> QED
  BY <1>1, InitNodeInv, PTL DEF Spec

\* The table of /proc/cpuinfo never grows over the rows counted for it, nor the walk
\* over the directories counted, whichever processors come and go.
THEOREM NodeTypes == Spec => []TypeOK
<1>1. NodeInv => TypeOK
  BY DEF NodeInv
<1> QED
  BY <1>1, NodeInvHolds, PTL

-----------------------------------------------------------------------------
(* Panics *)

\* The directory at hand is that of a cache of the processor at hand.
LEMMA ThisIs ==
    ASSUME NodeInv, ReadIndex
    PROVE  /\ This \in CachesOf(proc_num) /\ This \in DOMAIN machine.shared
           /\ \A k \in CachesOf(proc_num) :
                 Cardinality(Below(CachesOf(proc_num), k)) = idx <=> k = This
           /\ changes = 0 => Sharing = machine.shared[This]
           /\ proc_num \in machine.cpus
<1> DEFINE C == CachesOf(proc_num)
<1>1. /\ machine \in Machines /\ pc = "index" /\ idx < num_idx /\ idx \in 0 .. num_idx
      /\ num_idx = Cardinality(C) /\ num_idx \in Nat /\ proc_num \in machine.cpus
      /\ changes = 0 => online = machine.cpus
  BY CountFacts DEF NodeInv, TypeOK, ReadInv, ReadIndex
<1>2. C \in SUBSET Nat /\ IsFiniteSet(C) /\ C \subseteq DOMAIN machine.shared
  BY <1>1, MachineFacts
<1>3. idx \in 0 .. Cardinality(C) - 1
  BY <1>1
<1>4. This \in C /\ \A k \in C : Cardinality(Below(C, k)) = idx <=> k = This
  BY <1>2, <1>3, NthIs DEF This
<1>5. machine.shared[This] \subseteq machine.cpus
  BY <1>1, <1>2, <1>4, MachineFacts
<1> QED
  BY <1>1, <1>2, <1>4, <1>5 DEF Sharing

LEMMA NextPanics ==
    ASSUME NodeInv, PanicsForAReason, [Next]_nodeVars
    PROVE  PanicsForAReason'
<1> DEFINE Reason ==
        \/ changes > 0 \/ ~NoGaps \/ rows < Cardinality(machine.cpus)
        \/ \E k \in DOMAIN machine.shared :
              Blocks(machine.shared[k]) = 2 /\ SmallestOf(machine.shared[k]) + 1 \in machine.shared[k]
<1>1. /\ machine \in Machines /\ changes \in 0 .. MaxChanges /\ MaxChanges \in Nat
      /\ names \subseteq machine.cpus /\ (changes = 0 => online = machine.cpus)
      /\ rows \in 0 .. Cardinality(machine.cpus)
      /\ Cardinality(machine.cpus) \in Nat
  BY ChangesAssumption, MachineFacts DEF NodeInv, TypeOK, ReadInv
<1>2. CASE ParsePanics \/ CpuPanics \/ IndexPanics
  <2>1. UNCHANGED <<machine, changes, rows>>
    BY <1>2 DEF ParsePanics, CpuPanics, IndexPanics, Panic, kernel
  <2>2. Reason
    <3> SUFFICES ASSUME changes = 0, NoGaps, ~(rows < Cardinality(machine.cpus)),
                        online = machine.cpus
                 PROVE  \E k \in DOMAIN machine.shared :
                           /\ Blocks(machine.shared[k]) = 2
                           /\ SmallestOf(machine.shared[k]) + 1 \in machine.shared[k]
      BY <1>1
    <3>1. ~ParsePanics
      BY <1>1 DEF ParsePanics
    <3>2. ~CpuPanics
      BY <1>1 DEF CpuPanics
    <3>3. ReadIndex /\ (proc_num \notin online \/ Unparsable \/ proc_num >= rows)
      BY <1>2, <3>1, <3>2 DEF IndexPanics
    <3>4. /\ This \in DOMAIN machine.shared /\ Sharing = machine.shared[This]
          /\ proc_num \in machine.cpus
      BY <3>3, ThisIs
    <3>5. proc_num < rows
      <4>1. machine.cpus = 0 .. Cardinality(machine.cpus) - 1
        BY DEF NoGaps
      <4> QED
        BY <1>1, <3>4, <4>1
    <3>6. Unparsable
      <4>1. rows \in Nat /\ proc_num \in Nat
        BY <1>1, <3>4, MachineFacts
      <4> QED
        BY <3>3, <3>4, <3>5, <4>1
    <3>7. Elements = Blocks(Sharing)
      BY DEF Elements, Starts, Blocks
    <3> QED
      BY <3>4, <3>6, <3>7 DEF Unparsable, IsRange
  <2> QED
    BY <2>1, <2>2 DEF PanicsForAReason, NoGaps, Blocks, SmallestOf, Nth
<1>3. CASE ~(ParsePanics \/ CpuPanics \/ IndexPanics)
  <2>1. pc' = "stopped" => pc = "stopped" /\ UNCHANGED <<machine, changes, rows>>
    BY <1>3 DEF Next, Reads, nodeVars, kernel, GoesOffline, GoesOnline, AvailableParallelism,
         ParseCpuinfo, CpuProps, GpuProps, MemProps, BanksDone, CacheProps, CachesDone,
         ReadDir, EntryGone, CpuBegin, IndexSkipped, IndexListed, ReadIndex, CpuDone, WalkDone
  <2> QED
    BY <2>1 DEF PanicsForAReason, NoGaps, Blocks, SmallestOf, Nth
<1> QED
  BY <1>2, <1>3

\* The call panics only where processors come or go, their numbers have gaps, the
\* process may not use all of them, or a list has two elements and the first is a
\* range, for every machine.
THEOREM PanicsHaveReasons == Spec => []PanicsForAReason
<1>1. Init => PanicsForAReason
  BY DEF Init, PanicsForAReason
<1>2. NodeInv /\ PanicsForAReason /\ [Next]_nodeVars => PanicsForAReason'
  BY NextPanics
<1> QED
  BY <1>1, <1>2, NodeInvHolds, PTL DEF Spec

-----------------------------------------------------------------------------
(* The caches of a walk that nothing disturbs *)

\* The caches that are listed to a processor, the smallest of those that share it.
Listable == {k \in DOMAIN machine.shared : Blocks(machine.shared[k]) \in {1, 2}}

\* Those of them whose directory of that processor has been read.
Passed ==
    {k \in Listable :
        \/ pc = "done"
        \/ /\ SmallestOf(machine.shared[k]) \notin names
           /\ pc = "index" /\ SmallestOf(machine.shared[k]) = proc_num =>
                 Cardinality(Below(CachesOf(proc_num), k)) < idx}

Undisturbed == machine.gpu = 0 /\ machine.caches = 0 /\ changes = 0

\* The table of /proc/cpuinfo is by number, if the numbers have no gaps.
TableInv ==
    changes = 0 /\ NoGaps /\ pc \notin {"rows", "cpuinfo", "stopped"} =>
        DOMAIN cpuinfo = 0 .. rows - 1 /\ \A r \in DOMAIN cpuinfo : cpuinfo[r] = r

ListInv ==
    Undisturbed /\ pc \in {"cpus", "index", "done"} =>
        /\ names \subseteq machine.here
        /\ pc = "index" => proc_num \notin names
        /\ {cache[j].id : j \in DOMAIN cache} = Passed
        /\ \A i, j \in DOMAIN cache : cache[i].id = cache[j].id => i = j
        /\ NoGaps => \A j \in DOMAIN cache :
              cache[j].apicid = SmallestOf(machine.shared[cache[j].id])

LEMMA OwnerShares ==
    ASSUME machine \in Machines, NEW k \in Listable
    PROVE  /\ SmallestOf(machine.shared[k]) \in machine.shared[k]
           /\ SmallestOf(machine.shared[k]) \in machine.here
           /\ k \in CachesOf(SmallestOf(machine.shared[k]))
           /\ k \in DOMAIN machine.shared
<1> DEFINE S == machine.shared[k]
<1>1. k \in DOMAIN machine.shared /\ Cardinality({n \in S : n - 1 \notin S}) \in {1, 2}
  BY DEF Listable, Blocks
<1>2. /\ S \subseteq machine.here /\ machine.here \subseteq machine.cpus
      /\ machine.cpus \in SUBSET Nat /\ IsFiniteSet(machine.cpus)
  BY <1>1, MachineFacts
<1>3. S \in SUBSET Nat /\ IsFiniteSet(S)
  BY <1>2, FS_Subset
<1>4. S # {}
  <2> SUFFICES ASSUME S = {} PROVE FALSE
    OBVIOUS
  <2>1. {n \in S : n - 1 \notin S} = {}
    OBVIOUS
  <2>2. Cardinality({n \in S : n - 1 \notin S}) = 0
    BY <2>1, FS_EmptySet
  <2> QED
    BY <1>1, <2>2
<1>5. Cardinality(S) \in Nat /\ Cardinality(S) # 0
  BY <1>3, <1>4, FS_CardinalityType, FS_EmptySet
<1>6. 0 \in 0 .. Cardinality(S) - 1
  BY <1>5
<1>7. Nth(S, 0) \in S
  BY <1>3, <1>6, NthIs
<1> QED
  BY <1>1, <1>2, <1>7 DEF SmallestOf, CachesOf

\* The table when no processor is missing from it and all rows are filled.
LEMMA NextTable ==
    ASSUME NodeInv, TableInv, [Next]_nodeVars
    PROVE  TableInv'
<1>1. /\ machine \in Machines /\ changes \in 0 .. MaxChanges /\ MaxChanges \in Nat
      /\ rows \in 0 .. Cardinality(machine.cpus)
      /\ (changes = 0 => online = machine.cpus)
  BY ChangesAssumption DEF NodeInv, TypeOK, ReadInv
<1>2. machine' = machine
  BY NextRead DEF NodeInv
<1>3. CASE ParseCpuinfo
  <2> SUFFICES ASSUME changes = 0, NoGaps
               PROVE  DOMAIN cpuinfo' = 0 .. rows' - 1 /\ \A r \in DOMAIN cpuinfo' : cpuinfo'[r] = r
    BY <1>2, <1>3 DEF TableInv, NoGaps, ParseCpuinfo, kernel
  <2> DEFINE n == Cardinality(machine.cpus)
  <2>1. /\ online = 0 .. n - 1 /\ Cardinality(online) = n /\ n \in Nat
        /\ online \in SUBSET Nat /\ IsFiniteSet(online)
    BY <1>1, MachineFacts DEF NoGaps
  <2>2. rows = n /\ rows' = rows /\ cpuinfo' = [r \in 0 .. rows - 1 |-> Listed(r)]
    BY <1>1, <1>3, <2>1 DEF ParseCpuinfo
  <2>3. ASSUME NEW r \in 0 .. rows - 1
        PROVE  Listed(r) = r
    <3>1. r \in Nat /\ r < n /\ r \in online /\ r \in 0 .. Cardinality(online) - 1
      BY <2>1, <2>2
    <3>2. Below(online, r) = 0 .. r - 1
      BY <2>1, <3>1 DEF Below
    <3>3. Cardinality(0 .. r - 1) = IF 0 > r - 1 THEN 0 ELSE (r - 1) - 0 + 1
      BY <3>1, FS_Interval
    <3>4. Cardinality(Below(online, r)) = r
      BY <3>1, <3>2, <3>3
    <3>5. r = Nth(online, r)
      BY <2>1, <3>1, <3>4, NthIs
    <3> QED
      BY <2>1, <3>1, <3>5 DEF Listed
  <2> QED
    BY <2>2, <2>3
<1>4. CASE GoesOffline \/ GoesOnline
  <2>1. changes' # 0
    BY <1>1, <1>4 DEF GoesOffline, GoesOnline
  <2> QED
    BY <2>1 DEF TableInv
<1>5. CASE ~(ParseCpuinfo \/ GoesOffline \/ GoesOnline)
  <2>1. \/ pc' \in {"cpuinfo", "stopped"}
        \/ /\ UNCHANGED <<changes, cpuinfo, rows>>
           /\ pc \in {"rows", "cpuinfo", "stopped"} => pc' \in {"rows", "cpuinfo", "stopped"}
    BY <1>5 DEF Next, Reads, nodeVars, kernel, Panic, AvailableParallelism, ParsePanics,
         CpuProps, GpuProps, MemProps, BanksDone, CacheProps, CachesDone, ReadDir, EntryGone,
         CpuBegin, CpuPanics, IndexPanics, IndexSkipped, IndexListed, CpuDone, WalkDone
  <2> QED
    BY <1>2, <2>1 DEF TableInv, NoGaps
<1> QED
  BY <1>3, <1>4, <1>5

\* The directory at hand is listed if its cache's processor is the one at hand.
LEMMA OwnerOfThis ==
    ASSUME NodeInv, ReadIndex, changes = 0
    PROVE  /\ First = proc_num <=> This \in Listable /\ SmallestOf(machine.shared[This]) = proc_num
           /\ This \in Listable => First = SmallestOf(machine.shared[This])
<1>1. /\ This \in DOMAIN machine.shared /\ Sharing = machine.shared[This]
      /\ proc_num \in machine.cpus /\ machine \in Machines
  BY ThisIs DEF NodeInv, TypeOK
<1>2. proc_num \in Nat
  BY <1>1, MachineFacts
<1>3. Elements = Blocks(machine.shared[This])
  BY <1>1 DEF Elements, Starts, Blocks
<1>4. First = IF This \in Listable THEN SmallestOf(machine.shared[This]) ELSE -1
  BY <1>1, <1>3 DEF First, Listable
<1> QED
  BY <1>2, <1>4

LEMMA NextList ==
    ASSUME NodeInv, TableInv, ListInv, [Next]_nodeVars
    PROVE  ListInv'
<1>1. /\ machine \in Machines /\ changes \in 0 .. MaxChanges /\ MaxChanges \in Nat
      /\ names \subseteq machine.cpus
      /\ (changes = 0 => online = machine.cpus)
      /\ (pc = "banks" => node.KFDGpuID = machine.gpu /\ node.NumCaches = machine.caches)
      /\ (pc = "caches" => machine.caches > 0)
      /\ (pc = "index" => num_idx = Cardinality(CachesOf(proc_num)) /\ proc_num \in machine.cpus)
      /\ machine' = machine
  BY ChangesAssumption, NextRead DEF NodeInv, TypeOK, ReadInv
<1>2. PICK T : cache \in Seq(T)
  BY DEF NodeInv, CountInv
<1>3. /\ machine.here \subseteq machine.cpus /\ machine.cpus \in SUBSET Nat
      /\ machine.gpu \in Nat /\ machine.caches \in Nat
  BY <1>1, MachineFacts
<1>4. /\ Listable' = Listable /\ (NoGaps <=> NoGaps')
      /\ \A k : SmallestOf(machine'.shared[k]) = SmallestOf(machine.shared[k])
  BY <1>1 DEF Listable, NoGaps
<1>5. \A k \in Listable : /\ SmallestOf(machine.shared[k]) \in machine.here
                          /\ k \in CachesOf(SmallestOf(machine.shared[k]))
  BY <1>1, OwnerShares
<1> DEFINE Owner(k) == SmallestOf(machine.shared[k])
           Ids      == {cache[j].id : j \in DOMAIN cache}
<1> SUFFICES ASSUME Undisturbed', pc' \in {"cpus", "index", "done"}
             PROVE  /\ names' \subseteq machine.here
                    /\ pc' = "index" => proc_num' \notin names'
                    /\ {cache'[j].id : j \in DOMAIN cache'} = Passed'
                    /\ \A i, j \in DOMAIN cache' : cache'[i].id = cache'[j].id => i = j
                    /\ NoGaps => \A j \in DOMAIN cache' : cache'[j].apicid = Owner(cache'[j].id)
  BY <1>1, <1>4 DEF ListInv
<1>6. machine.gpu = 0 /\ machine.caches = 0 /\ changes' = 0
  BY <1>1 DEF Undisturbed
<1>7. changes = 0 => Undisturbed /\ online = machine.cpus
  BY <1>1, <1>6 DEF Undisturbed
\* A step that changes neither the list nor, of the caches that are listed, which
\* have been passed.
<1>8. ASSUME UNCHANGED <<changes, cache>>, pc \in {"cpus", "index", "done"}, Passed' = Passed,
             names' \subseteq names, pc' = "index" => proc_num' \notin names'
      PROVE  /\ names' \subseteq machine.here
             /\ pc' = "index" => proc_num' \notin names'
             /\ {cache'[j].id : j \in DOMAIN cache'} = Passed'
             /\ \A i, j \in DOMAIN cache' : cache'[i].id = cache'[j].id => i = j
             /\ NoGaps => \A j \in DOMAIN cache' : cache'[j].apicid = Owner(cache'[j].id)
  BY <1>6, <1>7, <1>8 DEF ListInv
<1>9. CASE UNCHANGED nodeVars
  <2>1. Passed' = Passed
    BY <1>4, <1>9 DEF Passed, nodeVars, kernel, walk, CachesOf
  <2> QED
    BY <1>6, <1>7, <1>9, <2>1 DEF ListInv, nodeVars, kernel, walk
<1>10. CASE GoesOffline \/ GoesOnline
  BY <1>1, <1>6, <1>10 DEF GoesOffline, GoesOnline
<1>11. CASE ReadDir
  <2>1. names' = machine.here /\ pc' = "cpus" /\ UNCHANGED <<changes, cache>> /\ pc = "dir"
    BY <1>3, <1>6, <1>7, <1>11 DEF ReadDir, kernel
  <2>2. Len(cache) = 0
    BY <2>1 DEF NodeInv, CountInv
  <2>3. DOMAIN cache' = {}
    BY <1>2, <2>1, <2>2
  <2>4. Passed' = {}
    BY <1>4, <1>5, <2>1 DEF Passed
  <2> QED
    BY <2>1, <2>3, <2>4
<1>12. CASE EntryGone
  BY <1>1, <1>6, <1>7, <1>12 DEF EntryGone, kernel
<1>13. CASE CpuBegin
  <2>1. PICK c \in names : /\ names' = names \ {c} /\ proc_num' = c /\ idx' = 0
                           /\ pc = "cpus" /\ pc' = "index" /\ UNCHANGED <<changes, cache>>
    BY <1>13 DEF CpuBegin, kernel
  <2>2. \A k : Cardinality(Below(CachesOf(c), k)) \in Nat
    <3> TAKE k
    <3>1. IsFiniteSet(CachesOf(c))
      BY <1>1, MachineFacts
    <3>2. Below(CachesOf(c), k) \in SUBSET CachesOf(c)
      BY DEF Below
    <3> QED
      BY <3>1, <3>2, FS_Subset, FS_CardinalityType
  <2>3. CachesOf(proc_num)' = CachesOf(c)
    BY <1>1, <2>1 DEF CachesOf
  <2>4. Passed' = Passed
    <3>1. Passed = {k \in Listable : Owner(k) \notin names}
      BY <2>1 DEF Passed
    <3>2. Passed' = {k \in Listable :
                       /\ Owner(k) \notin names \ {c}
                       /\ Owner(k) = c => Cardinality(Below(CachesOf(c), k)) < 0}
      BY <1>4, <2>1, <2>3 DEF Passed
    <3>3. \A k : ~(Cardinality(Below(CachesOf(c), k)) < 0)
      BY <2>2
    <3> QED
      BY <2>1, <3>1, <3>2, <3>3
  <2> QED
    BY <1>8, <2>1, <2>4
<1>14. CASE IndexSkipped \/ IndexListed
  <2>1. /\ ReadIndex /\ pc = "index" /\ UNCHANGED <<changes, names, pc, proc_num>>
        /\ idx' = idx + 1 /\ idx \in Nat
    BY <1>14 DEF IndexSkipped, IndexListed, ReadIndex, kernel, NodeInv, CountInv
  <2>2. /\ changes = 0 /\ Undisturbed /\ online = machine.cpus
    BY <1>6, <1>7, <2>1
  <2> DEFINE C        == CachesOf(proc_num)
             Place(k) == Cardinality(Below(C, k))
  <2>3. /\ This \in C /\ \A k \in C : Place(k) \in Nat
        /\ \A k \in C : Place(k) = idx <=> k = This
    <3>1. /\ This \in C /\ \A k \in C : Place(k) = idx <=> k = This
      BY <2>1, ThisIs
    <3>2. C \in SUBSET Nat /\ IsFiniteSet(C)
      BY <1>1, MachineFacts
    <3>3. \A k \in C : Place(k) \in Nat
      <4> TAKE k \in C
      <4>1. IsFiniteSet(Below(C, k))
        BY <3>2, FS_Subset DEF Below
      <4> QED
        BY <4>1, FS_CardinalityType
    <3> QED
      BY <3>1, <3>3
  <2>4. Passed = {k \in Listable : /\ Owner(k) \notin names
                                   /\ Owner(k) = proc_num => Place(k) < idx}
    BY <2>1 DEF Passed
  <2>5. CachesOf(proc_num)' = C
    BY <1>1, <2>1 DEF CachesOf
  <2>6. Passed' = {k \in Listable : /\ Owner(k) \notin names
                                    /\ Owner(k) = proc_num => Place(k) < idx + 1}
    BY <1>4, <2>1, <2>5 DEF Passed
  <2>7. proc_num \notin names /\ names \subseteq machine.here
    BY <2>1, <2>2 DEF ListInv
  <2>8. \A k \in C : k # This => (Place(k) < idx + 1 <=> Place(k) < idx)
    BY <2>1, <2>3
  <2>9. \A k \in Listable : Owner(k) = proc_num => k \in C
    BY <1>5
  <2>10. Place(This) < idx + 1 /\ ~(Place(This) < idx)
    BY <2>1, <2>3
  <2> HIDE DEF C, Place
  <2>11. CASE IndexSkipped
    <3>1. ~(This \in Listable /\ Owner(This) = proc_num) /\ UNCHANGED cache
      BY <2>2, <2>11, OwnerOfThis DEF IndexSkipped
    <3>2. Passed' = Passed
      BY <2>4, <2>6, <2>8, <2>9, <3>1
    <3> QED
      BY <1>8, <2>1, <2>7, <3>1, <3>2
  <2>12. CASE IndexListed
    <3> DEFINE e == [id |-> This, apicid |-> Row]
    <3>1. This \in Listable /\ Owner(This) = proc_num /\ proc_num < rows
      BY <2>2, <2>12, OwnerOfThis DEF IndexListed
    <3>2. Passed' = Passed \cup {This} /\ This \notin Passed
      BY <2>4, <2>6, <2>7, <2>8, <2>9, <2>10, <3>1
    <3>3. Ids = Passed /\ \A i, j \in DOMAIN cache : cache[i].id = cache[j].id => i = j
      BY <2>1, <2>2 DEF ListInv
    <3>4. /\ DOMAIN cache = 1 .. Len(cache) /\ Len(cache) \in Nat
          /\ DOMAIN cache' = 1 .. Len(cache) + 1
          /\ cache'[Len(cache) + 1] = e
          /\ \A j \in DOMAIN cache : cache'[j] = cache[j]
      <4>1. cache' = Append(cache, e)
        BY <2>12 DEF IndexListed
      <4> QED
        BY <1>2, <4>1
    <3>5. /\ Len(cache) + 1 \notin DOMAIN cache
          /\ DOMAIN cache' = DOMAIN cache \cup {Len(cache) + 1}
      BY <3>4
    <3>6. e.id = This /\ e.apicid = Row
      OBVIOUS
    <3> HIDE DEF e
    <3>7. {cache'[j].id : j \in DOMAIN cache'} = Passed'
      BY <3>2, <3>3, <3>4, <3>5, <3>6
    <3>8. \A j \in DOMAIN cache : cache[j].id # This
      BY <3>2, <3>3
    <3>9. \A i, j \in DOMAIN cache' : cache'[i].id = cache'[j].id => i = j
      BY <3>3, <3>4, <3>5, <3>6, <3>8
    <3>10. ASSUME NoGaps
           PROVE  \A j \in DOMAIN cache' : cache'[j].apicid = Owner(cache'[j].id)
      <4>1. \A j \in DOMAIN cache : cache[j].apicid = Owner(cache[j].id)
        BY <2>1, <2>2, <3>10 DEF ListInv
      <4>2. DOMAIN cpuinfo = 0 .. rows - 1 /\ \A r \in DOMAIN cpuinfo : cpuinfo[r] = r
        BY <2>1, <2>2, <3>10 DEF TableInv
      <4>3. proc_num \in Nat /\ rows \in Int
        BY <1>1, <1>3, <2>1, MachineFacts DEF NodeInv, TypeOK
      <4>4. Row = proc_num
        BY <3>1, <4>2, <4>3 DEF Row
      <4> QED
        BY <3>1, <3>4, <3>5, <3>6, <4>1, <4>4
    <3> QED
      BY <2>1, <2>7, <3>7, <3>9, <3>10
  <2> QED
    BY <1>14, <2>11, <2>12
<1>15. CASE CpuDone
  <2>1. /\ pc = "index" /\ idx = num_idx /\ pc' = "cpus"
        /\ UNCHANGED <<changes, names, cache>>
    BY <1>15 DEF CpuDone, kernel
  <2> DEFINE C == CachesOf(proc_num)
  <2>2. \A k \in C : Cardinality(Below(C, k)) < idx
    <3> TAKE k \in C
    <3>1. C \in SUBSET Nat /\ IsFiniteSet(C)
      BY <1>1, MachineFacts
    <3>2. Cardinality(Below(C, k)) \in 0 .. Cardinality(C) - 1 /\ Cardinality(C) \in Nat
      BY <3>1, BelowGrows, FS_CardinalityType
    <3>3. idx = Cardinality(C)
      BY <1>1, <2>1
    <3> QED
      BY <3>2, <3>3
  <2>3. Passed = {k \in Listable : /\ Owner(k) \notin names
                                   /\ Owner(k) = proc_num => Cardinality(Below(C, k)) < idx}
    BY <2>1 DEF Passed
  <2>4. Passed' = {k \in Listable : Owner(k) \notin names}
    BY <1>4, <2>1 DEF Passed
  <2>5. \A k \in Listable : Owner(k) = proc_num => k \in C
    BY <1>5
  <2>6. Passed' = Passed
    BY <2>2, <2>3, <2>4, <2>5
  <2> QED
    BY <1>8, <2>1, <2>6
<1>16. CASE WalkDone
  <2>1. pc = "cpus" /\ names = {} /\ pc' = "done" /\ UNCHANGED <<changes, names, cache>>
    BY <1>16 DEF WalkDone, kernel
  <2>2. Passed = Listable /\ Passed' = Listable
    BY <1>4, <2>1 DEF Passed
  <2> QED
    BY <1>8, <2>1, <2>2
<1>17. CASE BanksDone \/ CachesDone
  <2>1. UNCHANGED changes
    BY <1>17 DEF BanksDone, CachesDone, kernel
  <2> QED
    BY <1>1, <1>6, <1>17, <2>1 DEF BanksDone, CachesDone
<1>18. CASE \/ AvailableParallelism \/ ParseCpuinfo \/ ParsePanics \/ CpuProps \/ GpuProps
            \/ MemProps \/ CacheProps \/ CpuPanics \/ IndexPanics
  BY <1>18 DEF AvailableParallelism, ParseCpuinfo, ParsePanics, CpuProps, GpuProps, MemProps,
       CacheProps, CpuPanics, IndexPanics, Panic
<1> QED
  BY <1>9, <1>10, <1>11, <1>12, <1>13, <1>14, <1>15, <1>16, <1>17, <1>18 DEF Next, Reads

\* If no processor comes or goes, each cache whose list has one or two elements is
\* listed once, to the first processor that shares it, and the others not at all; for
\* every machine, whatever the order of the directory's entries.
THEOREM CachesListedOnce == Spec => []ListedOnce
<1>1. Init => NodeInv /\ TableInv /\ ListInv
  <2>1. Init => TableInv /\ ListInv
    BY DEF Init, TableInv, ListInv
  <2> QED
    BY <2>1, InitNodeInv
<1>2. NodeInv /\ TableInv /\ ListInv /\ [Next]_nodeVars => (NodeInv /\ TableInv /\ ListInv)'
  BY NextNodeInv, NextTable, NextList
<1>3. NodeInv /\ ListInv => ListedOnce
  <2> SUFFICES ASSUME NodeInv, ListInv, Walked, changes = 0
               PROVE  /\ \A k \in DOMAIN machine.shared :
                            Times(k) = IF Blocks(machine.shared[k]) \in {1, 2} THEN 1 ELSE 0
                      /\ NoGaps => \A j \in DOMAIN cache :
                            cache[j].apicid = SmallestOf(machine.shared[cache[j].id])
    BY DEF ListedOnce
  <2>1. /\ {cache[j].id : j \in DOMAIN cache} = Passed
        /\ \A i, j \in DOMAIN cache : cache[i].id = cache[j].id => i = j
        /\ NoGaps => \A j \in DOMAIN cache :
              cache[j].apicid = SmallestOf(machine.shared[cache[j].id])
    BY DEF ListInv, Walked, Undisturbed
  <2>2. Passed = Listable
    BY DEF Passed, Walked
  <2>3. ASSUME NEW k \in DOMAIN machine.shared
        PROVE  Times(k) = IF Blocks(machine.shared[k]) \in {1, 2} THEN 1 ELSE 0
    <3> DEFINE At == {j \in DOMAIN cache : cache[j].id = k}
    <3>1. CASE k \in Listable
      <4>1. PICK j \in DOMAIN cache : cache[j].id = k
        BY <2>1, <2>2, <3>1
      <4>2. At = {j}
        BY <2>1, <4>1
      <4>3. At = {j} => Cardinality(At) = 1
        BY FS_Singleton
      <4> QED
        BY <3>1, <4>2, <4>3 DEF Times, Listable
    <3>2. CASE k \notin Listable
      <4>1. At = {}
        BY <2>1, <2>2, <3>2
      <4>2. At = {} => Cardinality(At) = 0
        BY FS_EmptySet
      <4> QED
        BY <3>2, <4>1, <4>2 DEF Times, Listable
    <3> QED
      BY <3>1, <3>2
  <2> QED
    BY <2>1, <2>3
<1> QED
  BY <1>1, <1>2, <1>3, PTL DEF Spec
=============================================================================
