---------------------------- MODULE FmmInitProofs ---------------------------
(***************************************************************************)
(* Theorems about FmmInit, for every machine, list of apertures and page   *)
(* size: each GPU gets its own apertures, the shared range is exactly what *)
(* the GPUs have in common, and registers are mapped for prepared GPUs     *)
(* only, without a leak.                                                   *)
(*                                                                         *)
(* The three loops go over three lists, so the invariant says of each how  *)
(* far it came: Treated(n) of the list of apertures, PoliciesSet(n) of the *)
(* policies, and MmioOK of the pages, buffers and registers.               *)
(***************************************************************************)
EXTENDS FmmInit, SequenceTheorems, TLAPS

\* The loop over the list of apertures is over.
Past == pc \in {"svm", "reserve", "reserving", "policy", "handles", "mmio", "bo", "map"}
            \/ status = "SUCCESS" \/ dgpu_aperture

GpuMemOK ==
    /\ gpu_mem \in Seq([gpu_id : Nat \ {0}, node_id : Nat, fd : Nat,
                        vega10 : BOOLEAN, lds : Nat])
    /\ \A k \in DOMAIN gpu_mem :
          /\ gpu_mem[k].node_id \in 0 .. NumNodes - 1
          /\ gpu_mem[k].gpu_id = Node(gpu_mem[k].node_id).gpu
          /\ gpu_mem[k].fd = gpu_mem[k].gpu_id
          /\ pc = "sysfs" => gpu_mem[k].node_id < i
    /\ \A j, k \in DOMAIN gpu_mem : gpu_mem[j].node_id = gpu_mem[k].node_id => j = k
    /\ Len(gpu_mem) <= NumNodes /\ (pc = "sysfs" => i <= NumNodes /\ Len(gpu_mem) <= i)

\* What is known of the first n entries of the list.
Treated(n) ==
    \A k \in Known : k < n =>
        /\ \A p \in Places(Entry(k).gpu) : gpu_mem[p].lds = Entry(k).lds
        /\ \E v \in vms : v.gpu = Entry(k).gpu /\ v.fd = v.gpu

SvmExact(n) ==
    /\ \A k \in Known : k < n => /\ Entry(k).base <= svm_base
                                 /\ 0 < svm_limit /\ svm_limit <= Entry(k).limit
                                 /\ Entry(k).limit < Canonical
    /\ svm_base = 0 \/ \E k \in Known : k < n /\ svm_base = Entry(k).base
    /\ svm_limit = 0 \/ \E k \in Known : k < n /\ svm_limit = Entry(k).limit

ListOK ==
    /\ svm_base \in Nat /\ svm_limit \in 0 .. Canonical - 1
    /\ pc = "sysfs" => svm_base = 0 /\ svm_limit = 0
    /\ pc = "entries" => i <= Kept /\ i <= Listed /\ Treated(i) /\ SvmExact(i)
    /\ Past => Listed <= Kept /\ Treated(Listed) /\ SvmExact(Listed)
    /\ pc \in {"sysfs", "entries", "svm", "reserve", "reserving"} => ~dgpu_aperture
    /\ pc = "svm" => svm_limit > 0
    /\ pc \in {"policy", "bo", "map"} => dgpu_aperture
    /\ dgpu_aperture => /\ aperture.base = AlignedBase /\ aperture.limit = AlignedLimit
                        /\ svm_limit > 0 /\ AlignedLimit >= Canonical - 1

PoliciesSet(n) ==
    \A k \in 0 .. Listed - 1 : k < n /\ IS_CANONICAL_ADDR(Entry(k).limit) =>
        \E p \in policies : p.gpu = Entry(k).gpu

PolicyOK ==
    /\ pc = "svm" => i = 0
    /\ dgpu_aperture => PoliciesSet(IF pc = "policy" THEN i ELSE Listed)

Registers == [gpu |-> This.gpu_id, page |-> mem]

MmioOK ==
    /\ ~dgpu_aperture => pages = {} /\ bos = {} /\ mmio = {}
    /\ pc \notin {"mmio", "bo", "map", "done", "stopped"} => pages = {} /\ bos = {} /\ mmio = {}
    /\ \A p \in pages : 1 <= p /\ aperture.base <= p /\ p <= aperture.limit /\ p \in Nat
    /\ \A m \in mmio : m.page \in aperture.base .. aperture.limit
    /\ pc = "bo" => bos = mmio
    /\ pc = "map" => bos = mmio \/ bos = mmio \cup {Registers}
    /\ pc \in {"bo", "map"} =>
          /\ i < Len(gpu_mem) /\ mem \in pages
          /\ pages = {m.page : m \in mmio} \cup {mem} /\ mem \notin {m.page : m \in mmio}
    /\ pc \notin {"bo", "map", "stopped"} => bos = mmio /\ pages = {m.page : m \in mmio}

IInv == TypeOK /\ GpuMemOK /\ ListOK /\ PolicyOK /\ MmioOK

-----------------------------------------------------------------------------
(* Machines and rounding *)

LEMMA Elements ==
    ASSUME NEW S, NEW s \in Seq(S)
    PROVE  /\ Len(s) \in Nat /\ DOMAIN s = 1 .. Len(s)
           /\ \A n \in DOMAIN s : s[n] \in S
<1>1. DOMAIN s = 1 .. Len(s)
  OBVIOUS
<1> QED
  BY <1>1, ElementOfSeq

LEMMA MachineOK ==
    ASSUME machine \in Machines
    PROVE  /\ NumNodes \in Nat /\ Listed \in Nat /\ Kept \in Nat /\ machine.sysfs \in Nat
           /\ NumNodes <= machine.sysfs /\ Listed <= machine.sysfs
           /\ \A n \in 0 .. NumNodes - 1 : Node(n).gpu \in Nat
           /\ \A m, n \in 0 .. NumNodes - 1 : Node(m).gpu = Node(n).gpu /\ Node(m).gpu > 0 => m = n
           /\ \A k \in 0 .. Listed - 1 :
                 /\ Entry(k) \in [gpu : Nat \ {0}, lds : Nat, base : Nat, limit : Nat]
                 /\ HugePage <= Entry(k).limit
           /\ \A j, k \in 0 .. Listed - 1 : Entry(j).gpu = Entry(k).gpu => j = k
<1>1. Machine(machine)
  BY MachinesAssumption
<1>2. /\ machine.nodes \in Seq([gpu : Nat, discrete : BOOLEAN, vega10 : BOOLEAN, links : Nat])
      /\ machine.kernel \in Seq([gpu : Nat \ {0}, lds : Nat, base : Nat, limit : Nat])
  BY <1>1 DEF Machine
<1>3. NumNodes \in Nat /\ Listed \in Nat
  BY <1>2 DEF NumNodes, Listed
<1>4. Kept \in Nat /\ machine.sysfs \in Nat /\ NumNodes <= machine.sysfs /\ Listed <= machine.sysfs
  <2>1. /\ machine.sysfs \in Nat \ {0} /\ Len(machine.nodes) <= machine.sysfs
        /\ Len(machine.kernel) <= machine.sysfs
    BY <1>1 DEF Machine
  <2> QED
    BY <2>1 DEF Kept, NumNodes, Listed
<1>5. \A n \in 0 .. NumNodes - 1 : n + 1 \in DOMAIN machine.nodes
  BY <1>2, <1>3 DEF NumNodes
<1>6. \A k \in 0 .. Listed - 1 : k + 1 \in DOMAIN machine.kernel /\ Entry(k) = machine.kernel[k + 1]
  <2>1. DOMAIN machine.kernel = 1 .. Listed
    BY <1>2, Elements, Zenon DEF Listed
  <2> SUFFICES ASSUME NEW k \in 0 .. Listed - 1
               PROVE  k + 1 \in DOMAIN machine.kernel /\ Entry(k) = machine.kernel[k + 1]
    OBVIOUS
  <2>2. k < Listed /\ k + 1 \in 1 .. Listed
    BY <1>3
  <2>3. Entry(k) = machine.kernel[k + 1]
    BY <2>2 DEF Entry
  <2> QED
    BY <2>1, <2>2, <2>3
<1>7. \A n \in 0 .. NumNodes - 1 : Node(n).gpu \in Nat
  <2>1. \A n \in DOMAIN machine.nodes :
            machine.nodes[n] \in [gpu : Nat, discrete : BOOLEAN, vega10 : BOOLEAN, links : Nat]
    BY <1>2, Elements, Zenon
  <2> QED
    BY <1>5, <2>1 DEF Node
<1>8. \A m, n \in 0 .. NumNodes - 1 : Node(m).gpu = Node(n).gpu /\ Node(m).gpu > 0 => m = n
  <2> SUFFICES ASSUME NEW m \in 0 .. NumNodes - 1, NEW n \in 0 .. NumNodes - 1,
                      Node(m).gpu = Node(n).gpu, Node(m).gpu > 0
               PROVE  m = n
    OBVIOUS
  <2>1. m + 1 = n + 1
    BY <1>1, <1>5 DEF Machine, Node
  <2> QED
    BY <2>1
<1>9. \A k \in 0 .. Listed - 1 :
          /\ Entry(k) \in [gpu : Nat \ {0}, lds : Nat, base : Nat, limit : Nat]
          /\ HugePage <= Entry(k).limit
  <2>1. \A k \in DOMAIN machine.kernel : HugePage <= machine.kernel[k].limit
    BY <1>1 DEF Machine
  <2>2. \A k \in DOMAIN machine.kernel :
            machine.kernel[k] \in [gpu : Nat \ {0}, lds : Nat, base : Nat, limit : Nat]
    BY <1>2, Elements, Zenon
  <2> QED
    BY <1>6, <2>1, <2>2
<1>10. \A j, k \in 0 .. Listed - 1 : Entry(j).gpu = Entry(k).gpu => j = k
  <2> SUFFICES ASSUME NEW j \in 0 .. Listed - 1, NEW k \in 0 .. Listed - 1,
                      Entry(j).gpu = Entry(k).gpu
               PROVE  j = k
    OBVIOUS
  <2>1. j + 1 = k + 1
    BY <1>1, <1>6 DEF Machine
  <2> QED
    BY <2>1
<1> QED
  BY <1>3, <1>4, <1>7, <1>8, <1>9, <1>10

\* AlignDown(a) is the last multiple of the huge page at or before a.
LEMMA AlignDownIs ==
    ASSUME NEW a \in Nat
    PROVE  \E n \in Nat : /\ AlignDown(a) = HugePage * n
                          /\ HugePage * n <= a /\ a < HugePage * n + HugePage
<1>1. a % HugePage \in 0 .. HugePage - 1 /\ a \div HugePage \in Nat
      /\ a = HugePage * (a \div HugePage) + (a % HugePage)
  BY SizesAssumption
<1> DEFINE q == a \div HugePage
           r == a % HugePage
           A == HugePage * q
<1>2. q \in Nat /\ r \in 0 .. HugePage - 1 /\ a = A + r /\ A \in Nat /\ AlignDown(a) = a - r
  BY <1>1, SizesAssumption DEF AlignDown
<1> HIDE DEF r
<1>3. AlignDown(a) = A /\ A <= a /\ a < A + HugePage
  <2> HIDE DEF A, q
  <2> QED
    BY <1>2, SizesAssumption
<1> QED
  BY <1>2, <1>3

LEMMA Multiples ==
    ASSUME NEW m \in Nat, NEW n \in Nat, HugePage * m < HugePage * n + HugePage
    PROVE  m <= n /\ HugePage * m <= HugePage * n
<1>1. HugePage * n + HugePage = HugePage * (n + 1)
  BY SizesAssumption
<1>2. m < n + 1
  <2> SUFFICES ASSUME n + 1 <= m PROVE FALSE
    OBVIOUS
  <2>1. PICK d \in Nat : m = (n + 1) + d
    BY m - (n + 1) \in Nat
  <2>2. HugePage * m = HugePage * (n + 1) + HugePage * d /\ HugePage * d \in Nat
    BY <2>1, SizesAssumption
  <2> QED
    BY <1>1, <2>2, SizesAssumption
<1>3. PICK d \in Nat : n = m + d
  BY <1>2
<1>4. HugePage * n = HugePage * m + HugePage * d /\ HugePage * d \in Nat
  BY <1>3, SizesAssumption
<1> QED
  BY <1>2, <1>4, SizesAssumption

\* Between the rounded ends lie exactly the pages whose huge page lies between
\* the ends.
LEMMA RoundedRange ==
    ASSUME NEW b \in Nat, NEW l \in Nat, NEW p \in Nat
    PROVE  /\ AlignDown(b + HugePage - 1) <= p <=> b <= AlignDown(p)
           /\ p <= AlignDown(l + 1) - 1 <=> AlignDown(p) + HugePage - 1 <= l
<1>0. HugePage \in Nat \ {0} /\ b + HugePage - 1 \in Nat
  BY SizesAssumption
<1>1. PICK m \in Nat : /\ AlignDown(b + HugePage - 1) = HugePage * m
                       /\ HugePage * m <= b + HugePage - 1
                       /\ b + HugePage - 1 < HugePage * m + HugePage
  BY <1>0, AlignDownIs
<1>2. PICK n \in Nat : /\ AlignDown(p) = HugePage * n
                       /\ HugePage * n <= p /\ p < HugePage * n + HugePage
  BY AlignDownIs
<1>3. PICK q \in Nat : /\ AlignDown(l + 1) = HugePage * q
                       /\ HugePage * q <= l + 1 /\ l + 1 < HugePage * q + HugePage
  BY AlignDownIs
<1> DEFINE A == HugePage * m
           B == HugePage * n
           C == HugePage * q
<1>4. A \in Nat /\ B \in Nat /\ C \in Nat
  BY <1>0
<1>5. A < B + HugePage => A <= B
  BY Multiples
<1>6. B < C + HugePage => B <= C
  BY Multiples
<1>7. C < B + HugePage => C <= B
  BY Multiples
<1>8. ASSUME B < C PROVE B + HugePage <= C
  <2>1. ~(C < B + HugePage)
    BY <1>4, <1>7, <1>8
  <2> QED
    BY <1>0, <1>4, <2>1
<1> HIDE DEF A, B, C
<1>9. AlignDown(b + HugePage - 1) = A /\ A <= b + HugePage - 1 /\ b + HugePage - 1 < A + HugePage
  BY <1>1 DEF A
<1>10. AlignDown(p) = B /\ B <= p /\ p < B + HugePage
  BY <1>2 DEF B
<1>11. AlignDown(l + 1) = C /\ C <= l + 1 /\ l + 1 < C + HugePage
  BY <1>3 DEF C
<1> QED
  BY <1>0, <1>4, <1>5, <1>6, <1>8, <1>9, <1>10, <1>11

-----------------------------------------------------------------------------
(* One lemma per part of the invariant *)

LEMMA SameMachine ==
    ASSUME [Next]_fmmVars
    PROVE  /\ machine' = machine /\ reserve_svm' = reserve_svm
           /\ NumNodes' = NumNodes /\ Listed' = Listed /\ Kept' = Kept
           /\ \A k : Entry(k)' = Entry(k) /\ Node(k)' = Node(k)
<1>1. machine' = machine /\ reserve_svm' = reserve_svm
  BY DEF Next, fmmVars, given, CpuNode, GpuNode, GpuNodeRefused, GetApertures, EntryUnknown,
         EntryPanics, EntryTaken, EntriesDone, MmapApertures, NoMmapApertures, ReserveGivesUp,
         ReserveTry, ReserveLeaves, SetPolicy, PoliciesDone, InitHandles, MmioUnneeded,
         MmioNull, MmioNoPage, MmioPage, AllocateBo, MapPage, MapPageFails, DeadObject, InitDone
<1> QED
  BY <1>1 DEF NumNodes, Listed, Kept, Entry, Node

\* The steps that change neither the table of GPUs nor where the first loop is.
Later ==
    \/ EntryUnknown \/ EntryPanics \/ EntriesDone
    \/ MmapApertures \/ NoMmapApertures \/ ReserveGivesUp \/ ReserveTry \/ ReserveLeaves
    \/ SetPolicy \/ PoliciesDone \/ InitHandles
    \/ MmioUnneeded \/ MmioNull \/ MmioNoPage \/ MmioPage \/ AllocateBo
    \/ MapPage \/ MapPageFails \/ DeadObject \/ InitDone

LEMMA LaterKeeps ==
    ASSUME Later
    PROVE  UNCHANGED <<gpu_mem, is_dgpu, svm_base, svm_limit, vms>> /\ pc # "sysfs" /\ pc' # "sysfs"
  BY DEF Later, svm, kfd, fmmVars, Return, EntryUnknown, PolicyFor,
         EntryPanics, EntriesDone, MmapApertures, NoMmapApertures, ReserveGivesUp,
         ReserveTry, ReserveLeaves, SetPolicy, PoliciesDone, InitHandles, MmioUnneeded,
         MmioNull, MmioNoPage, MmioPage, AllocateBo, MapPage, MapPageFails, DeadObject, InitDone

LEMMA NextSplit ==
    ASSUME [Next]_fmmVars
    PROVE  CpuNode \/ GpuNode \/ GpuNodeRefused \/ GetApertures \/ EntryTaken \/ Later
           \/ UNCHANGED fmmVars
  BY DEF Next, Later

LEMMA GpuMemStep ==
    ASSUME IInv, [Next]_fmmVars
    PROVE  GpuMemOK'
<1>a. machine' = machine
  BY SameMachine
<1> USE <1>a DEF NumNodes, Node
<1>0. /\ machine \in Machines /\ NumNodes \in Nat /\ i \in Nat
      /\ \A n \in 0 .. NumNodes - 1 : Node(n).gpu \in Nat
  BY MachineOK DEF IInv, TypeOK
<1>1. CASE CpuNode
  <2>1. /\ pc = "sysfs" /\ pc' = "sysfs" /\ i < NumNodes /\ i' = i + 1 /\ gpu_mem' = gpu_mem
    BY <1>1 DEF CpuNode
  <2>2. \A k \in DOMAIN gpu_mem : gpu_mem[k].node_id < i + 1
    <3>1. \A k \in DOMAIN gpu_mem : gpu_mem[k].node_id \in Nat /\ gpu_mem[k].node_id < i
      BY <1>0, <2>1 DEF IInv, GpuMemOK
    <3> QED
      BY <1>0, <3>1
  <2>3. Len(gpu_mem) <= i + 1 /\ i + 1 <= NumNodes
    <3>1. Len(gpu_mem) <= i /\ Len(gpu_mem) \in Nat
      BY <2>1 DEF IInv, GpuMemOK
    <3> QED
      BY <1>0, <2>1, <3>1
  <2> QED
    BY <2>1, <2>2, <2>3 DEF IInv, GpuMemOK
<1>2. CASE GpuNode
  <2> DEFINE new == [gpu_id |-> Node(i).gpu, node_id |-> i, fd |-> Node(i).gpu,
                     vega10 |-> Node(i).vega10, lds |-> 0]
             Record == [gpu_id : Nat \ {0}, node_id : Nat, fd : Nat, vega10 : BOOLEAN, lds : Nat]
  <2>1. /\ pc = "sysfs" /\ pc' = "sysfs" /\ i < NumNodes /\ i' = i + 1 /\ Node(i).gpu > 0
        /\ gpu_mem' = Append(gpu_mem, new)
    BY <1>2 DEF GpuNode
  <2>2. Node(i).vega10 \in BOOLEAN
    <3>1. machine.nodes \in Seq([gpu : Nat, discrete : BOOLEAN, vega10 : BOOLEAN, links : Nat])
      BY <1>0, MachinesAssumption DEF Machine
    <3>2. \A n \in DOMAIN machine.nodes :
              machine.nodes[n] \in [gpu : Nat, discrete : BOOLEAN, vega10 : BOOLEAN, links : Nat]
      BY <3>1, Elements, Zenon
    <3>3. i + 1 \in DOMAIN machine.nodes
      BY <1>0, <2>1, <3>1 DEF NumNodes
    <3> QED
      BY <3>2, <3>3 DEF Node
  <2>3. new \in Record /\ gpu_mem \in Seq(Record)
    BY <1>0, <2>1, <2>2 DEF IInv, GpuMemOK
  <2> HIDE DEF Record
  <2>4. /\ gpu_mem' \in Seq(Record) /\ Len(gpu_mem') = Len(gpu_mem) + 1
        /\ DOMAIN gpu_mem' = DOMAIN gpu_mem \cup {Len(gpu_mem) + 1}
        /\ gpu_mem'[Len(gpu_mem) + 1] = new
        /\ \A k \in DOMAIN gpu_mem : gpu_mem'[k] = gpu_mem[k]
        /\ Len(gpu_mem) \in Nat /\ DOMAIN gpu_mem = 1 .. Len(gpu_mem)
    BY <2>1, <2>3
  <2>5. new.node_id = i /\ new.gpu_id = Node(i).gpu /\ new.fd = new.gpu_id
    OBVIOUS
  <2> HIDE DEF new
  <2>6. \A k \in DOMAIN gpu_mem : /\ gpu_mem[k].node_id \in 0 .. NumNodes - 1
                                 /\ gpu_mem[k].gpu_id = Node(gpu_mem[k].node_id).gpu
                                 /\ gpu_mem[k].fd = gpu_mem[k].gpu_id
                                 /\ gpu_mem[k].node_id < i
    BY <2>1 DEF IInv, GpuMemOK
  <2>7. \A k \in DOMAIN gpu_mem' :
            /\ gpu_mem'[k].node_id \in 0 .. NumNodes - 1
            /\ gpu_mem'[k].gpu_id = Node(gpu_mem'[k].node_id).gpu
            /\ gpu_mem'[k].fd = gpu_mem'[k].gpu_id
            /\ gpu_mem'[k].node_id < i + 1
    BY <1>0, <2>1, <2>4, <2>5, <2>6
  <2>8. \A j, k \in DOMAIN gpu_mem' : gpu_mem'[j].node_id = gpu_mem'[k].node_id => j = k
    <3>1. \A j, k \in DOMAIN gpu_mem : gpu_mem[j].node_id = gpu_mem[k].node_id => j = k
      BY DEF IInv, GpuMemOK
    <3>2. \A k \in DOMAIN gpu_mem : gpu_mem[k].node_id # i
      BY <1>0, <2>6
    <3> QED
      BY <2>4, <2>5, <3>1, <3>2
  <2>9. Len(gpu_mem') <= NumNodes /\ i' <= NumNodes /\ Len(gpu_mem') <= i'
    BY <1>0, <2>1, <2>4 DEF IInv, GpuMemOK
  <2> QED
    BY <2>1, <2>4, <2>7, <2>8, <2>9 DEF GpuMemOK, Record
<1>3. CASE GpuNodeRefused \/ GetApertures
  BY <1>3 DEF GpuNodeRefused, GetApertures, Return, IInv, GpuMemOK
<1>4. CASE EntryTaken
  <2>1. PICK k \in DOMAIN gpu_mem : gpu_mem' = [gpu_mem EXCEPT ![k].lds = Entry(i).lds]
    <3>1. Place(Entry(i)) \in Places(Entry(i).gpu)
      BY <1>4 DEF EntryTaken, Place
    <3> QED
      BY <1>4, <3>1 DEF EntryTaken, Places
  <2>2. pc = "entries" /\ pc' = "entries" /\ i < Listed
    BY <1>4 DEF EntryTaken
  <2>3. Entry(i).lds \in Nat
    BY <1>0, <2>2, MachineOK
  <2> DEFINE Record == [gpu_id : Nat \ {0}, node_id : Nat, fd : Nat, vega10 : BOOLEAN, lds : Nat]
  <2>4. gpu_mem \in Seq(Record) /\ gpu_mem[k] \in Record
    BY Elements DEF IInv, GpuMemOK
  <2>5. [gpu_mem[k] EXCEPT !.lds = Entry(i).lds] \in Record
    BY <2>3, <2>4
  <2> HIDE DEF Record
  <2>6. /\ gpu_mem' \in Seq(Record) /\ DOMAIN gpu_mem' = DOMAIN gpu_mem
        /\ Len(gpu_mem') = Len(gpu_mem)
    BY <2>1, <2>4, <2>5
  <2>7. \A j \in DOMAIN gpu_mem : /\ gpu_mem'[j].node_id = gpu_mem[j].node_id
                                 /\ gpu_mem'[j].gpu_id = gpu_mem[j].gpu_id
                                 /\ gpu_mem'[j].fd = gpu_mem[j].fd
    <3>1. \A j \in DOMAIN gpu_mem : gpu_mem[j] \in Record
      BY <2>4, Elements
    <3> QED
      BY <2>1, <3>1 DEF Record
  <2> QED
    BY <2>2, <2>6, <2>7 DEF IInv, GpuMemOK, Record
<1>5. CASE Later
  BY <1>5, LaterKeeps DEF IInv, GpuMemOK
<1>6. CASE UNCHANGED fmmVars
  BY <1>6 DEF fmmVars, local, IInv, GpuMemOK
<1> QED
  BY <1>1, <1>2, <1>3, <1>4, <1>5, <1>6, NextSplit

LEMMA OnePlace ==
    ASSUME IInv
    PROVE  /\ \A j, k \in DOMAIN gpu_mem : gpu_mem[j].gpu_id = gpu_mem[k].gpu_id => j = k
           /\ \A k \in DOMAIN gpu_mem : gpu_mem[k].gpu_id > 0
<1>1. machine \in Machines
  BY DEF IInv, TypeOK
<1>2. \A k \in DOMAIN gpu_mem : gpu_mem[k].gpu_id > 0
  <2>1. \A k \in DOMAIN gpu_mem : gpu_mem[k] \in
            [gpu_id : Nat \ {0}, node_id : Nat, fd : Nat, vega10 : BOOLEAN, lds : Nat]
    BY Elements, Zenon DEF IInv, GpuMemOK
  <2>2. \A k \in DOMAIN gpu_mem : gpu_mem[k].gpu_id \in Nat \ {0}
    BY <2>1
  <2> QED
    BY <2>2
<1>3. ASSUME NEW j \in DOMAIN gpu_mem, NEW k \in DOMAIN gpu_mem,
             gpu_mem[j].gpu_id = gpu_mem[k].gpu_id
      PROVE  j = k
  <2> DEFINE m == gpu_mem[j].node_id
             n == gpu_mem[k].node_id
  <2>1. m \in 0 .. NumNodes - 1 /\ n \in 0 .. NumNodes - 1
        /\ gpu_mem[j].gpu_id = Node(m).gpu /\ gpu_mem[k].gpu_id = Node(n).gpu
    BY DEF IInv, GpuMemOK
  <2>2. Node(m).gpu = Node(n).gpu /\ Node(m).gpu > 0
    BY <1>2, <1>3, <2>1
  <2>3. m = n
    <3> HIDE DEF m, n
    <3> QED
      BY <1>1, <2>1, <2>2, MachineOK
  <2> QED
    BY <2>3 DEF IInv, GpuMemOK
<1> QED
  BY <1>2, <1>3

\* What was known of the list stays known while the table of GPUs stays.
LEMMA ListKept ==
    ASSUME machine' = machine, gpu_mem' = gpu_mem, vms' = vms, svm_base' = svm_base,
           svm_limit' = svm_limit, NEW n
    PROVE  (Treated(n)' <=> Treated(n)) /\ (SvmExact(n)' <=> SvmExact(n))
  BY DEF Treated, SvmExact, Known, Places, Entry, Listed

LEMMA LaterListStep ==
    ASSUME IInv, Later, machine' = machine
    PROVE  ListOK'
<1>a. UNCHANGED <<gpu_mem, svm_base, svm_limit, vms>> /\ pc # "sysfs" /\ pc' # "sysfs"
  BY LaterKeeps
<1>b. Listed' = Listed /\ Kept' = Kept /\ AlignedBase' = AlignedBase /\ AlignedLimit' = AlignedLimit
  BY <1>a DEF Listed, Kept, AlignedBase, AlignedLimit, AlignDown
<1>c. \A n : (Treated(n)' <=> Treated(n)) /\ (SvmExact(n)' <=> SvmExact(n))
  BY <1>a, ListKept
<1>d. /\ machine \in Machines /\ i \in Nat /\ (status # "none" <=> pc = "done")
      /\ status \in {"none", "SUCCESS", "ERROR"}
  BY MachineOK DEF IInv, TypeOK
<1>e. Listed \in Nat /\ Kept \in Nat
  BY <1>d, MachineOK
<1>1. CASE EntryUnknown
  <2>1. /\ pc = "entries" /\ pc' = "entries" /\ i' = i + 1 /\ i < Listed /\ i < Kept
        /\ Places(Entry(i).gpu) = {} /\ UNCHANGED <<status, dgpu_aperture>>
    BY <1>1 DEF EntryUnknown, svm
  <2>2. i \notin Known /\ \A k \in Known : k \in Nat
    BY <1>e, <2>1 DEF Known
  <2>3. \A k \in Known : k < i + 1 => k < i
    BY <1>d, <2>2
  <2>4. Treated(i + 1) /\ SvmExact(i + 1)
    <3>1. Treated(i) /\ SvmExact(i)
      BY <2>1 DEF IInv, ListOK
    <3>2. \A k \in Known : k < i => k < i + 1
      BY <1>d, <2>2
    <3> QED
      BY <2>3, <3>1, <3>2 DEF Treated, SvmExact
  <2>5. ~Past'
    BY <1>d, <2>1 DEF IInv, ListOK, Past
  <2> QED
    BY <1>a, <1>b, <1>c, <1>d, <1>e, <2>1, <2>4, <2>5 DEF IInv, ListOK
<1>2. CASE EntryPanics
  <2>1. pc = "entries" /\ pc' = "stopped" /\ UNCHANGED <<status, dgpu_aperture>>
    BY <1>2 DEF EntryPanics, svm
  <2>2. ~Past'
    BY <1>d, <2>1 DEF IInv, ListOK, Past
  <2> QED
    BY <1>a, <2>1, <2>2 DEF IInv, ListOK
<1>3. CASE EntriesDone
  <2>1. /\ pc = "entries" /\ pc' \in {"svm", "handles"} /\ i = Listed
        /\ pc' = "svm" => svm_limit > 0
        /\ UNCHANGED <<status, dgpu_aperture>>
    BY <1>3 DEF EntriesDone, svm
  <2>2. Listed <= Kept /\ Treated(Listed) /\ SvmExact(Listed)
    BY <2>1 DEF IInv, ListOK
  <2> QED
    BY <1>a, <1>b, <1>c, <2>1, <2>2 DEF IInv, ListOK
<1>4. CASE MmapApertures
  <2>1. /\ pc = "svm" /\ AlignedLimit >= Canonical - 1
        /\ aperture' = [base |-> AlignedBase, limit |-> AlignedLimit]
        /\ \/ dgpu_aperture' = TRUE /\ pc' = "policy"
           \/ dgpu_aperture' = dgpu_aperture /\ pc' = "reserve"
    BY <1>4 DEF MmapApertures, Unreserved
  <2>2. Past /\ ~dgpu_aperture
    BY <2>1 DEF Past, IInv, ListOK
  <2>3. svm_limit > 0
    BY <2>1 DEF IInv, ListOK
  <2> QED
    BY <1>a, <1>b, <1>c, <2>1, <2>2, <2>3 DEF IInv, ListOK
<1>5. CASE NoMmapApertures \/ ReserveTry \/ ReserveLeaves
  <2>1. /\ pc \in {"svm", "reserve", "reserving"} /\ pc' \in {"reserve", "reserving"}
        /\ UNCHANGED <<aperture, dgpu_aperture>>
    BY <1>5 DEF NoMmapApertures, ReserveTry, ReserveLeaves, svm
  <2>2. Past
    BY <2>1 DEF Past
  <2> QED
    BY <1>a, <1>b, <1>c, <2>1, <2>2 DEF IInv, ListOK
<1>6. CASE ReserveGivesUp
  <2>1. pc = "reserve" /\ pc' = "done" /\ status' = "ERROR" /\ UNCHANGED <<aperture, dgpu_aperture>>
    BY <1>6 DEF ReserveGivesUp, Return, svm
  <2>2. ~Past'
    BY <2>1 DEF IInv, ListOK, Past
  <2> QED
    BY <1>a, <2>1, <2>2 DEF IInv, ListOK
<1>7. CASE SetPolicy \/ PoliciesDone \/ InitHandles \/ MmioUnneeded \/ MmioNull \/ MmioNoPage
           \/ MmioPage \/ AllocateBo \/ MapPage \/ MapPageFails \/ DeadObject \/ InitDone
  <2>1. /\ pc \in {"policy", "handles", "mmio", "bo", "map"}
        /\ pc' \in {"policy", "handles", "mmio", "bo", "map", "stopped", "done"}
        /\ pc' \in {"policy", "bo", "map"} => pc \in {"policy", "bo", "map"} \/ dgpu_aperture
        /\ UNCHANGED <<aperture, dgpu_aperture>>
    BY <1>7 DEF SetPolicy, PolicyFor, PoliciesDone, InitHandles, MmioUnneeded, MmioNull, MmioNoPage,
                MmioPage, AllocateBo, MapPage, MapPageFails, DeadObject, InitDone, Return, svm
  <2>2. Past
    BY <2>1 DEF Past
  <2> QED
    BY <1>a, <1>b, <1>c, <2>1, <2>2 DEF IInv, ListOK
<1> QED
  BY <1>1, <1>2, <1>3, <1>4, <1>5, <1>6, <1>7 DEF Later

\* An entry whose GPU is known is the first of that GPU: what it sets was unset,
\* and the common range is cut down to its own.
LEMMA EntryTakenList ==
    ASSUME IInv, EntryTaken, machine' = machine
    PROVE  Treated(i)' /\ SvmExact(i)' /\ svm_base' \in Nat /\ svm_limit' \in 0 .. Canonical - 1
<1> DEFINE e == Entry(i)
           k == Place(e)
<1>0. i' = i + 1
  BY DEF EntryTaken
<1>1. /\ pc = "entries" /\ i < Listed /\ i < Kept /\ e.limit < Canonical
      /\ Places(e.gpu) # {} /\ Common(e)
      /\ gpu_mem' = [gpu_mem EXCEPT ![k].lds = e.lds]
      /\ \E granted \in BOOLEAN :
            vms' = vms \cup {[gpu |-> gpu_mem[k].gpu_id, fd |-> gpu_mem[k].fd, granted |-> granted]}
  BY DEF EntryTaken, IS_CANONICAL_ADDR
<1>2. machine \in Machines /\ i \in Nat
  BY MachineOK DEF IInv, TypeOK
<1>3. /\ Listed \in Nat /\ e \in [gpu : Nat \ {0}, lds : Nat, base : Nat, limit : Nat]
      /\ HugePage <= e.limit
  BY <1>1, <1>2, MachineOK
<1>4. /\ k \in DOMAIN gpu_mem /\ gpu_mem[k].gpu_id = e.gpu /\ gpu_mem[k].fd = e.gpu
      /\ Places(e.gpu) = {k}
  <2>1. k \in Places(e.gpu)
    BY <1>1 DEF Place
  <2>2. k \in DOMAIN gpu_mem /\ gpu_mem[k].gpu_id = e.gpu
    BY <2>1 DEF Places
  <2>3. Places(e.gpu) = {k}
    BY <2>1, <2>2, OnePlace DEF Places
  <2> QED
    BY <2>2, <2>3 DEF IInv, GpuMemOK
<1> HIDE DEF k
<1>5. /\ DOMAIN gpu_mem' = DOMAIN gpu_mem
      /\ \A j \in DOMAIN gpu_mem : gpu_mem'[j].gpu_id = gpu_mem[j].gpu_id
      /\ \A j \in DOMAIN gpu_mem : j # k => gpu_mem'[j] = gpu_mem[j]
      /\ gpu_mem'[k].lds = e.lds
  <2>1. \A j \in DOMAIN gpu_mem : gpu_mem[j] \in
            [gpu_id : Nat \ {0}, node_id : Nat, fd : Nat, vega10 : BOOLEAN, lds : Nat]
    BY Elements, Zenon DEF IInv, GpuMemOK
  <2> QED
    BY <1>1, <1>4, <2>1
<1>6. ASSUME NEW id PROVE Places(id)' = Places(id)
  <2>1. \A j \in DOMAIN gpu_mem : (gpu_mem'[j].gpu_id = id) <=> (gpu_mem[j].gpu_id = id)
    BY <1>5, Zenon
  <2> QED
    BY <1>5, <2>1 DEF Places
<1>7. Known' = Known /\ (\A j : Entry(j)' = Entry(j)) /\ i \in Known
  <2>1. Listed' = Listed
    BY DEF Listed
  <2>2. \A j : Entry(j)' = Entry(j)
    BY DEF Entry, Listed
  <2>3. Known' = Known
    BY <1>5, <2>1 DEF Known, Places, Entry, Listed
  <2> QED
    BY <1>1, <1>2, <1>3, <2>2, <2>3 DEF Known
<1>8. \A j \in Known : j < i + 1 <=> j < i \/ j = i
  <2>1. \A j \in Known : j \in Nat
    BY <1>3 DEF Known
  <2> QED
    BY <1>2, <2>1
<1>9. Treated(i) /\ SvmExact(i)
  BY <1>1 DEF IInv, ListOK
<1>10. \A j \in Known : j < i => Entry(j).gpu # e.gpu
  <2> SUFFICES ASSUME NEW j \in Known, j < i, Entry(j).gpu = e.gpu PROVE FALSE
    OBVIOUS
  <2>1. j \in 0 .. Listed - 1 /\ i \in 0 .. Listed - 1
    BY <1>7 DEF Known
  <2>2. j = i
    BY <1>2, <2>1, MachineOK
  <2> QED
    BY <1>2, <2>2
<1>11. ASSUME NEW j \in Known, j < i + 1
       PROVE  /\ \A p \in Places(Entry(j).gpu) : gpu_mem'[p].lds = Entry(j).lds
              /\ \E v \in vms' : v.gpu = Entry(j).gpu /\ v.fd = v.gpu
  <2>1. CASE j = i
    <3>1. PICK granted \in BOOLEAN :
              vms' = vms \cup {[gpu |-> gpu_mem[k].gpu_id, fd |-> gpu_mem[k].fd, granted |-> granted]}
      BY <1>1
    <3> DEFINE v == [gpu |-> gpu_mem[k].gpu_id, fd |-> gpu_mem[k].fd, granted |-> granted]
    <3>2. v \in vms' /\ v.gpu = e.gpu /\ v.fd = v.gpu
      BY <1>4, <3>1
    <3>3. \A p \in Places(Entry(j).gpu) : gpu_mem'[p].lds = Entry(j).lds
      BY <1>4, <1>5, <2>1
    <3> QED
      BY <2>1, <3>2, <3>3
  <2>2. CASE j < i
    <3>1. /\ \A p \in Places(Entry(j).gpu) : gpu_mem[p].lds = Entry(j).lds
          /\ \E v \in vms : v.gpu = Entry(j).gpu /\ v.fd = v.gpu
      BY <1>9, <2>2 DEF Treated
    <3>2. \A p \in Places(Entry(j).gpu) : p \in DOMAIN gpu_mem /\ p # k
      BY <1>4, <1>10, <2>2 DEF Places
    <3> QED
      BY <1>1, <1>5, <3>1, <3>2
  <2> QED
    BY <1>8, <1>11, <2>1, <2>2
<1>12. Treated(i)'
  <2>1. \A j \in Known' : j < i' =>
            /\ \A p \in Places(Entry(j).gpu)' : gpu_mem'[p].lds = Entry(j)'.lds
            /\ \E v \in vms' : v.gpu = Entry(j)'.gpu /\ v.fd = v.gpu
    BY <1>0, <1>6, <1>7, <1>11
  <2> QED
    BY <2>1 DEF Treated
<1>13. \A j \in Known : /\ Entry(j).base \in Nat /\ Entry(j).limit \in Nat
                       /\ 0 < Entry(j).limit
  <2>1. \A j \in Known : j \in 0 .. Listed - 1
    BY DEF Known
  <2>2. \A j \in 0 .. Listed - 1 : /\ Entry(j) \in [gpu : Nat \ {0}, lds : Nat, base : Nat, limit : Nat]
                                  /\ HugePage <= Entry(j).limit
    BY <1>2, MachineOK
  <2> QED
    BY <2>1, <2>2, SizesAssumption
<1>14. /\ svm_base \in Nat /\ svm_limit \in 0 .. Canonical - 1
       /\ svm_base' = IF e.base > svm_base THEN e.base ELSE svm_base
       /\ svm_limit' = IF e.limit < svm_limit \/ svm_limit = 0 THEN e.limit ELSE svm_limit
  BY <1>1 DEF IInv, ListOK, Common
<1>15. /\ svm_base' \in Nat /\ svm_limit' \in 0 .. Canonical - 1 /\ 0 < svm_limit'
       /\ svm_base <= svm_base' /\ e.base <= svm_base' /\ svm_limit' <= e.limit
       /\ svm_limit = 0 \/ svm_limit' <= svm_limit
       /\ svm_base' = svm_base \/ svm_base' = e.base
       /\ svm_limit' = svm_limit \/ svm_limit' = e.limit
  BY <1>1, <1>7, <1>13, <1>14, SizesAssumption
<1>16. \A j \in Known : j < i + 1 =>
          /\ Entry(j).base <= svm_base'
          /\ 0 < svm_limit' /\ svm_limit' <= Entry(j).limit
          /\ Entry(j).limit < Canonical
  <2> SUFFICES ASSUME NEW j \in Known, j < i + 1
               PROVE  /\ Entry(j).base <= svm_base'
                      /\ svm_limit' <= Entry(j).limit
                      /\ Entry(j).limit < Canonical
    BY <1>15
  <2>1. CASE j = i
    BY <1>1, <1>15, <2>1
  <2>2. CASE j < i
    <3>1. /\ Entry(j).base <= svm_base /\ 0 < svm_limit /\ svm_limit <= Entry(j).limit
          /\ Entry(j).limit < Canonical
      BY <1>9, <2>2 DEF SvmExact
    <3> QED
      BY <1>13, <1>14, <1>15, <3>1
  <2> QED
    BY <1>8, <2>1, <2>2
<1>17. /\ svm_base' = 0 \/ \E j \in Known : j < i + 1 /\ svm_base' = Entry(j).base
       /\ svm_limit' = 0 \/ \E j \in Known : j < i + 1 /\ svm_limit' = Entry(j).limit
  BY <1>7, <1>8, <1>9, <1>15 DEF SvmExact
<1>18. SvmExact(i)'
  BY <1>0, <1>7, <1>16, <1>17 DEF SvmExact
<1> QED
  BY <1>12, <1>15, <1>18

LEMMA ListStep ==
    ASSUME IInv, [Next]_fmmVars
    PROVE  ListOK'
<1>a. machine' = machine
  BY SameMachine
<1>b. Listed' = Listed /\ Kept' = Kept
  BY <1>a DEF Listed, Kept
<1>c. /\ machine \in Machines /\ i \in Nat /\ (status # "none" <=> pc = "done")
      /\ Listed \in Nat /\ Kept \in Nat
  BY MachineOK DEF IInv, TypeOK
<1>d. Past /\ pc # "done" => pc \notin {"sysfs", "entries"}
  BY <1>c DEF IInv, ListOK, Past
<1>1. CASE CpuNode \/ GpuNode \/ GpuNodeRefused
  <2>1. /\ pc = "sysfs" /\ UNCHANGED <<svm_base, svm_limit, aperture, dgpu_aperture>>
        /\ \/ pc' = "sysfs" /\ status' = status
           \/ pc' = "done" /\ status' = "ERROR"
    BY <1>1 DEF CpuNode, GpuNode, GpuNodeRefused, Return, svm
  <2>2. ~Past'
    BY <1>c, <2>1 DEF IInv, ListOK, Past
  <2> QED
    BY <2>1, <2>2 DEF IInv, ListOK
<1>2. CASE GetApertures
  <2>1. /\ pc = "sysfs" /\ UNCHANGED <<svm_base, svm_limit, aperture, dgpu_aperture, status>>
        /\ pc' \in {"entries", "stopped"} /\ i' = 0
    BY <1>2 DEF GetApertures, svm
  <2>2. ~Past'
    BY <1>c, <2>1 DEF IInv, ListOK, Past
  <2>3. \A k \in Known' : ~(k < 0)
    BY <1>b, <1>c DEF Known
  <2>4. Treated(0)' /\ SvmExact(0)'
    BY <2>1, <2>3 DEF Treated, SvmExact, IInv, ListOK
  <2> QED
    BY <1>b, <1>c, <2>1, <2>2, <2>4 DEF IInv, ListOK
<1>3. CASE EntryTaken
  <2>1. /\ pc = "entries" /\ pc' = "entries" /\ i' = i + 1 /\ i < Listed /\ i < Kept
        /\ UNCHANGED <<aperture, dgpu_aperture, status>>
    BY <1>3 DEF EntryTaken
  <2>2. Treated(i)' /\ SvmExact(i)' /\ svm_base' \in Nat /\ svm_limit' \in 0 .. Canonical - 1
    BY <1>3, <1>a, EntryTakenList
  <2>3. ~Past'
    BY <1>c, <2>1 DEF IInv, ListOK, Past
  <2>4. i' <= Kept' /\ i' <= Listed'
    BY <1>b, <1>c, <2>1
  <2> QED
    BY <2>1, <2>2, <2>3, <2>4 DEF IInv, ListOK
<1>4. CASE Later
  BY <1>4, <1>a, LaterListStep
<1>5. CASE UNCHANGED fmmVars
  <2>1. UNCHANGED <<gpu_mem, svm_base, svm_limit, aperture, dgpu_aperture, status, pc, i, vms>>
    BY <1>5 DEF fmmVars, svm, local, kfd
  <2>2. \A n : (Treated(n)' <=> Treated(n)) /\ (SvmExact(n)' <=> SvmExact(n))
    BY <1>a, <2>1, ListKept
  <2>3. AlignedBase' = AlignedBase /\ AlignedLimit' = AlignedLimit /\ (Past' <=> Past)
    BY <2>1 DEF AlignedBase, AlignedLimit, AlignDown, Past
  <2> QED
    BY <1>b, <2>1, <2>2, <2>3 DEF IInv, ListOK
<1> QED
  BY <1>1, <1>2, <1>3, <1>4, <1>5, NextSplit

\* The rounded range lies in the range.
LEMMA RangeInside ==
    ASSUME NEW b \in Nat, NEW l \in Nat
    PROVE  /\ AlignDown(b + HugePage - 1) \in Nat /\ b <= AlignDown(b + HugePage - 1)
           /\ AlignDown(l + 1) - 1 \in Int /\ AlignDown(l + 1) - 1 <= l
<1>1. b + HugePage - 1 \in Nat /\ l + 1 \in Nat /\ HugePage \in Nat
  BY SizesAssumption
<1>2. PICK m \in Nat : /\ AlignDown(b + HugePage - 1) = HugePage * m
                       /\ HugePage * m <= b + HugePage - 1
                       /\ b + HugePage - 1 < HugePage * m + HugePage
  BY <1>1, AlignDownIs
<1>3. PICK n \in Nat : AlignDown(l + 1) = HugePage * n /\ HugePage * n <= l + 1
  BY <1>1, AlignDownIs
<1>4. HugePage * m \in Nat /\ HugePage * n \in Nat
  BY <1>1
<1> DEFINE A == HugePage * m
           B == HugePage * n
<1>5. /\ AlignDown(b + HugePage - 1) = A /\ AlignDown(l + 1) = B /\ A \in Nat /\ B \in Nat
      /\ b + HugePage - 1 < A + HugePage /\ B <= l + 1
  BY <1>2, <1>3, <1>4
<1> HIDE DEF A, B
<1> QED
  BY <1>1, <1>5

LEMMA TypeStep ==
    ASSUME IInv, [Next]_fmmVars, GpuMemOK', ListOK', MmioOK'
    PROVE  TypeOK'
<1>a. machine' = machine /\ reserve_svm' = reserve_svm
  BY SameMachine
<1>b. /\ machine \in Machines /\ reserve_svm \in BOOLEAN /\ is_dgpu \in BOOLEAN
      /\ i \in 0 .. machine.sysfs /\ status \in {"none", "SUCCESS", "ERROR"}
      /\ (status # "none" <=> pc = "done") /\ pages \subseteq 1 .. Canonical - 1
      /\ Len(gpu_mem) \in Nat /\ Len(gpu_mem) <= NumNodes
  BY DEF IInv, TypeOK, GpuMemOK
<1>c. /\ NumNodes \in Nat /\ Listed \in Nat /\ Kept \in Nat /\ machine.sysfs \in Nat
      /\ NumNodes <= machine.sysfs /\ Listed <= machine.sysfs /\ Kept = machine.sysfs - 1
  BY <1>b, MachineOK DEF Kept
<1>1. is_dgpu' \in BOOLEAN
  <2>1. CASE CpuNode \/ GpuNode \/ GpuNodeRefused
    BY <2>1 DEF CpuNode, GpuNode, GpuNodeRefused, Discrete
  <2>2. CASE GetApertures \/ EntryTaken \/ UNCHANGED fmmVars
    BY <1>b, <2>2 DEF GetApertures, EntryTaken, fmmVars
  <2>3. CASE Later
    BY <1>b, <2>3, LaterKeeps
  <2> QED
    BY <2>1, <2>2, <2>3, NextSplit
<1>2. i' \in 0 .. machine.sysfs
  <2>1. i' = i \/ i' = 0 \/ (i' = i + 1 /\ (i < NumNodes \/ i < Listed \/ i < Kept \/ i < Len(gpu_mem)))
    <3>1. CASE CpuNode \/ GpuNode \/ GpuNodeRefused \/ GetApertures \/ EntryTaken
      BY <3>1 DEF CpuNode, GpuNode, GpuNodeRefused, GetApertures, EntryTaken
    <3>2. CASE Later
      <4>1. CASE \/ EntryUnknown \/ EntryPanics \/ EntriesDone \/ MmapApertures \/ NoMmapApertures
                 \/ ReserveGivesUp \/ ReserveTry \/ ReserveLeaves
        BY <4>1 DEF EntryUnknown, EntryPanics, EntriesDone, MmapApertures, NoMmapApertures,
                    ReserveGivesUp, ReserveTry, ReserveLeaves
      <4>2. CASE SetPolicy \/ PoliciesDone \/ InitHandles \/ MmioUnneeded \/ MmioNull \/ MmioNoPage
        BY <4>2 DEF SetPolicy, PolicyFor, PoliciesDone, InitHandles, MmioUnneeded, MmioNull, MmioNoPage
      <4>3. CASE MmioPage \/ AllocateBo \/ MapPage \/ MapPageFails \/ DeadObject \/ InitDone
        BY <4>3 DEF MmioPage, AllocateBo, MapPage, MapPageFails, DeadObject, InitDone, IInv, TypeOK
      <4> QED
        BY <3>2, <4>1, <4>2, <4>3 DEF Later
    <3>3. CASE UNCHANGED fmmVars
      BY <3>3 DEF fmmVars, local
    <3> QED
      BY <3>1, <3>2, <3>3, NextSplit
  <2> QED
    BY <1>b, <1>c, <2>1
<1>3. /\ pc' \in {"sysfs", "entries", "svm", "reserve", "reserving", "policy", "handles",
                 "mmio", "bo", "map", "done", "stopped"}
      /\ status' \in {"none", "SUCCESS", "ERROR"} /\ (status' # "none" <=> pc' = "done")
  <2>1. CASE Next
    BY <1>b, <2>1 DEF Next, Return, PolicyFor, CpuNode, GpuNode, GpuNodeRefused,
           GetApertures, EntryUnknown, EntryPanics, EntryTaken, EntriesDone, MmapApertures,
           NoMmapApertures, ReserveGivesUp, ReserveTry, ReserveLeaves, SetPolicy, PoliciesDone,
           InitHandles, MmioUnneeded, MmioNull, MmioNoPage, MmioPage, AllocateBo, MapPage,
           MapPageFails, DeadObject, InitDone
  <2>2. CASE UNCHANGED fmmVars
    BY <2>2 DEF fmmVars, local, IInv, TypeOK
  <2> QED
    BY <2>1, <2>2
<1>4. pages' \subseteq 1 .. Canonical - 1
  <2> SUFFICES ASSUME NEW p \in pages' PROVE p \in 1 .. Canonical - 1
    OBVIOUS
  <2>1. dgpu_aperture' /\ p \in Nat /\ 1 <= p /\ p <= aperture'.limit
    BY DEF MmioOK
  <2>2. aperture'.limit = AlignedLimit' /\ svm_base' \in Nat /\ svm_limit' \in 0 .. Canonical - 1
    BY <2>1 DEF ListOK
  <2>3. /\ AlignDown(svm_limit' + 1) - 1 \in Int /\ AlignDown(svm_limit' + 1) - 1 <= svm_limit'
        /\ AlignedLimit' = AlignDown(svm_limit' + 1) - 1
    BY <2>2, RangeInside, SizesAssumption DEF AlignedLimit, AlignDown
  <2> QED
    BY <2>1, <2>2, <2>3, SizesAssumption
<1>5. pc' \in {"bo", "map"} => i' < Len(gpu_mem') /\ mem' \in pages'
  BY DEF MmioOK
<1>6. (/\ Len(gpu_mem) <= NumNodes
       /\ \A k \in DOMAIN gpu_mem :
             /\ gpu_mem[k].node_id \in 0 .. NumNodes - 1
             /\ gpu_mem[k].gpu_id = Node(gpu_mem[k].node_id).gpu)'
  BY DEF GpuMemOK
<1> QED
  BY <1>a, <1>b, <1>1, <1>2, <1>3, <1>4, <1>5, <1>6 DEF TypeOK, ListOK

LEMMA PolicyStep ==
    ASSUME IInv, [Next]_fmmVars
    PROVE  PolicyOK'
<1>a. machine' = machine
  BY SameMachine
<1>b. Listed' = Listed /\ \A k : Entry(k)' = Entry(k)
  BY <1>a DEF Listed, Entry
<1>c. machine \in Machines /\ i \in Nat /\ Listed \in Nat
  BY MachineOK DEF IInv, TypeOK
<1>d. ASSUME NEW n, policies' = policies PROVE PoliciesSet(n)' <=> PoliciesSet(n)
  BY <1>b, <1>d DEF PoliciesSet
<1>1. CASE CpuNode \/ GpuNode \/ GpuNodeRefused \/ GetApertures
  <2>1. pc = "sysfs" /\ pc' # "svm" /\ dgpu_aperture' = dgpu_aperture
    BY <1>1 DEF CpuNode, GpuNode, GpuNodeRefused, GetApertures, Return, svm
  <2> QED
    BY <2>1 DEF PolicyOK, IInv, ListOK
<1>2. CASE EntryUnknown \/ EntryPanics \/ EntryTaken \/ EntriesDone
  <2>1. /\ pc = "entries" /\ (pc' = "svm" => i' = 0) /\ dgpu_aperture' = dgpu_aperture
    BY <1>2 DEF EntryUnknown, EntryPanics, EntryTaken, EntriesDone, svm
  <2> QED
    BY <2>1 DEF PolicyOK, IInv, ListOK
<1>3. CASE MmapApertures
  <2>1. pc = "svm" /\ pc' \in {"policy", "reserve"} /\ i' = i /\ policies' = policies
        /\ (dgpu_aperture' => pc' = "policy" \/ dgpu_aperture)
    BY <1>3 DEF MmapApertures, kfd
  <2>2. i = 0 /\ ~dgpu_aperture
    BY <2>1 DEF IInv, PolicyOK, ListOK
  <2>3. PoliciesSet(i)'
    BY <1>b, <1>c, <2>1, <2>2 DEF PoliciesSet
  <2> QED
    BY <2>1, <2>2, <2>3 DEF PolicyOK
<1>4. CASE NoMmapApertures \/ ReserveGivesUp \/ ReserveTry \/ ReserveLeaves
  <2>1. /\ pc \in {"svm", "reserve", "reserving"} /\ pc' # "svm"
        /\ dgpu_aperture' = dgpu_aperture
    BY <1>4 DEF NoMmapApertures, ReserveGivesUp, ReserveTry, ReserveLeaves, Return, svm
  <2> QED
    BY <2>1 DEF PolicyOK, IInv, ListOK
<1>5. CASE SetPolicy
  <2>1. /\ pc = "policy" /\ pc' = "policy" /\ i' = i + 1 /\ dgpu_aperture' = dgpu_aperture
        /\ policies \subseteq policies'
        /\ IS_CANONICAL_ADDR(Entry(i).limit) => \E p \in policies' : p.gpu = Entry(i).gpu
    <3>1. pc = "policy" /\ pc' = "policy" /\ i' = i + 1 /\ dgpu_aperture' = dgpu_aperture
      BY <1>5 DEF SetPolicy, PolicyFor, svm
    <3>2. CASE IS_CANONICAL_ADDR(Entry(i).limit)
      <4>1. PICK granted \in BOOLEAN :
                policies' = policies \cup {[gpu |-> Entry(i).gpu, base |-> AddressOfRecord,
                                            granted |-> granted]}
        BY <1>5, <3>2 DEF SetPolicy, PolicyFor
      <4> DEFINE policy == [gpu |-> Entry(i).gpu, base |-> AddressOfRecord, granted |-> granted]
      <4>2. policy \in policies' /\ policy.gpu = Entry(i).gpu /\ policies \subseteq policies'
        BY <4>1
      <4> QED
        BY <3>1, <4>2
    <3>3. CASE ~IS_CANONICAL_ADDR(Entry(i).limit)
      <4>1. policies' = policies
        BY <1>5, <3>3 DEF SetPolicy, PolicyFor
      <4> QED
        BY <3>1, <3>3, <4>1
    <3> QED
      BY <3>2, <3>3
  <2>2. PoliciesSet(i)
    BY <2>1 DEF IInv, PolicyOK, ListOK
  <2>3. \A k \in 0 .. Listed - 1 : k < i + 1 => k < i \/ k = i
    BY <1>c
  <2>4. \A k \in 0 .. Listed - 1 : k < i + 1 /\ IS_CANONICAL_ADDR(Entry(k).limit) =>
            \E p \in policies' : p.gpu = Entry(k).gpu
    BY <2>1, <2>2, <2>3 DEF PoliciesSet
  <2>5. PoliciesSet(i)'
    BY <1>b, <2>1, <2>4 DEF PoliciesSet, IS_CANONICAL_ADDR
  <2> QED
    BY <2>1, <2>5 DEF PolicyOK
<1>6. CASE PoliciesDone
  <2>1. pc = "policy" /\ pc' = "handles" /\ i = Kept /\ policies' = policies
    BY <1>6 DEF PoliciesDone, kfd
  <2>2. dgpu_aperture /\ PoliciesSet(Kept) /\ Listed <= Kept /\ Kept \in Nat
    BY <1>c, <2>1, MachineOK DEF IInv, PolicyOK, ListOK, Past
  <2>3. PoliciesSet(Listed)
    BY <1>c, <2>2 DEF PoliciesSet
  <2>4. PoliciesSet(Listed)'
    BY <1>b, <2>1, <2>3 DEF PoliciesSet
  <2> QED
    BY <2>1, <2>4 DEF PolicyOK
<1>7. CASE \/ InitHandles \/ MmioUnneeded \/ MmioNull \/ MmioNoPage \/ MmioPage
           \/ AllocateBo \/ MapPage \/ MapPageFails \/ DeadObject \/ InitDone
  <2>1. /\ pc \notin {"policy", "svm"} /\ pc' \notin {"policy", "svm"}
        /\ policies' = policies /\ dgpu_aperture' = dgpu_aperture
    BY <1>7 DEF InitHandles, MmioUnneeded, MmioNull, MmioNoPage, MmioPage, AllocateBo, MapPage,
                MapPageFails, DeadObject, InitDone, Return, svm, kfd
  <2>2. dgpu_aperture => PoliciesSet(Listed)
    BY <2>1 DEF IInv, PolicyOK
  <2>3. dgpu_aperture => PoliciesSet(Listed)'
    BY <1>b, <2>1, <2>2 DEF PoliciesSet
  <2> QED
    BY <2>1, <2>3 DEF PolicyOK
<1>8. CASE UNCHANGED fmmVars
  <2>1. UNCHANGED <<pc, i, policies, dgpu_aperture>>
    BY <1>8 DEF fmmVars, svm, local, kfd
  <2>2. PoliciesSet(i)' <=> PoliciesSet(i)
    BY <1>b, <2>1 DEF PoliciesSet
  <2>3. PoliciesSet(Listed)' <=> PoliciesSet(Listed)
    BY <1>b, <2>1 DEF PoliciesSet
  <2> QED
    BY <2>1, <2>2, <2>3 DEF IInv, PolicyOK
<1> QED
  BY <1>1, <1>2, <1>3, <1>4, <1>5, <1>6, <1>7, <1>8 DEF Next

LEMMA MmioStep ==
    ASSUME IInv, [Next]_fmmVars
    PROVE  MmioOK'
<1>a. /\ i \in Nat /\ Len(gpu_mem) \in Nat
      /\ pc \in {"sysfs", "entries", "svm", "reserve", "reserving", "policy", "handles",
              "mmio", "bo", "map", "done", "stopped"}
      /\ pages \subseteq 1 .. Canonical - 1
  BY MachineOK DEF IInv, TypeOK, GpuMemOK
<1>b. MmioOK
  BY DEF IInv
<1>1. CASE \/ CpuNode \/ GpuNode \/ GpuNodeRefused \/ GetApertures \/ EntryUnknown
           \/ EntryPanics \/ EntryTaken \/ EntriesDone \/ NoMmapApertures \/ ReserveGivesUp
           \/ ReserveTry \/ ReserveLeaves
  <2>1. /\ pc \in {"sysfs", "entries", "svm", "reserve", "reserving"} /\ pc' \notin {"bo", "map"}
        /\ UNCHANGED <<pages, bos, mmio, aperture, dgpu_aperture>>
    BY <1>1 DEF CpuNode, GpuNode, GpuNodeRefused, GetApertures, EntryUnknown, EntryPanics,
                EntryTaken, EntriesDone, NoMmapApertures, ReserveGivesUp, ReserveTry,
                ReserveLeaves, Return, svm, kfd
  <2>2. pages = {} /\ bos = {} /\ mmio = {}
    BY <1>b, <2>1 DEF MmioOK
  <2> QED
    BY <2>1, <2>2 DEF MmioOK
<1>2. CASE MmapApertures
  <2>1. pc = "svm" /\ pc' \in {"policy", "reserve"} /\ UNCHANGED <<pages, bos, mmio>>
    BY <1>2 DEF MmapApertures, kfd
  <2>2. pages = {} /\ bos = {} /\ mmio = {}
    BY <1>b, <2>1 DEF MmioOK
  <2> QED
    BY <2>1, <2>2 DEF MmioOK
<1>3. CASE SetPolicy \/ PoliciesDone \/ InitHandles
  <2>1. /\ pc \in {"policy", "handles"} /\ pc' \in {"policy", "handles", "mmio"}
        /\ UNCHANGED <<pages, bos, mmio, aperture, dgpu_aperture>>
    BY <1>3 DEF SetPolicy, PolicyFor, PoliciesDone, InitHandles, svm, kfd
  <2>2. pages = {} /\ bos = {} /\ mmio = {}
    BY <1>b, <2>1 DEF MmioOK
  <2> QED
    BY <2>1, <2>2 DEF MmioOK
<1>4. CASE MmioUnneeded \/ MmioNull \/ MmioNoPage \/ InitDone
  <2>1. /\ pc = "mmio" /\ pc' \in {"mmio", "stopped", "done"}
        /\ UNCHANGED <<pages, bos, mmio, aperture, dgpu_aperture>>
    BY <1>4 DEF MmioUnneeded, MmioNull, MmioNoPage, InitDone, Return, svm, kfd
  <2>2. bos = mmio /\ pages = {m.page : m \in mmio}
    BY <1>b, <2>1 DEF MmioOK
  <2> QED
    BY <1>b, <2>1, <2>2 DEF MmioOK
<1>5. CASE MmioPage
  <2>1. PICK p \in 1 .. Canonical : FreePage(p) /\ mem' = p /\ pages' = pages \cup {p}
    BY <1>5 DEF MmioPage
  <2>2. /\ pc = "mmio" /\ pc' = "bo" /\ dgpu_aperture /\ i < Len(gpu_mem)
        /\ UNCHANGED <<bos, mmio, aperture, dgpu_aperture, i, gpu_mem>>
    BY <1>5 DEF MmioPage, svm
  <2>3. p \in aperture.base .. aperture.limit /\ p \notin pages
    BY <2>1 DEF FreePage
  <2>4. aperture.base \in Nat /\ aperture.limit \in Int
    <3>1. /\ aperture.base = AlignedBase /\ aperture.limit = AlignedLimit
          /\ svm_base \in Nat /\ svm_limit \in Nat
      BY <2>2, SizesAssumption DEF IInv, ListOK
    <3> QED
      BY <3>1, RangeInside DEF AlignedBase, AlignedLimit
  <2>5. bos = mmio /\ pages = {m.page : m \in mmio}
    BY <1>b, <2>2 DEF MmioOK
  <2>6. \A q \in pages' : 1 <= q /\ aperture.base <= q /\ q <= aperture.limit /\ q \in Nat
    <3>1. p \in Nat /\ 1 <= p /\ aperture.base <= p /\ p <= aperture.limit
      BY <2>1, <2>3, <2>4, SizesAssumption
    <3> QED
      BY <1>b, <2>1, <3>1 DEF MmioOK
  <2>7. \A m \in mmio : m.page \in aperture.base .. aperture.limit
    BY <1>b DEF MmioOK
  <2> QED
    BY <2>1, <2>2, <2>3, <2>5, <2>6, <2>7 DEF MmioOK
<1>6. CASE AllocateBo
  <2>1. /\ pc = "bo" /\ pc' = "map" /\ bos' \in {bos, bos \cup {Registers}}
        /\ UNCHANGED <<pages, mmio, aperture, dgpu_aperture, i, gpu_mem, mem>>
    BY <1>6 DEF AllocateBo, Registers, svm
  <2>2. bos = mmio
    BY <1>b, <2>1 DEF MmioOK
  <2>3. dgpu_aperture
    BY <2>1 DEF IInv, ListOK
  <2>4. Registers' = Registers
    BY <2>1 DEF Registers, This
  <2> QED
    BY <1>b, <2>1, <2>2, <2>3, <2>4 DEF MmioOK
<1>7. CASE MapPage
  <2>1. /\ pc = "map" /\ pc' = "mmio" /\ Registers \in bos /\ mmio' = mmio \cup {Registers}
        /\ UNCHANGED <<pages, bos, aperture, dgpu_aperture>>
    BY <1>7 DEF MapPage, Registers, svm
  <2>2. /\ bos = mmio \/ bos = mmio \cup {Registers}
        /\ mem \in pages /\ pages = {m.page : m \in mmio} \cup {mem}
    BY <1>b, <2>1 DEF MmioOK
  <2>3. dgpu_aperture
    BY <2>1 DEF IInv, ListOK
  <2>4. Registers.page = mem
    BY DEF Registers
  <2>5. bos' = mmio'
    BY <2>1, <2>2
  <2>6. pages' = {m.page : m \in mmio'}
    BY <2>1, <2>2, <2>4
  <2>7. \A p \in pages : p \in aperture.base .. aperture.limit
    <3>1. aperture.base \in Nat /\ aperture.limit \in Int
      <4>1. /\ aperture.base = AlignedBase /\ aperture.limit = AlignedLimit
            /\ svm_base \in Nat /\ svm_limit \in Nat
        BY <2>3, SizesAssumption DEF IInv, ListOK
      <4> QED
        BY <4>1, RangeInside DEF AlignedBase, AlignedLimit
    <3> QED
      BY <1>b, <3>1 DEF MmioOK
  <2>8. \A m \in mmio' : m.page \in aperture.base .. aperture.limit
    BY <1>b, <2>1, <2>2, <2>4, <2>7 DEF MmioOK
  <2>9. \A p \in pages : 1 <= p /\ aperture.base <= p /\ p <= aperture.limit /\ p \in Nat
    BY <1>b DEF MmioOK
  <2> QED
    BY <2>1, <2>3, <2>5, <2>6, <2>8, <2>9 DEF MmioOK
<1>8. CASE MapPageFails
  <2>1. /\ pc = "map" /\ pc' = "stopped" /\ pages' \subseteq pages
        /\ UNCHANGED <<mmio, aperture, dgpu_aperture>>
    BY <1>8 DEF MapPageFails, svm
  <2>2. dgpu_aperture
    BY <2>1 DEF IInv, ListOK
  <2> QED
    BY <1>b, <2>1, <2>2 DEF MmioOK
<1>9. CASE DeadObject
  <2>1. /\ pc = "map" /\ pc' = "stopped" /\ UNCHANGED <<pages, mmio, aperture, dgpu_aperture>>
    BY <1>9 DEF DeadObject, svm, kfd
  <2>2. dgpu_aperture
    BY <2>1 DEF IInv, ListOK
  <2> QED
    BY <1>b, <2>1, <2>2 DEF MmioOK
<1>10. CASE UNCHANGED fmmVars
  <2>1. UNCHANGED <<pc, i, mem, gpu_mem, pages, bos, mmio, aperture, dgpu_aperture>>
    BY <1>10 DEF fmmVars, svm, local, kfd
  <2> QED
    BY <1>b, <2>1 DEF MmioOK, Registers, This
<1> QED
  BY <1>1, <1>2, <1>3, <1>4, <1>5, <1>6, <1>7, <1>8, <1>9, <1>10 DEF Next

LEMMA InitIInv ==
    ASSUME Init
    PROVE  IInv
<1>1. /\ machine \in Machines /\ reserve_svm \in BOOLEAN /\ gpu_mem = <<>> /\ is_dgpu = FALSE
      /\ svm_base = 0 /\ svm_limit = 0 /\ dgpu_aperture = FALSE /\ pc = "sysfs" /\ i = 0
      /\ status = "none" /\ pages = {} /\ bos = {} /\ mmio = {}
  BY DEF Init
<1>2. /\ NumNodes \in Nat /\ machine.sysfs \in Nat /\ Len(gpu_mem) = 0 /\ DOMAIN gpu_mem = {}
  BY <1>1, MachineOK
<1>3. gpu_mem \in Seq([gpu_id : Nat \ {0}, node_id : Nat, fd : Nat, vega10 : BOOLEAN, lds : Nat])
  BY <1>1
<1>4. TypeOK
  <2>1. \A k \in DOMAIN gpu_mem : /\ gpu_mem[k].node_id \in 0 .. NumNodes - 1
                                  /\ gpu_mem[k].gpu_id = Node(gpu_mem[k].node_id).gpu
    BY <1>2
  <2>2. 0 \in 0 .. machine.sysfs /\ 0 \in 0 .. Canonical - 1
    BY <1>2, SizesAssumption
  <2>3. machine \in Machines /\ reserve_svm \in BOOLEAN /\ is_dgpu \in BOOLEAN
    BY <1>1
  <2>4. Len(gpu_mem) <= NumNodes /\ svm_base \in Nat /\ svm_limit \in 0 .. Canonical - 1
    BY <1>1, <1>2, <2>2
  <2>5. i \in 0 .. machine.sysfs /\ pages \subseteq 1 .. Canonical - 1
    BY <1>1, <2>2
  <2>6. /\ pc \in {"sysfs", "entries", "svm", "reserve", "reserving", "policy", "handles",
                   "mmio", "bo", "map", "done", "stopped"}
        /\ status \in {"none", "SUCCESS", "ERROR"} /\ (status # "none" <=> pc = "done")
        /\ pc \notin {"bo", "map"}
    BY <1>1
  <2> QED
    BY <2>1, <2>3, <2>4, <2>5, <2>6 DEF TypeOK
<1>5. GpuMemOK
  BY <1>1, <1>2, <1>3 DEF GpuMemOK
<1>6. ~Past
  BY <1>1 DEF Past
<1>7. ListOK
  BY <1>1, <1>6, SizesAssumption DEF ListOK
<1> QED
  BY <1>1, <1>4, <1>5, <1>7 DEF IInv, PolicyOK, MmioOK

LEMMA NextIInv ==
    ASSUME IInv, [Next]_fmmVars
    PROVE  IInv'
  BY GpuMemStep, ListStep, PolicyStep, MmioStep, TypeStep DEF IInv

LEMMA Inductive == Spec => []IInv
<1>1. Init => IInv
  BY InitIInv
<1>2. IInv /\ [Next]_fmmVars => IInv'
  BY NextIInv
<1> QED
  BY <1>1, <1>2, PTL DEF Spec

-----------------------------------------------------------------------------
(* Theorems *)

\* The counters of the three loops stay in their lists, the table of GPUs in the
\* snapshot, and only canonical pages are reserved.
THEOREM FmmTypes == Spec => []TypeOK
<1>1. IInv => TypeOK
  BY DEF IInv
<1> QED
  BY <1>1, Inductive, PTL

\* Whatever the order of the kernel's list, and whichever GPUs it lists beyond
\* the snapshot's, an entry reaches the record of its own GPU, and no later entry
\* overwrites it.
THEOREM EntriesMatched == Spec => []EntriesMatch
<1>1. IInv => EntriesMatch
  <2> SUFFICES ASSUME IInv, pc \notin {"sysfs", "entries", "stopped"}, status # "ERROR",
                      NEW k \in Known
               PROVE  /\ \A p \in Places(Entry(k).gpu) : gpu_mem[p].lds = Entry(k).lds
                      /\ \E v \in vms : v.gpu = Entry(k).gpu /\ v.fd = v.gpu
    BY DEF EntriesMatch
  <2>1. Past /\ Listed \in Nat
    BY MachineOK DEF Past, IInv, TypeOK
  <2>2. Treated(Listed)
    BY <2>1 DEF IInv, ListOK
  <2>3. k < Listed
    BY <2>1 DEF Known
  <2> QED
    BY <2>2, <2>3 DEF Treated
<1> QED
  BY <1>1, Inductive, PTL

\* What is known of an aperture in use.
LEMMA ApertureInUse ==
    ASSUME IInv, dgpu_aperture
    PROVE  /\ svm_base \in Nat /\ svm_limit \in Nat /\ 0 < svm_limit
           /\ aperture.base = AlignDown(svm_base + HugePage - 1)
           /\ aperture.limit = AlignDown(svm_limit + 1) - 1
           /\ \A k \in Known : /\ Entry(k).base \in Nat /\ Entry(k).base <= svm_base
                               /\ Entry(k).limit \in Nat /\ svm_limit <= Entry(k).limit
                               /\ Entry(k).limit < Canonical
           /\ svm_base = 0 \/ \E k \in Known : svm_base = Entry(k).base
           /\ \E k \in Known : svm_limit = Entry(k).limit
           /\ Treated(Listed)
<1>1. Past /\ machine \in Machines
  BY DEF Past, IInv, TypeOK
<1>2. /\ svm_base \in Nat /\ svm_limit \in Nat /\ 0 < svm_limit
      /\ aperture.base = AlignedBase /\ aperture.limit = AlignedLimit
      /\ Treated(Listed) /\ SvmExact(Listed)
  BY <1>1, SizesAssumption DEF IInv, ListOK
<1>3. \A k \in Known : k < Listed /\ k \in 0 .. Listed - 1
  BY <1>1, MachineOK DEF Known
<1>4. \A k \in 0 .. Listed - 1 : Entry(k) \in [gpu : Nat \ {0}, lds : Nat, base : Nat, limit : Nat]
  BY <1>1, MachineOK
<1>5. \A k \in Known : /\ Entry(k).base <= svm_base /\ svm_limit <= Entry(k).limit
                       /\ Entry(k).limit < Canonical
  BY <1>2, <1>3 DEF SvmExact
<1>6. \A k \in Known : Entry(k).base \in Nat /\ Entry(k).limit \in Nat
  BY <1>3, <1>4
<1>7. /\ svm_base = 0 \/ \E k \in Known : svm_base = Entry(k).base
      /\ \E k \in Known : svm_limit = Entry(k).limit
  BY <1>2 DEF SvmExact
<1> QED
  BY <1>2, <1>5, <1>6, <1>7 DEF AlignedBase, AlignedLimit

\* An aperture in use is exactly the set of pages whose huge page every listed
\* GPU reaches: neither the order of the list nor the rounding loses or adds one.
THEOREM SvmStaysCommon == Spec => []SvmIsCommon
<1>1. IInv => SvmIsCommon
  <2> SUFFICES ASSUME IInv, dgpu_aperture, NEW p \in 0 .. Canonical - 1
               PROVE  p \in aperture.base .. aperture.limit <=>
                          \A k \in Known : /\ Entry(k).base <= AlignDown(p)
                                           /\ AlignDown(p) + HugePage - 1 <= Entry(k).limit
    BY DEF SvmIsCommon
  <2>1. p \in Nat /\ HugePage \in Nat
    BY SizesAssumption
  <2>2. PICK n \in Nat : AlignDown(p) = HugePage * n
    BY <2>1, AlignDownIs
  <2>3. AlignDown(p) \in Nat
    BY <2>1, <2>2
  <2>4. /\ AlignDown(svm_base + HugePage - 1) \in Nat /\ AlignDown(svm_limit + 1) - 1 \in Int
        /\ AlignDown(svm_base + HugePage - 1) <= p <=> svm_base <= AlignDown(p)
        /\ p <= AlignDown(svm_limit + 1) - 1 <=> AlignDown(p) + HugePage - 1 <= svm_limit
    BY <2>1, ApertureInUse, RoundedRange, RangeInside
  <2>5. p \in aperture.base .. aperture.limit <=>
            svm_base <= AlignDown(p) /\ AlignDown(p) + HugePage - 1 <= svm_limit
    BY <2>1, <2>4, ApertureInUse
  <2>6. svm_base <= AlignDown(p) <=> \A k \in Known : Entry(k).base <= AlignDown(p)
    BY <2>3, ApertureInUse
  <2>7. AlignDown(p) + HugePage - 1 <= svm_limit <=>
            \A k \in Known : AlignDown(p) + HugePage - 1 <= Entry(k).limit
    BY <2>1, <2>3, ApertureInUse
  <2> QED
    BY <2>5, <2>6, <2>7
<1> QED
  BY <1>1, Inductive, PTL

\* Registers are mapped for GPUs only whose VM was asked for and whose policy was
\* set, at a page that they reach.
THEOREM MmioStaysPrepared == Spec => []MmioIsPrepared
<1>1. IInv => MmioIsPrepared
  <2> SUFFICES ASSUME IInv, NEW m \in mmio, NEW k \in Known, Entry(k).gpu = m.gpu
               PROVE  /\ m.page \in Entry(k).base .. Entry(k).limit
                      /\ \E v \in vms : v.gpu = m.gpu
                      /\ \E p \in policies : p.gpu = m.gpu
    BY DEF MmioIsPrepared
  <2>1. dgpu_aperture /\ pc # "policy" /\ m.page \in aperture.base .. aperture.limit
    BY DEF IInv, MmioOK
  <2>2. m.page \in Entry(k).base .. Entry(k).limit
    <3>1. /\ AlignDown(svm_base + HugePage - 1) \in Nat /\ svm_base <= AlignDown(svm_base + HugePage - 1)
          /\ AlignDown(svm_limit + 1) - 1 \in Int /\ AlignDown(svm_limit + 1) - 1 <= svm_limit
      BY <2>1, ApertureInUse, RangeInside
    <3> QED
      BY <2>1, <3>1, ApertureInUse
  <2>3. k \in 0 .. Listed - 1 /\ k < Listed
    BY MachineOK DEF IInv, TypeOK, Known
  <2>4. \E v \in vms : v.gpu = Entry(k).gpu
    BY <2>1, <2>3, ApertureInUse DEF Treated
  <2>5. PoliciesSet(Listed)
    BY <2>1 DEF IInv, PolicyOK
  <2>6. \E p \in policies : p.gpu = Entry(k).gpu
    BY <2>1, <2>3, <2>5, ApertureInUse DEF PoliciesSet, IS_CANONICAL_ADDR
  <2> QED
    BY <2>2, <2>4, <2>6
<1> QED
  BY <1>1, Inductive, PTL

\* A call that returns leaves no page reserved and no buffer allocated that is
\* not mapped.
THEOREM NothingIsLeaked == Spec => []NothingLeaks
<1>1. IInv => NothingLeaks
  BY DEF IInv, MmioOK, NothingLeaks
<1> QED
  BY <1>1, Inductive, PTL

=============================================================================
