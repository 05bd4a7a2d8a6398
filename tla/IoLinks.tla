------------------------------ MODULE IoLinks -------------------------------
(***************************************************************************)
(* The indirect links of a snapshot (topology.rs): GPU<->GPU and GPU<->CPU *)
(* connections through the CPU that a GPU hangs on.  Pure operators over   *)
(* the properties of the nodes of a snapshot, a function from 0 .. n-1 to  *)
(* records with at least the fields                                        *)
(*   gpu (the GPU id, 0 for a CPU), hive, public (a bank of memory the CPU *)
(*   can reach), NumIOLinks and link, a sequence of [type, to, weight].    *)
(***************************************************************************)
EXTENDS Integers, Sequences

CONSTANT Modulus    \* how many unsigned numbers there are; 2 ^ 32 in the code

ASSUME ModulusAssumption == Modulus \in Nat \ {0}

\* `!' of Rust is the complement of every bit.
BitNot(id) == Modulus - 1 - id

\* Faulty: a signed difference.
SignedMinus(a, b) == a - b

\* Differences of unsigned numbers wrap in a build without overflow checks.
Minus(a, b) == (a - b) % Modulus

First(S) == CHOOSE k \in S : \A j \in S : k <= j

\* gpu_get_direct_link_cpu.  Its test reads "!id > 0", so that only the id with
\* all bits set would pass it.
DirectCpu(n, props) ==
    LET near == {k \in DOMAIN props[n].link :
                    props[n].link[k].type = "pcie" /\ props[n].link[k].weight <= 20}
    IN  IF \/ BitNot(props[n].gpu) > 0
           \/ props[n].NumIOLinks = 0
           \/ near = {}
        THEN -1 ELSE props[n].link[First(near)].to

\* get_direct_iolink_info: the first link from a to b, or none.
Direct(a, b, props) ==
    LET hits == {k \in DOMAIN props[a].link : props[a].link[k].to = b}
    IN  IF hits = {} THEN {} ELSE {props[a].link[First(hits)]}

\* The nodes on the way from a to b, by the CPUs c and d that they hang on.
Way(a, b, c, d) ==
    CASE c >= 0 /\ d = c           -> <<a, c, b>>
      [] c >= 0 /\ d >= 0 /\ d # c -> <<a, c, d, b>>
      [] c >= 0 /\ d < 0           -> <<a, c, b>>
      [] OTHER                     -> <<a, d, b>>

\* get_indirect_iolink_info.  A weight is copied from a link only into a variable
\* that is not 0, and all of them start at 0: what it returns is 0 for every
\* pair, whether there is a way between the two or not.
CopiedWeight(link, old) == IF old > 0 THEN link.weight ELSE old

IndirectWeight(a, b, props) ==
    LET c   == IF props[a].gpu > 0 THEN DirectCpu(a, props) ELSE -1
        d   == IF props[b].gpu > 0 THEN DirectCpu(b, props) ELSE -1
        way == Way(a, b, c, d)
        leg == [k \in 1 .. Len(way) - 1 |-> Direct(way[k], way[k + 1], props)]
        sum[k \in 0 .. Len(way) - 1] ==
            IF k = 0 THEN 0
            ELSE sum[k - 1] + CopiedWeight(CHOOSE l \in leg[k] : TRUE, 0)
    IN  IF \/ a = b
           \/ props[a].gpu = 0 /\ props[b].gpu = 0
           \/ props[a].hive > 0 /\ props[a].hive = props[b].hive
           \/ c < 0 /\ d < 0
           \/ props[b].gpu > 0 /\ ~props[b].public
           \/ \E k \in DOMAIN leg : leg[k] = {}
           \/ /\ c >= 0 /\ d >= 0 /\ c # d
              /\ \E l \in leg[2] : l.type = "qpi" /\ CopiedWeight(l, 0) > 20
        THEN 0 ELSE sum[Len(way) - 1]

\* topology_add_io_link_for_node writes the entry after the last of a vector, so
\* it panics unless topology_get_free_io_link_slot_for_node refuses the slot.
SlotPanics(a, props, n) ==
    props[a].link # <<>> /\ props[a].NumIOLinks < n - 1

\* topology_create_indirect_gpu_links panics where it has a link to add; it adds
\* none otherwise.
CreateIndirectPanics(props, n) ==
    \E a, b \in 0 .. n - 1 : IndirectWeight(a, b, props) # 0 /\ SlotPanics(a, props, n)

=============================================================================
