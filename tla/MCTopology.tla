----------------------------- MODULE MCTopology -----------------------------
(* A CPU with one or two GPUs, of which either can be removed; the numbers of  *)
(* the nodes close up, as the kernel's do.  The CPU has a link to GPU 2 only:  *)
(* the other has no memory that a CPU can reach.  Two GPUs share a hive; the   *)
(* links of a GPU that is alone weigh more.                                    *)
EXTENDS Topology

Cpu(links)          == [gpu |-> 0, hive |-> 0, public |-> TRUE, io |-> links, p2p |-> <<>>]
Gpu(id, links, p2p) ==
    [gpu |-> id, hive |-> Len(p2p), public |-> id = 2, io |-> links, p2p |-> p2p]

Pci(to, weight) == [type |-> "pcie", to |-> to, weight |-> weight]
Xgmi(to)        == [type |-> "xgmi", to |-> to, weight |-> 15]

Both == [n \in 0..2 |->
            CASE n = 0 -> Cpu(<<Pci(2, 20)>>)
              [] n = 1 -> Gpu(1, <<Pci(0, 20)>>, <<Xgmi(2)>>)
              [] n = 2 -> Gpu(2, <<Pci(0, 20)>>, <<Xgmi(1)>>)]

Only(id) == [n \in 0..1 |->
                IF n = 0 THEN Cpu(IF id = 2 THEN <<Pci(1, 40)>> ELSE <<>>)
                ELSE Gpu(id, <<Pci(0, 40)>>, <<>>)]

Machines == {Both, Only(1), Only(2)}

=============================================================================
