------------------------------ MODULE MCFmmInit -----------------------------
(* A CPU and two GPUs, which the kernel lists in either order, in part, or with *)
(* a third one that the snapshot does not have; an APU alone; a GPU whose id is *)
(* a number of a node.  The first 16 pages are the canonical ones.              *)
EXTENDS FmmInit

Cpu == [gpu |-> 0, discrete |-> FALSE, vega10 |-> FALSE, links |-> 1]
Gpu(id, discrete, vega10) ==
    [gpu |-> id, discrete |-> discrete, vega10 |-> vega10, links |-> 1]

Snapshot(a, b) == <<Cpu, a, b>>
Apu(id)        == <<Gpu(id, FALSE, TRUE)>>

Lists(id, base, limit) == [gpu |-> id, lds |-> id, base |-> base, limit |-> limit]

Bases  == {1, 5}
Limits == {8, 15}
Both   == {<<Lists(7, b, 15), Lists(6, c, l)>> : b, c \in Bases, l \in Limits}
            \cup {<<Lists(6, b, l), Lists(7, c, 15)>> : b, c \in Bases, l \in Limits}

TwoGpus(nodes, kernel) == [nodes |-> nodes, sysfs |-> 3, kernel |-> kernel]

Discretes == {TwoGpus(Snapshot(Gpu(6, TRUE, TRUE), Gpu(7, TRUE, TRUE)), list) : list \in Both}
Mixed     == {TwoGpus(Snapshot(Gpu(6, FALSE, TRUE), Gpu(7, FALSE, FALSE)), list) : list \in
                {<<>>, <<Lists(7, 0, 15)>>, <<Lists(9, 1, 31), Lists(6, 1, 15)>>,
                 <<Lists(6, 5, 15)>>, <<Lists(6, 5, 31)>>, <<Lists(7, 5, 7), Lists(6, 1, 4)>>}}
Odd       == {TwoGpus(Snapshot(Gpu(2, TRUE, TRUE), Gpu(7, TRUE, TRUE)), <<Lists(7, 1, 15)>>),
              [nodes |-> Apu(6), sysfs |-> 1, kernel |-> <<Lists(6, 1, 15)>>],
              [nodes |-> Apu(6), sysfs |-> 2, kernel |-> <<Lists(6, 1, 9)>>]}

SomeMachines == Discretes \cup Mixed \cup Odd

=============================================================================
