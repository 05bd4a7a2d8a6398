---------------------------- MODULE MCNodeProps -----------------------------
(* CPU nodes with two to five processors, whose caches are shared in the ways *)
(* that sysfs can show; a node with caches of its own; GPUs of every family,  *)
(* in the table of devices and not.                                           *)
EXTENDS NodeProps

V(major, minor, stepping) == [major |-> major, minor |-> minor, stepping |-> stepping]

Old   == {V(7, 0, 0), V(8, 0, 3), V(9, 0, 0), V(9, 0, 8), V(9, 0, 10), V(10, 3, 5)}
New   == {V(9, 4, 2), V(9, 4, 3), V(11, 0, 0), V(11, 0, 1), V(11, 5, 1), V(12, 0, 0), V(12, 0, 1)}
Id(v) == HSA_GET_GFX_VERSION_FULL(v)
Table == [d \in {Id(v) : v \in Old} |-> CHOOSE v \in Old : Id(v) = d]

Cpu(cpus, here, shared, caches, stay) ==
    [gpu |-> 0, device |-> 0, simds |-> 0, version |-> V(0, 0, 0), gfxv |-> 0,
     banks |-> 1, caches |-> caches, cpus |-> cpus, here |-> here, shared |-> shared,
     stay |-> stay]
Gpu(v, gfxv) ==
    [gpu |-> 1, device |-> Id(v), simds |-> 1, version |-> v, gfxv |-> gfxv,
     banks |-> 1, caches |-> 2, cpus |-> {0, 1}, here |-> {}, shared |-> <<>>, stay |-> FALSE]

\* n, n1-n2, n1,n2, more than two elements, and a range before a comma.
Sharings == {<<{0}, {1}, {0, 1}>>, <<{0, 2}, {1, 3}, {0, 1, 2, 3}>>,
             <<{0, 1, 3, 4}, {0}, {3, 4}>>, <<{0, 2, 4}, {1, 3}>>}

SomeMachines ==
    {Cpu(UNION {s[k] : k \in DOMAIN s}, UNION {s[k] : k \in DOMAIN s}, s, 0, stay) : s \in Sharings, stay \in BOOLEAN}
        \cup {Cpu({0, 2, 3}, {0, 2, 3}, <<{0}, {2, 3}>>, 0, FALSE),
              Cpu({0, 1, 2, 3}, {2, 3}, <<{2, 3}, {2}, {3}>>, 0, TRUE),
              Cpu({0, 1}, {0, 1}, <<{0, 1}>>, 2, TRUE)}
        \cup {Gpu(v, Target(v)) : v \in Old \cup New} \cup {Gpu(v, 0) : v \in Old}

=============================================================================
