----------------------------- MODULE GfxVersion -----------------------------
(***************************************************************************)
(* The engine version of a GPU: how topology_sysfs_get_node_props makes it *)
(* of the number the kernel reports or of the table of devices, and what   *)
(* is decided by it (topology.rs, hsakmttypes.rs, queues.rs, fmm.rs).      *)
(*                                                                         *)
(* The kernel reports version 9.4.2 as 90402; full versions, which are     *)
(* compared, have a byte for each part.                                    *)
(***************************************************************************)
EXTENDS Integers

CONSTANT Gfxip  \* hsa_gfxip_table: the versions of the device ids in it

Version == [major : 0..63, minor : 0..99, stepping : 0..99]

ASSUME GfxipAssumption ==
    \A d \in DOMAIN Gfxip : Gfxip[d] \in Version /\ Gfxip[d].major <= 10

\* gfx_target_version
Target(v) == v.major * 10000 + v.minor * 100 + v.stepping

\* Arguments are cast: `as u16', `as u8'.
U16(n) == n % 65536
U8(n)  == n % 256

\* Faulty: the argument is cast as it is for the other two.
MAJOR_OF_U16(gfxv) == (U16(gfxv) \div 10000) % 100

HSA_GET_GFX_VERSION_MAJOR(gfxv) == (gfxv \div 10000) % 100
HSA_GET_GFX_VERSION_MINOR(gfxv) == (U16(gfxv) \div 100) % 100
HSA_GET_GFX_VERSION_STEP(gfxv)  == (U16(gfxv) \div 100) % 100

\* find_hsa_gfxip_device finds the device.
find_hsa_gfxip_device(device, gfxv) ==
    device \in DOMAIN Gfxip /\ U8(HSA_GET_GFX_VERSION_MAJOR(gfxv)) <= 10

EngineId(device, gfxv) ==
    IF find_hsa_gfxip_device(device, gfxv)
    THEN Gfxip[device]
    ELSE [major    |-> HSA_GET_GFX_VERSION_MAJOR(gfxv) % 64,
          minor    |-> HSA_GET_GFX_VERSION_MINOR(gfxv) % 256,
          stepping |-> HSA_GET_GFX_VERSION_STEP(gfxv) % 256]

HSA_GET_GFX_VERSION_FULL(v) == v.major * 65536 + v.minor * 256 + v.stepping

Full(major, minor, stepping) == major * 65536 + minor * 256 + stepping

GFX_VERSION_VEGA10 == Full(9, 0, 0)

hsakmt_get_vgpr_size_per_cu(gfxv) ==
    IF gfxv \div 256 = Full(9, 4, 0) \div 256 \/ gfxv \in {Full(9, 0, 10), Full(9, 0, 8)}
    THEN 524288
    ELSE IF gfxv \in {Full(11, 0, 0), Full(11, 0, 1), Full(12, 0, 0), Full(12, 0, 1)}
    THEN 393216
    ELSE 262144

\* hsakmt_topology_is_svm_needed, of a GPU that is not discrete.
SvmNeeded(v) == HSA_GET_GFX_VERSION_FULL(v) >= GFX_VERSION_VEGA10

=============================================================================
