----------------------------- MODULE MCMemHandle ----------------------------
(* Four holes of four addresses; apertures of one address, inside a hole, on *)
(* its border, across two holes, and outside all of them.                    *)
EXTENDS MemHandleAperture

R(b, l) == [base |-> b, limit |-> l]
SomeRanges == {R(0, 0), R(5, 6), R(8, 8), R(11, 13), R(15, 17), R(1, 14)}

=============================================================================
