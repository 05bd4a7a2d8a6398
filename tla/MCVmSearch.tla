----------------------------- MODULE MCVmSearch -----------------------------
(* Objects of two cells at three addresses, and one that covers them all.    *)
EXTENDS VmSearch

Objects == [addr : {1, 3, 5}, size : {2}] \cup {[addr |-> 1, size |-> 6]}

=============================================================================
