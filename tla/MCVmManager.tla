---------------------------- MODULE MCVmManager ----------------------------
(* Small instances of VmManager for TLC. *)
EXTENDS VmManager, TLC

CONSTANTS v1, v2, c1, c2

TwoVMs == {v1, v2}
OneVM == {v1}
TwoCallers == {c1, c2}

SafetySymmetry == Permutations(VMs) \cup Permutations(Callers)
=============================================================================
