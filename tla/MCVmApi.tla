------------------------------- MODULE MCVmApi -------------------------------
(* Small instances of VmApi for TLC. *)
EXTENDS VmApi, TLC

CONSTANTS v1, v2, c1, c2, c3, n1, n2

TwoVMs == {v1, v2}
OneVM == {v1}
OneCaller == {c1}
TwoCallers == {c1, c2}
ThreeCallers == {c1, c2, c3}
OneName == {n1}

AllButStopped == HandlerStatements \ {"stopped"}
NoStatement == {}
TwoNames == {n1, n2}

CreateStartStop == {"create", "start", "stop"}

ApiSymmetry == Permutations(VMs) \cup Permutations(Callers) \cup Permutations(Names)
=============================================================================
