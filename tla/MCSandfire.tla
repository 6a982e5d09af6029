------------------------------ MODULE MCSandfire ------------------------------
(* Small instances of Sandfire for TLC. *)
EXTENDS Sandfire, TLC

CONSTANTS v1, v2, c1, c2, m, n1

TwoVMs == {v1, v2}
OneVM == {v1}
OneClient == {m, c1}
TwoClients == {m, c1, c2}
OneName == {n1}

AllStatements == HandlerStatements \cup LifeStatements
BootSucceeds == AllStatements \ {"prepare", "load", "restored"}
ShutdownSucceeds == AllStatements \ {"list", "clear"}
NoStatement == {}

AllButInspection == Kinds \ {"inspect", "resize"}
CreateStartStop == {"create", "start", "stop"}

LifeSymmetry == Permutations(VMs) \cup Permutations(Callers \ {m})
=============================================================================
