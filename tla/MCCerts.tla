------------------------------ MODULE MCCerts ------------------------------
(* Small instances of Certs for TLC. *)
EXTENDS Certs, TLC

CONSTANTS v1, c1, c2

OneVM == {v1}
TwoCallers == {c1, c2}
NoFault == {}
=============================================================================
