-------------------------------- MODULE MCDisk --------------------------------
(* A small instance of Disk for TLC: two clients, half-GiB units. *)
EXTENDS Disk, TLC

CONSTANTS c1, c2

TwoCallers == {c1, c2}
OneOrTwoGB == {1, 2}
OddBases == {2, 3}

DiskSymmetry == Permutations(Callers)
===============================================================================
