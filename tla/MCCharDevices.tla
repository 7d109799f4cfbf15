--------------------------- MODULE MCCharDevices ---------------------------
(* Small instances of CharDevices for TLC. *)
EXTENDS CharDevices, TLC

Symmetry == Permutations(File)
=============================================================================
