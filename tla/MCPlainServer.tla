--------------------------- MODULE MCPlainServer ---------------------------
(* Small instances of PlainServer for TLC. *)
EXTENDS PlainServer, TLC

Symmetry == Permutations(Conn)
=============================================================================
