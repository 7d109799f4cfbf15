--------------------------- MODULE MCChatServer ---------------------------
(* Small instances of ChatServer for TLC. *)
EXTENDS ChatServer, TLC

\* The connections are interchangeable in every safety property.
Symmetry == Permutations(Conn)
===========================================================================
