----------------------------- MODULE MCAccounts -----------------------------
(* A small instance of Accounts: two words, a text of both and an empty one. *)
EXTENDS Accounts, TLC

CONSTANTS alice, bob, both, empty

MCText == {alice, bob, both, empty}

MCWords == (alice :> <<alice>>) @@ (bob :> <<bob>>)
             @@ (both :> <<alice, bob>>) @@ (empty :> <<>>)

Symmetry == Permutations(Session)
=============================================================================
