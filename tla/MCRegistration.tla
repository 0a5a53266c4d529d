---------------------------- MODULE MCRegistration ----------------------------
(* Nicknames in two spellings of one name and one other name.              *)
EXTENDS Registration, TLC

CONSTANTS bob, BOB, amy

MCLower == (bob :> bob) @@ (BOB :> bob) @@ (amy :> amy)

Symmetry == Permutations(Client)
=============================================================================
