---------------------------- MODULE MCRepository ----------------------------
(* Three names, two of which have one key.                                 *)
EXTENDS Repository, TLC

CONSTANTS a, b, c, k1, k2

Hashes == (a :> k1) @@ (b :> k1) @@ (c :> k2)
Connections == Permutations(Handlers)
=============================================================================
