---------------------------- MODULE MCFileStore ----------------------------
(* Files of one line and of three, with and without the last newline.      *)
EXTENDS FileStore, TLC

CONSTANTS a, k, x, y, z

Hashes == a :> k
Three == {Written(<<x>>), Written(<<x, y, y>>), [lines |-> <<y, y, x>>, ended |-> FALSE]}
Clients == Permutations(Handlers)

=============================================================================
