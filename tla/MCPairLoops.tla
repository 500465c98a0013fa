---------------------------- MODULE MCPairLoops ----------------------------
EXTENDS PairLoops

CONSTANTS x, y

(* No line to three, with and without the last newline.                    *)
Some ==
  {Empty, Written(<<x>>), [lines |-> <<x, y>>, ended |-> FALSE], Written(<<x, y, y>>)}

=============================================================================
