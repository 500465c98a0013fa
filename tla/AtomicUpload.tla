---------------------------- MODULE AtomicUpload ----------------------------
(***************************************************************************)
(* What an upload is to everyone but its two sides: the stored file is     *)
(* replaced in one step, by all of the client's file unless something goes *)
(* wrong, and the client is told of it afterwards if at all.               *)
(***************************************************************************)
EXTENDS Integers

CONSTANT Sizes

VARIABLES
  size,       \* length of the client's file
  answer,     \* what Upload has returned, or "none"
  replaced,   \* the stored file is the client's
  kept,       \* how much of it is stored
  harm        \* the worst that has gone wrong: "none", "short", "garbled"

vars == <<size, answer, replaced, kept, harm>>

Init ==
  /\ size \in Sizes
  /\ answer = "none"
  /\ replaced = FALSE /\ kept = 0
  /\ harm = "none"

(* A loss may shorten what is stored; a header in pieces, on top of that,  *)
(* may be stored itself.                                                   *)
Worse ==
  \/ harm' = harm
  \/ harm = "none" /\ harm' \in {"short", "garbled"}
  \/ harm = "short" /\ harm' = "garbled"

Harm == Worse /\ UNCHANGED <<size, answer, replaced, kept>>

Replace ==
  /\ ~replaced /\ replaced' = TRUE
  /\ Worse
  /\ kept' \in Nat
  /\ harm' = "none" => kept' = size
  /\ harm' = "short" => kept' <= size
  /\ UNCHANGED <<size, answer>>

Succeed ==
  /\ answer = "none" /\ answer' = "true"
  /\ replaced /\ kept = size
  /\ UNCHANGED <<size, replaced, kept, harm>>

(* Also of an upload that succeeds, and before the file is replaced.       *)
Fail ==
  /\ answer = "none" /\ answer' = "false"
  /\ Worse
  /\ UNCHANGED <<size, replaced, kept>>

Next == Harm \/ Replace \/ Succeed \/ Fail

Spec == Init /\ [][Next]_vars

=============================================================================
